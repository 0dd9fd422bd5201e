----------------------------- MODULE KernelView -----------------------------
(***************************************************************************)
(* What user space sees of the XDP program: two counters that grow by one  *)
(* and a ring buffer of drop events.  Each drop is counted first and       *)
(* reported afterwards, once and with its own source; meanwhile other      *)
(* drops may be counted and reported, so that events come in any order.    *)
(* A report that finds the ring full is lost.                              *)
(*                                                                         *)
(* Module XdpFirewall implements it, with any number of CPUs; the metrics  *)
(* of module MetricsPipeline rely on it and on nothing else.               *)
(***************************************************************************)
EXTENDS Integers, Sequences

CONSTANTS
    Sources,        \* addresses of packets
    RingSize        \* records the ring buffer holds

VARIABLES
    passed,         \* packets counted as passed
    dropped,        \* packets counted as dropped
    emitting,       \* source -> drops counted and not yet reported
    ring            \* sources of the drops reported, oldest first

vars == <<passed, dropped, emitting, ring>>

Init ==
    /\ passed = 0
    /\ dropped = 0
    /\ emitting = [a \in Sources |-> 0]
    /\ ring = <<>>

Pass ==
    /\ passed' = passed + 1
    /\ UNCHANGED <<dropped, emitting, ring>>

Drop(a) ==
    /\ dropped' = dropped + 1
    /\ emitting' = [emitting EXCEPT ![a] = @ + 1]
    /\ UNCHANGED <<passed, ring>>

RingHasRoom == Len(ring) < RingSize

Emit(a) ==
    /\ emitting[a] > 0
    /\ emitting' = [emitting EXCEPT ![a] = @ - 1]
    /\ ring' = IF RingHasRoom THEN Append(ring, a) ELSE ring
    /\ UNCHANGED <<passed, dropped>>

\* User space takes a record.
Take ==
    /\ ring # <<>>
    /\ ring' = Tail(ring)
    /\ UNCHANGED <<passed, dropped, emitting>>

Next ==
    \/ Pass
    \/ \E a \in Sources : Drop(a) \/ Emit(a)
    \/ Take

Spec == Init /\ [][Next]_vars
=============================================================================
