---------------------------- MODULE FixedWindow -----------------------------
(***************************************************************************)
(* What a per-source rate limiter with fixed windows promises, without the *)
(* maps, the steps and the pointers of the program: each packet is decided *)
(* at once, by an entry that says when the source's window started and how *)
(* many of its packets came since.  Module RateWindow implements it.       *)
(***************************************************************************)
EXTENDS Integers, Sequences

CONSTANTS
    Sources,        \* addresses packets come from
    Threshold,      \* packets of a source let through in a window
    Window          \* length of a window

VARIABLES
    now,            \* the time
    entry,          \* source -> [start, count]
    passes          \* source -> times of the packets let through

vars == <<now, entry, passes>>

\* Nothing is known of a source.
NoEntry == [start |-> 0, count |-> 0]

Init ==
    /\ now = 0
    /\ entry = [a \in Sources |-> NoEntry]
    /\ passes = [a \in Sources |-> <<>>]

LetThrough(a, t) == passes' = [passes EXCEPT ![a] = Append(@, t)]

\* A packet of a source of which nothing is known is let through and starts a
\* window, unless there is no room to remember it; others may be forgotten.
Begin(a, t) ==
    /\ entry[a].count = 0
    /\ \E lost \in SUBSET Sources :
          entry' = [b \in Sources |->
              IF b \in lost THEN NoEntry
              ELSE IF b = a THEN [start |-> t, count |-> 1] ELSE entry[b]]
    /\ LetThrough(a, t)
    /\ UNCHANGED now

\* The window is over: the packet is let through and starts the next one.
Restart(a, t) ==
    /\ entry[a].count > 0
    /\ t - entry[a].start >= Window
    /\ entry' = [entry EXCEPT ![a] = [start |-> t, count |-> 1]]
    /\ LetThrough(a, t)
    /\ UNCHANGED now

\* Within the window the packets after the threshold are not let through.
Count(a, t) ==
    /\ entry[a].count > 0
    /\ t - entry[a].start \in 0..(Window - 1)
    /\ entry' = [entry EXCEPT ![a].count = @ + 1]
    /\ IF entry[a].count < Threshold THEN LetThrough(a, t) ELSE UNCHANGED passes
    /\ UNCHANGED now

Tick == now' = now + 1 /\ UNCHANGED <<entry, passes>>

\* A packet carries the time at which it was received.
Next ==
    \/ \E a \in Sources, t \in 0..now : Begin(a, t) \/ Restart(a, t) \/ Count(a, t)
    \/ Tick

Spec == Init /\ [][Next]_vars
=============================================================================
