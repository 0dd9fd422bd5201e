----------------------------- MODULE TotalsFeed -----------------------------
(***************************************************************************)
(* What collector and aggregator promise of the totals, without the deltas *)
(* they are sent as: now and then the kernel's counters are read, and what *)
(* was read, less what was lost so far, travels through a queue to become  *)
(* the total that is shown.  So each total shown is one reading, both its  *)
(* counters together, less the readings lost before it, and no total goes  *)
(* back to an earlier one.  Module MetricsPipeline implements it.          *)
(***************************************************************************)
EXTENDS Integers, Sequences

VARIABLES
    counters,       \* packets passed and dropped so far
    reading,        \* the counters as they were last read
    inHand,         \* the reading is still to be sent
    lost,           \* packets missing from the totals for good
    feed,           \* totals on their way
    total,          \* the total that arrived last
    shown           \* the total last shown

vars == <<counters, reading, inHand, lost, feed, total, shown>>

Init ==
    /\ counters = [passed |-> 0, dropped |-> 0]
    /\ reading = counters /\ lost = counters
    /\ total = counters /\ shown = counters
    /\ inHand = FALSE
    /\ feed = <<>>

Minus(x, y) == [passed |-> x.passed - y.passed, dropped |-> x.dropped - y.dropped]

Newest == IF feed = <<>> THEN total ELSE feed[Len(feed)]

Count ==
    /\ \/ counters' = [counters EXCEPT !.passed = @ + 1]
       \/ counters' = [counters EXCEPT !.dropped = @ + 1]
    /\ UNCHANGED <<reading, inHand, lost, feed, total, shown>>

\* The packets passed are read first, and may be behind by the time the
\* dropped ones are; neither is ever behind the reading before.
Read ==
    /\ ~ inHand
    /\ \E p \in reading.passed..counters.passed :
          reading' = [passed |-> p, dropped |-> counters.dropped]
    /\ inHand' = TRUE
    /\ UNCHANGED <<counters, lost, feed, total, shown>>

Send ==
    /\ inHand
    /\ feed' = Append(feed, Minus(reading, lost))
    /\ inHand' = FALSE
    /\ UNCHANGED <<counters, reading, lost, total, shown>>

\* A reading that is not sent is short for good by what it was ahead.
Lose ==
    /\ inHand
    /\ lost' = Minus(reading, Newest)
    /\ inHand' = FALSE
    /\ UNCHANGED <<counters, reading, feed, total, shown>>

Arrive ==
    /\ feed # <<>>
    /\ total' = Head(feed)
    /\ feed' = Tail(feed)
    /\ UNCHANGED <<counters, reading, inHand, lost, shown>>

Show ==
    /\ shown' = total
    /\ UNCHANGED <<counters, reading, inHand, lost, feed, total>>

Next == Count \/ Read \/ Send \/ Lose \/ Arrive \/ Show

Spec == Init /\ [][Next]_vars
=============================================================================
