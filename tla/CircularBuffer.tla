--------------------------- MODULE CircularBuffer ---------------------------
(***************************************************************************)
(* The circularBuffer of internal/metrics/aggregator.go as a value: an     *)
(* array, the index to write next and the number of entries.               *)
(***************************************************************************)
EXTENDS Integers, Sequences

newCircularBuffer(capacity, zero) ==
    [data |-> [i \in 0..(capacity - 1) |-> zero], head |-> 0, count |-> 0,
     cap |-> capacity]

\* Faulty variant: the index is not taken round.
NextHead_Straight(cb) == cb.head + 1

NextHead(cb) == (cb.head + 1) % cb.cap

\* Push overwrites the entry at head, the oldest one when the buffer is full.
Push(cb, snap) ==
    [cb EXCEPT !.data[cb.head] = snap,
               !.head = NextHead(cb),
               !.count = IF @ < cb.cap THEN @ + 1 ELSE @]

\* Faulty variant: head is taken for the oldest entry of a partly full buffer.
EntryIndex_FromHead(cb, i) == (cb.head + i) % cb.cap

\* The index Average computes for its i-th entry, counted from 0.
EntryIndex(cb, i) == (cb.head - cb.count + i + cb.cap) % cb.cap

\* The entries that Average adds up, oldest first.
Contents(cb) == [i \in 1..cb.count |-> cb.data[EntryIndex(cb, i - 1)]]

-----------------------------------------------------------------------------
(* What it is to implement: a queue that keeps the last n elements. *)

LastOf(s, n) == IF Len(s) <= n THEN s ELSE SubSeq(s, Len(s) - n + 1, Len(s))
=============================================================================
