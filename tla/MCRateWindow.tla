---------------------------- MODULE MCRateWindow ----------------------------
(* RateWindow for TLC: one CPU or two, two sources or one. *)
EXTENDS RateWindow

CONSTANTS c1, c2, s1, s2

MCAddrs == {<<1>>, <<2>>}
MCCPUs  == {c1}
OneAddr == {<<1>>}
TwoCPUs == {c1, c2}
MCSlots == {s1, s2}

\* The program does not tell the elements of the LRU map apart.
Symmetry == Permutations(MCSlots)
=============================================================================
