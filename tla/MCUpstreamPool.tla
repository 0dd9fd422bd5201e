--------------------------- MODULE MCUpstreamPool ---------------------------
(* UpstreamPool for TLC. *)
EXTENDS UpstreamPool, TLC

CONSTANTS r1, r2

MCRequests == {r1, r2}
OneRequest == {r1}
Symmetry   == Permutations(MCRequests)
=============================================================================
