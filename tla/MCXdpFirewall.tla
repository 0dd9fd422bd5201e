--------------------------- MODULE MCXdpFirewall ---------------------------
(* XdpFirewall for TLC: interchangeable CPUs and slots, short addresses. *)
EXTENDS XdpFirewall, TLC

CONSTANTS c1, c2, s1, s2

MCAddrs == {<<1, 2>>, <<2, 1>>}
MCCPUs  == {c1, c2}
MCSlots == {s1, s2}
Symmetry == Permutations(MCCPUs) \cup Permutations(MCSlots)
=============================================================================
