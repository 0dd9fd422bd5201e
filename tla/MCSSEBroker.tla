---------------------------- MODULE MCSSEBroker -----------------------------
(* SSEBroker for TLC. *)
EXTENDS SSEBroker

CONSTANTS k1, k2

MCClients == {k1, k2}
=============================================================================
