---------------------------- MODULE MCJWKSCache -----------------------------
(***************************************************************************)
(* JWKSCache for TLC: the issuer starts with one key, adds a second under  *)
(* an id of its own, or binds the first id to the second key.              *)
(***************************************************************************)
EXTENDS JWKSCache

CONSTANTS r1, r2, k1, k2

MCRequests == {r1, r2}

MCPublications ==
    {[a |-> k1, b |-> NoKey], [a |-> k1, b |-> k2], [a |-> k2, b |-> NoKey]}

MCTokens == [kid : {"a"}, key : {k1, k2}] \cup {[kid |-> "b", key |-> k2]}
=============================================================================
