----------------------------- MODULE MCGateway ------------------------------
(***************************************************************************)
(* Instances of GatewayMain for TLC: nested prefixes, two scopes, and      *)
(* configurations that drop a protected route, that cannot be read, or     *)
(* that name an upstream that cannot be parsed.                            *)
(***************************************************************************)
EXTENDS GatewayMain

CONSTANT q1

MCRequests == {q1}

MCPaths == {<<"a">>, <<"a", "b">>, <<"c", "d", "e">>}

\* The second entry of key k replaces the first.
MCApiKeys == <<[key |-> "k", scopes |-> {"read", "write"}],
               [key |-> "k", scopes |-> {"read"}]>>

MCTokens == [t \in {"t"} |-> {"read", "write"}]

MCHeaders ==
    [key : {Absent, "k"}, scheme : {"Bearer"}, value : {"t"}]
    \cup [key : {"x", Absent}, scheme : {"ApiKey"}, value : {"k"}]

Public == [path |-> <<"a">>, auth |-> FALSE, scopes |-> {}]
Inner  == [path |-> <<"a", "b">>, auth |-> TRUE, scopes |-> {"read", "write"}]
Other  == [path |-> <<"c", "d", "e">>, auth |-> TRUE, scopes |-> {"read"}]

First  == [loads |-> TRUE, builds |-> TRUE, routes |-> {Public, Inner, Other}]
Moved  == [loads |-> TRUE, builds |-> TRUE, routes |-> {Public, Other}]
BadURL == [loads |-> TRUE, builds |-> FALSE, routes |-> {Other}]
Broken == [loads |-> FALSE, builds |-> FALSE, routes |-> {}]

MCConfigs == {First, Moved, BadURL, Broken}
=============================================================================
