------------------------------ MODULE Gateway -------------------------------
(***************************************************************************)
(* The way of a request through the gateway - the CORS step of the         *)
(* middleware chain (internal/proxy/middleware.go), the zero-trust         *)
(* enforcer (internal/auth/zero_trust.go), the router (internal/proxy/     *)
(* router.go) - while the operator edits the configuration file and sends  *)
(* SIGHUP, on which the router rebuilds its table.  The enforcer keeps the *)
(* routes it was given at start-up.                                        *)
(*                                                                         *)
(* Paths are sequences of characters; keys and tokens are values that are  *)
(* only compared.  How a token is verified is the matter of module         *)
(* JWKSCache, and what happens behind the chosen route of UpstreamPool.    *)
(***************************************************************************)
EXTENDS Integers, Sequences, FiniteSets, SequencesExt

CONSTANTS
    Requests,       \* requests that can be in flight at a time
    Paths,          \* the paths they ask for
    Headers,        \* [key, scheme, value]: X-API-Key and Authorization
    Absent,         \* the empty value of a header
    ApiKeys,        \* auth.api_keys: a sequence of [key, scopes]
    Tokens,         \* token -> scopes, for the tokens that are in order
    Invalid,        \* no identity
    Mode,           \* auth.mode of the configuration file
    Configs,        \* contents the configuration file can have
    Startup,        \* its content when the gateway starts
    NoRoute,        \* no route matches
    MaxEdits        \* bound on the edits of the file

\* The routes of a configuration are a set: their order in the file is lost
\* when they are sorted.  config.Load may refuse a configuration and
\* Router.build an upstream address in it.
ASSUME ConfigsAssumption ==
    /\ Startup \in Configs /\ Startup.loads /\ Startup.builds
    /\ \A c \in Configs :
          /\ IsFiniteSet(c.routes)
          /\ \A r \in c.routes : r # NoRoute /\ r.path \in Seq(STRING)
ASSUME ModeAssumption == Mode \in {"none", "apikey", "jwt", "both"}
ASSUME EditsAssumption == MaxEdits \in Nat
ASSUME HeadersAssumption ==
    /\ Absent \notin DOMAIN Tokens
    /\ \A h \in Headers :
          /\ DOMAIN h = {"key", "scheme", "value"}
          /\ h.scheme \in {"ApiKey", "Bearer", "other"}

VARIABLES
    file,           \* the content of the configuration file
    edits,          \* edits so far
    signals,        \* SIGHUPs in the watcher's channel of capacity 1
    watcher,        \* [pc, cfg]: the goroutine watchSIGHUP
    routes,         \* the router's table
    enforced,       \* the enforcer's table
    request,        \* request -> where it is and what it has found
    reloaded,       \* history: the router's table was replaced
    notified        \* history: a SIGHUP was sent since the last edit

configVars == <<file, edits, notified>>
reloadVars == <<signals, watcher, routes, reloaded>>
vars == <<configVars, reloadVars, enforced, request>>

-----------------------------------------------------------------------------
(* Tables and matching. *)

\* Faulty variant: the shortest path first.
GoesFirst_Shorter(r, s) == Len(r.path) <= Len(s.path)

\* The order of sort.Slice in build and in NewZeroTrustEnforcer.
GoesFirst(r, s) == Len(r.path) >= Len(s.path)

\* sort.Slice is not stable: routes of the same length come in any order.
SortedTables(rs) ==
    {t \in [1..Cardinality(rs) -> rs] :
        \A i, j \in DOMAIN t : i < j => t[i] # t[j] /\ GoesFirst(t[i], t[j])}

\* The first entry whose path is a prefix: matchRoute, and the loop of
\* ServeHTTP.
matchRoute(table, path) ==
    LET i == SelectInSeq(table, LAMBDA r : IsPrefix(r.path, path))
    IN  IF i = 0 THEN NoRoute ELSE table[i]

Idle == [pc |-> "idle", path |-> <<>>,
         headers |-> [key |-> Absent, scheme |-> "other", value |-> Absent],
         route |-> NoRoute, reloaded |-> FALSE, since |-> {}]

Init ==
    /\ file = Startup
    /\ edits = 0
    /\ notified = FALSE
    /\ signals = 0
    /\ watcher = [pc |-> "start", cfg |-> Startup]
    /\ routes \in SortedTables(Startup.routes)
    /\ enforced \in SortedTables(Startup.routes)
    /\ reloaded = FALSE
    /\ request = [q \in Requests |-> Idle]

-----------------------------------------------------------------------------
(* Requests. *)

At(q, step) == request[q].pc = step

Goto(q, step) == request' = [request EXCEPT ![q].pc = step]

Arrive(q) ==
    /\ At(q, "idle")
    /\ \E p \in Paths, h \in Headers :
          request' = [request EXCEPT ![q] =
              [Idle EXCEPT !.pc = "cors", !.path = p, !.headers = h,
                           !.since = {ToSet(routes)}]]
    /\ UNCHANGED <<configVars, reloadVars, enforced>>

\* An OPTIONS request is answered here; the others go on to the enforcer.
CORS(q) ==
    /\ At(q, "cors")
    /\ Goto(q, "enforce") \/ Goto(q, "answered")
    /\ UNCHANGED <<configVars, reloadVars, enforced>>

UsesKeys   == Mode \in {"apikey", "both"}
UsesTokens == Mode \in {"jwt", "both"}

\* The map of NewAPIKeyValidator: of two entries with one key the last stays.
keys(key) == ApiKeys[SelectLastInSeq(ApiKeys, LAMBDA e : e.key = key)].scopes

IsKey(key) == \E e \in ToSet(ApiKeys) : e.key = key

\* The key of a request: X-API-Key or else Authorization, in either scheme.
PresentedKey(h) ==
    IF h.key # Absent THEN h.key
    ELSE IF h.scheme \in {"ApiKey", "Bearer"} THEN h.value
    ELSE Absent

\* APIKeyValidator.Validate: the scopes of the key, or Invalid.
Validate(h) ==
    IF PresentedKey(h) # Absent /\ IsKey(PresentedKey(h))
    THEN keys(PresentedKey(h)) ELSE Invalid

\* What the JWT validator may find: a token that is in order is refused when
\* its key cannot be fetched.
TokenVerdicts(h) ==
    {Invalid} \cup
    (IF h.scheme = "Bearer" /\ h.value \in DOMAIN Tokens
     THEN {Tokens[h.value]} ELSE {})

\* Whom the request may come from.  An API key comes first; the token is
\* looked at only when there is no valid key.
Identities(h) ==
    IF UsesKeys /\ Validate(h) # Invalid THEN {Validate(h)}
    ELSE IF UsesTokens THEN TokenVerdicts(h)
    ELSE {Invalid}

\* Faulty variant: one of the scopes is enough.
hasRequiredScopes_Any(scopes, required) ==
    required = {} \/ scopes \cap required # {}

hasRequiredScopes(scopes, required) == required \subseteq scopes

\* The enforcer's Middleware: on to the router, or 401, or 403.
Enforce(q) ==
    LET route == matchRoute(enforced, request[q].path)
    IN  /\ At(q, "enforce")
        /\ \/ route = NoRoute /\ Goto(q, "route")
           \/ route # NoRoute /\ ~ route.auth /\ Goto(q, "route")
           \/ /\ route # NoRoute /\ route.auth
              /\ \E scopes \in Identities(request[q].headers) :
                    \/ scopes = Invalid /\ Goto(q, "answered")
                    \/ /\ scopes # Invalid
                       /\ ~ hasRequiredScopes(scopes, route.scopes)
                       /\ Goto(q, "answered")
                    \/ /\ scopes # Invalid
                       /\ hasRequiredScopes(scopes, route.scopes)
                       /\ Goto(q, "route")
        /\ UNCHANGED <<configVars, reloadVars, enforced>>

\* The router's ServeHTTP takes the table under its lock and searches it.
ServeHTTP(q) ==
    LET route == matchRoute(routes, request[q].path)
    IN  /\ At(q, "route")
        /\ request' = [request EXCEPT
                ![q].pc = IF route = NoRoute THEN "answered" ELSE "serve",
                ![q].route = route,
                ![q].reloaded = reloaded]
        /\ UNCHANGED <<configVars, reloadVars, enforced>>

\* The backend has answered, or 401, 403, 404 or 200 to OPTIONS was written.
Answer(q) ==
    /\ request[q].pc \in {"serve", "answered"}
    /\ request' = [request EXCEPT ![q] = Idle]
    /\ UNCHANGED <<configVars, reloadVars, enforced>>

-----------------------------------------------------------------------------
(* The operator, and the router's watcher. *)

Edit ==
    /\ edits < MaxEdits
    /\ file' \in Configs \ {file}
    /\ edits' = edits + 1
    /\ notified' = FALSE
    /\ UNCHANGED <<reloadVars, enforced, request>>

\* Faulty variants: a channel without a buffer, one without a limit.
Delivered_IfWaiting(n) == IF watcher.pc = "wait" THEN 1 ELSE n

Delivered_Always(n) == n + 1

\* os/signal does not wait: a signal that finds the channel full is dropped.
Delivered(n) == IF n < 1 THEN n + 1 ELSE n

\* A SIGHUP that comes before the watcher asks for it ends the process.
SIGHUP ==
    /\ watcher.pc # "start"
    /\ signals' = Delivered(signals)
    /\ notified' = TRUE
    /\ UNCHANGED <<file, edits, watcher, routes, reloaded, enforced, request>>

\* NewRouter leaves it to the new goroutine to call signal.Notify.
Watch ==
    /\ watcher.pc = "start"
    /\ watcher' = [watcher EXCEPT !.pc = "wait"]
    /\ UNCHANGED <<configVars, signals, routes, reloaded, enforced, request>>

TakeSignal ==
    /\ watcher.pc = "wait"
    /\ signals > 0
    /\ signals' = signals - 1
    /\ watcher' = [watcher EXCEPT !.pc = "load"]
    /\ UNCHANGED <<configVars, routes, reloaded, enforced, request>>

\* configWatch reads the file; an error ends this reload.
LoadConfig ==
    /\ watcher.pc = "load"
    /\ watcher' = [watcher EXCEPT !.pc = IF file.loads THEN "build" ELSE "wait",
                                  !.cfg = file]
    /\ UNCHANGED <<configVars, signals, routes, reloaded, enforced, request>>

\* build makes a pool for each route, sorts, and replaces the table under the
\* lock; an upstream it cannot parse leaves the table as it was.
Build ==
    /\ watcher.pc = "build"
    /\ \/ /\ watcher.cfg.builds
          /\ routes' \in SortedTables(watcher.cfg.routes)
          /\ reloaded' = TRUE
          /\ request' = [q \in Requests |->
                IF At(q, "idle") THEN request[q]
                ELSE [request[q] EXCEPT !.since = @ \cup {watcher.cfg.routes}]]
       \/ /\ ~ watcher.cfg.builds
          /\ UNCHANGED <<routes, reloaded, request>>
    /\ watcher' = [watcher EXCEPT !.pc = "wait"]
    /\ UNCHANGED <<configVars, signals, enforced>>

watchSIGHUP == Watch \/ TakeSignal \/ LoadConfig \/ Build

Next ==
    \/ \E q \in Requests :
          Arrive(q) \/ CORS(q) \/ Enforce(q) \/ ServeHTTP(q) \/ Answer(q)
    \/ Edit \/ SIGHUP
    \/ watchSIGHUP

\* The watcher's goroutine is scheduled.
Spec == Init /\ [][Next]_vars /\ WF_vars(watchSIGHUP)

-----------------------------------------------------------------------------
(* Properties. *)

\* The shape of the state.
TypeOK ==
    /\ file \in Configs
    /\ edits \in 0..MaxEdits
    /\ {notified, reloaded} \subseteq BOOLEAN
    /\ signals \in 0..1
    /\ watcher \in [pc : {"start", "wait", "load", "build"}, cfg : Configs]
    /\ \E c \in Configs : routes \in SortedTables(c.routes)
    /\ enforced \in SortedTables(Startup.routes)
    /\ \A q \in Requests :
          /\ request[q].pc \in
                {"idle", "cors", "enforce", "route", "serve", "answered"}
          /\ At(q, "serve") => request[q].route # NoRoute

\* "Path-prefix routing with longest-match-wins resolution" (README.md:58),
\* over reloads: a request is served by the longest matching route of one
\* configuration that was in force since it arrived, never of a mixture.
LongestMatchServes ==
    \A q \in Requests : At(q, "serve") =>
        LET route == request[q].route
        IN  \E rs \in request[q].since :
                /\ route \in rs /\ IsPrefix(route.path, request[q].path)
                /\ \A r \in rs : IsPrefix(r.path, request[q].path)
                                    => Len(r.path) <= Len(route.path)

\* The sender holds a secret, of a kind the mode admits, that was issued with
\* all the scopes the route requires.
Entitled(h, route) ==
    \E secret \in {h.key, h.value} \ {Absent} :
        \/ UsesKeys /\ IsKey(secret) /\ route.scopes \subseteq keys(secret)
        \/ /\ UsesTokens /\ secret \in DOMAIN Tokens
           /\ route.scopes \subseteq Tokens[secret]

\* Until the first reload, the route that serves a request is the one whose
\* policy the enforcer checked: the router and the enforcer sort and match
\* separately (router.go:72-108, zero_trust.go:32-60) and agree.  A reload
\* replaces the router's table alone, so there the agreement ends.
ServedIsEntitled ==
    \A q \in Requests :
        /\ At(q, "serve") /\ request[q].route.auth
        /\ ~ request[q].reloaded
        => Entitled(request[q].headers, request[q].route)
=============================================================================
