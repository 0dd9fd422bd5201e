--------------------------- MODULE Gateway_proofs ---------------------------
(***************************************************************************)
(* Safety of the gateway for any paths, credentials, configurations and    *)
(* numbers of requests and edits.                                          *)
(***************************************************************************)
EXTENDS GatewayMain, DataFacts, FiniteSetTheorems, FunctionTheorems,
        SequenceTheorems, TLAPS

-----------------------------------------------------------------------------
(* Tables and matching. *)

\* The entry that matchRoute returns is the first whose path is a prefix.
LEMMA FirstMatch ==
  ASSUME NEW n \in Nat, NEW S, NEW t \in [1..n -> S], NEW p
  PROVE  \/ /\ matchRoute(t, p) = NoRoute
            /\ \A j \in 1..n : ~ IsPrefix(t[j].path, p)
         \/ \E i \in 1..n :
               /\ matchRoute(t, p) = t[i]
               /\ IsPrefix(t[i].path, p)
               /\ \A j \in 1..n : IsPrefix(t[j].path, p) => i <= j
<1> DEFINE I == {i \in 1..Len(t) : IsPrefix(t[i].path, p)}
<1>1. Len(t) = n
  OBVIOUS
<1>2. CASE I = {}
  <2>1. matchRoute(t, p) = NoRoute
    BY <1>2 DEF matchRoute, SelectInSeq
  <2> QED
    BY <1>1, <1>2, <2>1
<1>3. CASE I # {}
  <2>1. \E i \in I : \A j \in I : i <= j
    <3>1. I \in SUBSET Nat
      BY <1>1
    <3> HIDE DEF I
    <3> QED
      BY <1>3, <3>1, LeastNatural
  <2>2. Min(I) \in I /\ \A j \in I : Min(I) <= j
    BY <2>1 DEF Min
  <2>3. matchRoute(t, p) = t[Min(I)]
    BY <1>1, <1>3, <2>2 DEF matchRoute, SelectInSeq
  <2> QED
    BY <1>1, <2>2, <2>3
<1> QED
  BY <1>2, <1>3

\* A sorted table holds every route of its set.
LEMMA TableIsComplete ==
  ASSUME NEW rs, IsFiniteSet(rs), NEW t \in SortedTables(rs)
  PROVE  ToSet(t) = rs
<1> DEFINE n == Cardinality(rs)
<1>1. n \in Nat
  BY FS_CardinalityType
<1>2. t \in [1..n -> rs] /\ \A i, j \in 1..n : i < j => t[i] # t[j]
  BY DEF SortedTables
<1>3. Range(t) \subseteq rs /\ ToSet(t) = Range(t)
  BY <1>2 DEF Range, ToSet
<1>4. \A i, j \in 1..n : t[i] = t[j] => i = j
  BY <1>1, <1>2
<1>5. t \in Bijection(1..n, Range(t))
  <2> HIDE DEF n
  <2>1. t \in Surjection(1..n, Range(t))
    BY <1>2, Fun_RangeProperties
  <2>2. t \in [1..n -> Range(t)]
    BY <1>2 DEF Range
  <2> QED
    BY <1>4, <2>1, <2>2, Fun_IsBij
<1>6. Cardinality(Range(t)) = n
  BY <1>1, <1>5, FS_CountingElements DEF ExistsBijection
<1> QED
  BY <1>3, <1>6, FS_Subset

\* What the router's search returns: a route of the set, and no longer one
\* matches.
Longest(route, path, rs) ==
    /\ route \in rs /\ IsPrefix(route.path, path)
    /\ \A r \in rs : IsPrefix(r.path, path) => Len(r.path) <= Len(route.path)

RouteSet(rs) ==
    /\ IsFiniteSet(rs)
    /\ \A r \in rs : r # NoRoute /\ r.path \in Seq(STRING)

LEMMA ConfigRoutes == \A c \in Configs : RouteSet(c.routes)
  BY ConfigsAssumption DEF RouteSet

LEMMA MatchIsLongest ==
  ASSUME NEW rs, RouteSet(rs), NEW t \in SortedTables(rs), NEW p,
         matchRoute(t, p) # NoRoute
  PROVE  Longest(matchRoute(t, p), p, rs)
<1> DEFINE n == Cardinality(rs)
<1>1. n \in Nat
  BY FS_CardinalityType DEF RouteSet
<1>2. /\ t \in [1..n -> rs]
      /\ \A i, j \in 1..n : i < j => GoesFirst(t[i], t[j])
  BY DEF SortedTables
<1>3. \A r \in rs : \E j \in 1..n : t[j] = r
  <2>1. ToSet(t) = rs
    BY TableIsComplete DEF RouteSet
  <2> QED
    BY <1>2, <2>1 DEF ToSet
<1> HIDE DEF n
<1>4. PICK i \in 1..n : /\ matchRoute(t, p) = t[i]
                        /\ IsPrefix(t[i].path, p)
                        /\ \A j \in 1..n : IsPrefix(t[j].path, p) => i <= j
  BY <1>1, <1>2, FirstMatch
<1>5. ASSUME NEW r \in rs, IsPrefix(r.path, p)
      PROVE  Len(r.path) <= Len(t[i].path)
  <2>1. PICK j \in 1..n : t[j] = r
    BY <1>3
  <2>2. i = j \/ i < j
    BY <1>1, <1>4, <1>5, <2>1
  <2>3. Len(t[i].path) \in Nat /\ Len(r.path) \in Nat
    BY <1>2 DEF RouteSet
  <2>4. CASE i = j
    BY <2>1, <2>3, <2>4
  <2>5. CASE i < j
    BY <1>2, <2>1, <2>3, <2>5 DEF GoesFirst
  <2> QED
    BY <2>2, <2>4, <2>5
<1> QED
  BY <1>2, <1>4, <1>5 DEF Longest

\* Paths of the same length that are prefixes of one path are the same.
LEMMA PrefixesAgree ==
  ASSUME NEW a \in Seq(STRING), NEW b \in Seq(STRING), NEW p,
         IsPrefix(a, p), IsPrefix(b, p), Len(a) = Len(b)
  PROVE  a = b
<1>1. /\ SubSeq(a, 1, Len(a)) = SubSeq(p, 1, Len(a))
      /\ SubSeq(b, 1, Len(b)) = SubSeq(p, 1, Len(b))
  BY DEF IsPrefix
<1>2. ASSUME NEW s \in Seq(STRING) PROVE SubSeq(s, 1, Len(s)) = s
  <2>1. /\ SubSeq(s, 1, Len(s)) \in Seq(STRING)
        /\ Len(SubSeq(s, 1, Len(s))) = Len(s)
        /\ \A i \in 1..Len(s) : SubSeq(s, 1, Len(s))[i] = s[i]
    BY <1>2
  <2> QED
    BY <1>2, <2>1
<1> QED
  BY <1>1, <1>2

\* No two routes of the start-up configuration have the same path.
DistinctPaths ==
    \A r, s \in Startup.routes : r.path = s.path => r = s

\* Two tables of the start-up routes agree on every path.
LEMMA TablesAgree ==
  ASSUME DistinctPaths, NEW t \in SortedTables(Startup.routes),
         NEW u \in SortedTables(Startup.routes), NEW p
  PROVE  matchRoute(t, p) = matchRoute(u, p)
<1> DEFINE rs == Startup.routes
           m  == matchRoute(t, p)
           k  == matchRoute(u, p)
<1>1. RouteSet(rs) /\ IsFiniteSet(rs)
  BY ConfigRoutes, ConfigsAssumption DEF RouteSet
<1>2. m # NoRoute => Longest(m, p, rs)
  BY <1>1, MatchIsLongest
<1>3. k # NoRoute => Longest(k, p, rs)
  BY <1>1, MatchIsLongest
<1>4. ASSUME NEW x \in SortedTables(rs), matchRoute(x, p) = NoRoute
      PROVE  \A r \in rs : ~ IsPrefix(r.path, p)
  <2> DEFINE n == Cardinality(rs)
  <2>1. n \in Nat /\ x \in [1..n -> rs] /\ ToSet(x) = rs
    BY <1>1, <1>4, TableIsComplete, FS_CardinalityType DEF SortedTables
  <2> HIDE DEF n, rs
  <2>2. \A j \in 1..n : x[j] # NoRoute
    BY <1>1, <2>1 DEF RouteSet
  <2>3. \A j \in 1..n : ~ IsPrefix(x[j].path, p)
    BY <1>4, <2>1, <2>2, FirstMatch
  <2> QED
    BY <2>1, <2>3 DEF ToSet
<1>5. m = NoRoute => k = NoRoute
  BY <1>3, <1>4 DEF Longest
<1>6. k = NoRoute => m = NoRoute
  BY <1>2, <1>4 DEF Longest
<1>7. ASSUME m # NoRoute, k # NoRoute PROVE m = k
  <2>1. Longest(m, p, rs) /\ Longest(k, p, rs)
    BY <1>2, <1>3, <1>7
  <2> HIDE DEF m, k
  <2>2. /\ m \in rs /\ k \in rs
        /\ m.path \in Seq(STRING) /\ k.path \in Seq(STRING)
        /\ IsPrefix(m.path, p) /\ IsPrefix(k.path, p)
    BY <1>1, <2>1 DEF Longest, RouteSet
  <2>3. Len(m.path) <= Len(k.path) /\ Len(k.path) <= Len(m.path)
    BY <2>1, <2>2 DEF Longest
  <2>4. Len(m.path) = Len(k.path)
    BY <2>2, <2>3
  <2>5. m.path = k.path
    BY <2>2, <2>4, PrefixesAgree
  <2> QED
    BY <2>2, <2>5 DEF DistinctPaths
<1> QED
  BY <1>5, <1>6, <1>7

-----------------------------------------------------------------------------
(* Credentials. *)

\* Whoever is let through by a key or a token presents it.
LEMMA IdentityIsEntitled ==
  ASSUME NEW h, NEW route, NEW scopes \in Identities(h), scopes # Invalid,
         hasRequiredScopes(scopes, route.scopes)
  PROVE  Entitled(h, route)
<1>1. route.scopes \subseteq scopes
  BY DEF hasRequiredScopes
<1>2. CASE UsesKeys /\ Validate(h) # Invalid
  <2> DEFINE secret == PresentedKey(h)
  <2>1. secret # Absent /\ IsKey(secret) /\ Validate(h) = keys(secret)
    BY <1>2 DEF Validate
  <2>2. secret \in {h.key, h.value}
    BY <2>1 DEF PresentedKey
  <2>3. scopes = keys(secret)
    BY <1>2, <2>1 DEF Identities
  <2> HIDE DEF secret
  <2> QED
    BY <1>1, <1>2, <2>1, <2>2, <2>3 DEF Entitled
<1>3. CASE ~ (UsesKeys /\ Validate(h) # Invalid)
  <2>1. UsesTokens /\ scopes \in TokenVerdicts(h)
    BY <1>3 DEF Identities
  <2>2. h.value \in DOMAIN Tokens /\ scopes = Tokens[h.value]
    BY <2>1 DEF TokenVerdicts
  <2>3. h.value # Absent
    BY <2>2, HeadersAssumption
  <2> QED
    BY <1>1, <2>1, <2>2, <2>3 DEF Entitled
<1> QED
  BY <1>2, <1>3

-----------------------------------------------------------------------------
(* The inductive invariant. *)

AllRoutes == UNION {c.routes : c \in Configs}

RequestType ==
    [pc : {"idle", "cors", "enforce", "route", "serve", "answered"},
     path : Paths \cup {<<>>},
     headers : Headers \cup {Idle.headers},
     route : AllRoutes \cup {NoRoute},
     reloaded : BOOLEAN,
     since : SUBSET (SUBSET AllRoutes)]

\* The tables: the enforcer's is that of start-up, and so is the router's
\* until it is replaced.
TablesOK ==
    /\ file \in Configs
    /\ edits \in 0..MaxEdits
    /\ notified \in BOOLEAN
    /\ reloaded \in BOOLEAN
    /\ signals \in 0..1
    /\ watcher \in [pc : {"start", "wait", "load", "build"}, cfg : Configs]
    /\ \E c \in Configs : routes \in SortedTables(c.routes)
    /\ enforced \in SortedTables(Startup.routes)
    /\ ~ reloaded => routes \in SortedTables(Startup.routes)

\* A request: the table in force is among those it has seen, its route was
\* the longest match in one of them, and the sender has what the enforcer's
\* route asks for.
RequestOK(v, table, policy) ==
    /\ v \in RequestType
    /\ v.pc # "idle" => ToSet(table) \in v.since
    /\ v.pc = "route" =>
          LET e == matchRoute(policy, v.path)
          IN  e # NoRoute /\ e.auth => Entitled(v.headers, e)
    /\ v.pc = "serve" =>
          /\ v.route # NoRoute
          /\ \E rs \in v.since : Longest(v.route, v.path, rs)
          /\ DistinctPaths /\ ~ v.reloaded /\ v.route.auth
                => Entitled(v.headers, v.route)

RequestsOK ==
    /\ request \in [Requests -> RequestType]
    /\ \A q \in Requests : RequestOK(request[q], routes, enforced)

GatewayInv == TablesOK /\ RequestsOK

LEMMA StartupIsConfig == Startup \in Configs
  BY ConfigsAssumption

LEMMA IdleOK == ASSUME NEW t, NEW u PROVE RequestOK(Idle, t, u)
<1>1. Idle \in RequestType
  BY DEF Idle, RequestType
<1> QED
  BY <1>1 DEF RequestOK, Idle

LEMMA InvInit == Init => GatewayInv
<1> SUFFICES ASSUME Init PROVE GatewayInv
  OBVIOUS
<1>1. TablesOK
  <2>1. 0 \in 0..MaxEdits /\ 0 \in 0..1
    BY EditsAssumption
  <2>2. watcher \in [pc : {"start", "wait", "load", "build"}, cfg : Configs]
    BY StartupIsConfig DEF Init
  <2>3. \E c \in Configs : routes \in SortedTables(c.routes)
    BY StartupIsConfig DEF Init
  <2> QED
    BY <2>1, <2>2, <2>3, StartupIsConfig DEF Init, TablesOK
<1>2. RequestsOK
  BY IdleOK DEF Init, RequestsOK, RequestOK
<1> QED
  BY <1>1, <1>2 DEF GatewayInv

LEMMA OneRequest ==
  ASSUME GatewayInv, UNCHANGED <<configVars, reloadVars, enforced>>,
         NEW q \in Requests, NEW v, RequestOK(v, routes, enforced),
         request' = [request EXCEPT ![q] = v]
  PROVE  GatewayInv'
<1>1. TablesOK'
  BY DEF GatewayInv, TablesOK, configVars, reloadVars
<1>2. v \in RequestType
  BY DEF RequestOK
<1>3. request' \in [Requests -> RequestType]
  BY <1>2 DEF GatewayInv, RequestsOK
<1>4. \A x \in Requests : request'[x] = IF x = q THEN v ELSE request[x]
  BY DEF GatewayInv, RequestsOK
<1>5. routes' = routes /\ enforced' = enforced
  BY DEF reloadVars
<1>6. \A x \in Requests : RequestOK(request'[x], routes, enforced)
  BY <1>4 DEF GatewayInv, RequestsOK
<1>7. RequestsOK'
  BY <1>3, <1>5, <1>6 DEF RequestsOK
<1> QED
  BY <1>1, <1>7 DEF GatewayInv

\* The steps of the watcher that leave the tables alone.
LEMMA SameTables ==
  ASSUME GatewayInv, TablesOK', UNCHANGED <<routes, enforced, request>>
  PROVE  GatewayInv'
  BY DEF GatewayInv, RequestsOK

LEMMA Moves ==
  ASSUME GatewayInv, UNCHANGED <<configVars, reloadVars, enforced>>,
         NEW q \in Requests, ~ At(q, "idle"),
         NEW c \in {"cors", "enforce", "answered"}, Goto(q, c)
  PROVE  GatewayInv'
<1> DEFINE v == [request[q] EXCEPT !.pc = c]
<1>1. request' = [request EXCEPT ![q] = v]
  BY DEF Goto
<1>2. request[q] \in RequestType /\ RequestOK(request[q], routes, enforced)
  BY DEF GatewayInv, RequestsOK
<1>3. v \in RequestType /\ v.pc = c /\ v.since = request[q].since
  BY <1>2 DEF RequestType
<1> HIDE DEF v
<1>4. RequestOK(v, routes, enforced)
  BY <1>2, <1>3 DEF RequestOK, At
<1> QED
  BY <1>1, <1>4, OneRequest

LEMMA ArriveInv ==
  ASSUME GatewayInv, NEW q \in Requests, Arrive(q)
  PROVE  GatewayInv'
<1>1. UNCHANGED <<configVars, reloadVars, enforced>>
  BY DEF Arrive
<1>2. PICK p \in Paths, h \in Headers :
          request' = [request EXCEPT ![q] =
              [Idle EXCEPT !.pc = "cors", !.path = p, !.headers = h,
                           !.since = {ToSet(routes)}]]
  BY DEF Arrive
<1> DEFINE v == [Idle EXCEPT !.pc = "cors", !.path = p, !.headers = h,
                             !.since = {ToSet(routes)}]
<1>3. ToSet(routes) \in SUBSET AllRoutes
  <2>1. PICK c \in Configs : routes \in SortedTables(c.routes)
    BY DEF GatewayInv, TablesOK
  <2>2. ToSet(routes) = c.routes
    BY <2>1, ConfigsAssumption, TableIsComplete
  <2> QED
    BY <2>2 DEF AllRoutes
<1>4. v \in RequestType /\ v.pc = "cors" /\ v.since = {ToSet(routes)}
  <2> DEFINE u == [Idle EXCEPT !.pc = "cors", !.path = p]
  <2>1. Idle \in RequestType
    BY DEF Idle, RequestType
  <2>2. u \in RequestType /\ u.pc = "cors"
    BY <2>1 DEF RequestType
  <2>3. v = [u EXCEPT !.headers = h, !.since = {ToSet(routes)}]
    OBVIOUS
  <2> HIDE DEF u, v
  <2> QED
    BY <1>3, <2>2, <2>3 DEF RequestType
<1>5. request' = [request EXCEPT ![q] = v]
  BY <1>2
<1> HIDE DEF v
<1>6. RequestOK(v, routes, enforced)
  BY <1>4 DEF RequestOK
<1> QED
  BY <1>1, <1>5, <1>6, OneRequest

LEMMA EnforceInv ==
  ASSUME GatewayInv, NEW q \in Requests, Enforce(q)
  PROVE  GatewayInv'
<1> DEFINE e == matchRoute(enforced, request[q].path)
<1>1. UNCHANGED <<configVars, reloadVars, enforced>> /\ ~ At(q, "idle")
  BY DEF Enforce, At
<1>2. CASE Goto(q, "answered")
  BY <1>1, <1>2, Moves
<1>3. CASE /\ Goto(q, "route")
           /\ e # NoRoute /\ e.auth => Entitled(request[q].headers, e)
  <2> DEFINE v == [request[q] EXCEPT !.pc = "route"]
  <2>1. request' = [request EXCEPT ![q] = v]
    BY <1>3 DEF Goto
  <2>2. request[q] \in RequestType /\ RequestOK(request[q], routes, enforced)
    BY DEF GatewayInv, RequestsOK
  <2>3. /\ v \in RequestType /\ v.pc = "route" /\ v.since = request[q].since
        /\ v.path = request[q].path /\ v.headers = request[q].headers
    BY <2>2 DEF RequestType
  <2> HIDE DEF v
  <2>4. RequestOK(v, routes, enforced)
    BY <1>1, <1>3, <2>2, <2>3 DEF RequestOK, At
  <2> QED
    BY <1>1, <2>1, <2>4, OneRequest
<1>4. ASSUME NEW scopes \in Identities(request[q].headers),
             scopes # Invalid, hasRequiredScopes(scopes, e.scopes)
      PROVE  Entitled(request[q].headers, e)
  BY <1>4, IdentityIsEntitled
<1> QED
  BY <1>2, <1>3, <1>4 DEF Enforce

LEMMA ServeInv ==
  ASSUME GatewayInv, NEW q \in Requests, ServeHTTP(q)
  PROVE  GatewayInv'
<1> DEFINE route == matchRoute(routes, request[q].path)
           v == [request[q] EXCEPT
                    !.pc = IF route = NoRoute THEN "answered" ELSE "serve",
                    !.route = route, !.reloaded = reloaded]
<1>1. UNCHANGED <<configVars, reloadVars, enforced>> /\ request[q].pc = "route"
  BY DEF ServeHTTP, At
<1>2. request' = [request EXCEPT ![q] = v]
  BY DEF ServeHTTP
<1>3. request[q] \in RequestType /\ RequestOK(request[q], routes, enforced)
  BY DEF GatewayInv, RequestsOK
<1>4. PICK c \in Configs : routes \in SortedTables(c.routes)
  BY DEF GatewayInv, TablesOK
<1>5. RouteSet(c.routes) /\ ToSet(routes) = c.routes
  BY <1>4, ConfigRoutes, TableIsComplete DEF RouteSet
<1>6. route # NoRoute => Longest(route, request[q].path, ToSet(routes))
  BY <1>4, <1>5, MatchIsLongest
<1>7. route \in AllRoutes \cup {NoRoute}
  BY <1>5, <1>6 DEF Longest, AllRoutes
<1>8. reloaded \in BOOLEAN
  BY DEF GatewayInv, TablesOK
<1>9. DistinctPaths /\ ~ reloaded => route = matchRoute(enforced, request[q].path)
  BY TablesAgree DEF GatewayInv, TablesOK
<1>10. PICK r : r = route
  OBVIOUS
<1>11. /\ v \in RequestType
       /\ v.pc = IF r = NoRoute THEN "answered" ELSE "serve"
       /\ v.path = request[q].path /\ v.headers = request[q].headers
       /\ v.since = request[q].since
       /\ v.route = r
  BY <1>3, <1>7, <1>8, <1>10 DEF RequestType
<1>12. v.reloaded = reloaded
  BY <1>3 DEF RequestType
<1> HIDE DEF v, route
<1>13. RequestOK(v, routes, enforced)
  BY <1>1, <1>3, <1>6, <1>9, <1>10, <1>11, <1>12 DEF RequestOK
<1> QED
  BY <1>1, <1>2, <1>13, OneRequest

LEMMA AnswerInv ==
  ASSUME GatewayInv, NEW q \in Requests, Answer(q)
  PROVE  GatewayInv'
  BY IdleOK, OneRequest DEF Answer

LEMMA BuildInv == ASSUME GatewayInv, Build PROVE GatewayInv'
<1>1. /\ watcher \in [pc : {"start", "wait", "load", "build"}, cfg : Configs]
      /\ watcher.cfg \in Configs
  BY DEF GatewayInv, TablesOK
<1>2. watcher' \in [pc : {"start", "wait", "load", "build"}, cfg : Configs]
  BY <1>1 DEF Build
<1>3. CASE ~ watcher.cfg.builds
  <2>1. UNCHANGED <<configVars, signals, enforced, routes, reloaded, request>>
    BY <1>3 DEF Build
  <2>2. TablesOK'
    BY <1>2, <2>1 DEF GatewayInv, TablesOK, configVars
  <2> QED
    BY <2>1, <2>2, SameTables
<1>4. CASE watcher.cfg.builds
  <2> DEFINE rs == watcher.cfg.routes
  <2>1. /\ routes' \in SortedTables(rs) /\ reloaded' = TRUE
        /\ UNCHANGED <<configVars, signals, enforced>>
        /\ request' = [q \in Requests |->
              IF At(q, "idle") THEN request[q]
              ELSE [request[q] EXCEPT !.since = @ \cup {rs}]]
    BY <1>4 DEF Build
  <2>2. TablesOK'
    BY <1>1, <1>2, <2>1 DEF GatewayInv, TablesOK, configVars
  <2>3. ToSet(routes') = rs /\ rs \in SUBSET AllRoutes
    <3>1. IsFiniteSet(rs)
      BY <1>1, ConfigsAssumption
    <3>2. ToSet(routes') = rs
      BY <2>1, <3>1, TableIsComplete
    <3>3. rs \in SUBSET AllRoutes
      BY <1>1 DEF AllRoutes
    <3> QED
      BY <3>2, <3>3
  <2>4. ASSUME NEW q \in Requests PROVE RequestOK(request'[q], routes', enforced)
    <3>1. request[q] \in RequestType /\ RequestOK(request[q], routes, enforced)
      BY DEF GatewayInv, RequestsOK
    <3>2. CASE At(q, "idle")
      BY <2>1, <3>1, <3>2 DEF RequestOK, At
    <3>3. CASE ~ At(q, "idle")
      <4> DEFINE v == [request[q] EXCEPT !.since = @ \cup {rs}]
      <4>1. request'[q] = v
        BY <2>1, <3>3
      <4>2. /\ v \in RequestType /\ v.since = request[q].since \cup {rs}
            /\ v.pc = request[q].pc /\ v.path = request[q].path
            /\ v.headers = request[q].headers /\ v.route = request[q].route
        BY <2>3, <3>1 DEF RequestType
      <4>3. v.reloaded = request[q].reloaded
        BY <3>1 DEF RequestType
      <4> HIDE DEF v
      <4>4. v.pc # "idle" => ToSet(routes') \in v.since
        BY <2>3, <4>2
      <4>5. v.pc = "route" =>
              LET e == matchRoute(enforced, v.path)
              IN  e # NoRoute /\ e.auth => Entitled(v.headers, e)
        BY <3>1, <4>2 DEF RequestOK
      <4>6. v.pc = "serve" =>
              /\ v.route # NoRoute
              /\ \E x \in v.since : Longest(v.route, v.path, x)
        BY <3>1, <4>2 DEF RequestOK
      <4>7. v.pc = "serve" /\ DistinctPaths /\ ~ v.reloaded /\ v.route.auth
              => Entitled(v.headers, v.route)
        BY <3>1, <4>2, <4>3 DEF RequestOK
      <4> QED
        BY <4>1, <4>2, <4>4, <4>5, <4>6, <4>7 DEF RequestOK
    <3> QED
      BY <3>2, <3>3
  <2>5. RequestsOK'
    <3>1. request' \in [Requests -> RequestType]
      BY <2>1, <2>4 DEF RequestOK
    <3>2. enforced' = enforced
      BY <2>1
    <3> QED
      BY <2>4, <3>1, <3>2 DEF RequestsOK
  <2> QED
    BY <2>2, <2>5 DEF GatewayInv
<1> QED
  BY <1>3, <1>4

LEMMA WatcherInv ==
  ASSUME GatewayInv, Edit \/ SIGHUP \/ watchSIGHUP
  PROVE  GatewayInv'
<1>1. /\ watcher \in [pc : {"start", "wait", "load", "build"}, cfg : Configs]
      /\ file \in Configs
  BY DEF GatewayInv, TablesOK
<1>2. CASE Edit
  <2>1. edits' \in 0..MaxEdits
    BY <1>2, EditsAssumption DEF Edit, GatewayInv, TablesOK
  <2>2. file' \in Configs /\ notified' \in BOOLEAN
    BY <1>2 DEF Edit
  <2>3. TablesOK'
    BY <1>2, <2>1, <2>2 DEF Edit, GatewayInv, TablesOK, reloadVars
  <2> QED
    BY <1>2, <2>3, SameTables DEF Edit, reloadVars
<1>3. CASE SIGHUP
  <2>1. Delivered(signals) \in 0..1
    BY DEF Delivered, GatewayInv, TablesOK
  <2>2. TablesOK'
    BY <1>3, <2>1 DEF SIGHUP, GatewayInv, TablesOK
  <2> QED
    BY <1>3, <2>2, SameTables DEF SIGHUP
<1>4. CASE Watch
  <2>1. watcher' \in [pc : {"start", "wait", "load", "build"}, cfg : Configs]
    BY <1>1, <1>4 DEF Watch
  <2>2. TablesOK'
    BY <1>4, <2>1 DEF Watch, GatewayInv, TablesOK, configVars
  <2> QED
    BY <1>4, <2>2, SameTables DEF Watch
<1>5. CASE TakeSignal
  <2>1. watcher' \in [pc : {"start", "wait", "load", "build"}, cfg : Configs]
    BY <1>1, <1>5 DEF TakeSignal
  <2>2. signals' \in 0..1
    BY <1>5 DEF TakeSignal, GatewayInv, TablesOK
  <2>3. TablesOK'
    BY <1>5, <2>1, <2>2 DEF TakeSignal, GatewayInv, TablesOK, configVars
  <2> QED
    BY <1>5, <2>3, SameTables DEF TakeSignal
<1>6. CASE LoadConfig
  <2>1. watcher' \in [pc : {"start", "wait", "load", "build"}, cfg : Configs]
    BY <1>1, <1>6 DEF LoadConfig
  <2>2. TablesOK'
    BY <1>6, <2>1 DEF LoadConfig, GatewayInv, TablesOK, configVars
  <2> QED
    BY <1>6, <2>2, SameTables DEF LoadConfig
<1>7. CASE Build
  BY <1>7, BuildInv
<1> QED
  BY <1>2, <1>3, <1>4, <1>5, <1>6, <1>7 DEF watchSIGHUP

-----------------------------------------------------------------------------
(* The process around the requests. *)

LEMMA RequestInv ==
  ASSUME GatewayInv, NEW q \in Requests,
         Arrive(q) \/ CORS(q) \/ Enforce(q) \/ ServeHTTP(q) \/ Answer(q)
  PROVE  GatewayInv'
<1>1. CASE CORS(q)
  BY <1>1, Moves DEF CORS, At
<1> QED
  BY <1>1, ArriveInv, EnforceInv, ServeInv, AnswerInv

\* The requests end with the proxy or with the process.
LEMMA RequestsDropped ==
  ASSUME GatewayInv, UNCHANGED <<configVars, reloadVars, enforced>>,
         request' = [q \in Requests |-> Idle]
  PROVE  GatewayInv'
<1>1. TablesOK'
  BY DEF GatewayInv, TablesOK, configVars, reloadVars
<1>2. \A q \in Requests : RequestOK(request'[q], routes', enforced')
  BY IdleOK
<1>3. RequestsOK'
  BY <1>2 DEF RequestsOK, RequestOK
<1> QED
  BY <1>1, <1>3 DEF GatewayInv

LEMMA Unchanged == ASSUME GatewayInv, UNCHANGED vars PROVE GatewayInv'
  BY DEF vars, configVars, reloadVars, GatewayInv, TablesOK, RequestsOK

LEMMA MainNextInv == GatewayInv /\ [MainNext]_allVars => GatewayInv'
<1> SUFFICES ASSUME GatewayInv, [MainNext]_allVars PROVE GatewayInv'
  OBVIOUS
<1>1. CASE Requesting
  BY <1>1, RequestInv DEF Requesting
<1>2. CASE CallAPI \/ AnswerAPI
  BY <1>2, Unchanged DEF CallAPI, AnswerAPI
<1>3. CASE Edit \/ SIGHUP \/ watchSIGHUP
  BY <1>3, WatcherInv
<1>4. CASE EndEarly \/ EarlySIGHUP \/ Return
  BY <1>4, RequestsDropped DEF EndEarly, EarlySIGHUP, Return, Exit
<1>5. CASE StopGateway
  BY <1>5, RequestsDropped DEF StopGateway
<1>6. CASE Notify \/ Interrupt \/ Shutdown
  BY <1>6, Unchanged DEF Notify, Interrupt, Shutdown
<1>7. CASE UNCHANGED allVars
  BY <1>7, Unchanged DEF allVars
<1> QED
  BY <1>1, <1>2, <1>3, <1>4, <1>5, <1>6, <1>7 DEF MainNext, Main

LEMMA MainInitInv == MainInit => GatewayInv
  BY InvInit DEF MainInit

\* The variables of the gateway keep their types, through reloads, early ends
\* and shutdowns: the table in force is always one configuration's.
THEOREM TypeCorrect == MainSpec => []TypeOK
<1>1. GatewayInv => TypeOK
  BY DEF GatewayInv, TablesOK, RequestsOK, RequestOK, RequestType, TypeOK, At
<1> QED
  BY <1>1, MainInitInv, MainNextInv, PTL DEF MainSpec

\* Whatever the routes and however often they are reloaded, a request is
\* served by the longest match of one table in force since it arrived
\* (router.go:72-111).
THEOREM LongestMatch == MainSpec => []LongestMatchServes
<1>1. GatewayInv => LongestMatchServes
  BY DEF GatewayInv, RequestsOK, RequestOK, LongestMatchServes, Longest, At
<1> QED
  BY <1>1, MainInitInv, MainNextInv, PTL DEF MainSpec

\* When no two routes of the start-up configuration share a path, the router
\* and the enforcer agree on every path although each sorts and searches a
\* table of its own: until a reload whoever is served by a protected route
\* has its scopes (zero_trust.go:64-131).
THEOREM OnlyTheEntitledAreServed ==
  ASSUME DistinctPaths PROVE MainSpec => []ServedIsEntitled
<1>1. GatewayInv => ServedIsEntitled
  BY DEF GatewayInv, RequestsOK, RequestOK, ServedIsEntitled, At
<1> QED
  BY <1>1, MainInitInv, MainNextInv, PTL DEF MainSpec
=============================================================================
