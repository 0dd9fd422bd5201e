-------------------------- MODULE JWKSCache_proofs --------------------------
(***************************************************************************)
(* Proofs about module JWKSCache, for any numbers of requests, key ids and *)
(* keys, and any durations.                                                *)
(***************************************************************************)
EXTENDS JWKSCache, TLAPS

(***************************************************************************)
(* What TypeOK needs: a request keeps the shape of its record.             *)
(***************************************************************************)

LEMMA DoneType ==
    ASSUME NEW o \in Outcomes
    PROVE  Done(o) \in RequestRecord
<1>1. (CHOOSE k \in Kids : TRUE) \in Kids
  BY NamesAssumption
<1>2. NoKeys \in KeySets
  BY DEF NoKeys, KeySets
<1>3. 0 \in 0..Timeout
  BY DurationsAssumption
<1>. QED
  BY <1>1, <1>2, <1>3 DEF Done, RequestRecord

LEMMA InitType == Init => TypeOK
<1>. SUFFICES ASSUME Init PROVE TypeOK
  OBVIOUS
<1>1. NoKeys \in KeySets
  BY DEF NoKeys, KeySets
<1>2. withdrawn \in [Kids \X Keys -> 0..Horizon]
  BY DurationsAssumption DEF Init, Horizon
<1>3. cacheAge \in 0..TTL
  BY DurationsAssumption DEF Init
<1>4. Done("idle") \in RequestRecord
  BY DoneType DEF Outcomes
<1>5. request \in [Requests -> RequestRecord]
  BY <1>4 DEF Init
<1>6. \A r \in Requests : ~ Fetching(r)
  BY DEF Init, Fetching, Done
<1>. QED
  BY <1>1, <1>2, <1>3, <1>5, <1>6 DEF TypeOK, Init

LEMMA NextType == TypeOK /\ [Next]_vars => TypeOK'
<1>. SUFFICES ASSUME TypeOK, [Next]_vars PROVE TypeOK'
  OBVIOUS
<1>. USE DEF TypeOK
<1>1. ASSUME NEW r \in Requests, Validate(r) PROVE TypeOK'
  <2>1. PICK t \in Tokens : request' = [request EXCEPT ![r] =
              [pc |-> "read", kid |-> t.kid, key |-> t.key, age |-> 0,
               body |-> NoKeys, steady |-> published[t.kid] = t.key]]
    BY <1>1 DEF Validate
  <2>2. t.kid \in Kids /\ t.key \in Keys
    BY TokensAssumption
  <2>3. NoKeys \in KeySets /\ 0 \in 0..Timeout
    BY DurationsAssumption DEF NoKeys, KeySets
  <2>4. request' \in [Requests -> RequestRecord]
    BY <2>1, <2>2, <2>3 DEF RequestRecord
  <2>5. \A q \in Requests : Fetching(q)' => Fetching(q)
    BY <2>1 DEF Fetching
  <2>. QED
    BY <1>1, <2>4, <2>5 DEF Validate
<1>2. ASSUME NEW r \in Requests, getPublicKey(r) PROVE TypeOK'
  <2>1. CASE Cached(request[r].kid)
    <3>1. PICK o \in {"accepted", "denied"} :
             request' = [request EXCEPT ![r] = Done(o)]
      BY <1>2, <2>1 DEF getPublicKey, Verdict
    <3>2. request' \in [Requests -> RequestRecord]
      BY <3>1, DoneType DEF Outcomes
    <3>3. \A q \in Requests : Fetching(q)' => Fetching(q)
      BY <3>1 DEF Fetching, Done
    <3>. QED
      BY <1>2, <3>2, <3>3 DEF getPublicKey
  <2>2. CASE ~ Cached(request[r].kid)
    <3>1. request' = [request EXCEPT ![r].pc = "lock"]
      BY <1>2, <2>2 DEF getPublicKey
    <3>2. request' \in [Requests -> RequestRecord]
      BY <3>1 DEF RequestRecord
    <3>3. \A q \in Requests : Fetching(q)' => Fetching(q)
      BY <3>1 DEF Fetching
    <3>. QED
      BY <1>2, <3>2, <3>3 DEF getPublicKey
  <2>. QED
    BY <2>1, <2>2
<1>3. ASSUME NEW r \in Requests, StartFetch(r) PROVE TypeOK'
  <2>1. request' \in [Requests -> RequestRecord]
    BY <1>3 DEF StartFetch, RequestRecord
  <2>2. \A q \in Requests : ~ Fetching(q)
    BY <1>3, NamesAssumption DEF StartFetch, CanLock
  <2>3. \A q \in Requests : Fetching(q)' => q = r
    BY <1>3, <2>2 DEF StartFetch, Fetching
  <2>. QED
    BY <1>3, <2>1, <2>3 DEF StartFetch
<1>4. ASSUME NEW r \in Requests, AnswerJWKS(r) PROVE TypeOK'
  <2>1. PICK keys \in {published, NoKeys} :
           /\ newest' = keys
           /\ request' = [request EXCEPT ![r].pc = "answered", ![r].body = keys]
    BY <1>4 DEF AnswerJWKS
  <2>2. keys \in KeySets
    BY PublicationsAssumption DEF NoKeys, KeySets
  <2>3. request' \in [Requests -> RequestRecord]
    BY <2>1, <2>2 DEF RequestRecord
  <2>4. \A q \in Requests : Fetching(q)' => Fetching(q)
    BY <1>4, <2>1 DEF Fetching, At, AnswerJWKS
  <2>. QED
    BY <1>4, <2>1, <2>2, <2>3, <2>4 DEF AnswerJWKS
<1>5. ASSUME NEW r \in Requests, FetchFails(r) PROVE TypeOK'
  <2>1. request' \in [Requests -> RequestRecord]
    BY <1>5, DoneType DEF FetchFails, Outcomes
  <2>2. \A q \in Requests : Fetching(q)' => Fetching(q) /\ q # r
    BY <1>5 DEF FetchFails, Fetching, Done
  <2>3. fetcher = r
    BY <1>5 DEF FetchFails, Fetching, At
  <2>. QED
    BY <1>5, <2>1, <2>2, <2>3 DEF FetchFails, AfterError
<1>6. ASSUME NEW r \in Requests, StoreKeys(r) PROVE TypeOK'
  <2>1. PICK o \in {"accepted", "denied"} :
           request' = [request EXCEPT ![r] = Done(o)]
    BY <1>6 DEF StoreKeys, Verdict
  <2>2. request' \in [Requests -> RequestRecord]
    BY <2>1, DoneType DEF Outcomes
  <2>3. \A q \in Requests : Fetching(q)' => Fetching(q) /\ q # r
    BY <2>1 DEF Fetching, Done
  <2>4. fetcher = r
    BY <1>6 DEF StoreKeys, Fetching, At
  <2>5. request[r].body \in KeySets
    BY DEF RequestRecord
  <2>6. 0 \in 0..TTL
    BY DurationsAssumption
  <2>. QED
    BY <1>6, <2>2, <2>3, <2>4, <2>5, <2>6 DEF StoreKeys
<1>7. CASE Publish
  <2>1. withdrawn' \in [Kids \X Keys -> 0..Horizon]
    BY <1>7, DurationsAssumption DEF Publish, Horizon
  <2>2. request' \in [Requests -> RequestRecord]
    BY <1>7 DEF Publish, RequestRecord
  <2>3. \A q \in Requests : Fetching(q)' => Fetching(q)
    BY <1>7 DEF Publish, Fetching, RequestRecord
  <2>. QED
    BY <1>7, <2>1, <2>2, <2>3 DEF Publish
<1>8. CASE Tick
  <2>1. \A a, n \in Nat : a \in 0..n => Older(a, n) \in 0..n
    BY DEF Older
  <2>2. Horizon \in Nat /\ TTL \in Nat
    BY DurationsAssumption DEF Horizon
  <2>3. withdrawn' \in [Kids \X Keys -> 0..Horizon]
    BY <1>8, <2>1, <2>2 DEF Tick
  <2>4. cacheAge' \in 0..TTL
    BY <1>8, <2>1, <2>2 DEF Tick
  <2>5. request' \in [Requests -> RequestRecord]
    <3>. SUFFICES ASSUME NEW q \in Requests
                  PROVE  (IF Fetching(q) THEN [request[q] EXCEPT !.age = @ + 1]
                          ELSE request[q]) \in RequestRecord
      BY <1>8 DEF Tick
    <3>1. Fetching(q) => request[q].age + 1 \in 0..Timeout
      BY <1>8, DurationsAssumption DEF Tick, RequestRecord
    <3>. QED
      BY <3>1 DEF RequestRecord
  <2>6. \A q \in Requests : Fetching(q)' => Fetching(q)
    BY <1>8 DEF Tick, Fetching
  <2>. QED
    BY <1>8, <2>3, <2>4, <2>5, <2>6 DEF Tick
<1>9. CASE UNCHANGED vars
  BY <1>9 DEF vars, requestVars, Fetching
<1>. QED
  BY <1>1, <1>2, <1>3, <1>4, <1>5, <1>6, <1>7, <1>8, <1>9 DEF Next

(***************************************************************************)
(* The state keeps its shape, and whoever fetches holds the lock.          *)
(***************************************************************************)
THEOREM TypeCorrect == Spec => []TypeOK
BY InitType, NextType, PTL DEF Spec

-----------------------------------------------------------------------------
(* What a step can do to one request, and to the cache. *)

\* The parts of an answer that stay as they are until it is stored.
SameAnswer(q) ==
    /\ At(q, "answered")
    /\ request'[q].body = request[q].body
    /\ request'[q].kid = request[q].kid
    /\ request'[q].key = request[q].key

LEMMA AnswerMoves ==
    ASSUME TypeOK, [Next]_vars, NEW q \in Requests, At(q, "answered")'
    PROVE  \/ AnswerJWKS(q)
           \/ Tick /\ SameAnswer(q) /\ request[q].age < Timeout
                /\ request'[q].age = request[q].age + 1
                /\ request'[q].steady = request[q].steady
           \/ /\ ~ (\E r \in Requests : AnswerJWKS(r)) /\ SameAnswer(q)
              /\ request'[q].age = request[q].age
              /\ request'[q].steady => request[q].steady
<1>. DEFINE Same == /\ SameAnswer(q)
                    /\ request'[q].age = request[q].age
                    /\ request'[q].steady => request[q].steady
<1>0. /\ request \in [Requests -> RequestRecord]
      /\ \A r \in Requests : Fetching(r) => fetcher = r
  BY DEF TypeOK
<1>1. ASSUME ~ AnswerJWKS(q), NEW r \in Requests, AnswerJWKS(r) PROVE FALSE
  <2>1. q # r /\ At(q, "answered")
    BY <1>0, <1>1 DEF AnswerJWKS, At
  <2>2. fetcher = q /\ fetcher = r
    BY <1>0, <1>1, <2>1 DEF AnswerJWKS, At, Fetching
  <2>. QED
    BY <2>1, <2>2
<1>2. ASSUME NEW r \in Requests, Validate(r) PROVE Same
  <2>1. PICK t \in Tokens : request' = [request EXCEPT ![r] =
              [pc |-> "read", kid |-> t.kid, key |-> t.key, age |-> 0,
               body |-> NoKeys, steady |-> published[t.kid] = t.key]]
    BY <1>2 DEF Validate
  <2>. QED
    BY <1>0, <2>1 DEF At, SameAnswer
<1>3. ASSUME NEW r \in Requests, getPublicKey(r) PROVE Same
  <2>1. CASE Cached(request[r].kid)
    BY <1>0, <1>3, <2>1 DEF getPublicKey, Verdict, Done, At, SameAnswer
  <2>2. CASE ~ Cached(request[r].kid)
    <3>1. request' = [request EXCEPT ![r].pc = "lock"] /\ At(r, "read")
      BY <1>3, <2>2 DEF getPublicKey
    <3>2. q # r /\ request'[q] = request[q]
      BY <1>0, <3>1 DEF At
    <3>. QED
      BY <3>2 DEF At, SameAnswer
  <2>. QED
    BY <2>1, <2>2
<1>4. ASSUME NEW r \in Requests, StartFetch(r) PROVE Same
  BY <1>0, <1>4 DEF StartFetch, At, SameAnswer
<1>5. ASSUME NEW r \in Requests, FetchFails(r) PROVE Same
  BY <1>0, <1>5 DEF FetchFails, Done, At, SameAnswer
<1>6. ASSUME NEW r \in Requests, StoreKeys(r) PROVE Same
  BY <1>0, <1>6 DEF StoreKeys, Verdict, Done, At, SameAnswer
<1>7. ASSUME Publish PROVE Same
  <2>1. request'[q] = [request[q] EXCEPT
              !.steady = @ /\ published'[request[q].kid] = request[q].key]
    BY <1>7 DEF Publish
  <2>2. request[q] \in RequestRecord
    BY <1>0
  <2>3. /\ request'[q].pc = request[q].pc
        /\ request'[q].body = request[q].body
        /\ request'[q].kid = request[q].kid
        /\ request'[q].key = request[q].key
        /\ request'[q].age = request[q].age
    BY <2>1, <2>2 DEF RequestRecord
  <2>4. request'[q].steady => request[q].steady
    BY <2>1, <2>2 DEF RequestRecord
  <2>. QED
    BY <2>3, <2>4 DEF At, SameAnswer
<1>8. CASE Tick
  <2>1. request'[q] = IF Fetching(q) THEN [request[q] EXCEPT !.age = @ + 1]
                      ELSE request[q]
    BY <1>8 DEF Tick
  <2>2. request[q].pc = "answered" /\ Fetching(q)
    BY <1>0, <2>1 DEF At, Fetching, RequestRecord
  <2>3. request[q].age < Timeout
    BY <1>8, <2>2 DEF Tick
  <2>4. /\ SameAnswer(q)
        /\ request'[q].age = request[q].age + 1
        /\ request'[q].steady = request[q].steady
    BY <1>0, <2>1, <2>2 DEF At, SameAnswer, RequestRecord
  <2>. QED
    BY <1>8, <2>3, <2>4
<1>9. ASSUME UNCHANGED vars PROVE Same
  BY <1>9 DEF vars, requestVars, At, SameAnswer
<1>10. CASE ~ AnswerJWKS(q) /\ ~ Tick
  <2>1. ~ \E r \in Requests : AnswerJWKS(r)
    BY <1>1, <1>10
  <2>2. Same
    BY <1>2, <1>3, <1>4, <1>5, <1>6, <1>7, <1>9, <1>10, <2>1, Zenon DEF Next
  <2>. QED
    BY <2>1, <2>2
<1>. QED
  BY <1>8, <1>10, Zenon

LEMMA CacheMoves ==
    ASSUME [Next]_vars
    PROVE  \/ \E r \in Requests : StoreKeys(r)
           \/ Tick
           \/ UNCHANGED <<cache, cacheAge>>
BY DEF Next, vars, requestVars, Validate, getPublicKey, StartFetch, AnswerJWKS,
       FetchFails, Publish

-----------------------------------------------------------------------------
(* The cache is the newest answer. *)

AnswerIsNewest ==
    \A r \in Requests : At(r, "answered") => request[r].body = newest

LEMMA NextNewest ==
    ASSUME TypeOK, AnswerIsNewest, CacheIsNewestAnswer, [Next]_vars
    PROVE  AnswerIsNewest' /\ CacheIsNewestAnswer'
<1>0. /\ request \in [Requests -> RequestRecord]
      /\ \A r \in Requests : Fetching(r) => fetcher = r
  BY DEF TypeOK
<1>1. newest' = newest \/ \E r \in Requests : AnswerJWKS(r)
  BY DEF Next, vars, requestVars, Validate, getPublicKey, StartFetch, StoreKeys,
         FetchFails, Publish, Tick
<1>2. ASSUME NEW q \in Requests, At(q, "answered")'
      PROVE  request'[q].body = newest'
  <2>1. CASE AnswerJWKS(q)
    BY <1>0, <2>1 DEF AnswerJWKS
  <2>2. CASE Tick /\ SameAnswer(q)
    BY <2>2 DEF Tick, SameAnswer, AnswerIsNewest
  <2>3. CASE ~ (\E r \in Requests : AnswerJWKS(r)) /\ SameAnswer(q)
    BY <1>1, <2>3 DEF SameAnswer, AnswerIsNewest
  <2>. QED
    BY <1>2, <2>1, <2>2, <2>3, AnswerMoves
<1>3. ASSUME \A q \in Requests : ~ At(q, "answered")'
      PROVE  cache' = newest'
  <2>1. CASE \E r \in Requests : StoreKeys(r)
    BY <2>1 DEF StoreKeys, AnswerIsNewest
  <2>2. CASE \E r \in Requests : AnswerJWKS(r)
    BY <1>0, <1>3, <2>2 DEF AnswerJWKS, At
  <2>3. CASE ~ (\E r \in Requests : StoreKeys(r) \/ AnswerJWKS(r))
    <3>1. ASSUME NEW q \in Requests, At(q, "answered") PROVE FALSE
      <4>1. \A r \in Requests : Validate(r) => request'[q] = request[q]
        BY <1>0, <3>1 DEF Validate, At, Outcomes
      <4>2. \A r \in Requests : getPublicKey(r) => request'[q] = request[q]
        BY <1>0, <3>1 DEF getPublicKey, Verdict, At
      <4>3. \A r \in Requests : StartFetch(r) \/ FetchFails(r)
                                    => request'[q] = request[q]
        BY <1>0, <3>1 DEF StartFetch, FetchFails, At
      <4>4. Publish => request'[q].pc = request[q].pc
        BY <1>0 DEF Publish, RequestRecord
      <4>5. Tick => request'[q].pc = request[q].pc
        BY <1>0 DEF Tick, RequestRecord
      <4>6. UNCHANGED vars => request'[q] = request[q]
        BY DEF vars, requestVars
      <4>7. request'[q].pc = "answered"
        BY <2>3, <3>1, <4>1, <4>2, <4>3, <4>4, <4>5, <4>6 DEF Next, At
      <4>. QED
        BY <1>3, <4>7 DEF At
    <3>2. cache = newest
      BY <3>1 DEF CacheIsNewestAnswer
    <3>. QED
      BY <1>1, <2>3, <3>2, CacheMoves DEF Tick
  <2>. QED
    BY <2>1, <2>2, <2>3
<1>4. AnswerIsNewest'
  BY <1>2 DEF AnswerIsNewest, At
<1>. QED
  BY <1>3, <1>4 DEF CacheIsNewestAnswer, At

(***************************************************************************)
(* However many requests fetch, between fetches the cache is what the      *)
(* server answered last.  What makes it inductive: an answer not yet       *)
(* stored is the newest one, since its request holds the lock.             *)
(***************************************************************************)
THEOREM NewestAnswerWins == Spec => []CacheIsNewestAnswer
<1>1. Init => TypeOK /\ AnswerIsNewest /\ CacheIsNewestAnswer
  <2>1. ASSUME Init PROVE AnswerIsNewest /\ CacheIsNewestAnswer
    BY <2>1 DEF Init, Done, At, AnswerIsNewest, CacheIsNewestAnswer
  <2>. QED
    BY <2>1, InitType
<1>2. TypeOK /\ AnswerIsNewest /\ CacheIsNewestAnswer /\ [Next]_vars
        => (TypeOK /\ AnswerIsNewest /\ CacheIsNewestAnswer)'
  BY NextType, NextNewest
<1>. QED
  BY <1>1, <1>2, PTL DEF Spec

-----------------------------------------------------------------------------
(* How long ago a key that may still be used was published. *)

\* Whoever waits for a verdict has a token.
TokenKnown ==
    \A r \in Requests : request[r].pc \notin Outcomes => request[r].key \in Keys

PublishedIsFresh ==
    \A kid \in Kids, k \in Keys :
        published[kid] = k => withdrawn[<<kid, k>>] = 0

\* The keys of an answer were published when the server gave it, which is not
\* longer ago than the fetch has lasted ...
AnswerIsFresh ==
    \A r \in Requests, kid \in Kids, k \in Keys :
        At(r, "answered") /\ request[r].body[kid] = k
            => withdrawn[<<kid, k>>] <= request[r].age

\* ... and than Timeout when the answer is stored.
CacheIsFresh ==
    \A kid \in Kids, k \in Keys :
        cache[kid] = k /\ cacheAge < TTL
            => withdrawn[<<kid, k>>] <= cacheAge + Timeout

FreshInv == TokenKnown /\ PublishedIsFresh /\ AnswerIsFresh /\ CacheIsFresh

LEMMA TokenMoves ==
    ASSUME TypeOK, [Next]_vars, NEW q \in Requests,
           (request[q].pc \notin Outcomes)'
    PROVE  \/ Validate(q)
           \/ /\ request[q].pc \notin Outcomes
              /\ request'[q].kid = request[q].kid
              /\ request'[q].key = request[q].key
              /\ request'[q].steady => request[q].steady
<1>. DEFINE Same == /\ request[q].pc \notin Outcomes
                    /\ request'[q].kid = request[q].kid
                    /\ request'[q].key = request[q].key
                    /\ request'[q].steady => request[q].steady
<1>0. request \in [Requests -> RequestRecord]
  BY DEF TypeOK
<1>1. \A o \in Outcomes : Done(o).pc \in Outcomes
  BY DEF Done
<1>2. ASSUME NEW r \in Requests, Validate(r), r # q PROVE Same
  BY <1>0, <1>2 DEF Validate
<1>3. ASSUME NEW r \in Requests, getPublicKey(r) PROVE Same
  <2>1. CASE Cached(request[r].kid)
    BY <1>0, <1>1, <1>3, <2>1 DEF getPublicKey, Verdict, Outcomes
  <2>2. CASE ~ Cached(request[r].kid)
    <3>1. request' = [request EXCEPT ![r].pc = "lock"] /\ At(r, "read")
      BY <1>3, <2>2 DEF getPublicKey
    <3>. QED
      BY <1>0, <3>1 DEF At, Outcomes, RequestRecord
  <2>. QED
    BY <2>1, <2>2
<1>4. ASSUME NEW r \in Requests, StartFetch(r) PROVE Same
  BY <1>0, <1>4 DEF StartFetch, At, Outcomes, RequestRecord
<1>5. ASSUME NEW r \in Requests, AnswerJWKS(r) PROVE Same
  BY <1>0, <1>5 DEF AnswerJWKS, At, Outcomes, RequestRecord
<1>6. ASSUME NEW r \in Requests, FetchFails(r) PROVE Same
  BY <1>0, <1>1, <1>6 DEF FetchFails, Outcomes
<1>7. ASSUME NEW r \in Requests, StoreKeys(r) PROVE Same
  BY <1>0, <1>1, <1>7 DEF StoreKeys, Verdict, Outcomes
<1>8. ASSUME Publish PROVE Same
  <2>1. request'[q] = [request[q] EXCEPT
              !.steady = @ /\ published'[request[q].kid] = request[q].key]
    BY <1>8 DEF Publish
  <2>2. /\ request'[q].pc = request[q].pc
        /\ request'[q].kid = request[q].kid
        /\ request'[q].key = request[q].key
    BY <1>0, <2>1 DEF RequestRecord
  <2>3. request'[q].steady => request[q].steady
    BY <1>0, <2>1 DEF RequestRecord
  <2>. QED
    BY <2>2, <2>3
<1>9. ASSUME Tick PROVE Same
  <2>1. request'[q] = IF Fetching(q) THEN [request[q] EXCEPT !.age = @ + 1]
                      ELSE request[q]
    BY <1>9 DEF Tick
  <2>. QED
    BY <1>0, <2>1 DEF RequestRecord
<1>10. ASSUME UNCHANGED vars PROVE Same
  BY <1>10 DEF vars, requestVars
<1>. QED
  BY <1>2, <1>3, <1>4, <1>5, <1>6, <1>7, <1>8, <1>9, <1>10, Zenon DEF Next

LEMMA WithdrawnMoves ==
    ASSUME TypeOK, [Next]_vars, NEW kid \in Kids, NEW k \in Keys
    PROVE  /\ withdrawn[<<kid, k>>] \in Nat /\ withdrawn'[<<kid, k>>] \in Nat
           /\ withdrawn'[<<kid, k>>] <= withdrawn[<<kid, k>>] + 1
           /\ ~ Tick => withdrawn'[<<kid, k>>] <= withdrawn[<<kid, k>>]
<1>. DEFINE old == withdrawn[<<kid, k>>]
            new == withdrawn'[<<kid, k>>]
<1>1. <<kid, k>> \in Kids \X Keys
  OBVIOUS
<1>2. Horizon \in Nat
  BY DurationsAssumption DEF Horizon
<1>3. old \in Nat
  BY <1>1, <1>2 DEF TypeOK
<1>4. CASE Publish
  <2>1. new = 0 \/ new = old
    BY <1>1, <1>4 DEF Publish
  <2>. QED
    BY <1>3, <2>1
<1>5. CASE Tick
  <2>1. new = 0 \/ new = Older(old, Horizon)
    BY <1>1, <1>5 DEF Tick
  <2>. QED
    BY <1>2, <1>3, <1>5, <2>1 DEF Older
<1>6. CASE UNCHANGED withdrawn
  BY <1>3, <1>6
<1>. QED
  BY <1>4, <1>5, <1>6 DEF Next, vars, requestVars, Validate, getPublicKey,
     StartFetch, AnswerJWKS, FetchFails, StoreKeys

LEMMA NextFresh ==
    ASSUME TypeOK, FreshInv, [Next]_vars
    PROVE  FreshInv'
<1>. USE DEF FreshInv
<1>0. /\ request \in [Requests -> RequestRecord]
      /\ cacheAge \in Nat /\ TTL \in Nat /\ Timeout \in Nat
      /\ \A r \in Requests : request[r].age \in 0..Timeout
  BY DurationsAssumption DEF TypeOK, RequestRecord
<1>1. TokenKnown'
  <2>. SUFFICES ASSUME NEW q \in Requests, (request[q].pc \notin Outcomes)'
                PROVE  request'[q].key \in Keys
    BY DEF TokenKnown
  <2>1. CASE Validate(q)
    BY <1>0, <2>1, TokensAssumption DEF Validate
  <2>2. CASE /\ request[q].pc \notin Outcomes
             /\ request'[q].key = request[q].key
    BY <2>2 DEF TokenKnown
  <2>. QED
    BY <2>1, <2>2, TokenMoves
<1>2. PublishedIsFresh'
  <2>. SUFFICES ASSUME NEW kid \in Kids, NEW k \in Keys, published'[kid] = k
                PROVE  withdrawn'[<<kid, k>>] = 0
    BY DEF PublishedIsFresh
  <2>1. CASE Publish
    BY <2>1 DEF Publish
  <2>2. CASE Tick
    BY <2>2 DEF Tick
  <2>3. CASE UNCHANGED <<published, withdrawn>>
    BY <2>3 DEF PublishedIsFresh
  <2>. QED
    BY <2>1, <2>2, <2>3 DEF Next, vars, requestVars, Validate, getPublicKey,
       StartFetch, AnswerJWKS, FetchFails, StoreKeys
<1>3. AnswerIsFresh'
  <2>. SUFFICES ASSUME NEW q \in Requests, NEW kid \in Kids, NEW k \in Keys,
                       At(q, "answered")', request'[q].body[kid] = k
                PROVE  withdrawn'[<<kid, k>>] <= request'[q].age
    BY DEF AnswerIsFresh, At
  <2>1. CASE AnswerJWKS(q)
    <3>1. PICK keys \in {published, NoKeys} :
             request' = [request EXCEPT ![q].pc = "answered", ![q].body = keys]
      BY <2>1 DEF AnswerJWKS
    <3>2. keys[kid] = k /\ request'[q].age = request[q].age
      BY <1>0, <3>1 DEF RequestRecord
    <3>3. NoKeys[kid] # k
      BY NamesAssumption DEF NoKeys
    <3>4. published[kid] = k
      BY <3>2, <3>3
    <3>5. withdrawn'[<<kid, k>>] = 0
      BY <2>1, <3>4 DEF AnswerJWKS, PublishedIsFresh
    <3>. QED
      BY <1>0, <3>2, <3>5
  <2>2. CASE Tick /\ SameAnswer(q) /\ request'[q].age = request[q].age + 1
    <3>1. withdrawn[<<kid, k>>] <= request[q].age
      BY <2>2 DEF AnswerIsFresh, SameAnswer
    <3>. QED
      BY <1>0, <2>2, <3>1, WithdrawnMoves
  <2>3. CASE ~ Tick /\ SameAnswer(q) /\ request'[q].age = request[q].age
    <3>1. withdrawn[<<kid, k>>] <= request[q].age
      BY <2>3 DEF AnswerIsFresh, SameAnswer
    <3>. QED
      BY <1>0, <2>3, <3>1, WithdrawnMoves
  <2>4. Tick => request'[q].age = request[q].age + 1 \/ ~ SameAnswer(q)
    BY <1>0 DEF Tick, SameAnswer, At, Fetching, RequestRecord
  <2>. QED
    BY <2>1, <2>2, <2>3, <2>4, AnswerMoves
<1>4. CacheIsFresh'
  <2>. SUFFICES ASSUME NEW kid \in Kids, NEW k \in Keys,
                       cache'[kid] = k, cacheAge' < TTL
                PROVE  withdrawn'[<<kid, k>>] <= cacheAge' + Timeout
    BY DEF CacheIsFresh
  <2>1. CASE \E r \in Requests : StoreKeys(r)
    <3>1. PICK r \in Requests : StoreKeys(r)
      BY <2>1
    <3>2. At(r, "answered") /\ request[r].body[kid] = k
      BY <3>1 DEF StoreKeys
    <3>3. withdrawn[<<kid, k>>] <= request[r].age
      BY <3>2 DEF AnswerIsFresh
    <3>4. withdrawn' = withdrawn /\ cacheAge' = 0
      BY <3>1 DEF StoreKeys
    <3>. QED
      BY <1>0, <3>3, <3>4, WithdrawnMoves
  <2>2. CASE Tick
    <3>1. cache' = cache /\ cacheAge' = Older(cacheAge, TTL)
      BY <2>2 DEF Tick
    <3>2. cacheAge < TTL /\ cacheAge' = cacheAge + 1
      BY <1>0, <3>1 DEF Older
    <3>3. withdrawn[<<kid, k>>] <= cacheAge + Timeout
      BY <3>1, <3>2 DEF CacheIsFresh
    <3>. QED
      BY <1>0, <3>2, <3>3, WithdrawnMoves
  <2>3. CASE ~ Tick /\ UNCHANGED <<cache, cacheAge>>
    <3>1. withdrawn[<<kid, k>>] <= cacheAge + Timeout
      BY <2>3 DEF CacheIsFresh
    <3>. QED
      BY <1>0, <2>3, <3>1, WithdrawnMoves
  <2>. QED
    BY <2>1, <2>2, <2>3, CacheMoves
<1>. QED
  BY <1>1, <1>2, <1>3, <1>4

LEMMA InitFresh == Init => FreshInv
<1>. SUFFICES ASSUME Init PROVE FreshInv
  OBVIOUS
<1>1. \A r \in Requests : request[r].pc = "idle"
  BY DEF Init, Done
<1>2. TokenKnown /\ AnswerIsFresh
  BY <1>1 DEF TokenKnown, AnswerIsFresh, At, Outcomes
<1>3. PublishedIsFresh
  BY DEF PublishedIsFresh, Init
<1>4. CacheIsFresh
  BY NamesAssumption DEF CacheIsFresh, Init, NoKeys
<1>. QED
  BY <1>2, <1>3, <1>4 DEF FreshInv

-----------------------------------------------------------------------------
(* Verdicts. *)

LEMMA VerdictMoves ==
    ASSUME TypeOK, [Next]_vars, NEW q \in Requests,
           NEW v \in {"accepted", "denied"}, Decides(q, v)
    PROVE  \/ /\ Cached(request[q].kid)
              /\ v = "accepted" <=> cache[request[q].kid] = request[q].key
           \/ /\ StoreKeys(q)
              /\ v = "accepted"
                    <=> request[q].body[request[q].kid] = request[q].key
<1>. DEFINE fromCache ==
                /\ Cached(request[q].kid)
                /\ v = "accepted" <=> cache[request[q].kid] = request[q].key
            fromFetch ==
                /\ StoreKeys(q)
                /\ v = "accepted"
                        <=> request[q].body[request[q].kid] = request[q].key
<1>0. /\ request \in [Requests -> RequestRecord]
      /\ request[q].pc \notin Outcomes /\ request'[q].pc = v
  BY DEF TypeOK, Decides, At
<1>1. \A o \in Outcomes : Done(o).pc = o
  BY DEF Done
<1>2. ASSUME NEW r \in Requests, Validate(r) PROVE FALSE
  <2>1. q # r
    BY <1>0, <1>2 DEF Validate
  <2>. QED
    BY <1>0, <1>2, <2>1 DEF Validate, Outcomes
<1>3. ASSUME NEW r \in Requests, getPublicKey(r) PROVE fromCache
  <2>1. CASE Cached(request[r].kid)
    <3>1. Verdict(r, cache)
      BY <1>3, <2>1 DEF getPublicKey
    <3>2. q = r
      BY <1>0, <3>1 DEF Verdict, Outcomes
    <3>3. v = IF cache[request[q].kid] = request[q].key
              THEN "accepted" ELSE "denied"
      BY <1>0, <1>1, <3>1, <3>2 DEF Verdict, Outcomes
    <3>. QED
      BY <2>1, <3>2, <3>3
  <2>2. CASE ~ Cached(request[r].kid)
    <3>1. request' = [request EXCEPT ![r].pc = "lock"]
      BY <1>3, <2>2 DEF getPublicKey
    <3>. QED
      BY <1>0, <3>1 DEF Outcomes, RequestRecord
  <2>. QED
    BY <2>1, <2>2
<1>4. ASSUME NEW r \in Requests, StartFetch(r) PROVE FALSE
  BY <1>0, <1>4 DEF StartFetch, Outcomes, RequestRecord
<1>5. ASSUME NEW r \in Requests, AnswerJWKS(r) PROVE FALSE
  BY <1>0, <1>5 DEF AnswerJWKS, Outcomes, RequestRecord
<1>6. ASSUME NEW r \in Requests, FetchFails(r) PROVE FALSE
  BY <1>0, <1>1, <1>6 DEF FetchFails, Outcomes
<1>7. ASSUME NEW r \in Requests, StoreKeys(r) PROVE fromFetch
  <2>1. Verdict(r, request[r].body)
    BY <1>7 DEF StoreKeys
  <2>2. q = r
    BY <1>0, <2>1 DEF Verdict, Outcomes
  <2>3. v = IF request[q].body[request[q].kid] = request[q].key
            THEN "accepted" ELSE "denied"
    BY <1>0, <1>1, <2>1, <2>2 DEF Verdict, Outcomes
  <2>. QED
    BY <1>7, <2>2, <2>3
<1>8. ASSUME Publish \/ Tick \/ UNCHANGED vars PROVE FALSE
  <2>1. request'[q].pc = request[q].pc
    BY <1>0, <1>8 DEF Publish, Tick, vars, requestVars, RequestRecord
  <2>. QED
    BY <1>0, <2>1 DEF Outcomes
<1>. QED
  BY <1>2, <1>3, <1>4, <1>5, <1>6, <1>7, <1>8, Zenon DEF Next

LEMMA AcceptedIsFresh ==
    ASSUME TypeOK, FreshInv, [Next]_vars, NEW q \in Requests,
           Decides(q, "accepted")
    PROVE  withdrawn[<<request[q].kid, request[q].key>>] < Horizon
<1>. DEFINE kid == request[q].kid
            key == request[q].key
<1>1. kid \in Kids /\ key \in Keys /\ request[q].age \in 0..Timeout
  BY DEF TypeOK, RequestRecord, FreshInv, TokenKnown, Decides
<1>2. withdrawn[<<kid, key>>] \in Nat
  BY <1>1, WithdrawnMoves
<1>3. /\ cacheAge \in Nat /\ TTL \in Nat /\ Timeout \in Nat
      /\ Horizon \in Nat /\ Horizon >= TTL + Timeout /\ Horizon > Timeout
  BY DurationsAssumption DEF TypeOK, Horizon
<1>4. CASE Cached(kid) /\ cache[kid] = key
  <2>1. cacheAge < TTL /\ withdrawn[<<kid, key>>] <= cacheAge + Timeout
    BY <1>1, <1>4 DEF Cached, FreshInv, CacheIsFresh
  <2>. QED
    BY <1>2, <1>3, <2>1
<1>5. CASE StoreKeys(q) /\ request[q].body[kid] = key
  <2>1. withdrawn[<<kid, key>>] <= request[q].age
    BY <1>1, <1>5 DEF StoreKeys, FreshInv, AnswerIsFresh
  <2>. QED
    BY <1>1, <1>2, <1>3, <2>1
<1>. QED
  BY <1>4, <1>5, VerdictMoves

(***************************************************************************)
(* A withdrawn key is of no use for longer than the time to live of the    *)
(* cache and the duration of one fetch.  What makes it inductive: a key    *)
(* in an answer was published when the fetch began at the latest, one in   *)
(* the cache at most Timeout before its age was set to zero.               *)
(***************************************************************************)
THEOREM StaleKeysExpire == Spec => StaleKeyBound
<1>1. Init => TypeOK /\ FreshInv
  BY InitType, InitFresh
<1>2. TypeOK /\ FreshInv /\ [Next]_vars => (TypeOK /\ FreshInv)'
  BY NextType, NextFresh
<1>3. TypeOK /\ FreshInv /\ [Next]_vars
        => [\A r \in Requests : Decides(r, "accepted")
              => withdrawn[<<request[r].kid, request[r].key>>] < Horizon]_vars
  BY AcceptedIsFresh
<1>. QED
  BY <1>1, <1>2, <1>3, PTL DEF Spec, StaleKeyBound

-----------------------------------------------------------------------------
(* Keys that were published all the time. *)

SteadyIsPublished ==
    \A r \in Requests :
        request[r].pc \notin Outcomes /\ request[r].steady
            => published[request[r].kid] = request[r].key

\* An answer has the key of a request that was there before and still is.
AnswerHasSteadyKey ==
    \A r \in Requests :
        At(r, "answered") /\ request[r].steady /\ request[r].body # NoKeys
            => request[r].body[request[r].kid] = request[r].key

SteadyInv == SteadyIsPublished /\ AnswerHasSteadyKey

LEMMA NextSteady ==
    ASSUME TypeOK, SteadyInv, [Next]_vars
    PROVE  SteadyInv'
<1>. USE DEF SteadyInv
<1>0. request \in [Requests -> RequestRecord]
  BY DEF TypeOK
<1>1. SteadyIsPublished'
  <2>. SUFFICES ASSUME NEW q \in Requests, (request[q].pc \notin Outcomes)',
                       request'[q].steady
                PROVE  published'[request'[q].kid] = request'[q].key
    BY DEF SteadyIsPublished
  <2>1. CASE Validate(q)
    <3>1. PICK t \in Tokens : request' = [request EXCEPT ![q] =
              [pc |-> "read", kid |-> t.kid, key |-> t.key, age |-> 0,
               body |-> NoKeys, steady |-> published[t.kid] = t.key]]
      BY <2>1 DEF Validate
    <3>2. /\ request'[q].kid = t.kid /\ request'[q].key = t.key
          /\ request'[q].steady = (published[t.kid] = t.key)
      BY <1>0, <3>1
    <3>. QED
      BY <2>1, <3>2 DEF Validate
  <2>2. CASE ~ Validate(q)
    <3>1. /\ request[q].pc \notin Outcomes /\ request[q].steady
          /\ request'[q].kid = request[q].kid
          /\ request'[q].key = request[q].key
      BY <2>2, TokenMoves
    <3>2. CASE Publish
      <4>1. request'[q] = [request[q] EXCEPT
              !.steady = @ /\ published'[request[q].kid] = request[q].key]
        BY <3>2 DEF Publish
      <4>2. request'[q].steady
              = (request[q].steady /\ published'[request[q].kid] = request[q].key)
        BY <1>0, <4>1 DEF RequestRecord
      <4>. QED
        BY <3>1, <4>2
    <3>3. CASE UNCHANGED published
      BY <3>1, <3>3 DEF SteadyIsPublished
    <3>. QED
      BY <3>2, <3>3 DEF Next, vars, Validate, getPublicKey, StartFetch,
         AnswerJWKS, FetchFails, StoreKeys, Tick
  <2>. QED
    BY <2>1, <2>2
<1>2. AnswerHasSteadyKey'
  <2>. SUFFICES ASSUME NEW q \in Requests, At(q, "answered")',
                       request'[q].steady, request'[q].body # NoKeys
                PROVE  request'[q].body[request'[q].kid] = request'[q].key
    BY DEF AnswerHasSteadyKey, At
  <2>1. CASE AnswerJWKS(q)
    <3>1. PICK keys \in {published, NoKeys} :
             request' = [request EXCEPT ![q].pc = "answered", ![q].body = keys]
      BY <2>1 DEF AnswerJWKS
    <3>2. /\ request'[q].body = keys /\ request'[q].kid = request[q].kid
          /\ request'[q].key = request[q].key
          /\ request'[q].steady = request[q].steady
      BY <1>0, <3>1 DEF RequestRecord
    <3>3. keys = published
      BY <3>2
    <3>4. request[q].pc \notin Outcomes
      BY <2>1 DEF AnswerJWKS, At, Outcomes
    <3>. QED
      BY <3>2, <3>3, <3>4 DEF SteadyIsPublished
  <2>2. CASE SameAnswer(q) /\ request[q].steady
    BY <2>2 DEF SameAnswer, AnswerHasSteadyKey
  <2>. QED
    BY <2>1, <2>2, AnswerMoves
<1>. QED
  BY <1>1, <1>2

LEMMA DeniedForCause ==
    ASSUME TypeOK, FreshInv, SteadyInv, [Next]_vars, NEW q \in Requests,
           Decides(q, "denied"), request[q].steady,
           ~ (At(q, "answered") /\ request[q].body = NoKeys)
    PROVE  \E k \in Keys \ {request[q].key} :
                withdrawn[<<request[q].kid, k>>] < Horizon
<1>. DEFINE kid == request[q].kid
            key == request[q].key
<1>1. kid \in Kids
  BY DEF TypeOK, RequestRecord
<1>2. ~ (StoreKeys(q) /\ request[q].body[kid] # key)
  BY DEF StoreKeys, SteadyInv, AnswerHasSteadyKey
<1>3. Cached(kid) /\ cache[kid] # key
  BY <1>2, VerdictMoves
<1>4. cache[kid] \in Keys /\ cacheAge < TTL
  BY <1>1, <1>3 DEF Cached, TypeOK, KeySets
<1>5. withdrawn[<<kid, cache[kid]>>] <= cacheAge + Timeout
  BY <1>1, <1>4 DEF FreshInv, CacheIsFresh
<1>6. /\ cacheAge \in Nat /\ TTL \in Nat /\ Timeout \in Nat
      /\ Horizon \in Nat /\ Horizon >= TTL + Timeout /\ Horizon > Timeout
  BY DurationsAssumption DEF TypeOK, Horizon
<1>7. withdrawn[<<kid, cache[kid]>>] \in Nat
  BY <1>1, <1>4, WithdrawnMoves
<1>8. withdrawn[<<kid, cache[kid]>>] < Horizon
  BY <1>4, <1>5, <1>6, <1>7
<1>. QED
  BY <1>3, <1>4, <1>8

(***************************************************************************)
(* A token whose key was published all along is only denied when its fetch *)
(* brings nothing or when the cache may hold the former key of its id.     *)
(***************************************************************************)
THEOREM NewKeysAreFound == Spec => NoFalseDenial
<1>1. Init => TypeOK /\ FreshInv /\ SteadyInv
  <2>1. ASSUME Init PROVE SteadyInv
    BY <2>1 DEF Init, Done, At, Outcomes, SteadyInv, SteadyIsPublished,
       AnswerHasSteadyKey
  <2>. QED
    BY <2>1, InitType, InitFresh
<1>2. TypeOK /\ FreshInv /\ SteadyInv /\ [Next]_vars
        => (TypeOK /\ FreshInv /\ SteadyInv)'
  BY NextType, NextFresh, NextSteady
<1>3. TypeOK /\ FreshInv /\ SteadyInv /\ [Next]_vars
        => [\A r \in Requests :
              /\ Decides(r, "denied") /\ request[r].steady
              /\ ~ (At(r, "answered") /\ request[r].body = NoKeys)
              => \E k \in Keys \ {request[r].key} :
                      withdrawn[<<request[r].kid, k>>] < Horizon]_vars
  BY DeniedForCause
<1>. QED
  BY <1>1, <1>2, <1>3, PTL DEF Spec, NoFalseDenial
=============================================================================
