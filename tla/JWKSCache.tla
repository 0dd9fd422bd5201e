----------------------------- MODULE JWKSCache ------------------------------
(***************************************************************************)
(* Token validation with RS256 (internal/auth/jwt.go): requests look up    *)
(* the key a token names in a cache of the issuer's key set, and a request *)
(* that misses fetches the set again, with the cache's lock held from      *)
(* before the HTTP request until after the map was replaced.  The issuer   *)
(* publishes, rebinds and withdraws keys at any time.                      *)
(*                                                                         *)
(* A token is the key id it names and the key that signed it; it is        *)
(* accepted when the cache gives that key for that id.  Tokens whose       *)
(* claims or issuer are refused end the same way whatever the cache holds  *)
(* and are left out, as is HS256, which uses no cache.  A read section of  *)
(* the lock has one read of each field and is one action.                  *)
(*                                                                         *)
(* There is no clock: what the code and the properties look at are         *)
(* durations, kept as ages that grow with Tick and stop where nothing      *)
(* tells them apart any more.                                              *)
(***************************************************************************)
EXTENDS Integers

CONSTANTS
    Requests,       \* requests that are validated at the same time
    Kids,           \* key ids
    Keys,           \* RSA public keys
    NoKey,          \* no entry, or one that is not RSA or cannot be decoded
    Nobody,         \* the lock is free
    Publications,   \* key sets the issuer may publish
    Tokens,         \* [kid, key] of the tokens that arrive
    TTL,            \* jwks_cache_ttl
    Timeout         \* of the HTTP client: 10 s in the code

KeySets == [Kids -> Keys \cup {NoKey}]

NoKeys == [kid \in Kids |-> NoKey]

ASSUME NamesAssumption ==
    Kids # {} /\ NoKey \notin Keys /\ Nobody \notin Requests
ASSUME PublicationsAssumption == Publications \subseteq KeySets
ASSUME TokensAssumption == Tokens \subseteq [kid : Kids, key : Keys]
ASSUME DurationsAssumption == {TTL, Timeout} \subseteq Nat

\* How long a key can be of use after it was withdrawn: with a time to live
\* of 0 nothing is read from the cache, and a key is of use while it is
\* fetched.
Horizon == (IF TTL = 0 THEN 1 ELSE TTL) + Timeout

VARIABLES
    published,      \* what the issuer's server answers
    cache,          \* jwksCache
    cacheAge,       \* time since jwksLastFetch; TTL stands for more, too
    fetcher,        \* who holds the lock for writing
    request,        \* request -> where it is
    withdrawn,      \* history: <<kid, key>> -> time since it was published;
                    \* Horizon stands for more, too, and for never
    newest          \* history: the answer the server gave last

requestVars == <<cache, cacheAge, fetcher, request, newest>>
vars == <<published, withdrawn, requestVars>>

At(r, step) == request[r].pc = step

\* A request with no token before it: none yet, or what became of the last.
\* steady: the token's key was published for its id since the request came.
Done(outcome) == [pc |-> outcome, kid |-> CHOOSE k \in Kids : TRUE,
                  key |-> NoKey, age |-> 0, body |-> NoKeys, steady |-> FALSE]

Outcomes == {"idle", "accepted", "denied", "failed"}

Init ==
    /\ published \in Publications
    /\ withdrawn = [p \in Kids \X Keys |->
                        IF published[p[1]] = p[2] THEN 0 ELSE Horizon]
    /\ cache = NoKeys
    /\ cacheAge = TTL
    /\ fetcher = Nobody
    /\ request = [r \in Requests |-> Done("idle")]
    /\ newest = NoKeys

-----------------------------------------------------------------------------
(* Validate and getPublicKey. *)

Validate(r) ==
    /\ request[r].pc \in Outcomes
    /\ \E t \in Tokens :
          request' = [request EXCEPT ![r] =
              [pc |-> "read", kid |-> t.kid, key |-> t.key, age |-> 0,
               body |-> NoKeys, steady |-> published[t.kid] = t.key]]
    /\ UNCHANGED <<published, withdrawn, cache, cacheAge, fetcher, newest>>

\* Faulty variants: the age is not looked at, or only the age.
Cached_AnyAge(kid) == cache[kid] # NoKey

Cached_AgeOnly(kid) == cacheAge < TTL

Cached(kid) == cache[kid] # NoKey /\ cacheAge < TTL

\* The signature is checked with the key found.
Verdict(r, keys) ==
    request' = [request EXCEPT ![r] = Done(
        IF keys[request[r].kid] = request[r].key THEN "accepted" ELSE "denied")]

\* RLock waits while another request holds the lock to fetch.
getPublicKey(r) ==
    /\ At(r, "read")
    /\ fetcher = Nobody
    /\ IF Cached(request[r].kid)
          THEN Verdict(r, cache)
          ELSE request' = [request EXCEPT ![r].pc = "lock"]
    /\ UNCHANGED <<published, withdrawn, cache, cacheAge, fetcher, newest>>

-----------------------------------------------------------------------------
(* fetchJWKS. *)

\* Faulty variant: the lock is not held during the fetch.
CanLock_Always == TRUE

CanLock == fetcher = Nobody

\* Lock, and the request to the server.  The cache is not looked at again.
StartFetch(r) ==
    /\ At(r, "lock")
    /\ CanLock
    /\ fetcher' = r
    /\ request' = [request EXCEPT ![r].pc = "fetch"]
    /\ UNCHANGED <<published, withdrawn, cache, cacheAge, newest>>

\* The server writes its answer: its keys, or a JSON document without any,
\* since the status code is not looked at.
AnswerJWKS(r) ==
    /\ At(r, "fetch")
    /\ \E keys \in {published, NoKeys} :
          /\ newest' = keys
          /\ request' = [request EXCEPT ![r].pc = "answered", ![r].body = keys]
    /\ UNCHANGED <<published, withdrawn, cache, cacheAge, fetcher>>

\* Faulty variant: an error returns with the lock held.
AfterError_Locked == fetcher

AfterError == Nobody

\* No URL, no connection, no answer in time, a body cut short or that is not JSON:
\* the cache stays as it was, and its age too.
FetchFails(r) ==
    /\ At(r, "fetch")
    /\ fetcher' = AfterError
    /\ request' = [request EXCEPT ![r] = Done("failed")]
    /\ UNCHANGED <<published, withdrawn, cache, cacheAge, newest>>

\* The map is replaced and its age starts again; then the lock is released.
StoreKeys(r) ==
    /\ At(r, "answered")
    /\ cache' = request[r].body
    /\ cacheAge' = 0
    /\ fetcher' = Nobody
    /\ Verdict(r, request[r].body)
    /\ UNCHANGED <<published, withdrawn, newest>>

-----------------------------------------------------------------------------
(* The issuer, and time. *)

Publish ==
    /\ published' \in Publications \ {published}
    /\ withdrawn' = [p \in Kids \X Keys |->
                        IF published'[p[1]] = p[2] THEN 0 ELSE withdrawn[p]]
    /\ request' = [r \in Requests |-> [request[r] EXCEPT
                        !.steady = @ /\ published'[request[r].kid] = request[r].key]]
    /\ UNCHANGED <<cache, cacheAge, fetcher, newest>>

Fetching(r) == request[r].pc \in {"fetch", "answered"}

Older(age, limit) == IF age < limit THEN age + 1 ELSE age

\* The client's timeout ends a fetch, reading the body included, in time.
Tick ==
    /\ \A r \in Requests : Fetching(r) => request[r].age < Timeout
    /\ cacheAge' = Older(cacheAge, TTL)
    /\ withdrawn' = [p \in Kids \X Keys |->
            IF published[p[1]] = p[2] THEN 0 ELSE Older(withdrawn[p], Horizon)]
    /\ request' = [r \in Requests |-> IF Fetching(r)
                        THEN [request[r] EXCEPT !.age = @ + 1] ELSE request[r]]
    /\ UNCHANGED <<published, cache, fetcher, newest>>

FetchEnds(r) == AnswerJWKS(r) \/ FetchFails(r)

Next ==
    \/ \E r \in Requests :
          \/ Validate(r) \/ getPublicKey(r) \/ StartFetch(r) \/ AnswerJWKS(r)
          \/ FetchFails(r) \/ StoreKeys(r)
    \/ Publish \/ Tick

\* Goroutines are scheduled, the client's timeout ends a fetch, and the
\* RWMutex passes nobody over for ever: readers that waited for a writer go
\* before the next one, and writers take their turns.
Fairness ==
    \A r \in Requests :
        /\ SF_vars(getPublicKey(r)) /\ SF_vars(StartFetch(r))
        /\ WF_vars(FetchEnds(r)) /\ WF_vars(StoreKeys(r))

Spec == Init /\ [][Next]_vars /\ Fairness

-----------------------------------------------------------------------------
(* Properties. *)

RequestRecord ==
    [pc : Outcomes \cup {"read", "lock", "fetch", "answered"},
     kid : Kids, key : Keys \cup {NoKey}, age : 0..Timeout, body : KeySets,
     steady : BOOLEAN]

\* The shape of the state; whoever fetches holds the lock.
TypeOK ==
    /\ published \in Publications
    /\ withdrawn \in [Kids \X Keys -> 0..Horizon]
    /\ cache \in KeySets
    /\ cacheAge \in 0..TTL
    /\ fetcher \in Requests \cup {Nobody}
    /\ request \in [Requests -> RequestRecord]
    /\ newest \in KeySets
    /\ \A r \in Requests : Fetching(r) => fetcher = r

Decides(r, verdict) == request[r].pc \notin Outcomes /\ (At(r, verdict))'

\* A withdrawn key is of no use for long: a token is only accepted if its key
\* was published within the time to live of the cache and the duration of one
\* fetch (lines 90 and 125-136: the age counts from after the answer, not
\* from when the server gave it).
StaleKeyBound ==
    [][\A r \in Requests : Decides(r, "accepted")
            => withdrawn[<<request[r].kid, request[r].key>>] < Horizon]_vars

\* A new key is found at once: a token whose key was published under its id
\* ever since the request came is only denied when its own fetch fails or is
\* answered without keys, or when the id was bound to another key not long ago,
\* which the cache may still hold (lines 90-96, 159-163).
NoFalseDenial ==
    [][\A r \in Requests :
            /\ Decides(r, "denied") /\ request[r].steady
            /\ ~ (At(r, "answered") /\ request[r].body = NoKeys)
            => \E k \in Keys \ {request[r].key} :
                    withdrawn[<<request[r].kid, k>>] < Horizon]_vars

\* An older answer never overwrites a newer one, however many requests fetch:
\* between fetches the cache is what the server answered last.
CacheIsNewestAnswer ==
    (\A r \in Requests : ~ At(r, "answered")) => cache = newest

\* Every request comes to a verdict, although each one that misses holds the
\* lock while it waits for the server and a fetch may fail at any point.
EveryTokenIsJudged ==
    \A r \in Requests : At(r, "read") ~> request[r].pc \in Outcomes
=============================================================================
