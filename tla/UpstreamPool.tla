---------------------------- MODULE UpstreamPool ----------------------------
(***************************************************************************)
(* A pool of backends behind one route (internal/proxy/upstream.go): the   *)
(* round-robin choice of a backend for a request, the passive health       *)
(* tracking that a failed request feeds, and the active health checks.     *)
(*                                                                         *)
(* Every request runs in a goroutine of its own, and so does every health  *)
(* check of every backend.  They meet in atomic fields - Alive, Failures,  *)
(* Successes, current - that are each updated atomically but never         *)
(* together: the lock of the pool is only ever taken for reading.          *)
(*                                                                         *)
(* A pool without backends fails every request at line 129 and is left     *)
(* out.  The backends have different hosts, so that ReportFailure finds    *)
(* the one that failed.                                                    *)
(***************************************************************************)
EXTENDS Integers, FiniteSets

CONSTANTS
    Count,                  \* number of backends
    Requests,               \* requests that can be in flight at a time
    Overlap,                \* checks of one backend that can run at a time;
                            \* 0 when health_check.interval_s is 0
    UnhealthyThreshold,     \* health_check.unhealthy_threshold
    HealthyThreshold,       \* health_check.healthy_threshold
    CounterMax,             \* counters stop here; exact at and above both
                            \* thresholds, which is all the code looks at
    TicketWrap,             \* 2^32: the modulus of the ticket counter
    Conditions              \* what may be the matter with a backend: "up",
                            \* "down", or "sick" when its health endpoint
                            \* answers and requests get 5xx responses

Backends == 0..(Count - 1)
Probes   == Backends \X (1..Overlap)
Workers  == Requests \cup Probes

ASSUME CountAssumption == Count \in Nat \ {0} /\ TicketWrap \in Nat \ {0}
ASSUME ThresholdAssumption ==
    /\ {UnhealthyThreshold, HealthyThreshold, CounterMax, Overlap} \subseteq Nat
    /\ UnhealthyThreshold <= CounterMax
    /\ HealthyThreshold <= CounterMax
ASSUME ConditionsAssumption == Conditions \subseteq {"up", "sick", "down"}
ASSUME WorkersAssumption == IsFiniteSet(Requests) /\ Requests \cap Probes = {}

VARIABLES
    Alive,          \* backend -> BOOLEAN
    Failures,       \* backend -> failures in a row
    Successes,      \* backend -> successful checks in a row
    current,        \* the ticket counter
    condition,      \* backend -> what is really the matter with it
    worker,         \* goroutine -> what it is doing
    died,           \* history: some backend was marked down before
    picked          \* history: picks of each backend so far, less the picks
                    \* of the backend picked least; kept until one dies

health == <<Alive, Failures, Successes>>
vars == <<health, current, condition, worker, died, picked>>

Idle == [pc |-> "idle", backend |-> 0, start |-> 0, i |-> 0, count |-> 0,
         seen |-> {}]

At(w, step) == worker[w].pc = step

Goto(w, step) == worker' = [worker EXCEPT ![w].pc = step]

Finish(w) == worker' = [worker EXCEPT ![w] = Idle]

Init ==
    /\ Alive = [b \in Backends |-> TRUE]
    /\ Failures = [b \in Backends |-> 0]
    /\ Successes = [b \in Backends |-> 0]
    /\ current = 0
    /\ condition \in [Backends -> Conditions]
    /\ worker = [w \in Workers |-> Idle]
    /\ died = FALSE
    /\ picked = [b \in Backends |-> 0]

-----------------------------------------------------------------------------
(* Choosing a backend: GetNext. *)

\* Faulty variants: no wrap-around, no advance.
NextTicket_Unbounded(ticket) == ticket + 1

NextTicket_Stuck(ticket) == ticket

NextTicket(ticket) == (ticket + 1) % TicketWrap

\* current.Add(1) is the only write.
TakeTicket(r) ==
    /\ At(r, "idle")
    /\ current' = NextTicket(current)
    /\ worker' = [worker EXCEPT ![r].pc = "scan", ![r].start = NextTicket(current)]
    /\ UNCHANGED <<health, condition, died, picked>>

\* Faulty variant: every round looks at the same backend.
Index_First(start, i) == start % Count

\* start + i is a uint32 and wraps before it is reduced to an index.
Index(start, i) == ((start + i) % TicketWrap) % Count

Candidate(r) == Index(worker[r].start, worker[r].i)

Least(f) == CHOOSE n \in {f[b] : b \in Backends} :
                \A b \in Backends : n <= f[b]

\* One round of the loop finds its candidate alive and returns it.
PickBackend(r) ==
    LET b     == Candidate(r)
        picks == [picked EXCEPT ![b] = @ + 1]
    IN  /\ At(r, "scan")
        /\ Alive[b]
        /\ worker' = [worker EXCEPT ![r].pc = "send", ![r].backend = b,
                                    ![r].start = 0, ![r].i = 0, ![r].seen = {}]
        /\ picked' = IF died THEN picked
                     ELSE [c \in Backends |-> picks[c] - Least(picks)]
        /\ UNCHANGED <<health, current, condition, died>>

\* Another round finds it down and goes on, or gives up after the last one.
SkipBackend(r) ==
    LET b == Candidate(r)
    IN  /\ At(r, "scan")
        /\ ~ Alive[b]
        /\ worker' = [worker EXCEPT
                ![r].pc = IF worker[r].i + 1 < Count THEN "scan" ELSE "none",
                ![r].i = @ + 1,
                ![r].seen = @ \cup {b}]
        /\ UNCHANGED <<health, current, condition, died, picked>>

\* "no healthy upstreams available": the proxy's error handler answers 502.
NoUpstream(r) ==
    /\ At(r, "none")
    /\ Finish(r)
    /\ UNCHANGED <<health, current, condition, died, picked>>

-----------------------------------------------------------------------------
(* Requests and checks. *)

\* RoundTrip to the chosen backend; an error and a 5xx response both end in
\* ReportFailure.  A route's timeout_ms is never applied.
RoundTrip(r) ==
    /\ At(r, "send")
    /\ \/ condition[worker[r].backend] = "up" /\ Finish(r)
       \/ condition[worker[r].backend] # "up" /\ Goto(r, "failed")
    /\ UNCHANGED <<health, current, condition, died, picked>>

\* The client goes away, which cancels the context of the request: that, too,
\* is an error of RoundTrip and is charged to the backend.
ClientAborts(r) ==
    /\ At(r, "send")
    /\ Goto(r, "failed")
    /\ UNCHANGED <<health, current, condition, died, picked>>

\* The ticker of activeHealthCheck starts a goroutine for each backend
\* whether or not the one before has ended.
StartCheck(p) ==
    /\ At(p, "idle")
    /\ worker' = [worker EXCEPT ![p].pc = "get", ![p].backend = p[1]]
    /\ UNCHANGED <<health, current, condition, died, picked>>

\* The answer, or the error after timeout_ms.
GetHealth(p) ==
    /\ At(p, "get")
    /\ Goto(p, IF condition[worker[p].backend] = "down" THEN "failed" ELSE "healthy")
    /\ UNCHANGED <<health, current, condition, died, picked>>

-----------------------------------------------------------------------------
(* The atomic operations of checkBackend and ReportFailure. *)

Up1(n) == IF n < CounterMax THEN n + 1 ELSE n

AddFailure(w) ==
    /\ At(w, "failed")
    /\ Failures' = [Failures EXCEPT ![worker[w].backend] = Up1(@)]
    /\ worker' = [worker EXCEPT ![w].pc = "clearSuccesses",
                    ![w].count = Up1(Failures[worker[w].backend])]
    /\ UNCHANGED <<Alive, Successes, current, condition, died, picked>>

ClearSuccesses(w) ==
    /\ At(w, "clearSuccesses")
    /\ Successes' = [Successes EXCEPT ![worker[w].backend] = 0]
    /\ Goto(w, "mayMarkDown")
    /\ UNCHANGED <<Alive, Failures, current, condition, died, picked>>

\* Faulty variants: a threshold that can be stepped over.
TooManyFailures_Exactly(n) == n = UnhealthyThreshold

EnoughSuccesses_Exactly(n) == n = HealthyThreshold

TooManyFailures(n) == n >= UnhealthyThreshold

MarkDown(w) ==
    LET down == TooManyFailures(worker[w].count)
    IN  /\ At(w, "mayMarkDown")
        /\ Alive' = [Alive EXCEPT ![worker[w].backend] = @ /\ ~ down]
        /\ died' = (died \/ down)
        /\ picked' = IF down THEN [b \in Backends |-> 0] ELSE picked
        /\ Finish(w)
        /\ UNCHANGED <<Failures, Successes, current, condition>>

AddSuccess(w) ==
    /\ At(w, "healthy")
    /\ Successes' = [Successes EXCEPT ![worker[w].backend] = Up1(@)]
    /\ worker' = [worker EXCEPT ![w].pc = "clearFailures",
                    ![w].count = Up1(Successes[worker[w].backend])]
    /\ UNCHANGED <<Alive, Failures, current, condition, died, picked>>

ClearFailures(w) ==
    /\ At(w, "clearFailures")
    /\ Failures' = [Failures EXCEPT ![worker[w].backend] = 0]
    /\ Goto(w, "mayMarkUp")
    /\ UNCHANGED <<Alive, Successes, current, condition, died, picked>>

EnoughSuccesses(n) == n >= HealthyThreshold

MarkUp(w) ==
    /\ At(w, "mayMarkUp")
    /\ Alive' = [Alive EXCEPT ![worker[w].backend] =
                    @ \/ EnoughSuccesses(worker[w].count)]
    /\ Finish(w)
    /\ UNCHANGED <<Failures, Successes, current, condition, died, picked>>

\* A step of a goroutine that is at work.
Step(w) ==
    \/ AddFailure(w) \/ ClearSuccesses(w) \/ MarkDown(w)
    \/ AddSuccess(w) \/ ClearFailures(w) \/ MarkUp(w)

RequestStep(r) ==
    PickBackend(r) \/ SkipBackend(r) \/ NoUpstream(r) \/ RoundTrip(r) \/ Step(r)

ProbeStep(p) == StartCheck(p) \/ GetHealth(p) \/ Step(p)

\* A backend breaks down or recovers.
Change(b) ==
    /\ condition' \in {[condition EXCEPT ![b] = c] : c \in Conditions}
    /\ condition' # condition
    /\ UNCHANGED <<health, current, worker, died, picked>>

Next ==
    \/ \E r \in Requests : TakeTicket(r) \/ RequestStep(r) \/ ClientAborts(r)
    \/ \E p \in Probes : ProbeStep(p)
    \/ \E b \in Backends : Change(b)

\* Goroutines are scheduled and the ticker ticks; requests need not come, and
\* clients need not go away.
Fairness ==
    /\ \A r \in Requests : WF_vars(RequestStep(r))
    /\ \A p \in Probes : WF_vars(ProbeStep(p))

Spec == Init /\ [][Next]_vars /\ Fairness

-----------------------------------------------------------------------------
(* Properties. *)

WorkerRecord ==
    [pc : {"idle", "scan", "send", "none", "get", "failed", "clearSuccesses",
           "mayMarkDown", "healthy", "clearFailures", "mayMarkUp"},
     backend : Backends, start : 0..(TicketWrap - 1), i : 0..Count,
     count : 0..CounterMax, seen : SUBSET Backends]

\* The shape of the state.
TypeOK ==
    /\ Alive \in [Backends -> BOOLEAN]
    /\ Failures \in [Backends -> 0..CounterMax]
    /\ Successes \in [Backends -> 0..CounterMax]
    /\ current \in 0..(TicketWrap - 1)
    /\ condition \in [Backends -> Conditions]
    /\ worker \in [Workers -> WorkerRecord]
    /\ died \in BOOLEAN
    /\ picked \in [Backends -> Nat]

\* The error "no healthy upstreams available" (line 143) is only returned
\* when every backend was marked down at some moment of the call, although
\* the backends are looked at one by one while checks mark them up and down.
NoUpstreamMeansAllDown ==
    \A r \in Requests : At(r, "none") => worker[r].seen = Backends

\* "Round-robin backend selection" (README.md:65): as long as no backend was
\* ever marked down, no two backends' picks differ by more than one, but for
\* the requests that hold a ticket and have not picked yet.
EvenSpread ==
    ~ died => \A b, c \in Backends :
        picked[b] - picked[c]
            <= 1 + Cardinality({r \in Requests : At(r, "scan")})

\* A backend that stays up never stays marked down, whatever results of older
\* checks and requests are still on their way into its counters and however
\* often clients go away (lines 88-123, 164-168).
UpComesBack == \A b \in Backends :
    <>[](condition[b] = "up") => []<>(Alive[b])

\* If in the end no client goes away any more, it stays marked up.
UpIsFound == \A b \in Backends :
    /\ <>[](condition[b] = "up")
    /\ <>[][\A r \in Requests : ~ ClientAborts(r)]_vars
    => <>[](Alive[b])

\* A backend that stays down is marked down in the end and stays so.
DownIsFound == \A b \in Backends :
    <>[](condition[b] = "down") => <>[](~ Alive[b])
=============================================================================
