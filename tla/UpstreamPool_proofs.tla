------------------------ MODULE UpstreamPool_proofs -------------------------
(***************************************************************************)
(* Safety of the pool for any number of backends, requests and checks and  *)
(* any thresholds: the shape of its state, and that a request which is     *)
(* told there is no healthy upstream has seen every backend marked down -  *)
(* provided the number of backends divides the modulus of the ticket       *)
(* counter, which the run upstream_wrap shows to be necessary.             *)
(***************************************************************************)
EXTENDS UpstreamPool, DataFacts, FiniteSetTheorems, TLAPS

LEMMA Numbers ==
    /\ Count \in Nat /\ Count > 0
    /\ TicketWrap \in Nat /\ TicketWrap > 0
    /\ CounterMax \in Nat
    /\ 0 \in Backends
  BY CountAssumption, ThresholdAssumption DEF Backends

-----------------------------------------------------------------------------
(* The shape of the state. *)

LEMMA LeastBound ==
  ASSUME NEW f \in [Backends -> Nat]
  PROVE  Least(f) \in Nat /\ \A b \in Backends : Least(f) <= f[b]
<1> DEFINE S == {f[b] : b \in Backends}
<1>1. S \in SUBSET Nat /\ S # {}
  BY Numbers
<1>2. \E n \in S : \A k \in S : n <= k
  BY <1>1, LeastNatural
<1>3. \E n \in S : \A b \in Backends : n <= f[b]
  BY <1>2
<1>4. Least(f) \in S /\ \A b \in Backends : Least(f) <= f[b]
  BY <1>3 DEF Least
<1> QED
  BY <1>1, <1>4

LEMMA InitType == Init => TypeOK
<1> SUFFICES ASSUME Init PROVE TypeOK
  OBVIOUS
<1>1. Idle \in WorkerRecord
  BY Numbers DEF Idle, WorkerRecord
<1>2. worker \in [Workers -> WorkerRecord]
  BY <1>1 DEF Init
<1>3. Alive \in [Backends -> BOOLEAN] /\ died \in BOOLEAN
  BY DEF Init
<1>4. 0 \in 0..CounterMax /\ 0 \in 0..(TicketWrap - 1)
  BY Numbers
<1> QED
  BY <1>2, <1>3, <1>4 DEF Init, TypeOK

LEMMA CountUp == ASSUME NEW n \in 0..CounterMax PROVE Up1(n) \in 0..CounterMax
  BY Numbers DEF Up1

LEMMA IndexType ==
  ASSUME NEW s \in Nat, NEW j \in Nat
  PROVE  Index(s, j) \in Backends
<1>1. (s + j) % TicketWrap \in Nat
  BY Numbers, Division
<1> QED
  BY <1>1, Numbers, Division DEF Index, Backends

\* What the steps of one goroutine leave alone.
LEMMA WorkerType ==
  ASSUME TypeOK, NEW w \in Workers, NEW v \in WorkerRecord,
         worker' = [worker EXCEPT ![w] = v]
  PROVE  worker' \in [Workers -> WorkerRecord]
  BY DEF TypeOK

LEMMA IdleType == Idle \in WorkerRecord
  BY Numbers DEF Idle, WorkerRecord

LEMMA StepType ==
  ASSUME TypeOK, NEW w \in Workers, Step(w)
  PROVE  TypeOK'
<1> USE DEF TypeOK
<1>1. PICK b \in Backends : worker[w].backend = b
  BY DEF WorkerRecord
<1>2. worker[w].count \in 0..CounterMax /\ 0 \in 0..CounterMax
  BY Numbers DEF WorkerRecord
<1>3. CASE AddFailure(w)
  <2>1. Up1(Failures[b]) \in 0..CounterMax
    BY CountUp
  <2>2. worker' \in [Workers -> WorkerRecord]
    <3> DEFINE v == [worker[w] EXCEPT !.pc = "clearSuccesses",
                                      !.count = Up1(Failures[b])]
    <3>1. v \in WorkerRecord
      BY <2>1 DEF WorkerRecord
    <3>2. worker' = [worker EXCEPT ![w] = v]
      BY <1>1, <1>3 DEF AddFailure
    <3> QED
      BY <3>1, <3>2, WorkerType
  <2> QED
    BY <1>1, <1>3, <2>1, <2>2 DEF AddFailure
<1>4. CASE ClearSuccesses(w)
  <2>1. worker' \in [Workers -> WorkerRecord]
    BY <1>4 DEF ClearSuccesses, Goto, WorkerRecord
  <2> QED
    BY <1>1, <1>2, <1>4, <2>1 DEF ClearSuccesses
<1>5. CASE MarkDown(w)
  <2>1. worker' \in [Workers -> WorkerRecord]
    BY <1>5, IdleType, WorkerType DEF MarkDown, Finish
  <2>2. Alive' \in [Backends -> BOOLEAN] /\ died' \in BOOLEAN
    BY <1>1, <1>5, Zenon DEF MarkDown
  <2>3. picked' \in [Backends -> Nat]
    BY <1>5 DEF MarkDown
  <2> QED
    BY <1>5, <2>1, <2>2, <2>3 DEF MarkDown
<1>6. CASE AddSuccess(w)
  <2>1. Up1(Successes[b]) \in 0..CounterMax
    BY CountUp
  <2>2. worker' \in [Workers -> WorkerRecord]
    <3> DEFINE v == [worker[w] EXCEPT !.pc = "clearFailures",
                                      !.count = Up1(Successes[b])]
    <3>1. v \in WorkerRecord
      BY <2>1 DEF WorkerRecord
    <3>2. worker' = [worker EXCEPT ![w] = v]
      BY <1>1, <1>6 DEF AddSuccess
    <3> QED
      BY <3>1, <3>2, WorkerType
  <2> QED
    BY <1>1, <1>6, <2>1, <2>2 DEF AddSuccess
<1>7. CASE ClearFailures(w)
  <2>1. worker' \in [Workers -> WorkerRecord]
    BY <1>7 DEF ClearFailures, Goto, WorkerRecord
  <2> QED
    BY <1>1, <1>2, <1>7, <2>1 DEF ClearFailures
<1>8. CASE MarkUp(w)
  <2>1. worker' \in [Workers -> WorkerRecord]
    BY <1>8, IdleType, WorkerType DEF MarkUp, Finish
  <2>2. Alive' \in [Backends -> BOOLEAN]
    BY <1>1, <1>8, Zenon DEF MarkUp, EnoughSuccesses
  <2> QED
    BY <1>8, <2>1, <2>2 DEF MarkUp
<1> QED
  BY <1>3, <1>4, <1>5, <1>6, <1>7, <1>8 DEF Step

LEMMA PickType ==
  ASSUME TypeOK, NEW r \in Requests, PickBackend(r)
  PROVE  TypeOK'
<1> USE DEF TypeOK
<1>1. worker[r].start \in Nat /\ worker[r].i \in Nat /\ r \in Workers
  BY Numbers DEF Workers, WorkerRecord
<1>2. PICK b \in Backends : b = Candidate(r)
  BY <1>1, IndexType DEF Candidate
<1>3. worker' \in [Workers -> WorkerRecord]
  <2> DEFINE u == [worker[r] EXCEPT !.pc = "send", !.backend = b]
             v == [u EXCEPT !.start = 0, !.i = 0, !.seen = {}]
  <2>1. v \in WorkerRecord
    <3>1. u \in WorkerRecord
      BY <1>1 DEF WorkerRecord
    <3>2. 0 \in 0..(TicketWrap - 1) /\ 0 \in 0..Count
      BY Numbers
    <3> HIDE DEF u
    <3> QED
      BY <3>1, <3>2 DEF WorkerRecord
  <2>2. worker' = [worker EXCEPT ![r] = v]
    BY <1>2 DEF PickBackend
  <2> QED
    BY <1>1, <2>1, <2>2, WorkerType
<1>4. picked' \in [Backends -> Nat]
  <2> DEFINE picks == [picked EXCEPT ![b] = @ + 1]
  <2>1. picks \in [Backends -> Nat]
    OBVIOUS
  <2>2. Least(picks) \in Nat /\ \A c \in Backends : Least(picks) <= picks[c]
    BY <2>1, LeastBound
  <2>3. picked' = IF died THEN picked
                  ELSE [c \in Backends |-> picks[c] - Least(picks)]
    BY <1>2 DEF PickBackend
  <2> HIDE DEF picks
  <2>4. [c \in Backends |-> picks[c] - Least(picks)] \in [Backends -> Nat]
    BY <2>1, <2>2
  <2> QED
    BY <2>3, <2>4
<1> QED
  BY <1>3, <1>4 DEF PickBackend, health

LEMMA NextType == TypeOK /\ [Next]_vars => TypeOK'
<1> SUFFICES ASSUME TypeOK, [Next]_vars PROVE TypeOK'
  OBVIOUS
<1> USE DEF TypeOK, health
<1>1. ASSUME NEW r \in Requests, TakeTicket(r) PROVE TypeOK'
  <2>1. NextTicket(current) \in 0..(TicketWrap - 1)
    BY Numbers, Division DEF NextTicket
  <2>2. worker' \in [Workers -> WorkerRecord]
    <3> DEFINE v == [worker[r] EXCEPT !.pc = "scan",
                                      !.start = NextTicket(current)]
    <3>1. v \in WorkerRecord /\ r \in Workers
      BY <2>1 DEF Workers, WorkerRecord
    <3>2. worker' = [worker EXCEPT ![r] = v]
      BY <1>1 DEF TakeTicket
    <3> QED
      BY <3>1, <3>2, WorkerType
  <2> QED
    BY <1>1, <2>1, <2>2 DEF TakeTicket
<1>2. ASSUME NEW r \in Requests, RequestStep(r) PROVE TypeOK'
  <2>1. r \in Workers
    BY DEF Workers
  <2>2. CASE PickBackend(r)
    BY <2>2, PickType
  <2>3. CASE SkipBackend(r)
    <3>1. Candidate(r) \in Backends
      <4>1. worker[r].start \in Nat /\ worker[r].i \in Nat
        BY <2>1, Numbers DEF WorkerRecord
      <4> QED
        BY <4>1, IndexType DEF Candidate
    <3>2. worker' \in [Workers -> WorkerRecord]
      BY <2>1, <2>3, <3>1, Numbers DEF SkipBackend, WorkerRecord
    <3> QED
      BY <2>3, <3>2 DEF SkipBackend
  <2>4. CASE NoUpstream(r)
    BY <2>1, <2>4, IdleType, WorkerType DEF NoUpstream, Finish
  <2>5. CASE RoundTrip(r)
    <3>1. worker' \in [Workers -> WorkerRecord]
      <4>1. CASE Finish(r)
        BY <2>1, <4>1, IdleType, WorkerType DEF Finish
      <4>2. CASE Goto(r, "failed")
        BY <2>1, <4>2 DEF Goto, WorkerRecord
      <4> QED
        BY <2>5, <4>1, <4>2 DEF RoundTrip
    <3> QED
      BY <2>5, <3>1 DEF RoundTrip
  <2> QED
    BY <1>2, <2>1, <2>2, <2>3, <2>4, <2>5, StepType DEF RequestStep
<1>3. ASSUME NEW p \in Probes, ProbeStep(p) PROVE TypeOK'
  <2>1. p \in Workers /\ p[1] \in Backends
    BY DEF Workers, Probes
  <2>2. CASE StartCheck(p)
    <3>1. worker' \in [Workers -> WorkerRecord]
      <4> DEFINE v == [worker[p] EXCEPT !.pc = "get", !.backend = p[1]]
      <4>1. v \in WorkerRecord
        BY <2>1 DEF WorkerRecord
      <4>2. worker' = [worker EXCEPT ![p] = v]
        BY <2>2 DEF StartCheck
      <4> QED
        BY <2>1, <4>1, <4>2, WorkerType
    <3> QED
      BY <2>2, <3>1 DEF StartCheck
  <2>3. CASE GetHealth(p)
    <3>1. worker' \in [Workers -> WorkerRecord]
      BY <2>1, <2>3 DEF GetHealth, Goto, WorkerRecord
    <3> QED
      BY <2>3, <3>1 DEF GetHealth
  <2> QED
    BY <1>3, <2>1, <2>2, <2>3, StepType DEF ProbeStep
<1>4. ASSUME NEW b \in Backends, Change(b) PROVE TypeOK'
  BY <1>4 DEF Change
<1>5. ASSUME NEW r \in Requests, ClientAborts(r) PROVE TypeOK'
  <2>1. r \in Workers
    BY DEF Workers
  <2>2. worker' \in [Workers -> WorkerRecord]
    BY <1>5, <2>1 DEF ClientAborts, Goto, WorkerRecord
  <2> QED
    BY <1>5, <2>2 DEF ClientAborts
<1>6. CASE UNCHANGED vars
  BY <1>6 DEF vars
<1> QED
  BY <1>1, <1>2, <1>3, <1>4, <1>5, <1>6 DEF Next

\* Every variable keeps its type; the indices, counters and tickets stay in
\* their ranges.
THEOREM TypeCorrect == Spec => []TypeOK
<1> QED
  BY InitType, NextType, PTL DEF Spec

-----------------------------------------------------------------------------
(* A scan that comes to its end has looked at every backend. *)

Divides == TicketWrap % Count = 0

\* The wrap of the ticket does not show in the index.
LEMMA IndexModulo ==
  ASSUME Divides, NEW s \in Nat, NEW j \in Nat
  PROVE  Index(s, j) = (s + j) % Count
<1> DEFINE k == TicketWrap \div Count
           x == s + j
           y == x % TicketWrap
           q == x \div TicketWrap
<1>1. k \in Nat /\ TicketWrap = Count * k
  BY Numbers, Division DEF Divides
<1>2. x \in Nat /\ y \in Nat /\ q \in Nat /\ x = TicketWrap * q + y
  BY Numbers, Division
<1>3. /\ y % Count \in 0..(Count - 1) /\ y \div Count \in Nat
      /\ y = Count * (y \div Count) + (y % Count)
  BY <1>2, Numbers, Division
<1>4. /\ x % Count \in 0..(Count - 1) /\ x \div Count \in Nat
      /\ x = Count * (x \div Count) + (x % Count)
  BY <1>2, Numbers, Division
<1>5. Index(s, j) = y % Count
  BY DEF Index
<1> HIDE DEF k, x, y, q
<1>6. PICK d \in Nat : d = y \div Count
  BY <1>3
<1>7. PICK e \in Nat : e = x \div Count
  BY <1>4
<1>8. x = Count * (k * q + d) + (y % Count)
  <2>1. TicketWrap * q = Count * (k * q)
    BY <1>1, <1>2, Numbers
  <2>2. Count * (k * q + d) = Count * (k * q) + Count * d
    BY <1>1, <1>2, Numbers
  <2> QED
    BY <1>1, <1>2, <1>3, <1>6, <2>1, <2>2, Numbers
<1>9. k * q + d \in Int /\ Count * e + (x % Count) = x
  BY <1>1, <1>2, <1>4, <1>7
<1>10. y % Count = x % Count
  <2>1. PICK u \in 0..(Count - 1) : u = y % Count
    BY <1>3
  <2>2. PICK v \in 0..(Count - 1) : v = x % Count
    BY <1>4
  <2>3. PICK p \in Int : p = k * q + d
    BY <1>9
  <2>4. Count * p + u = Count * e + v
    BY <1>8, <1>9, <2>1, <2>2, <2>3
  <2>5. u = v
    BY <2>4, Numbers, DivisionUnique
  <2> QED
    BY <2>1, <2>2, <2>5
<1> QED
  BY <1>5, <1>10 DEF x

\* Count rounds in a row meet every backend.
LEMMA EveryBackendIsMet ==
  ASSUME Divides, NEW s \in Nat, NEW b \in Backends
  PROVE  \E j \in 0..(Count - 1) : Index(s, j) = b
<1> DEFINE n == b + (Count - 1) * s
           j == n % Count
           q == n \div Count
<1>1. n \in Nat
  BY Numbers DEF Backends
<1>2. j \in 0..(Count - 1) /\ q \in Nat /\ n = Count * q + j
  BY <1>1, Numbers, Division
<1>3. s + j = Count * (s - q) + b
  <2>1. n = b + Count * s - s
    BY Numbers DEF Backends
  <2>2. Count * (s - q) = Count * s - Count * q
    BY <1>2, Numbers
  <2> HIDE DEF n, j, q
  <2> QED
    BY <1>2, <2>1, <2>2, Numbers DEF Backends
<1> HIDE DEF n, j, q
<1>4. /\ s + j \in Nat
      /\ (s + j) % Count \in 0..(Count - 1) /\ (s + j) \div Count \in Nat
      /\ s + j = Count * ((s + j) \div Count) + ((s + j) % Count)
  BY <1>2, Numbers, Division
<1>5. PICK e \in Nat : e = (s + j) \div Count
  BY <1>4
<1>6. PICK r \in 0..(Count - 1) : r = (s + j) % Count
  BY <1>4
<1>7. s - q \in Int /\ Count * (s - q) + b = Count * e + r
  BY <1>2, <1>3, <1>4, <1>5, <1>6
<1>8. b = r
  BY <1>7, Numbers, DivisionUnique DEF Backends
<1> QED
  BY <1>2, <1>6, <1>8, IndexModulo

\* The backends that the first n rounds of a scan look at.
Looked(start, n) == {Index(start, j) : j \in 0..(n - 1)}

\* What a goroutine has seen down, and how far its scan is.
SeenSoFar(v) ==
    /\ v.seen = Looked(v.start, v.i)
    /\ v.pc = "scan" => v.i < Count
    /\ v.pc = "none" => v.i = Count
    /\ v.pc \notin {"scan", "none"} => v.i = 0

ScanInv == TypeOK /\ \A w \in Workers : SeenSoFar(worker[w])

LEMMA LookedNext ==
  ASSUME NEW s, NEW n \in Nat
  PROVE  Looked(s, n + 1) = Looked(s, n) \cup {Index(s, n)}
<1>1. 0..(n + 1 - 1) = 0..(n - 1) \cup {n}
  OBVIOUS
<1> QED
  BY <1>1 DEF Looked

LEMMA LookedNone == ASSUME NEW s PROVE Looked(s, 0) = {}
<1>1. 0..(0 - 1) = {}
  OBVIOUS
<1> QED
  BY <1>1 DEF Looked

\* A step of one goroutine keeps the invariant when its own part of it holds
\* afterwards.
LEMMA OneWorker ==
  ASSUME ScanInv, TypeOK', NEW w \in Workers, NEW v,
         worker' = [worker EXCEPT ![w] = v],
         SeenSoFar(v)
  PROVE  ScanInv'
<1>1. /\ worker'[w] = v
      /\ \A x \in Workers \ {w} : worker'[x] = worker[x]
  BY DEF ScanInv, TypeOK
<1>2. \A x \in Workers : SeenSoFar(worker'[x])
  BY <1>1 DEF ScanInv
<1> QED
  BY <1>2 DEF ScanInv

\* So does one that goes from a place outside the loop to another.
LEMMA OutsideLoop ==
  ASSUME ScanInv, TypeOK', NEW w \in Workers, NEW v,
         worker[w].pc \notin {"scan", "none"}, v.pc \notin {"scan", "none"},
         v.i = worker[w].i, v.seen = worker[w].seen,
         worker' = [worker EXCEPT ![w] = v]
  PROVE  ScanInv'
<1>1. v.i = 0 /\ v.seen = {}
  BY LookedNone DEF ScanInv, SeenSoFar
<1>2. SeenSoFar(v)
  BY <1>1, LookedNone DEF SeenSoFar
<1> QED
  BY <1>2, OneWorker

LEMMA IdleSeen == SeenSoFar(Idle)
  BY LookedNone DEF SeenSoFar, Idle

LEMMA ScanInit == Init => ScanInv
  BY InitType, IdleSeen DEF Init, ScanInv

LEMMA ScanGoto ==
  ASSUME ScanInv, TypeOK', NEW w \in Workers, NEW c, Goto(w, c),
         worker[w].pc \notin {"scan", "none"}, c \notin {"scan", "none"}
  PROVE  ScanInv'
<1> DEFINE v == [worker[w] EXCEPT !.pc = c]
<1>1. v.pc = c /\ v.i = worker[w].i /\ v.seen = worker[w].seen
  BY DEF ScanInv, TypeOK, WorkerRecord
<1>2. worker' = [worker EXCEPT ![w] = v]
  BY DEF Goto
<1> HIDE DEF v
<1> QED
  BY <1>1, <1>2, OutsideLoop

LEMMA ScanFinish ==
  ASSUME ScanInv, TypeOK', NEW w \in Workers, Finish(w)
  PROVE  ScanInv'
  BY IdleSeen, OneWorker DEF Finish

LEMMA ScanStep ==
  ASSUME ScanInv, TypeOK', NEW w \in Workers, Step(w)
  PROVE  ScanInv'
<1>1. worker[w] \in WorkerRecord
  BY DEF ScanInv, TypeOK
<1>2. CASE AddFailure(w)
  <2> DEFINE v == [worker[w] EXCEPT !.pc = "clearSuccesses",
                      !.count = Up1(Failures[worker[w].backend])]
  <2>1. /\ v.pc = "clearSuccesses" /\ worker[w].pc = "failed"
        /\ v.i = worker[w].i /\ v.seen = worker[w].seen
    BY <1>1, <1>2 DEF WorkerRecord, AddFailure, At
  <2>2. worker' = [worker EXCEPT ![w] = v]
    BY <1>2 DEF AddFailure
  <2> HIDE DEF v
  <2> QED
    BY <2>1, <2>2, OutsideLoop
<1>3. CASE AddSuccess(w)
  <2> DEFINE v == [worker[w] EXCEPT !.pc = "clearFailures",
                      !.count = Up1(Successes[worker[w].backend])]
  <2>1. /\ v.pc = "clearFailures" /\ worker[w].pc = "healthy"
        /\ v.i = worker[w].i /\ v.seen = worker[w].seen
    BY <1>1, <1>3 DEF WorkerRecord, AddSuccess, At
  <2>2. worker' = [worker EXCEPT ![w] = v]
    BY <1>3 DEF AddSuccess
  <2> HIDE DEF v
  <2> QED
    BY <2>1, <2>2, OutsideLoop
<1>4. CASE ClearSuccesses(w)
  BY <1>4, ScanGoto DEF ClearSuccesses, At
<1>5. CASE ClearFailures(w)
  BY <1>5, ScanGoto DEF ClearFailures, At
<1>6. CASE MarkDown(w)
  BY <1>6, ScanFinish DEF MarkDown
<1>7. CASE MarkUp(w)
  BY <1>7, ScanFinish DEF MarkUp
<1> QED
  BY <1>2, <1>3, <1>4, <1>5, <1>6, <1>7 DEF Step

LEMMA ScanSkip ==
  ASSUME ScanInv, TypeOK', NEW r \in Workers, SkipBackend(r)
  PROVE  ScanInv'
<1>1. worker[r] \in WorkerRecord /\ SeenSoFar(worker[r])
  BY DEF ScanInv, TypeOK
<1>2. PICK s \in Nat, n \in 0..(Count - 1) :
          s = worker[r].start /\ n = worker[r].i
  BY <1>1, Numbers DEF WorkerRecord, SeenSoFar, SkipBackend, At
<1>3. PICK b : b = Index(s, n)
  OBVIOUS
<1> DEFINE v == [worker[r] EXCEPT
                    !.pc = IF worker[r].i + 1 < Count THEN "scan" ELSE "none",
                    !.i = @ + 1,
                    !.seen = @ \cup {b}]
<1>4. worker' = [worker EXCEPT ![r] = v]
  BY <1>2, <1>3 DEF SkipBackend, Candidate
<1>5. /\ v.pc = IF n + 1 < Count THEN "scan" ELSE "none"
      /\ v.i = n + 1
      /\ v.seen = worker[r].seen \cup {b}
      /\ v.start = s
  BY <1>1, <1>2 DEF WorkerRecord
<1> HIDE DEF v
<1>6. worker[r].seen = Looked(s, n)
  BY <1>1, <1>2 DEF SeenSoFar
<1>7. v.seen = Looked(s, n + 1)
  <2>1. v.seen = Looked(s, n) \cup {Index(s, n)}
    BY <1>3, <1>5, <1>6
  <2>2. n \in Nat
    BY <1>2, Numbers
  <2> QED
    BY <2>1, <2>2, LookedNext
<1>8. SeenSoFar(v)
  BY <1>2, <1>5, <1>7, Numbers DEF SeenSoFar
<1> QED
  BY <1>4, <1>8, OneWorker

LEMMA ScanNext == ScanInv /\ [Next]_vars => ScanInv'
<1> SUFFICES ASSUME ScanInv, [Next]_vars PROVE ScanInv'
  OBVIOUS
<1>1. TypeOK' /\ worker \in [Workers -> WorkerRecord]
  BY NextType DEF ScanInv, TypeOK
<1>2. ASSUME NEW r \in Requests, TakeTicket(r) PROVE ScanInv'
  <2> DEFINE v == [worker[r] EXCEPT !.pc = "scan",
                                    !.start = NextTicket(current)]
  <2>1. r \in Workers /\ worker[r].pc = "idle"
    BY <1>2 DEF Workers, TakeTicket, At
  <2>2. worker' = [worker EXCEPT ![r] = v]
    BY <1>2 DEF TakeTicket
  <2>3. v.pc = "scan" /\ v.i = worker[r].i /\ v.seen = worker[r].seen
    BY <1>1, <2>1 DEF WorkerRecord
  <2> HIDE DEF v
  <2>4. v.i = 0 /\ v.seen = {}
    BY <2>1, <2>3, LookedNone DEF ScanInv, SeenSoFar
  <2>5. SeenSoFar(v)
    BY <2>3, <2>4, LookedNone, Numbers DEF SeenSoFar
  <2> QED
    BY <1>1, <2>1, <2>2, <2>5, OneWorker
<1>3. ASSUME NEW r \in Requests, RequestStep(r) PROVE ScanInv'
  <2>1. r \in Workers
    BY DEF Workers
  <2>2. CASE PickBackend(r)
    <3> DEFINE v == [worker[r] EXCEPT !.pc = "send", !.backend = Candidate(r),
                                      !.start = 0, !.i = 0, !.seen = {}]
    <3>1. worker' = [worker EXCEPT ![r] = v]
      BY <2>2 DEF PickBackend
    <3>2. v.pc = "send" /\ v.i = 0 /\ v.seen = {}
      BY <1>1, <2>1 DEF WorkerRecord
    <3> HIDE DEF v
    <3>3. SeenSoFar(v)
      BY <3>2, LookedNone DEF SeenSoFar
    <3> QED
      BY <1>1, <2>1, <3>1, <3>3, OneWorker
  <2>3. CASE SkipBackend(r)
    BY <1>1, <2>1, <2>3, ScanSkip
  <2>4. CASE NoUpstream(r)
    BY <1>1, <2>1, <2>4, ScanFinish DEF NoUpstream
  <2>5. CASE RoundTrip(r)
    <3>1. CASE Finish(r)
      BY <1>1, <2>1, <3>1, ScanFinish
    <3>2. CASE Goto(r, "failed")
      BY <1>1, <2>1, <2>5, <3>2, ScanGoto DEF RoundTrip, At
    <3> QED
      BY <2>5, <3>1, <3>2 DEF RoundTrip
  <2> QED
    BY <1>1, <1>3, <2>1, <2>2, <2>3, <2>4, <2>5, ScanStep DEF RequestStep
<1>4. ASSUME NEW p \in Probes, ProbeStep(p) PROVE ScanInv'
  <2>1. p \in Workers
    BY DEF Workers
  <2>2. CASE StartCheck(p)
    <3> DEFINE v == [worker[p] EXCEPT !.pc = "get", !.backend = p[1]]
    <3>1. worker' = [worker EXCEPT ![p] = v] /\ worker[p].pc = "idle"
      BY <2>2 DEF StartCheck, At
    <3>2. v.pc = "get" /\ v.i = worker[p].i /\ v.seen = worker[p].seen
      BY <1>1, <2>1 DEF WorkerRecord
    <3> HIDE DEF v
    <3> QED
      BY <1>1, <2>1, <3>1, <3>2, OutsideLoop
  <2>3. CASE GetHealth(p)
    <3>1. PICK c \in {"failed", "healthy"} : Goto(p, c)
      BY <2>3 DEF GetHealth
    <3> QED
      BY <1>1, <2>1, <2>3, <3>1, ScanGoto DEF GetHealth, At
  <2> QED
    BY <1>1, <1>4, <2>1, <2>2, <2>3, ScanStep DEF ProbeStep
<1>5. ASSUME NEW b \in Backends, Change(b) PROVE ScanInv'
  BY <1>1, <1>5 DEF Change, ScanInv
<1>6. ASSUME NEW r \in Requests, ClientAborts(r) PROVE ScanInv'
  <2>1. r \in Workers
    BY DEF Workers
  <2> QED
    BY <1>1, <1>6, <2>1, ScanGoto DEF ClientAborts, At
<1>7. CASE UNCHANGED vars
  BY <1>1, <1>7 DEF vars, ScanInv
<1> QED
  BY <1>2, <1>3, <1>4, <1>5, <1>6, <1>7 DEF Next

LEMMA ScanImplies == Divides /\ ScanInv => NoUpstreamMeansAllDown
<1> SUFFICES ASSUME Divides, ScanInv, NEW r \in Requests, At(r, "none")
             PROVE  worker[r].seen = Backends
  BY DEF NoUpstreamMeansAllDown
<1>1. /\ worker[r] \in WorkerRecord
      /\ worker[r].seen = Looked(worker[r].start, Count)
  BY DEF ScanInv, TypeOK, Workers, SeenSoFar, At
<1>2. PICK s \in Nat : s = worker[r].start
  BY <1>1, Numbers DEF WorkerRecord
<1>3. \A b \in Backends : b \in Looked(s, Count)
  BY EveryBackendIsMet DEF Looked
<1>4. worker[r].seen \subseteq Backends
  BY <1>1 DEF WorkerRecord
<1> QED
  BY <1>1, <1>2, <1>3, <1>4

\* A request is refused only after every backend was seen down, whatever the
\* checks and other requests do meanwhile - if the number of backends divides
\* the modulus of the ticket counter, 2^32 in the code (upstream.go:133-143).
THEOREM NoUpstreamJustified ==
  ASSUME Divides PROVE Spec => []NoUpstreamMeansAllDown
<1>1. ScanInv => NoUpstreamMeansAllDown
  BY ScanImplies
<1> QED
  BY <1>1, ScanInit, ScanNext, PTL DEF Spec

-----------------------------------------------------------------------------
(* Round robin. *)

\* The requests that hold a ticket for backend b and have not looked yet.
Waiting(b) == {r \in Requests : At(r, "scan") /\ Index(worker[r].start, 0) = b}

Share(b) == picked[b] + Cardinality(Waiting(b))

\* Backend 0 is served last in a round.
ServedThisRound(b) == IF b \in 1..(current % Count) THEN 1 ELSE 0

\* While nothing was marked down every scan ends with its first look, and the
\* tickets handed out are spread as the ticket counter says.
SpreadInv ==
    ~ died =>
        /\ \A b \in Backends : Alive[b]
        /\ \A w \in Workers : worker[w].i = 0
        /\ \A b \in Backends : Share(b) = Share(0) + ServedThisRound(b)

LEMMA WaitingFinite ==
  ASSUME NEW b
  PROVE  IsFiniteSet(Waiting(b)) /\ Cardinality(Waiting(b)) \in Nat
<1>1. Waiting(b) \subseteq Requests
  BY DEF Waiting
<1>2. IsFiniteSet(Waiting(b))
  BY <1>1, WorkersAssumption, FS_Subset
<1> QED
  BY <1>2, FS_CardinalityType

\* The backend a ticket is for.
LEMMA TicketTurn ==
  ASSUME Divides, NEW t \in 0..(TicketWrap - 1)
  PROVE  /\ Index(NextTicket(t), 0) = NextTicket(t) % Count
         /\ NextTicket(t) % Count
                = IF (t % Count) + 1 = Count THEN 0 ELSE (t % Count) + 1
         /\ t % Count \in 0..(Count - 1)
<1>1. t \in Nat /\ t + 1 \in Nat
  BY Numbers
<1>2. NextTicket(t) = (t + 1) % TicketWrap /\ NextTicket(t) \in Nat
  BY <1>1, Numbers, Division DEF NextTicket
<1>3. Index(NextTicket(t), 0) = NextTicket(t) % Count
  <2>1. Index(NextTicket(t), 0) = (NextTicket(t) + 0) % Count
    BY <1>2, IndexModulo
  <2> QED
    BY <1>2, <2>1
<1>4. NextTicket(t) % Count = (t + 1) % Count
  <2>1. Index(t, 1) = (t + 1) % Count
    BY <1>1, IndexModulo
  <2> QED
    BY <1>2, <2>1 DEF Index
<1>5. PICK p \in 0..(Count - 1), q \in Nat : p = t % Count /\ t = Count * q + p
  BY <1>1, Numbers, Division
<1>6. PICK u \in 0..(Count - 1), v \in Nat :
          u = (t + 1) % Count /\ t + 1 = Count * v + u
  BY <1>1, Numbers, Division
<1>7. CASE p + 1 = Count
  <2>1. Count * (q + 1) = Count * q + Count
    BY Numbers
  <2>2. Count * v + u = Count * (q + 1) + 0
    BY <1>5, <1>6, <1>7, <2>1, Numbers
  <2>3. u = 0
    BY <2>2, Numbers, DivisionUnique
  <2> QED
    BY <1>3, <1>4, <1>5, <1>6, <1>7, <2>3
<1>8. CASE p + 1 # Count
  <2>1. p + 1 \in 0..(Count - 1)
    BY <1>8, Numbers
  <2>2. Count * v + u = Count * q + (p + 1)
    BY <1>5, <1>6, Numbers
  <2>3. u = p + 1
    BY <2>1, <2>2, Numbers, DivisionUnique
  <2> QED
    BY <1>3, <1>4, <1>5, <1>6, <1>8, <2>3
<1> QED
  BY <1>7, <1>8

\* A step of a goroutine that neither comes to the scan nor leaves it.
LEMMA SpreadElsewhere ==
  ASSUME TypeOK, SpreadInv, NEW w \in Workers, NEW v,
         worker' = [worker EXCEPT ![w] = v],
         worker[w].pc # "scan", v.pc # "scan", v.i = worker[w].i,
         UNCHANGED <<picked, current>>,
         ~ died' => ~ died /\ \A b \in Backends : Alive[b] => Alive'[b]
  PROVE  SpreadInv'
<1> SUFFICES ASSUME ~ died' PROVE SpreadInv'
  BY DEF SpreadInv
<1>1. /\ \A b \in Backends : Alive'[b]
      /\ \A x \in Workers : worker[x].i = 0
      /\ \A b \in Backends : Share(b) = Share(0) + ServedThisRound(b)
  BY DEF SpreadInv
<1>2. \A x \in Workers : worker'[x] = IF x = w THEN v ELSE worker[x]
  BY DEF TypeOK
<1>3. \A x \in Workers : worker'[x].i = 0
  BY <1>1, <1>2
<1>4. ASSUME NEW b PROVE Waiting(b)' = Waiting(b)
  <2>1. \A r \in Requests : At(r, "scan")' <=> At(r, "scan")
    BY <1>2 DEF At, Workers
  <2>2. \A r \in Requests : At(r, "scan") => worker'[r] = worker[r]
    BY <1>2 DEF At, Workers
  <2> QED
    BY <2>1, <2>2 DEF Waiting
<1>5. \A b : Share(b)' = Share(b) /\ ServedThisRound(b)' = ServedThisRound(b)
  BY <1>4 DEF Share, ServedThisRound
<1> QED
  BY <1>1, <1>3, <1>5 DEF SpreadInv

LEMMA SpreadFinish ==
  ASSUME ScanInv, SpreadInv, NEW w \in Workers, Finish(w), worker[w].pc # "scan",
         UNCHANGED <<picked, current>>,
         ~ died' => ~ died /\ \A b \in Backends : Alive[b] => Alive'[b]
  PROVE  SpreadInv'
<1>1. CASE died'
  BY <1>1 DEF SpreadInv
<1>2. CASE ~ died'
  <2>1. Idle.pc # "scan" /\ Idle.i = worker[w].i
    BY <1>2 DEF Idle, SpreadInv
  <2>2. TypeOK /\ worker' = [worker EXCEPT ![w] = Idle]
    BY DEF Finish, ScanInv
  <2> QED
    BY <2>1, <2>2, SpreadElsewhere
<1> QED
  BY <1>1, <1>2

LEMMA SpreadGoto ==
  ASSUME ScanInv, SpreadInv, NEW w \in Workers, NEW c, Goto(w, c),
         worker[w].pc # "scan", c # "scan",
         UNCHANGED <<picked, current, died, Alive>>
  PROVE  SpreadInv'
<1> DEFINE v == [worker[w] EXCEPT !.pc = c]
<1>1. v.pc = c /\ v.i = worker[w].i
  BY DEF ScanInv, TypeOK, WorkerRecord
<1>2. TypeOK /\ worker' = [worker EXCEPT ![w] = v]
  BY DEF Goto, ScanInv
<1> HIDE DEF v
<1> QED
  BY <1>1, <1>2, SpreadElsewhere

LEMMA SpreadStep ==
  ASSUME ScanInv, SpreadInv, NEW w \in Workers, Step(w)
  PROVE  SpreadInv'
<1>0. TypeOK /\ worker[w] \in WorkerRecord
  BY DEF ScanInv, TypeOK
<1>1. CASE AddFailure(w)
  <2> DEFINE v == [worker[w] EXCEPT !.pc = "clearSuccesses",
                      !.count = Up1(Failures[worker[w].backend])]
  <2>1. v.pc = "clearSuccesses" /\ worker[w].pc = "failed" /\ v.i = worker[w].i
    BY <1>0, <1>1 DEF WorkerRecord, AddFailure, At
  <2>2. worker' = [worker EXCEPT ![w] = v] /\ UNCHANGED <<picked, current, died, Alive>>
    BY <1>1 DEF AddFailure
  <2> HIDE DEF v
  <2> QED
    BY <1>0, <2>1, <2>2, SpreadElsewhere
<1>2. CASE AddSuccess(w)
  <2> DEFINE v == [worker[w] EXCEPT !.pc = "clearFailures",
                      !.count = Up1(Successes[worker[w].backend])]
  <2>1. v.pc = "clearFailures" /\ worker[w].pc = "healthy" /\ v.i = worker[w].i
    BY <1>0, <1>2 DEF WorkerRecord, AddSuccess, At
  <2>2. worker' = [worker EXCEPT ![w] = v] /\ UNCHANGED <<picked, current, died, Alive>>
    BY <1>2 DEF AddSuccess
  <2> HIDE DEF v
  <2> QED
    BY <1>0, <2>1, <2>2, SpreadElsewhere
<1>3. CASE ClearSuccesses(w)
  BY <1>3, SpreadGoto DEF ClearSuccesses, At
<1>4. CASE ClearFailures(w)
  BY <1>4, SpreadGoto DEF ClearFailures, At
<1>5. CASE MarkDown(w)
  <2>1. CASE died'
    BY <2>1 DEF SpreadInv
  <2>2. CASE ~ died'
    <3>1. ~ died /\ ~ TooManyFailures(worker[w].count)
      BY <1>5, <2>2 DEF MarkDown
    <3>2. UNCHANGED <<picked, current>> /\ Finish(w) /\ worker[w].pc = "mayMarkDown"
      BY <1>5, <3>1 DEF MarkDown, At
    <3>3. \A b \in Backends : Alive[b] => Alive'[b]
      BY <1>0, <1>5, <3>1 DEF MarkDown, TypeOK
    <3> QED
      BY <3>1, <3>2, <3>3, SpreadFinish
  <2> QED
    BY <2>1, <2>2
<1>6. CASE MarkUp(w)
  <2>1. \A b \in Backends : Alive[b] => Alive'[b]
    BY <1>0, <1>6 DEF MarkUp, TypeOK
  <2>2. UNCHANGED <<picked, current, died>> /\ Finish(w) /\ worker[w].pc = "mayMarkUp"
    BY <1>6 DEF MarkUp, At
  <2> QED
    BY <2>1, <2>2, SpreadFinish
<1> QED
  BY <1>1, <1>2, <1>3, <1>4, <1>5, <1>6 DEF Step

\* A new ticket: one more request waits for the backend whose turn it is.
LEMMA SpreadTake ==
  ASSUME Divides, ScanInv, SpreadInv, NEW r \in Requests, TakeTicket(r)
  PROVE  SpreadInv'
<1> SUFFICES ASSUME ~ died PROVE SpreadInv'
  BY DEF SpreadInv, TakeTicket
<1>0. /\ r \in Workers /\ TypeOK /\ worker[r] \in WorkerRecord
      /\ picked \in [Backends -> Nat]
  BY DEF ScanInv, TypeOK, Workers
<1>1. /\ \A b \in Backends : Alive[b]
      /\ \A x \in Workers : worker[x].i = 0
      /\ \A b \in Backends : Share(b) = Share(0) + ServedThisRound(b)
  BY DEF SpreadInv
<1>2. PICK n : n = NextTicket(current)
  OBVIOUS
<1>3. PICK p, q : p \in 0..(Count - 1) /\ p = current % Count /\ q = n % Count
  BY <1>0, <1>2, TicketTurn DEF TypeOK
<1>4. Index(n, 0) = q /\ q = IF p + 1 = Count THEN 0 ELSE p + 1
  BY <1>0, <1>2, <1>3, TicketTurn DEF TypeOK
<1>5. worker'[r].pc = "scan" /\ worker'[r].start = n /\ worker'[r].i = worker[r].i
  BY <1>0, <1>2 DEF TakeTicket, TypeOK, WorkerRecord
<1>6. \A x \in Workers : x # r => worker'[x] = worker[x]
  BY <1>0 DEF TakeTicket, TypeOK
<1>7. worker[r].pc = "idle" /\ UNCHANGED <<Alive, died, picked>> /\ current' = n
  BY <1>2 DEF TakeTicket, At, health
<1>8. ASSUME NEW b PROVE Waiting(b)' = IF b = q THEN Waiting(b) \cup {r} ELSE Waiting(b)
  <2>1. r \notin Waiting(b)
    BY <1>7 DEF Waiting, At
  <2>2. r \in Waiting(b)' <=> b = q
    BY <1>4, <1>5 DEF Waiting, At
  <2>3. \A x \in Requests \ {r} : x \in Waiting(b)' <=> x \in Waiting(b)
    BY <1>6 DEF Waiting, At, Workers
  <2>4. Waiting(b) \subseteq Requests /\ Waiting(b)' \subseteq Requests
    BY DEF Waiting
  <2> QED
    BY <2>1, <2>2, <2>3, <2>4
<1>9. ASSUME NEW b \in Backends PROVE Share(b)' = Share(b) + IF b = q THEN 1 ELSE 0
  <2>1. IsFiniteSet(Waiting(b)) /\ Cardinality(Waiting(b)) \in Nat
    BY WaitingFinite
  <2>2. r \notin Waiting(b)
    BY <1>7 DEF Waiting, At
  <2>3. Cardinality(Waiting(b)') = Cardinality(Waiting(b)) + IF b = q THEN 1 ELSE 0
    <3>1. CASE b = q
      BY <1>8, <2>1, <2>2, <3>1, FS_AddElement
    <3>2. CASE b # q
      BY <1>8, <2>1, <3>2
    <3> QED
      BY <3>1, <3>2
  <2> QED
    BY <1>0, <1>7, <2>1, <2>3 DEF Share
<1>10. \A x \in Workers : worker'[x].i = 0
  BY <1>1, <1>5, <1>6
<1>11. ASSUME NEW b \in Backends PROVE Share(b) \in Int
  BY <1>0, WaitingFinite DEF Share
<1>12. ASSUME NEW b \in Backends
       PROVE  Share(b)' = Share(0)' + ServedThisRound(b)'
  <2>1. ServedThisRound(b)' = IF b \in 1..q THEN 1 ELSE 0
    BY <1>3, <1>7 DEF ServedThisRound
  <2>2. ServedThisRound(b) = IF b \in 1..p THEN 1 ELSE 0
    BY <1>3 DEF ServedThisRound
  <2>3. PICK x \in Int, y \in Int : x = Share(b) /\ y = Share(0)
    BY <1>11, Numbers
  <2>4. x = y + IF b \in 1..p THEN 1 ELSE 0
    BY <1>1, <2>2, <2>3
  <2>5. Share(b)' = x + IF b = q THEN 1 ELSE 0
    BY <1>9, <2>3
  <2>6. Share(0)' = y + IF 0 = q THEN 1 ELSE 0
    BY <1>9, <2>3, Numbers
  <2>7. x + (IF b = q THEN 1 ELSE 0)
            = y + (IF 0 = q THEN 1 ELSE 0) + (IF b \in 1..q THEN 1 ELSE 0)
    BY <1>3, <1>4, <2>3, <2>4, Numbers DEF Backends
  <2> QED
    BY <2>1, <2>5, <2>6, <2>7
<1> QED
  BY <1>1, <1>7, <1>10, <1>12 DEF SpreadInv

\* A pick: a request that waited for a backend has been given it.
LEMMA SpreadPick ==
  ASSUME Divides, ScanInv, SpreadInv, NEW r \in Requests, PickBackend(r)
  PROVE  SpreadInv'
<1> SUFFICES ASSUME ~ died PROVE SpreadInv'
  BY DEF SpreadInv, PickBackend
<1>0. /\ r \in Workers /\ TypeOK /\ worker[r] \in WorkerRecord
      /\ picked \in [Backends -> Nat]
  BY DEF ScanInv, TypeOK, Workers
<1>1. /\ \A b \in Backends : Alive[b]
      /\ \A x \in Workers : worker[x].i = 0
      /\ \A b \in Backends : Share(b) = Share(0) + ServedThisRound(b)
  BY DEF SpreadInv
<1>2. PICK a \in Backends : a = Candidate(r) /\ a = Index(worker[r].start, 0)
  <2>1. worker[r].start \in Nat /\ worker[r].i = 0
    BY <1>0, <1>1, Numbers DEF WorkerRecord
  <2> QED
    BY <2>1, IndexType DEF Candidate
<1>3. PICK picks \in [Backends -> Nat] : picks = [picked EXCEPT ![a] = @ + 1]
  <2>1. [picked EXCEPT ![a] = @ + 1] \in [Backends -> Nat]
    BY <1>0
  <2> QED
    BY <2>1
<1>4. PICK m \in Nat : m = Least(picks)
  BY LeastBound
<1>5. \A b \in Backends : picked'[b] = picks[b] - m
  BY <1>2, <1>3, <1>4 DEF PickBackend
<1>6. worker'[r].pc = "send" /\ worker'[r].i = 0
  BY <1>0 DEF PickBackend, TypeOK, WorkerRecord
<1>7. \A x \in Workers : x # r => worker'[x] = worker[x]
  BY <1>0 DEF PickBackend, TypeOK
<1>8. worker[r].pc = "scan" /\ UNCHANGED <<Alive, died, current>>
  BY DEF PickBackend, At, health
<1>9. ASSUME NEW b PROVE Waiting(b)' = Waiting(b) \ {r}
  <2>1. r \notin Waiting(b)'
    BY <1>6 DEF Waiting, At
  <2>2. \A x \in Requests \ {r} : x \in Waiting(b)' <=> x \in Waiting(b)
    BY <1>7 DEF Waiting, At, Workers
  <2>3. Waiting(b) \subseteq Requests /\ Waiting(b)' \subseteq Requests
    BY DEF Waiting
  <2> QED
    BY <2>1, <2>2, <2>3
<1>10. ASSUME NEW b \in Backends PROVE Share(b)' = Share(b) - m
  <2>1. IsFiniteSet(Waiting(b)) /\ Cardinality(Waiting(b)) \in Nat
    BY WaitingFinite
  <2>2. r \in Waiting(b) <=> b = a
    BY <1>2, <1>8 DEF Waiting, At
  <2>3. Cardinality(Waiting(b)') = Cardinality(Waiting(b)) - IF b = a THEN 1 ELSE 0
    BY <1>9, <2>1, <2>2, FS_RemoveElement
  <2>4. picked'[b] = picked[b] + (IF b = a THEN 1 ELSE 0) - m
    BY <1>0, <1>3, <1>5
  <2> QED
    BY <1>0, <2>1, <2>3, <2>4 DEF Share
<1>11. \A x \in Workers : worker'[x].i = 0
  BY <1>1, <1>6, <1>7
<1>12. ASSUME NEW b \in Backends PROVE Share(b) \in Int
  BY <1>0, WaitingFinite DEF Share
<1>13. ASSUME NEW b \in Backends
       PROVE  Share(b)' = Share(0)' + ServedThisRound(b)'
  <2>1. ServedThisRound(b)' = ServedThisRound(b) /\ ServedThisRound(b) \in Int
    BY <1>8 DEF ServedThisRound
  <2>2. Share(b)' = Share(b) - m /\ Share(0)' = Share(0) - m
    BY <1>10, Numbers
  <2>3. Share(b) \in Int /\ Share(0) \in Int
    BY <1>12, Numbers
  <2> QED
    BY <1>1, <2>1, <2>2, <2>3
<1> QED
  BY <1>1, <1>8, <1>11, <1>13 DEF SpreadInv

LEMMA SpreadInit == Init => SpreadInv
<1> SUFFICES ASSUME Init PROVE SpreadInv
  OBVIOUS
<1>1. \A b : Waiting(b) = {}
  BY DEF Init, Waiting, At, Idle, Workers
<1>2. \A b \in Backends : Share(b) = 0
  BY <1>1, FS_EmptySet DEF Init, Share
<1>3. ASSUME NEW b PROVE ServedThisRound(b) = 0
  <2>1. 0 % Count = 0
    BY Numbers
  <2> QED
    BY <2>1 DEF Init, ServedThisRound
<1>4. Share(0) = 0
  BY <1>2, Numbers
<1> QED
  BY <1>2, <1>3, <1>4 DEF Init, SpreadInv, Idle

LEMMA SpreadNext ==
  ASSUME Divides
  PROVE  ScanInv /\ SpreadInv /\ [Next]_vars => SpreadInv'
<1> SUFFICES ASSUME ScanInv, SpreadInv, [Next]_vars PROVE SpreadInv'
  OBVIOUS
<1>0. TypeOK /\ worker \in [Workers -> WorkerRecord]
  BY DEF ScanInv, TypeOK
<1>1. ASSUME NEW r \in Requests, TakeTicket(r) PROVE SpreadInv'
  BY <1>1, SpreadTake
<1>2. ASSUME NEW r \in Requests, RequestStep(r) PROVE SpreadInv'
  <2>1. r \in Workers
    BY DEF Workers
  <2>2. CASE PickBackend(r)
    BY <2>2, SpreadPick
  <2>3. CASE SkipBackend(r)
    <3>1. CASE died
      BY <2>3, <3>1 DEF SkipBackend, SpreadInv
    <3>2. CASE ~ died
      <4>1. Candidate(r) \in Backends
        <5>1. worker[r].start \in Nat /\ worker[r].i \in Nat
          BY <1>0, <2>1, Numbers DEF WorkerRecord
        <5> QED
          BY <5>1, IndexType DEF Candidate
      <4> QED
        BY <2>3, <3>2, <4>1 DEF SkipBackend, SpreadInv
    <3> QED
      BY <3>1, <3>2
  <2>4. CASE NoUpstream(r)
    BY <2>1, <2>4, SpreadFinish DEF NoUpstream, At, health
  <2>5. CASE RoundTrip(r)
    <3>1. CASE Finish(r)
      BY <2>1, <2>5, <3>1, SpreadFinish DEF RoundTrip, At, health
    <3>2. CASE Goto(r, "failed")
      BY <2>1, <2>5, <3>2, SpreadGoto DEF RoundTrip, At, health
    <3> QED
      BY <2>5, <3>1, <3>2 DEF RoundTrip
  <2> QED
    BY <1>2, <2>1, <2>2, <2>3, <2>4, <2>5, SpreadStep DEF RequestStep
<1>3. ASSUME NEW p \in Probes, ProbeStep(p) PROVE SpreadInv'
  <2>1. p \in Workers
    BY DEF Workers
  <2>2. CASE StartCheck(p)
    <3> DEFINE v == [worker[p] EXCEPT !.pc = "get", !.backend = p[1]]
    <3>1. /\ worker' = [worker EXCEPT ![p] = v] /\ worker[p].pc = "idle"
          /\ UNCHANGED <<picked, current, died, Alive>>
      BY <2>2 DEF StartCheck, At, health
    <3>2. v.pc = "get" /\ v.i = worker[p].i
      BY <1>0, <2>1 DEF WorkerRecord
    <3> HIDE DEF v
    <3> QED
      BY <1>0, <2>1, <3>1, <3>2, SpreadElsewhere
  <2>3. CASE GetHealth(p)
    <3>1. PICK c \in {"failed", "healthy"} : Goto(p, c)
      BY <2>3 DEF GetHealth
    <3> QED
      BY <2>1, <2>3, <3>1, SpreadGoto DEF GetHealth, At, health
  <2> QED
    BY <1>3, <2>1, <2>2, <2>3, SpreadStep DEF ProbeStep
<1>4. CASE UNCHANGED <<Alive, current, worker, died, picked>>
  BY <1>4 DEF SpreadInv, Share, Waiting, At, ServedThisRound
<1>5. ASSUME NEW b \in Backends, Change(b) PROVE SpreadInv'
  BY <1>4, <1>5 DEF Change, health
<1>6. ASSUME NEW r \in Requests, ClientAborts(r) PROVE SpreadInv'
  <2>1. r \in Workers
    BY DEF Workers
  <2> QED
    BY <1>6, <2>1, SpreadGoto DEF ClientAborts, At, health
<1>7. CASE UNCHANGED vars
  BY <1>4, <1>7 DEF vars, health
<1> QED
  BY <1>1, <1>2, <1>3, <1>5, <1>6, <1>7 DEF Next

LEMMA SpreadImplies == ScanInv /\ SpreadInv => EvenSpread
<1> SUFFICES ASSUME ScanInv, SpreadInv, ~ died,
                    NEW b \in Backends, NEW c \in Backends
             PROVE  picked[b] - picked[c]
                        <= 1 + Cardinality({r \in Requests : At(r, "scan")})
  BY DEF EvenSpread
<1> DEFINE S == {r \in Requests : At(r, "scan")}
<1>1. IsFiniteSet(S) /\ Waiting(c) \in SUBSET S
  <2>1. S \subseteq Requests /\ Waiting(c) \in SUBSET S
    BY DEF Waiting
  <2> QED
    BY <2>1, WorkersAssumption, FS_Subset
<1>2. Cardinality(S) \in Nat /\ Cardinality(Waiting(c)) <= Cardinality(S)
  BY <1>1, FS_Subset, FS_CardinalityType
<1>3. Share(b) = Share(0) + ServedThisRound(b) /\ Share(c) = Share(0) + ServedThisRound(c)
  BY DEF SpreadInv
<1>4. PICK x \in Nat, y \in Nat, u \in Nat, v \in Nat :
          /\ x = picked[b] /\ y = picked[c]
          /\ u = Cardinality(Waiting(b)) /\ v = Cardinality(Waiting(c))
  BY WaitingFinite DEF ScanInv, TypeOK
<1>5. PICK z \in Int : z = Share(0)
  BY WaitingFinite, Numbers DEF ScanInv, TypeOK, Share
<1>6. ServedThisRound(b) \in 0..1 /\ ServedThisRound(c) \in 0..1
  BY DEF ServedThisRound
<1>7. x + u = z + ServedThisRound(b) /\ y + v = z + ServedThisRound(c)
  BY <1>3, <1>4, <1>5 DEF Share
<1>8. x - y <= 1 + v
  BY <1>4, <1>5, <1>6, <1>7
<1> QED
  BY <1>2, <1>4, <1>8

\* Round robin (README.md:65): while nothing was marked down, no two backends'
\* picks differ by more than one, but for the requests that hold a ticket and
\* have not picked yet - if the number of backends divides the modulus of the
\* ticket counter (upstream.go:133-141).
THEOREM PicksAreEven ==
  ASSUME Divides PROVE Spec => []EvenSpread
<1>1. ScanInv /\ SpreadInv => EvenSpread
  BY SpreadImplies
<1> QED
  BY <1>1, ScanInit, ScanNext, SpreadInit, SpreadNext, PTL DEF Spec
=============================================================================
