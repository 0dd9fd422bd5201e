----------------------- MODULE MetricsPipeline_proofs -----------------------
(***************************************************************************)
(* For any sources and any sizes of the channels: the aggregator's rate    *)
(* window holds the snapshots processed last, counts and drop events are   *)
(* conserved from the kernel to the aggregator, and the totals shown are   *)
(* those of an absolute reading.                                           *)
(***************************************************************************)
EXTENDS MetricsPipeline, DataFacts, SequenceTheorems, FiniteSetTheorems, TLAPS

-----------------------------------------------------------------------------
(* The buffer. *)

\* Buffers of n entries from S.
Buffers(n, S) ==
    [data : [0..(n - 1) -> S], head : 0..(n - 1), count : 0..n, cap : {n}]

\* A number below twice the divisor.
LEMMA SmallModulo ==
  ASSUME NEW n \in Nat, n > 0, NEW k \in 0..(2 * n - 1)
  PROVE  k % n = IF k < n THEN k ELSE k - n
<1>1. /\ k % n \in 0..(n - 1) /\ k \div n \in Nat
      /\ k = n * (k \div n) + (k % n)
  BY Division
<1>2. PICK q \in Nat, r \in 0..(n - 1) : q = k \div n /\ r = k % n
  BY <1>1
<1>3. k = n * q + r
  BY <1>1, <1>2
<1>4. CASE k < n
  <2>1. n * 0 + k = n * q + r /\ k \in 0..(n - 1)
    BY <1>3, <1>4
  <2> QED
    BY <1>2, <1>4, <2>1, DivisionUnique
<1>5. CASE k >= n
  <2>1. n * 1 + (k - n) = n * q + r /\ k - n \in 0..(n - 1)
    BY <1>3, <1>5
  <2> QED
    BY <1>2, <1>5, <2>1, DivisionUnique
<1> QED
  BY <1>4, <1>5

\* Where Average finds its entries.
LEMMA EntryIs ==
  ASSUME NEW n \in Nat, n > 0, NEW S, NEW cb \in Buffers(n, S),
         NEW i \in 0..(n - 1), i < cb.count
  PROVE  /\ EntryIndex(cb, i) \in 0..(n - 1)
         /\ EntryIndex(cb, i) = IF cb.head - cb.count + i < 0
                                THEN cb.head - cb.count + i + n
                                ELSE cb.head - cb.count + i
<1>1. cb.head \in 0..(n - 1) /\ cb.count \in 0..n /\ cb.cap = n
  BY DEF Buffers
<1>2. PICK k : k = cb.head - cb.count + i + n
  OBVIOUS
<1>3. k \in 0..(2 * n - 1)
  BY <1>1, <1>2
<1>4. EntryIndex(cb, i) = IF k < n THEN k ELSE k - n
  BY <1>1, <1>2, <1>3, SmallModulo DEF EntryIndex
<1> QED
  BY <1>1, <1>2, <1>3, <1>4

LEMMA ContentsType ==
  ASSUME NEW n \in Nat, n > 0, NEW S, NEW cb \in Buffers(n, S)
  PROVE  /\ Contents(cb) \in Seq(S)
         /\ Len(Contents(cb)) = cb.count
         /\ \A i \in 1..cb.count :
               Contents(cb)[i] = cb.data[EntryIndex(cb, i - 1)]
<1>1. cb.count \in 0..n /\ cb.data \in [0..(n - 1) -> S]
  BY DEF Buffers
<1>2. \A i \in 1..cb.count : EntryIndex(cb, i - 1) \in 0..(n - 1)
  BY <1>1, EntryIs
<1>3. Contents(cb) \in [1..cb.count -> S]
  BY <1>1, <1>2 DEF Contents
<1>4. Contents(cb) \in Seq(S) /\ Len(Contents(cb)) = cb.count
  <2>1. cb.count \in Nat
    BY <1>1
  <2> QED
    BY <1>3, <2>1
<1>5. \A i \in 1..cb.count : Contents(cb)[i] = cb.data[EntryIndex(cb, i - 1)]
  BY DEF Contents
<1> QED
  BY <1>4, <1>5

IsPush(n, S, cb, x, new) ==
    /\ new \in Buffers(n, S)
    /\ new.data = [cb.data EXCEPT ![cb.head] = x]
    /\ new.head = IF cb.head + 1 < n THEN cb.head + 1 ELSE 0
    /\ new.count = IF cb.count < n THEN cb.count + 1 ELSE cb.count

LEMMA PushType ==
  ASSUME NEW n \in Nat, n > 0, NEW S, NEW cb \in Buffers(n, S), NEW x \in S
  PROVE  IsPush(n, S, cb, x, Push(cb, x))
<1>1. /\ cb.head \in 0..(n - 1) /\ cb.count \in 0..n /\ cb.cap = n
      /\ cb.data \in [0..(n - 1) -> S]
  BY DEF Buffers
<1>2. PICK m \in 0..(2 * n - 1) : m = cb.head + 1
  BY <1>1
<1>3. NextHead(cb) = IF cb.head + 1 < n THEN cb.head + 1 ELSE 0
  <2>1. m % n = IF m < n THEN m ELSE m - n
    BY SmallModulo
  <2>2. m % n = IF cb.head + 1 < n THEN cb.head + 1 ELSE 0
    BY <1>1, <1>2, <2>1
  <2> QED
    BY <1>1, <1>2, <2>2 DEF NextHead
<1> DEFINE d == [cb.data EXCEPT ![cb.head] = x]
           h == IF cb.head + 1 < n THEN cb.head + 1 ELSE 0
           c == IF cb.count < n THEN cb.count + 1 ELSE cb.count
<1>4. Push(cb, x) = [cb EXCEPT !.data = d, !.head = h, !.count = c]
  BY <1>1, <1>3 DEF Push, Buffers
<1>5. d \in [0..(n - 1) -> S] /\ h \in 0..(n - 1) /\ c \in 0..n
  BY <1>1
<1> HIDE DEF d, h, c
<1>6. /\ Push(cb, x) \in Buffers(n, S)
      /\ Push(cb, x).data = d /\ Push(cb, x).head = h /\ Push(cb, x).count = c
  BY <1>4, <1>5 DEF Buffers
<1> QED
  BY <1>6 DEF d, h, c, IsPush

\* The place of the i-th of c entries, when the next goes to h.
Place(n, h, c, i) == IF h - c + i < 0 THEN h - c + i + n ELSE h - c + i

LEMMA PlaceNext ==
  ASSUME NEW n \in Nat, n > 0, NEW h \in 0..(n - 1), NEW g \in 0..(n - 1),
         g = IF h + 1 < n THEN h + 1 ELSE 0
  PROVE  /\ \A c \in 0..(n - 1) : \A i \in 0..(c - 1) :
               /\ Place(n, g, c + 1, i) = Place(n, h, c, i)
               /\ Place(n, h, c, i) # h
         /\ \A c \in 0..(n - 1) : Place(n, g, c + 1, c) = h
         /\ \A i \in 0..(n - 2) : /\ Place(n, g, n, i) = Place(n, h, n, i + 1)
                                  /\ Place(n, h, n, i + 1) # h
         /\ Place(n, g, n, n - 1) = h
         /\ \A c \in 0..n : \A i \in 0..(c - 1) : Place(n, h, c, i) \in 0..(n - 1)
  BY DEF Place

EntriesPlaced(n, cb) ==
    \A i \in 0..(cb.count - 1) :
        Contents(cb)[i + 1] = cb.data[Place(n, cb.head, cb.count, i)]

LEMMA EntryPlace ==
  ASSUME NEW n \in Nat, n > 0, NEW S, NEW cb \in Buffers(n, S)
  PROVE  EntriesPlaced(n, cb)
<1>0. PICK h \in 0..(n - 1), c \in 0..n : cb.head = h /\ cb.count = c
  BY DEF Buffers
<1> SUFFICES ASSUME NEW i \in 0..(c - 1)
             PROVE  Contents(cb)[i + 1] = cb.data[Place(n, h, c, i)]
  BY <1>0 DEF EntriesPlaced
<1>1. i \in 0..(n - 1) /\ i < cb.count
  BY <1>0
<1>2. EntryIndex(cb, i) = Place(n, h, c, i)
  BY <1>0, <1>1, EntryIs DEF Place
<1>3. PICK k \in 1..c : k = i + 1
  OBVIOUS
<1>4. Contents(cb)[k] = cb.data[EntryIndex(cb, k - 1)]
  BY <1>0, ContentsType
<1>5. k - 1 = i
  BY <1>3
<1> QED
  BY <1>2, <1>3, <1>4, <1>5

\* Push is Append to the queue of the last n elements.
LEMMA PushIsAppend ==
  ASSUME NEW n \in Nat, n > 0, NEW S, NEW cb \in Buffers(n, S), NEW x \in S
  PROVE  Contents(Push(cb, x)) = LastOf(Append(Contents(cb), x), n)
<1>1. PICK h \in 0..(n - 1), c \in 0..n, d \in [0..(n - 1) -> S] :
          cb.head = h /\ cb.count = c /\ cb.data = d
  BY DEF Buffers
<1>2. PICK new \in Buffers(n, S), g \in 0..(n - 1), b \in 0..n :
          /\ new = Push(cb, x)
          /\ new.data = [d EXCEPT ![h] = x]
          /\ new.head = g /\ g = IF h + 1 < n THEN h + 1 ELSE 0
          /\ new.count = b /\ b = IF c < n THEN c + 1 ELSE c
  <2>1. /\ Push(cb, x) \in Buffers(n, S)
        /\ Push(cb, x).data = [d EXCEPT ![h] = x]
        /\ Push(cb, x).head = IF h + 1 < n THEN h + 1 ELSE 0
        /\ Push(cb, x).count = IF c < n THEN c + 1 ELSE c
    <3>1. IsPush(n, S, cb, x, Push(cb, x))
      BY PushType
    <3> QED
      BY <1>1, <3>1 DEF IsPush
  <2>2. Push(cb, x).head \in 0..(n - 1) /\ Push(cb, x).count \in 0..n
    BY <2>1
  <2> QED
    BY <2>1, <2>2, Zenon
<1>3. PICK s \in Seq(S) :
          /\ s = Contents(cb) /\ Len(s) = c
          /\ \A i \in 0..(c - 1) : s[i + 1] = d[Place(n, h, c, i)]
  <2>1. EntriesPlaced(n, cb)
    BY EntryPlace
  <2> QED
    BY <1>1, <2>1, ContentsType DEF EntriesPlaced
<1>4. PICK t \in Seq(S) :
          /\ t = Contents(new) /\ Len(t) = b
          /\ \A i \in 0..(b - 1) : t[i + 1] = new.data[Place(n, g, b, i)]
  <2>1. /\ Contents(new) \in Seq(S)
        /\ Len(Contents(new)) = b
    BY <1>2, ContentsType
  <2>2. \A i \in 0..(b - 1) :
            Contents(new)[i + 1] = new.data[Place(n, g, b, i)]
    <3>1. EntriesPlaced(n, new)
      BY EntryPlace
    <3> QED
      BY <1>2, <3>1 DEF EntriesPlaced
  <2> QED
    BY <2>1, <2>2
<1>5. PICK a \in Seq(S) : /\ a = Append(s, x)
                          /\ Len(a) = c + 1 /\ a[c + 1] = x
                          /\ \A i \in 1..c : a[i] = s[i]
  <2>1. Len(s) = c
    BY <1>3
  <2>2. /\ Append(s, x) \in Seq(S)
        /\ Len(Append(s, x)) = c + 1
        /\ Append(s, x)[c + 1] = x
    BY <2>1
  <2>3. \A i \in 1..c : Append(s, x)[i] = s[i]
    BY <2>1
  <2> QED
    BY <2>2, <2>3
<1>6. new.data[h] = x /\ \A k \in 0..(n - 1) : k # h => new.data[k] = d[k]
  BY <1>2
<1> DEFINE P(e, i) == Place(n, h, e, i)
           Q(e, i) == Place(n, g, e, i)
<1>9. /\ \A e \in 0..(n - 1) : \A i \in 0..(e - 1) :
            Q(e + 1, i) = P(e, i) /\ P(e, i) # h
      /\ \A e \in 0..(n - 1) : Q(e + 1, e) = h
      /\ \A i \in 0..(n - 2) : Q(n, i) = P(n, i + 1) /\ P(n, i + 1) # h
      /\ Q(n, n - 1) = h
      /\ \A e \in 0..n : \A i \in 0..(e - 1) : P(e, i) \in 0..(n - 1)
  BY <1>2, PlaceNext, Zenon
<1> HIDE DEF P, Q
<1>7. CASE c < n
  <2>1. b = c + 1 /\ c \in 0..(n - 1)
    BY <1>2, <1>7
  <2>2. Q(b, c) = h
    BY <1>9, <2>1
  <2>3. t[c + 1] = x
    BY <1>4, <1>6, <2>1, <2>2 DEF Q
  <2>4. ASSUME NEW i \in 0..(c - 1) PROVE t[i + 1] = s[i + 1]
    <3>1. PICK k \in 0..(n - 1) :
              k = P(c, i) /\ k = Q(b, i) /\ k # h
      <4>1. P(c, i) \in 0..(n - 1)
        BY <1>9
      <4>2. Q(c + 1, i) = P(c, i) /\ P(c, i) # h
        BY <1>9, <2>1
      <4> QED
        BY <2>1, <4>1, <4>2
    <3>2. i \in 0..(b - 1)
      BY <2>1
    <3>3. t[i + 1] = new.data[Q(b, i)]
      BY <1>4, <3>2, Zenon DEF Q
    <3>4. s[i + 1] = d[P(c, i)]
      BY <1>3, Zenon DEF P
    <3> QED
      BY <1>6, <3>1, <3>3, <3>4
  <2>5. \A i \in 1..c : t[i] = s[i]
    <3>1. \A i \in 1..c : i - 1 \in 0..(c - 1) /\ (i - 1) + 1 = i
      OBVIOUS
    <3> QED
      BY <2>4, <3>1
  <2>6. t = a
    BY <1>4, <1>5, <2>1, <2>3, <2>5
  <2>7. LastOf(a, n) = a
    BY <1>5, <1>7 DEF LastOf
  <2> QED
    BY <1>2, <1>3, <1>4, <1>5, <2>6, <2>7
<1>8. CASE c = n
  <2>1. b = n
    BY <1>2, <1>8
  <2>2. Q(n, n - 1) = h
    BY <1>9
  <2>3. t[n] = x
    <3>1. PICK i \in 0..(b - 1) : i = n - 1
      BY <2>1
    <3>2. t[i + 1] = x
      BY <1>4, <1>6, <2>1, <2>2, <3>1 DEF Q
    <3> QED
      BY <3>1, <3>2
  <2>4. ASSUME NEW i \in 0..(n - 2) PROVE t[i + 1] = s[i + 2]
    <3>1. PICK k \in 0..(n - 1) : k = P(n, i + 1) /\ k = Q(n, i) /\ k # h
      <4>1. PICK j \in 0..(n - 1) : j = i + 1
        OBVIOUS
      <4>2. P(n, j) \in 0..(n - 1)
        <5>1. n \in 0..n
          OBVIOUS
        <5> QED
          BY <1>9, <5>1, Zenon
      <4>3. Q(n, i) = P(n, i + 1) /\ P(n, i + 1) # h
        BY <1>9
      <4> QED
        BY <4>1, <4>2, <4>3
    <3>2. t[i + 1] = new.data[k]
      BY <1>4, <2>1, <3>1 DEF Q
    <3>3. PICK j \in 0..(c - 1) : j = i + 1
      BY <1>8
    <3>4. s[j + 1] = d[k]
      BY <1>3, <1>8, <3>1, <3>3 DEF P
    <3>5. j + 1 = i + 2
      BY <3>3
    <3> QED
      BY <1>6, <3>1, <3>2, <3>4, <3>5
  <2>5. LastOf(a, n) = SubSeq(a, 2, n + 1)
    BY <1>5, <1>8 DEF LastOf
  <2>6. PICK z \in Seq(S) : /\ z = SubSeq(a, 2, n + 1) /\ Len(z) = n
                            /\ \A i \in 1..n : z[i] = a[i + 1]
    <3>1. /\ SubSeq(a, 2, n + 1) \in Seq(S)
          /\ Len(SubSeq(a, 2, n + 1)) = n
      BY <1>5, <1>8
    <3>2. \A i \in 1..n : SubSeq(a, 2, n + 1)[i] = a[i + 1]
      BY <1>5, <1>8
    <3> QED
      BY <3>1, <3>2
  <2>7. z[n] = x
    BY <1>5, <1>8, <2>6
  <2>8. ASSUME NEW i \in 1..n, i # n PROVE z[i] = t[i]
    <3>1. PICK j \in 0..(n - 2) : j = i - 1
      BY <2>8
    <3>2. j + 1 = i /\ j + 2 = i + 1 /\ i + 1 \in 1..c
      BY <1>8, <2>8, <3>1
    <3>3. z[i] = s[i + 1]
      BY <1>5, <2>6, <3>2
    <3>4. t[i] = s[i + 1]
      BY <2>4, <3>1, <3>2
    <3> QED
      BY <3>3, <3>4
  <2>9. t = z
    BY <1>4, <2>1, <2>3, <2>6, <2>7, <2>8
  <2> QED
    BY <1>2, <1>3, <1>4, <1>5, <2>5, <2>6, <2>9
<1> QED
  BY <1>7, <1>8

-----------------------------------------------------------------------------
(* The window. *)

WindowInv ==
    /\ \E S : window \in Buffers(WindowSize, S)
    /\ WindowIsRecent

LEMMA WindowInit == Init => WindowInv
<1> SUFFICES ASSUME Init PROVE WindowInv
  OBVIOUS
<1>1. WindowSize \in Nat /\ WindowSize > 0
  BY SizesAssumption
<1>2. window = [data |-> [i \in 0..(WindowSize - 1) |-> Zero], head |-> 0,
                count |-> 0, cap |-> WindowSize]
  BY DEF Init, newCircularBuffer
<1>3. window \in Buffers(WindowSize, {Zero})
  BY <1>1, <1>2 DEF Buffers
<1>4. Contents(window) = <<>>
  BY <1>1, <1>2, <1>3, ContentsType
<1> QED
  BY <1>3, <1>4 DEF Init, WindowInv, WindowIsRecent

LEMMA WindowNext == WindowInv /\ [Next]_vars => WindowInv'
<1> SUFFICES ASSUME WindowInv, [Next]_vars PROVE WindowInv'
  OBVIOUS
<1>1. CASE UNCHANGED aggregatorVars
  BY <1>1 DEF aggregatorVars, WindowInv, WindowIsRecent
<1>2. CASE process
  <2>1. PICK x : /\ window' = Push(window, x)
                 /\ recent' = LastOf(Append(recent, x), WindowSize)
    BY <1>2 DEF process
  <2>2. PICK S : window \in Buffers(WindowSize, S)
    BY DEF WindowInv
  <2>3. window \in Buffers(WindowSize, S \cup {x})
    BY <2>2 DEF Buffers
  <2>4. WindowSize \in Nat /\ WindowSize > 0
    BY SizesAssumption
  <2>5. window' \in Buffers(WindowSize, S \cup {x})
    BY <2>1, <2>3, <2>4, PushType DEF IsPush
  <2>6. Contents(window') = LastOf(Append(Contents(window), x), WindowSize)
    BY <2>1, <2>3, <2>4, PushIsAppend
  <2> QED
    BY <2>1, <2>5, <2>6 DEF WindowInv, WindowIsRecent
<1> QED
  BY <1>1, <1>2
  DEF Next, Kernel, PassPacket, DropPacket, EmitEvent, ReadRecord, SendEvent,
      consumeEvent, ReadPassed, ReadDropped, PollFails, TakeEvents,
      SendSnapshot, Subscribe, HandToBroadcaster, CollectorOnly,
      vars

\* For every capacity the rates are averages over the last snapshots, however
\* often the index has gone round (aggregator.go:51-79).
THEOREM WindowKeepsTheLast == Spec => []WindowIsRecent
<1>1. WindowInv => WindowIsRecent
  BY DEF WindowInv
<1> QED
  BY <1>1, WindowInit, WindowNext, PTL DEF Spec


-----------------------------------------------------------------------------
(* Occurrences of an element in a sequence. *)

Positions(e, s) == {i \in DOMAIN s : s[i] = e}

\* The set is as large wherever it lies.
LEMMA ShiftedSet ==
  ASSUME NEW A \in SUBSET Int, IsFiniteSet(A), NEW B \in SUBSET Int, NEW k \in Int,
         \A i \in A : i + k \in B, \A j \in B : j - k \in A
  PROVE  Cardinality(B) = Cardinality(A)
<1> DEFINE f == [i \in A |-> i + k]
<1>1. f \in [A -> B]
  OBVIOUS
<1>2. \A i, j \in A : f[i] = f[j] => i = j
  OBVIOUS
<1>3. \A j \in B : \E i \in A : f[i] = j
  <2> SUFFICES ASSUME NEW j \in B PROVE \E i \in A : f[i] = j
    OBVIOUS
  <2>1. j - k \in A /\ f[j - k] = j
    OBVIOUS
  <2> QED
    BY <2>1
<1> HIDE DEF f
<1>4. f \in Bijection(A, B)
  BY <1>1, <1>2, <1>3 DEF Bijection, Injection, Surjection, IsInjective
<1> QED
  BY <1>4, FS_Bijection DEF ExistsBijection

LEMMA OccurrencesType ==
  ASSUME NEW S, NEW s \in Seq(S), NEW e
  PROVE  /\ IsFiniteSet(Positions(e, s))
         /\ Occurrences(e, s) = Cardinality(Positions(e, s))
         /\ Occurrences(e, s) \in Nat
<1>1. Positions(e, s) \subseteq 1..Len(s) /\ Len(s) \in Nat
  BY DEF Positions
<1>2. IsFiniteSet(1..Len(s))
  BY <1>1, FS_Interval
<1>3. IsFiniteSet(Positions(e, s))
  BY <1>1, <1>2, FS_Subset
<1> QED
  BY <1>3, FS_CardinalityType DEF Occurrences, Positions

LEMMA OccurrencesNone == ASSUME NEW e PROVE Occurrences(e, <<>>) = 0
<1>1. {i \in DOMAIN <<>> : <<>>[i] = e} = {}
  OBVIOUS
<1> QED
  BY <1>1, FS_EmptySet DEF Occurrences

LEMMA OccurrencesOne ==
  ASSUME NEW e, NEW x
  PROVE  Occurrences(e, <<x>>) = IF x = e THEN 1 ELSE 0
<1>1. {i \in DOMAIN <<x>> : <<x>>[i] = e} = IF x = e THEN {1} ELSE {}
  OBVIOUS
<1> QED
  BY <1>1, FS_EmptySet, FS_Singleton DEF Occurrences

\* Sequence s is t followed by u.
IsCut(s, t, u) ==
    /\ Len(s) = Len(t) + Len(u)
    /\ \A i \in 1..Len(t) : t[i] = s[i]
    /\ \A i \in 1..Len(u) : u[i] = s[i + Len(t)]

\* Cut in two, a sequence loses none.
LEMMA OccurrencesCut ==
  ASSUME NEW S, NEW s \in Seq(S), NEW e, NEW t \in Seq(S), NEW u \in Seq(S),
         IsCut(s, t, u)
  PROVE  Occurrences(e, s) = Occurrences(e, t) + Occurrences(e, u)
<1>n. PICK n, k, m : n = Len(s) /\ k = Len(t) /\ m = Len(u)
  OBVIOUS
<1>d. /\ n \in Nat /\ DOMAIN s = 1..n
      /\ k \in Nat /\ DOMAIN t = 1..k
      /\ m \in Nat /\ DOMAIN u = 1..m
  BY <1>n, LenProperties
<1>0. /\ n \in Nat /\ k \in Nat /\ m \in Nat /\ n = k + m
      /\ \A i \in 1..k : t[i] = s[i]
      /\ \A i \in 1..m : u[i] = s[i + k]
  BY <1>n, <1>d, Zenon DEF IsCut
<1>p. PICK P, A, C :
          P = Positions(e, s) /\ A = Positions(e, t) /\ C = Positions(e, u)
  OBVIOUS
<1>q. /\ P = {i \in 1..n : s[i] = e}
      /\ A = {i \in 1..k : t[i] = e}
      /\ C = {i \in 1..m : u[i] = e}
  BY <1>d, <1>p, Zenon DEF Positions
<1>b. PICK B : B = {i \in (k + 1)..n : s[i] = e}
  OBVIOUS
<1>1. P = A \cup B
  BY <1>0, <1>q, <1>b
<1>2. A \cap B = {}
  BY <1>0, <1>q, <1>b
<1>3. A \in SUBSET Int /\ B \in SUBSET Int /\ C \in SUBSET Int
  BY <1>0, <1>q, <1>b
<1>4. \A i \in C : i + k \in B
  BY <1>0, <1>q, <1>b
<1>5. ASSUME NEW j \in B PROVE j - k \in C
  <2>1. PICK i : i = j - k
    OBVIOUS
  <2>2. i \in 1..m /\ i + k = j /\ s[j] = e
    BY <1>0, <1>b, <2>1
  <2> QED
    BY <1>0, <1>q, <2>1, <2>2
<1>6. /\ IsFiniteSet(P) /\ IsFiniteSet(A) /\ IsFiniteSet(C)
      /\ Occurrences(e, s) = Cardinality(P)
      /\ Occurrences(e, t) = Cardinality(A)
      /\ Occurrences(e, u) = Cardinality(C)
  BY <1>p, OccurrencesType
<1>7. IsFiniteSet(B)
  BY <1>1, <1>6, FS_Subset
<1>8. Cardinality(B) = Cardinality(C)
  <2>1. k \in Int
    BY <1>0
  <2> QED
    BY <1>3, <1>4, <1>5, <1>6, <2>1, ShiftedSet
<1>9. Cardinality(A \cup B) = Cardinality(A) + Cardinality(B) - Cardinality(A \cap B)
  BY <1>6, <1>7, FS_Union
<1>10. Cardinality(A \cap B) = 0 /\ Cardinality(A) \in Nat /\ Cardinality(C) \in Nat
  BY <1>2, <1>6, FS_EmptySet, FS_CardinalityType
<1> QED
  BY <1>1, <1>6, <1>8, <1>9, <1>10

LEMMA OccurrencesAppend ==
  ASSUME NEW S, NEW s \in Seq(S), NEW x \in S, NEW e
  PROVE  Occurrences(e, Append(s, x)) = Occurrences(e, s) + IF x = e THEN 1 ELSE 0
<1>1. PICK u : u = <<x>>
  OBVIOUS
<1>2. u \in Seq(S) /\ Len(u) = 1 /\ u[1] = x
  BY <1>1
<1>3. PICK t : t = Append(s, x)
  OBVIOUS
<1>4. t \in Seq(S) /\ Len(t) = Len(s) + 1 /\ t[Len(s) + 1] = x /\ \A i \in 1..Len(s) : s[i] = t[i]
  BY <1>3
<1>5. IsCut(t, s, u)
  BY <1>2, <1>4 DEF IsCut
<1>6. Occurrences(e, t) = Occurrences(e, s) + Occurrences(e, u)
  BY <1>2, <1>4, <1>5, OccurrencesCut
<1> QED
  BY <1>1, <1>3, <1>6, OccurrencesOne

LEMMA OccurrencesTail ==
  ASSUME NEW S, NEW s \in Seq(S), s # <<>>, NEW e
  PROVE  Occurrences(e, s) = (IF Head(s) = e THEN 1 ELSE 0) + Occurrences(e, Tail(s))
<1>1. PICK x \in S : x = Head(s)
  OBVIOUS
<1>2. PICK t : t = <<x>>
  OBVIOUS
<1>3. t \in Seq(S) /\ Len(t) = 1 /\ t[1] = x
  BY <1>2
<1>4. PICK u : u = Tail(s)
  OBVIOUS
<1>5. u \in Seq(S) /\ Len(s) = 1 + Len(u) /\ s[1] = x /\ \A i \in 1..Len(u) : u[i] = s[i + 1]
  BY <1>1, <1>4
<1>6. IsCut(s, t, u)
  BY <1>3, <1>5 DEF IsCut
<1>7. Occurrences(e, s) = Occurrences(e, t) + Occurrences(e, u)
  BY <1>3, <1>5, <1>6, OccurrencesCut
<1> QED
  BY <1>1, <1>2, <1>4, <1>7, OccurrencesOne

LEMMA Part ==
  ASSUME NEW S, NEW s \in Seq(S), NEW a \in Int, NEW b \in Int,
         a >= 1, b <= Len(s), a <= b + 1
  PROVE  /\ SubSeq(s, a, b) \in Seq(S)
         /\ Len(SubSeq(s, a, b)) = b - a + 1
         /\ \A i \in 1..(b - a + 1) : SubSeq(s, a, b)[i] = s[a + i - 1]
<1>1. \A i \in a..b : s[i] \in S
  OBVIOUS
<1>2. /\ SubSeq(s, a, b) \in Seq(S)
      /\ Len(SubSeq(s, a, b)) = IF a <= b THEN b - a + 1 ELSE 0
      /\ \A i \in 1..(b - a + 1) : SubSeq(s, a, b)[i] = s[a + i - 1]
  BY <1>1, SubSeqProperties
<1> QED
  BY <1>2

\* What is cut off in front and what is kept.
LEMMA OccurrencesLastOf ==
  ASSUME NEW S, NEW s \in Seq(S), NEW n \in Nat, NEW e
  PROVE  /\ LastOf(s, n) \in Seq(S) /\ Len(LastOf(s, n)) <= n
         /\ Occurrences(e, s) =
               Occurrences(e, SubSeq(s, 1, Len(s) - Len(LastOf(s, n))))
               + Occurrences(e, LastOf(s, n))
<1>1. PICK k \in Nat : k = Len(s)
  OBVIOUS
<1>m. PICK m : m = IF k <= n THEN 0 ELSE k - n
  OBVIOUS
<1>2. m \in 0..k /\ m = IF k <= n THEN 0 ELSE k - n
  BY <1>m
<1>3. PICK u : u = LastOf(s, n)
  OBVIOUS
<1>4. u \in Seq(S) /\ Len(u) = k - m /\ \A i \in 1..Len(u) : u[i] = s[i + m]
  <2>1. CASE k <= n
    BY <1>1, <1>2, <1>3, <2>1 DEF LastOf
  <2>2. CASE k > n
    <3>1. u = SubSeq(s, m + 1, k) /\ m + 1 >= 1 /\ m + 1 <= k + 1
      <4>1. k - n + 1 = m + 1 /\ ~ k <= n
        BY <1>2, <2>2
      <4>2. u = SubSeq(s, k - n + 1, k)
        BY <1>1, <1>3, <4>1, Zenon DEF LastOf
      <4> QED
        BY <1>2, <4>1, <4>2
    <3>2. PICK a : a = m + 1
      OBVIOUS
    <3>3. /\ u \in Seq(S) /\ Len(u) = k - a + 1
          /\ \A i \in 1..(k - a + 1) : u[i] = s[a + i - 1]
      <4>1. a \in Int /\ k \in Int /\ a >= 1 /\ k <= Len(s) /\ a <= k + 1
        BY <1>1, <1>2, <3>1, <3>2
      <4> QED
        BY <3>1, <3>2, <4>1, Part
    <3> QED
      BY <1>2, <3>2, <3>3
  <2> QED
    BY <2>1, <2>2
<1>5. PICK t : t = SubSeq(s, 1, m)
  OBVIOUS
<1>6. t \in Seq(S) /\ Len(t) = m /\ \A i \in 1..m : t[i] = s[i]
  <2>1. m \in Int /\ 1 \in Int /\ m <= Len(s) /\ 1 <= m + 1
    BY <1>1, <1>2
  <2>2. /\ t \in Seq(S) /\ Len(t) = m - 1 + 1
        /\ \A i \in 1..(m - 1 + 1) : t[i] = s[1 + i - 1]
    BY <1>5, <2>1, Part
  <2> QED
    BY <1>2, <2>2
<1>7. IsCut(s, t, u)
  BY <1>1, <1>4, <1>6 DEF IsCut
<1>8. Occurrences(e, s) = Occurrences(e, t) + Occurrences(e, u)
  BY <1>4, <1>6, <1>7, OccurrencesCut
<1>9. k - Len(u) = m /\ Len(u) <= n
  BY <1>2, <1>4
<1> QED
  BY <1>1, <1>3, <1>4, <1>5, <1>8, <1>9


-----------------------------------------------------------------------------
(* Sums over the snapshots in a channel. *)

Values(g, s) == [i \in DOMAIN s |-> g[s[i]]]

SumOver(g, s) == SumFunction(Values(g, s))

AreValues(v, g, s) ==
    /\ v \in Seq(Nat) /\ Len(v) = Len(s)
    /\ \A i \in 1..Len(s) : v[i] = g[s[i]]

LEMMA ValuesType ==
  ASSUME NEW S, NEW g \in [S -> Nat], NEW s \in Seq(S)
  PROVE  AreValues(Values(g, s), g, s)
<1>1. PICK n : n = Len(s)
  OBVIOUS
<1>2. n \in Nat /\ DOMAIN s = 1..n /\ \A i \in 1..n : s[i] \in S
  BY <1>1
<1>3. PICK v : v = Values(g, s)
  OBVIOUS
<1>4. v = [i \in 1..n |-> g[s[i]]]
  BY <1>2, <1>3 DEF Values
<1>5. v \in [1..n -> Nat]
  BY <1>2, <1>4
<1>6. v \in Seq(Nat) /\ Len(v) = n
  BY <1>2, <1>5
<1>7. AreValues(v, g, s)
  BY <1>1, <1>4, <1>6 DEF AreValues
<1> QED
  BY <1>3, <1>7

LEMMA SumOverNone == ASSUME NEW g PROVE SumOver(g, <<>>) = 0
<1>1. Values(g, <<>>) = <<>>
  BY DEF Values
<1> QED
  BY <1>1, SumSeqEmpty DEF SumOver

LEMMA SumOverAppend ==
  ASSUME NEW S, NEW g \in [S -> Nat], NEW s \in Seq(S), NEW x \in S
  PROVE  /\ SumOver(g, s) \in Nat
         /\ SumOver(g, Append(s, x)) = SumOver(g, s) + g[x]
<1>1. PICK v : v = Values(g, s)
  OBVIOUS
<1>2. PICK t : t = Append(s, x)
  OBVIOUS
<1>3. PICK w : w = Values(g, t)
  OBVIOUS
<1>4. PICK n : n = Len(s)
  OBVIOUS
<1>5. /\ t \in Seq(S) /\ Len(t) = n + 1 /\ t[n + 1] = x /\ n \in Nat
      /\ \A i \in 1..n : t[i] = s[i]
  BY <1>2, <1>4
<1>6. /\ v \in Seq(Nat) /\ Len(v) = n
      /\ \A i \in 1..n : v[i] = g[s[i]]
  <2>1. AreValues(v, g, s)
    BY <1>1, ValuesType
  <2> QED
    BY <1>4, <2>1 DEF AreValues
<1>m. PICK m : m = n + 1
  OBVIOUS
<1>7. /\ w \in Seq(Nat) /\ Len(w) = n + 1
      /\ \A i \in 1..(n + 1) : w[i] = g[t[i]]
  <2>1. t \in Seq(S) /\ Len(t) = m
    BY <1>5, <1>m
  <2>2. AreValues(w, g, t)
    BY <1>3, <1>5, ValuesType
  <2> QED
    BY <1>m, <2>1, <2>2 DEF AreValues
<1>8. w = Append(v, g[x])
  <2>1. g[x] \in Nat
    OBVIOUS
  <2>2. w[n + 1] = g[x] /\ \A i \in 1..n : w[i] = v[i]
    <3>1. \A i \in 1..n : i \in 1..(n + 1)
      BY <1>5
    <3>2. n + 1 \in 1..(n + 1)
      BY <1>5
    <3>3. \A i \in 1..n : w[i] = g[t[i]] /\ v[i] = g[s[i]] /\ t[i] = s[i]
      BY <1>5, <1>6, <1>7, <3>1
    <3> QED
      BY <1>5, <1>7, <3>2, <3>3
  <2> QED
    BY <1>5, <1>6, <1>7, <2>1, <2>2
<1>9. SumFunction(Append(v, g[x])) = SumFunction(v) + g[x] /\ SumFunction(v) \in Nat
  <2>1. g[x] \in Nat
    OBVIOUS
  <2> QED
    BY <1>6, <2>1, SumAppend, SumSeqIs
<1> QED
  BY <1>1, <1>2, <1>3, <1>8, <1>9 DEF SumOver

LEMMA SumOverTail ==
  ASSUME NEW S, NEW g \in [S -> Nat], NEW s \in Seq(S), s # <<>>
  PROVE  /\ Head(s) \in S /\ Tail(s) \in Seq(S)
         /\ SumOver(g, Tail(s)) \in Nat
         /\ SumOver(g, s) = g[Head(s)] + SumOver(g, Tail(s))
<1>1. PICK v : v = Values(g, s)
  OBVIOUS
<1>2. PICK t : t = Tail(s)
  OBVIOUS
<1>3. PICK w : w = Values(g, t)
  OBVIOUS
<1>4. PICK n : n = Len(s)
  OBVIOUS
<1>5. /\ t \in Seq(S) /\ Len(t) = n - 1 /\ n \in Nat /\ n >= 1 /\ Head(s) = s[1]
      /\ Head(s) \in S
      /\ \A i \in 1..(n - 1) : t[i] = s[i + 1]
  BY <1>2, <1>4
<1>6. /\ v \in Seq(Nat) /\ Len(v) = n
      /\ \A i \in 1..n : v[i] = g[s[i]]
  <2>1. AreValues(v, g, s)
    BY <1>1, ValuesType
  <2> QED
    BY <1>4, <2>1 DEF AreValues
<1>m. PICK m : m = n - 1
  OBVIOUS
<1>7. /\ w \in Seq(Nat) /\ Len(w) = m /\ m \in Nat
      /\ \A i \in 1..m : w[i] = g[t[i]]
  <2>1. t \in Seq(S) /\ Len(t) = m /\ m \in Nat
    BY <1>5, <1>m
  <2>2. AreValues(w, g, t)
    BY <1>3, <1>5, ValuesType
  <2> QED
    BY <2>1, <2>2 DEF AreValues
<1>8. w = Tail(v) /\ v # <<>> /\ Head(v) = g[Head(s)]
  <2>1. /\ v # <<>> /\ Head(v) = v[1] /\ Tail(v) \in Seq(Nat) /\ Len(Tail(v)) = m
        /\ \A i \in 1..m : Tail(v)[i] = v[i + 1]
    BY <1>5, <1>6, <1>m
  <2>2. \A i \in 1..m : w[i] = v[i + 1]
    <3>1. \A i \in 1..m : i + 1 \in 1..n /\ i \in 1..(n - 1)
      BY <1>5, <1>m
    <3>2. \A i \in 1..m : w[i] = g[t[i]] /\ t[i] = s[i + 1] /\ v[i + 1] = g[s[i + 1]]
      BY <1>5, <1>6, <1>7, <3>1
    <3> QED
      BY <3>2
  <2>3. v[1] = g[s[1]]
    BY <1>5, <1>6
  <2>4. w = Tail(v)
    <3>1. PICK u : u = Tail(v)
      OBVIOUS
    <3>2. u \in Seq(Nat) /\ Len(u) = m /\ \A i \in 1..m : u[i] = w[i]
      BY <2>1, <2>2, <3>1
    <3>3. w = u
      BY <1>7, <3>2
    <3> QED
      BY <3>1, <3>3
  <2> QED
    BY <1>5, <2>1, <2>3, <2>4
<1>9. SumFunction(v) = Head(v) + SumFunction(w) /\ SumFunction(w) \in Nat
  BY <1>6, <1>7, <1>8, SumTail, SumSeqIs
<1> QED
  BY <1>1, <1>2, <1>3, <1>5, <1>8, <1>9 DEF SumOver

PassedOf  == [x \in Snapshot |-> x.passed]
DroppedOf == [x \in Snapshot |-> x.dropped]
NamedIn(n) == [x \in Snapshot |-> Occurrences(n, x.events)]

LEMMA SnapshotSums ==
  /\ PassedOf \in [Snapshot -> Nat]
  /\ DroppedOf \in [Snapshot -> Nat]
  /\ \A n : NamedIn(n) \in [Snapshot -> Nat]
<1>1. \A n : \A x \in Snapshot : Occurrences(n, x.events) \in Nat
  BY OccurrencesType DEF Snapshot
<1> QED
  BY <1>1 DEF PassedOf, DroppedOf, NamedIn, Snapshot

LEMMA SumsOfDeltas ==
  ASSUME NEW s \in Seq(Snapshot)
  PROVE  /\ Deltas(s) = [passed |-> SumOver(PassedOf, s), dropped |-> SumOver(DroppedOf, s)]
         /\ SumOver(PassedOf, s) \in Nat /\ SumOver(DroppedOf, s) \in Nat
<1>1. \A i \in DOMAIN s : s[i] \in Snapshot
  OBVIOUS
<1>2. Values(PassedOf, s) = [i \in DOMAIN s |-> s[i].passed]
  BY <1>1 DEF Values, PassedOf
<1>3. Values(DroppedOf, s) = [i \in DOMAIN s |-> s[i].dropped]
  BY <1>1 DEF Values, DroppedOf
<1>4. [passed |-> 0, dropped |-> 0, events |-> <<>>] \in Snapshot
  BY DEF Snapshot
<1>5. SumOver(PassedOf, s) \in Nat /\ SumOver(DroppedOf, s) \in Nat
  BY <1>4, SnapshotSums, SumOverAppend
<1> QED
  BY <1>2, <1>3, <1>5 DEF Deltas, SumOver

\* What the channel holds, as the properties say it.
LEMMA InputSums ==
  ASSUME input \in Seq(Snapshot), NEW n
  PROVE  /\ Deltas(input) = [passed |-> SumOver(PassedOf, input),
                             dropped |-> SumOver(DroppedOf, input)]
         /\ EventsNamed(n) = Occurrences(n, dropEvents)
               + Occurrences(n, poll.events) + SumOver(NamedIn(n), input)
<1>1. \A i \in DOMAIN input : input[i] \in Snapshot
  OBVIOUS
<1>2. Values(NamedIn(n), input) =
          [i \in DOMAIN input |-> Occurrences(n, input[i].events)]
  BY <1>1 DEF Values, NamedIn
<1> QED
  BY <1>2, SumsOfDeltas DEF EventsNamed, SumOver

-----------------------------------------------------------------------------
(* Type correctness. *)

\* The reader's number and the collector's formatting of it turn the octets
\* round: two sources never get the same name.
LEMMA SourceNames ==
  ASSUME NEW a \in Sources, NEW b \in Sources
  PROVE  /\ ipToString(a) \in Names
         /\ ipToString(a) = ipToString(b) <=> a = b
<1>1. a \in Seq(0..255) /\ b \in Seq(0..255)
  BY SourcesAssumption
<1>2. ASSUME NEW c \in Seq(0..255) PROVE Reverse(Reverse(c)) = c
  <2>1. PICK n : n = Len(c)
    OBVIOUS
  <2>2. PICK r : r = Reverse(c)
    OBVIOUS
  <2>3. n \in Nat /\ \A i \in 1..n : n - i + 1 \in 1..n
    BY <2>1
  <2>4. r = [i \in 1..n |-> c[n - i + 1]]
    BY <2>1, <2>2 DEF Reverse
  <2>5. r \in Seq(0..255) /\ Len(r) = n
    <3>0. \A j \in 1..n : c[j] \in 0..255
      BY <2>1
    <3>1. r \in [1..n -> 0..255]
      BY <2>3, <2>4, <3>0
    <3> QED
      BY <2>3, <3>1
  <2>6. Reverse(r) = [i \in 1..n |-> r[n - i + 1]]
    BY <2>5 DEF Reverse
  <2>7. \A i \in 1..n : r[n - i + 1] = c[i]
    <3> SUFFICES ASSUME NEW i \in 1..n PROVE r[n - i + 1] = c[i]
      OBVIOUS
    <3>1. PICK j \in 1..n : j = n - i + 1
      BY <2>3
    <3>2. n - j + 1 = i
      BY <2>3, <3>1
    <3> QED
      BY <2>4, <3>1, <3>2
  <2>8. Reverse(r) = [i \in 1..n |-> c[i]]
    BY <2>6, <2>7
  <2>9. [i \in 1..n |-> c[i]] = c
    BY <2>1
  <2> QED
    BY <2>2, <2>8, <2>9
<1>3. Reverse(Reverse(a)) = a /\ Reverse(Reverse(b)) = b
  BY <1>1, <1>2
<1> QED
  BY <1>3 DEF Names, ipToString

\* The counters and what was read of them: the collector never reads a number
\* below the one it read before, so no delta is negative.
AheadInv ==
    /\ prev.passed <= passed /\ prev.dropped <= dropped
    /\ poll.pc = "dropped" => prev.passed <= poll.passed /\ poll.passed <= passed
    /\ poll.pc # "send" => poll.events = <<>>

LEMMA InitType == Init => TypeOK /\ AheadInv
<1> SUFFICES ASSUME Init PROVE TypeOK /\ AheadInv
  OBVIOUS
<1>1. passed = 0 /\ dropped = 0
  BY DEF Init, View!Init
<1>2. Zero \in CountRecord
  BY DEF Zero, CountRecord
<1>3. /\ RingSize \in Nat /\ EventChSize \in Nat /\ KeepEvents \in Nat
      /\ InputSize \in Nat /\ WindowSize \in Nat /\ WindowSize > 0
  BY SizesAssumption
<1>4. window \in [data : [0..(WindowSize - 1) -> CountRecord],
                  head : 0..(WindowSize - 1), count : 0..WindowSize,
                  cap : {WindowSize}]
  BY <1>2, <1>3 DEF Init, newCircularBuffer
<1>5. /\ emitting = [a \in Sources |-> 0] /\ ring = <<>>
      /\ <<>> \in Seq(Sources) /\ <<>> \in Seq(Names) /\ <<>> \in Seq(Snapshot)
  BY DEF Init, View!Init
<1>6. TypeOK
  BY <1>1, <1>2, <1>3, <1>4, <1>5 DEF Init, TypeOK
<1>7. AheadInv
  BY <1>1 DEF Init, AheadInv, Zero
<1> QED
  BY <1>6, <1>7

\* Counts lost add up.
LEMMA LoseType ==
  ASSUME lostEvents \in [Names -> Nat], NEW s \in Seq(Names), Lose(s)
  PROVE  /\ lostEvents' \in [Names -> Nat]
         /\ \A n \in Names : lostEvents'[n] = lostEvents[n] + Occurrences(n, s)
<1>1. \A n \in Names : lostEvents[n] + Occurrences(n, s) \in Nat
  BY OccurrencesType
<1> QED
  BY <1>1 DEF Lose

\* No queue is longer than its capacity, also with one entry less or, if there
\* was room, with one more.
LEMMA QueueLengths ==
  ASSUME TypeOK
  PROVE  /\ {RingSize, EventChSize, KeepEvents, InputSize} \subseteq Nat
         /\ {Len(ring), Len(eventCh), Len(dropEvents), Len(input)} \subseteq Nat
         /\ Len(ring) <= RingSize /\ Len(eventCh) <= EventChSize
         /\ Len(dropEvents) <= KeepEvents /\ Len(input) <= InputSize
<1>1. {RingSize, EventChSize, KeepEvents, InputSize} \subseteq Nat
  BY SizesAssumption
<1>2. /\ Len(ring) <= RingSize /\ Len(eventCh) <= EventChSize
      /\ Len(dropEvents) <= KeepEvents /\ Len(input) <= InputSize
  BY DEF TypeOK
<1>3. /\ ring \in Seq(Sources) /\ eventCh \in Seq(Sources)
      /\ dropEvents \in Seq(Names) /\ input \in Seq(Snapshot)
  BY DEF TypeOK
<1>4. /\ Len(ring) \in Nat /\ Len(eventCh) \in Nat
      /\ Len(dropEvents) \in Nat /\ Len(input) \in Nat
  BY <1>3
<1> QED
  BY <1>1, <1>2, <1>4

LEMMA Shorter ==
  ASSUME NEW n \in Nat, NEW k \in Nat, k <= n, NEW l, l = k - 1
  PROVE  l <= n
  OBVIOUS

LEMMA Longer ==
  ASSUME NEW n \in Nat, NEW k \in Nat, k < n, NEW l, l = k + 1
  PROVE  l <= n
  OBVIOUS

LEMMA AddCountsType ==
  ASSUME NEW x \in CountRecord, NEW y \in CountRecord
  PROVE  AddCounts(x, y) \in CountRecord
  BY DEF AddCounts, CountRecord

PollRecord == [pc : {"wait", "dropped", "events", "send"},
               passed : Nat, dropped : Nat, events : Seq(Names)]

\* What LastOf cuts off.
LEMMA CutOffType ==
  ASSUME NEW S, NEW s \in Seq(S), NEW n \in Nat
  PROVE  SubSeq(s, 1, Len(s) - Len(LastOf(s, n))) \in Seq(S)
<1>1. PICK m : m = Len(s) - Len(LastOf(s, n))
  OBVIOUS
<1>2. LastOf(s, n) \in Seq(S) /\ Len(LastOf(s, n)) <= Len(s)
  <2>1. CASE Len(s) <= n
    BY <2>1 DEF LastOf
  <2>2. CASE ~ Len(s) <= n
    <3>1. PICK a : a = Len(s) - n + 1
      OBVIOUS
    <3>2. a \in Int /\ a >= 1 /\ a <= Len(s) + 1
      BY <2>2, <3>1
    <3>3. LastOf(s, n) = SubSeq(s, a, Len(s))
      BY <2>2, <3>1 DEF LastOf
    <3>4. Len(SubSeq(s, a, Len(s))) = Len(s) - a + 1 /\ SubSeq(s, a, Len(s)) \in Seq(S)
      BY <3>2, Part
    <3> QED
      BY <3>2, <3>3, <3>4
  <2> QED
    BY <2>1, <2>2
<1>3. m \in Int /\ m <= Len(s) /\ 1 <= m + 1
  BY <1>1, <1>2
<1>4. SubSeq(s, 1, m) \in Seq(S)
  BY <1>3, Part
<1> QED
  BY <1>1, <1>4

\* The kernel, the reader and consumeEvents.
LEMMA EventsType ==
  ASSUME TypeOK, AheadInv, Kernel \/ ReadRecord \/ SendEvent \/ consumeEvent
  PROVE  TypeOK' /\ AheadInv'
<1> USE DEF kernelVars, eventVars, pollVars, aggregatorVars
<1>1. CASE PassPacket
  <2>1. passed' = passed + 1 /\ passed \in Nat /\ dropped' = dropped
    BY <1>1 DEF PassPacket, View!Pass, TypeOK
  <2>2. prev \in CountRecord /\ prev.passed \in Nat /\ poll.passed \in Nat
    BY DEF TypeOK, CountRecord
  <2>a. AheadInv'
    BY <1>1, <2>1, <2>2 DEF PassPacket, AheadInv
  <2>t. TypeOK'
    BY <1>1, <2>1 DEF PassPacket, View!Pass, TypeOK
  <2> QED
    BY <2>a, <2>t
<1>2. ASSUME NEW a \in Sources, DropPacket(a) PROVE TypeOK' /\ AheadInv'
  <2>1. /\ droppedBy' \in [Sources -> Nat] /\ emitting' \in [Sources -> Nat]
        /\ dropped' = dropped + 1 /\ dropped \in Nat
    <3>1. droppedBy \in [Sources -> Nat] /\ emitting \in [Sources -> Nat]
      BY DEF TypeOK
    <3>2. /\ droppedBy' = [droppedBy EXCEPT ![a] = @ + 1]
          /\ emitting' = [emitting EXCEPT ![a] = @ + 1]
          /\ dropped' = dropped + 1
      BY <1>2 DEF DropPacket, View!Drop
    <3>3. dropped \in Nat
      BY DEF TypeOK
    <3> QED
      BY <3>1, <3>2, <3>3
  <2>2. prev \in CountRecord /\ prev.dropped \in Nat
    BY DEF TypeOK, CountRecord
  <2>3. UNCHANGED <<passed, ring, reading, eventCh, dropEvents, pollVars, input,
                    aggregatorVars, shown, lostEvents>>
    BY <1>2 DEF DropPacket, View!Drop
  <2>a. AheadInv'
    BY <2>1, <2>2, <2>3 DEF AheadInv
  <2>t. TypeOK'
    <3>1. dropped' \in Nat
      BY <2>1
    <3> QED
      BY <2>1, <2>3, <3>1 DEF TypeOK
  <2> QED
    BY <2>a, <2>t
<1>3. ASSUME NEW a \in Sources, EmitEvent(a) PROVE TypeOK' /\ AheadInv'
  <2>1. emitting' \in [Sources -> Nat]
    BY <1>3 DEF EmitEvent, View!Emit, TypeOK
  <2>2. /\ ring' \in Seq(Sources) /\ Len(ring') <= RingSize
        /\ lostEvents' \in [Names -> Nat]
    <3>1. CASE View!RingHasRoom /\ ring' = Append(ring, a) /\ UNCHANGED lostEvents
      <4>1. ring \in Seq(Sources) /\ RingSize \in Nat /\ lostEvents \in [Names -> Nat]
        BY SizesAssumption DEF TypeOK
      <4>2. Len(ring) < RingSize
        BY <3>1 DEF View!RingHasRoom
      <4> QED
        BY <3>1, <4>1, <4>2
    <3>2. CASE Lose(<<ipToString(a)>>) /\ UNCHANGED ring
      <4>1. <<ipToString(a)>> \in Seq(Names)
        BY SourceNames
      <4> QED
        BY <3>2, <4>1, LoseType DEF TypeOK
    <3> QED
      BY <1>3, <3>1, <3>2 DEF EmitEvent, View!Emit
  <2>3. UNCHANGED <<passed, dropped, droppedBy, reading, eventCh, dropEvents,
                    pollVars, input, aggregatorVars, shown>>
    BY <1>3 DEF EmitEvent, View!Emit
  <2> QED
    BY <2>1, <2>2, <2>3 DEF TypeOK, AheadInv
<1>4. CASE ReadRecord
  <2>1. /\ ring' \in Seq(Sources) /\ Len(ring') = Len(ring) - 1
        /\ reading' \in Sources
    BY <1>4 DEF ReadRecord, View!Take, TypeOK
  <2>2. Len(ring') <= RingSize
    BY <2>1, QueueLengths, Shorter
  <2>3. dropped' = dropped
    BY <1>4 DEF ReadRecord, View!Take
  <2>a. AheadInv'
    BY <1>4, <2>3 DEF ReadRecord, View!Take, AheadInv
  <2>t. TypeOK'
    BY <1>4, <2>1, <2>2, <2>3 DEF ReadRecord, View!Take, TypeOK
  <2> QED
    BY <2>a, <2>t
<1>5. CASE SendEvent
  <2>1. eventCh' \in Seq(Sources) /\ Len(eventCh') <= EventChSize
    BY <1>5, SizesAssumption DEF SendEvent, TypeOK
  <2>2. dropped' = dropped
    BY <1>5 DEF SendEvent
  <2> QED
    BY <1>5, <2>1, <2>2 DEF SendEvent, TypeOK, AheadInv
<1>6. CASE consumeEvent
  <2>1. PICK x \in Sources : x = Head(eventCh)
    BY <1>6 DEF consumeEvent, TypeOK
  <2>2. PICK s : s = Append(dropEvents, ipToString(x))
    OBVIOUS
  <2>3. /\ dropEvents' = LastOf(s, KeepEvents)
        /\ Lose(SubSeq(s, 1, Len(s) - Len(LastOf(s, KeepEvents))))
    BY <1>6, <2>1, <2>2 DEF consumeEvent
  <2>4. s \in Seq(Names) /\ KeepEvents \in Nat
    BY <2>2, SourceNames, SizesAssumption DEF TypeOK
  <2>5. PICK k : k = LastOf(s, KeepEvents)
    OBVIOUS
  <2>6. k \in Seq(Names) /\ Len(k) <= KeepEvents /\ Len(k) \in Nat
    BY <2>4, <2>5, OccurrencesLastOf
  <2>7. SubSeq(s, 1, Len(s) - Len(k)) \in Seq(Names)
    BY <2>4, <2>5, CutOffType
  <2>8. lostEvents' \in [Names -> Nat]
    BY <2>3, <2>5, <2>7, LoseType DEF TypeOK
  <2>9. eventCh' \in Seq(Sources) /\ Len(eventCh') = Len(eventCh) - 1
    BY <1>6 DEF consumeEvent, TypeOK
  <2>10. Len(eventCh) \in Nat /\ Len(eventCh) <= EventChSize /\ EventChSize \in Nat
    BY SizesAssumption DEF TypeOK
  <2>11. dropped' = dropped
    BY <1>6 DEF consumeEvent
  <2>a. AheadInv'
    BY <1>6, <2>11 DEF consumeEvent, AheadInv
  <2>t. TypeOK'
    <3>1. dropEvents' \in Seq(Names) /\ Len(dropEvents') <= KeepEvents
      BY <2>3, <2>5, <2>6
    <3>2. eventCh' \in Seq(Sources) /\ Len(eventCh') <= EventChSize
      BY <2>9, <2>10
    <3> QED
      BY <1>6, <2>8, <3>1, <3>2 DEF consumeEvent, TypeOK
  <2> QED
    BY <2>a, <2>t
<1> QED
  BY <1>1, <1>2, <1>3, <1>4, <1>5, <1>6 DEF Kernel

\* Collector.poll and main's subscription.
LEMMA PollType ==
  ASSUME TypeOK, AheadInv,
         ReadPassed \/ ReadDropped \/ PollFails \/ TakeEvents \/ SendSnapshot \/ Subscribe
  PROVE  TypeOK' /\ AheadInv'
<1> USE DEF CollectorOnly, kernelVars, eventVars, aggregatorVars
<1>p. /\ poll \in PollRecord
      /\ passed \in Nat /\ dropped \in Nat
      /\ prev \in CountRecord /\ prev.passed \in Nat /\ prev.dropped \in Nat
      /\ poll.passed \in Nat /\ poll.dropped \in Nat /\ poll.events \in Seq(Names)
  BY DEF TypeOK, PollRecord, CountRecord
<1>d. dropped' = dropped
  BY DEF ReadPassed, ReadDropped, PollFails, TakeEvents, SendSnapshot, Subscribe,
         CollectorOnly, kernelVars
<1>1. CASE ReadPassed
  <2>1. /\ poll' \in PollRecord /\ poll'.pc = "dropped" /\ poll'.passed = passed
        /\ poll'.events = poll.events
    BY <1>1, <1>p DEF ReadPassed, PollRecord
  <2>a. AheadInv'
    BY <1>1, <1>p, <1>d, <2>1 DEF ReadPassed, AheadInv
  <2>t. TypeOK'
    BY <1>1, <2>1 DEF ReadPassed, TypeOK, PollRecord
  <2> QED
    BY <2>a, <2>t
<1>2. CASE ReadDropped
  <2>1. /\ poll.passed - prev.passed \in Nat /\ poll.passed <= passed
        /\ dropped - prev.dropped \in Nat
        /\ poll.events = <<>>
    BY <1>2, <1>p DEF ReadDropped, AheadInv
  <2>2. /\ poll' \in PollRecord /\ poll'.pc = "events" /\ poll'.events = poll.events
    BY <1>2, <1>p, <2>1 DEF ReadDropped, PollRecord
  <2>3. prev' \in CountRecord /\ prev'.passed = poll.passed /\ prev'.dropped = dropped
    BY <1>2, <1>p DEF ReadDropped, CountRecord
  <2>a. AheadInv'
    BY <1>2, <1>p, <1>d, <2>1, <2>2, <2>3 DEF ReadDropped, AheadInv
  <2>t. TypeOK'
    BY <1>2, <2>2, <2>3 DEF ReadDropped, TypeOK, PollRecord
  <2> QED
    BY <2>a, <2>t
<1>3. CASE PollFails
  <2>1. poll' \in PollRecord /\ poll'.pc = "wait" /\ poll'.events = poll.events
    BY <1>3, <1>p DEF PollFails, PollRecord
  <2> QED
    BY <1>3, <1>p, <1>d, <2>1 DEF PollFails, TypeOK, AheadInv, PollRecord
<1>4. CASE TakeEvents
  <2>1. poll' \in PollRecord /\ poll'.pc = "send"
    BY <1>4, <1>p DEF TakeEvents, PollRecord, TypeOK
  <2>2. dropEvents' = <<>>
    BY <1>4 DEF TakeEvents, NoEvents
  <2>a. AheadInv'
    BY <1>4, <1>p, <1>d, <2>1 DEF TakeEvents, AheadInv
  <2>t. TypeOK'
    <3>1. dropEvents' \in Seq(Names) /\ Len(dropEvents') <= KeepEvents
      BY <2>2, SizesAssumption
    <3> QED
      BY <1>4, <2>1, <3>1 DEF TakeEvents, TypeOK, PollRecord
  <2> QED
    BY <2>a, <2>t
<1>5. CASE SendSnapshot
  <2>1. poll' = [pc |-> "wait", passed |-> 0, dropped |-> 0, events |-> <<>>]
    BY <1>5 DEF SendSnapshot
  <2>2. poll' \in PollRecord
    BY <2>1 DEF PollRecord
  <2>3. /\ input' \in Seq(Snapshot) /\ Len(input') <= InputSize
        /\ lost' \in CountRecord /\ lostEvents' \in [Names -> Nat]
    <3>1. CASE /\ subscribed /\ InputHasRoom
               /\ input' = Append(input, [passed |-> poll.passed,
                             dropped |-> poll.dropped, events |-> poll.events])
               /\ UNCHANGED <<lost, lostEvents>>
      <4>1. [passed |-> poll.passed, dropped |-> poll.dropped,
             events |-> poll.events] \in Snapshot
        BY <1>p DEF Snapshot
      <4>2. Len(input') = Len(input) + 1 /\ input' \in Seq(Snapshot)
        BY <3>1, <4>1 DEF TypeOK
      <4>3. Len(input') <= InputSize
        BY <3>1, <4>2, QueueLengths, Longer DEF InputHasRoom
      <4>4. lost \in CountRecord /\ lostEvents \in [Names -> Nat]
        BY DEF TypeOK
      <4> QED
        BY <3>1, <4>2, <4>3, <4>4
    <3>2. CASE /\ lost' = AddCounts(lost, Counts(poll))
               /\ Lose(poll.events)
               /\ UNCHANGED input
      <4>1. Counts(poll) \in CountRecord /\ lost \in CountRecord
        BY <1>p DEF Counts, CountRecord, TypeOK
      <4>2. lost' \in CountRecord
        BY <3>2, <4>1, AddCountsType
      <4>3. lostEvents' \in [Names -> Nat]
        BY <1>p, <3>2, LoseType DEF TypeOK
      <4> QED
        BY <3>2, <4>2, <4>3 DEF TypeOK
    <3> QED
      BY <1>5, <3>1, <3>2 DEF SendSnapshot
  <2> QED
    BY <1>5, <1>d, <2>1, <2>2, <2>3 DEF SendSnapshot, TypeOK, AheadInv, PollRecord
<1>6. CASE Subscribe
  BY <1>6, <1>d DEF Subscribe, TypeOK, AheadInv
<1> QED
  BY <1>1, <1>2, <1>3, <1>4, <1>5, <1>6

\* The aggregator and the ticker.
LEMMA AggregatorType ==
  ASSUME TypeOK, AheadInv, process \/ HandToBroadcaster
  PROVE  TypeOK' /\ AheadInv'
<1> USE DEF kernelVars, eventVars, pollVars, aggregatorVars
<1>d. dropped' = dropped
  BY DEF process, HandToBroadcaster, kernelVars
<1>1. CASE process
  <2>1. PICK snap : snap = Head(input)
    OBVIOUS
  <2>2. /\ snap \in Snapshot /\ input' \in Seq(Snapshot) /\ Len(input') = Len(input) - 1
        /\ Len(input) \in Nat
    BY <1>1, <2>1 DEF process, TypeOK
  <2>3. Counts(snap) \in CountRecord /\ snap.events \in Seq(Names)
    BY <2>2 DEF Snapshot, Counts, CountRecord
  <2>4. total' \in CountRecord
    <3>1. total' = AddCounts(total, Counts(snap)) /\ total \in CountRecord
      BY <1>1, <2>1 DEF process, TypeOK
    <3> QED
      BY <2>3, <3>1, AddCountsType
  <2>5. window' \in Buffers(WindowSize, CountRecord)
    <3>1. window \in Buffers(WindowSize, CountRecord)
      BY DEF TypeOK, Buffers
    <3>2. WindowSize \in Nat /\ WindowSize > 0 /\ window' = Push(window, Counts(snap))
      BY <1>1, <2>1, SizesAssumption DEF process
    <3> QED
      BY <2>3, <3>1, <3>2, PushType DEF IsPush
  <2>6. blockedIPMap' \in [Names -> Nat]
    <3>1. \A n \in Names : blockedIPMap[n] + Occurrences(n, snap.events) \in Nat
      <4>1. blockedIPMap \in [Names -> Nat]
        BY DEF TypeOK
      <4>2. \A n \in Names : Occurrences(n, snap.events) \in Nat
        BY <2>3, OccurrencesType
      <4>3. \A n \in Names : blockedIPMap[n] \in Nat
        BY <4>1
      <4> QED
        BY <4>2, <4>3
    <3> QED
      BY <1>1, <2>1, <3>1 DEF process, CountSources
  <2>7. Len(input') <= InputSize
    BY <2>2, QueueLengths, Shorter
  <2> QED
    BY <1>1, <1>d, <2>2, <2>4, <2>5, <2>6, <2>7 DEF process, TypeOK, AheadInv, Buffers
<1>2. CASE HandToBroadcaster
  BY <1>2, <1>d DEF HandToBroadcaster, TypeOK, AheadInv
<1> QED
  BY <1>1, <1>2

LEMMA NextType == TypeOK /\ AheadInv /\ [Next]_vars => TypeOK' /\ AheadInv'
<1> SUFFICES ASSUME TypeOK, AheadInv, [Next]_vars PROVE TypeOK' /\ AheadInv'
  OBVIOUS
<1>1. CASE UNCHANGED vars
  BY <1>1 DEF vars, kernelVars, eventVars, pollVars, aggregatorVars, TypeOK, AheadInv
<1> QED
  BY <1>1, EventsType, PollType, AggregatorType DEF Next

\* For any numbers of sources and any sizes of the channels, every queue stays
\* within its capacity and no delta between two polls is negative
\* (collector.go:95-123), which in unsigned arithmetic would be 2^64.
THEOREM TypeCorrect == Spec => []TypeOK
<1> QED
  BY InitType, NextType, PTL DEF Spec

-----------------------------------------------------------------------------
(* Conservation of the counts. *)

Underway == poll.pc \in {"events", "send"}

\* Read so far is: in the totals, in the channel, in hand, or lost.
Balanced(t, s, h, l, v) == t + s + h + l = v

\* CountsConserved, one counter at a time.
CountsInv ==
    /\ Balanced(total.passed, SumOver(PassedOf, input),
                IF Underway THEN poll.passed ELSE 0, lost.passed, prev.passed)
    /\ Balanced(total.dropped, SumOver(DroppedOf, input),
                IF Underway THEN poll.dropped ELSE 0, lost.dropped, prev.dropped)

LEMMA BalanceMoves ==
  ASSUME NEW t \in Nat, NEW s \in Nat, NEW h \in Nat, NEW l \in Nat,
         NEW v \in Nat, NEW x \in Nat
  PROVE  /\ Balanced(t, s, 0, l, v) => Balanced(t, s, x - v, l, x)
         /\ Balanced(t, s, h, l, v) => Balanced(t, s + h, 0, l, v)
         /\ Balanced(t, s, h, l, v) => Balanced(t, s, 0, l + h, v)
         /\ Balanced(t, x + s, h, l, v) => Balanced(t + x, s, h, l, v)
  BY DEF Balanced

\* The numbers that CountsInv adds up.
LEMMA CountsType ==
  ASSUME TypeOK
  PROVE  /\ SumOver(PassedOf, input) \in Nat /\ SumOver(DroppedOf, input) \in Nat
         /\ total \in CountRecord /\ total.passed \in Nat /\ total.dropped \in Nat
         /\ lost \in CountRecord /\ lost.passed \in Nat /\ lost.dropped \in Nat
         /\ prev \in CountRecord /\ prev.passed \in Nat /\ prev.dropped \in Nat
         /\ poll \in PollRecord /\ poll.passed \in Nat /\ poll.dropped \in Nat
         /\ poll.events \in Seq(Names) /\ input \in Seq(Snapshot)
<1>1. input \in Seq(Snapshot)
  BY DEF TypeOK
<1>2. Zero.passed = 0
  BY DEF Zero
<1>3. [passed |-> 0, dropped |-> 0, events |-> <<>>] \in Snapshot
  BY DEF Snapshot
<1>4. SumOver(PassedOf, input) \in Nat /\ SumOver(DroppedOf, input) \in Nat
  BY <1>1, <1>3, SnapshotSums, SumOverAppend
<1>5. /\ total \in CountRecord /\ lost \in CountRecord /\ prev \in CountRecord
      /\ poll \in PollRecord
  BY DEF TypeOK, PollRecord
<1> QED
  BY <1>1, <1>4, <1>5 DEF CountRecord, PollRecord

LEMMA CountsMeaning == ASSUME TypeOK PROVE CountsInv <=> CountsConserved
<1>1. Deltas(input) = [passed |-> SumOver(PassedOf, input),
                       dropped |-> SumOver(DroppedOf, input)]
  BY CountsType, InputSums
<1>2. InHand = [passed |-> IF Underway THEN poll.passed ELSE 0,
                dropped |-> IF Underway THEN poll.dropped ELSE 0]
  BY DEF InHand, Underway, Counts, Zero
<1>3. PICK p, d : p = SumOver(PassedOf, input) /\ d = SumOver(DroppedOf, input)
  OBVIOUS
<1>4. PICK q, e : /\ q = IF Underway THEN poll.passed ELSE 0
                  /\ e = IF Underway THEN poll.dropped ELSE 0
  OBVIOUS
<1>5. AddCounts(AddCounts(total, Deltas(input)), AddCounts(InHand, lost)) =
         [passed |-> total.passed + p + (q + lost.passed),
          dropped |-> total.dropped + d + (e + lost.dropped)]
  BY <1>1, <1>2, <1>3, <1>4 DEF AddCounts
<1>6. prev = [passed |-> prev.passed, dropped |-> prev.dropped]
  BY CountsType DEF CountRecord
<1>7. CountsConserved <=> /\ total.passed + p + (q + lost.passed) = prev.passed
                          /\ total.dropped + d + (e + lost.dropped) = prev.dropped
  BY <1>5, <1>6 DEF CountsConserved
<1>8. CountsInv <=> /\ total.passed + p + q + lost.passed = prev.passed
                    /\ total.dropped + d + e + lost.dropped = prev.dropped
  BY <1>3, <1>4, Zenon DEF CountsInv, Balanced
<1>9. p \in Nat /\ d \in Nat /\ q \in Nat /\ e \in Nat
  BY <1>3, <1>4, CountsType
<1>10. /\ total.passed + p + (q + lost.passed) = total.passed + p + q + lost.passed
       /\ total.dropped + d + (e + lost.dropped) = total.dropped + d + e + lost.dropped
  <2>1. /\ total.passed \in Nat /\ total.dropped \in Nat
        /\ lost.passed \in Nat /\ lost.dropped \in Nat
    BY CountsType
  <2>2. PICK t, l, u, m : t = total.passed /\ l = lost.passed
                          /\ u = total.dropped /\ m = lost.dropped
    OBVIOUS
  <2>3. /\ t + p + (q + l) = t + p + q + l
        /\ u + d + (e + m) = u + d + e + m
    BY <1>9, <2>1, <2>2
  <2> QED
    BY <2>2, <2>3
<1> QED
  BY <1>7, <1>8, <1>10

LEMMA CountsInit == Init => CountsInv
  BY SumOverNone DEF Init, CountsInv, Balanced, Zero, Underway

\* A snapshot leaves the collector, for the channel or for nowhere.
LEMMA CountsSend == ASSUME TypeOK, CountsInv, SendSnapshot PROVE CountsInv'
<1>1. poll.pc = "send" /\ poll'.pc = "wait" /\ UNCHANGED <<total, prev>>
  BY DEF SendSnapshot, CollectorOnly, aggregatorVars
<1>x. PICK x : x = [passed |-> poll.passed, dropped |-> poll.dropped,
                    events |-> poll.events]
  OBVIOUS
<1>2. x \in Snapshot /\ x.passed = poll.passed /\ x.dropped = poll.dropped
  BY <1>x, CountsType DEF Snapshot
<1>n. PICK p, d : p = SumOver(PassedOf, input) /\ d = SumOver(DroppedOf, input)
  OBVIOUS
<1>b. /\ Balanced(total.passed, p, poll.passed, lost.passed, prev.passed)
      /\ Balanced(total.dropped, d, poll.dropped, lost.dropped, prev.dropped)
  BY <1>1, <1>n DEF CountsInv, Underway
<1>c. p \in Nat /\ d \in Nat
  BY <1>n, CountsType
<1>3. CASE input' = Append(input, x) /\ UNCHANGED lost
  <2>1. /\ SumOver(PassedOf, input') = SumOver(PassedOf, input) + PassedOf[x]
        /\ SumOver(DroppedOf, input') = SumOver(DroppedOf, input) + DroppedOf[x]
    BY <1>2, <1>3, CountsType, SnapshotSums, SumOverAppend
  <2>2. PassedOf[x] = poll.passed /\ DroppedOf[x] = poll.dropped
    BY <1>2 DEF PassedOf, DroppedOf
  <2>3. /\ Balanced(total.passed, p + poll.passed, 0, lost.passed, prev.passed)
        /\ Balanced(total.dropped, d + poll.dropped, 0, lost.dropped, prev.dropped)
    BY <1>b, <1>c, CountsType, BalanceMoves
  <2> QED
    BY <1>1, <1>3, <1>n, <2>1, <2>2, <2>3 DEF CountsInv, Underway
<1>4. CASE lost' = AddCounts(lost, Counts(poll)) /\ UNCHANGED input
  <2>1. /\ lost'.passed = lost.passed + poll.passed
        /\ lost'.dropped = lost.dropped + poll.dropped
    BY <1>4 DEF AddCounts, Counts
  <2>2. /\ Balanced(total.passed, p, 0, lost.passed + poll.passed, prev.passed)
        /\ Balanced(total.dropped, d, 0, lost.dropped + poll.dropped, prev.dropped)
    BY <1>b, <1>c, CountsType, BalanceMoves
  <2> QED
    BY <1>1, <1>4, <1>n, <2>1, <2>2 DEF CountsInv, Underway
<1> QED
  BY <1>x, <1>3, <1>4 DEF SendSnapshot

LEMMA CountsProcess == ASSUME TypeOK, CountsInv, process PROVE CountsInv'
<1>1. /\ input # <<>> /\ input' = Tail(input) /\ UNCHANGED <<poll, prev, lost>>
      /\ total' = AddCounts(total, Counts(Head(input)))
  BY DEF process, pollVars
<1>2. PICK x : x = Head(input)
  OBVIOUS
<1>3. /\ x \in Snapshot
      /\ SumOver(PassedOf, input) = PassedOf[x] + SumOver(PassedOf, input')
      /\ SumOver(DroppedOf, input) = DroppedOf[x] + SumOver(DroppedOf, input')
      /\ SumOver(PassedOf, input') \in Nat /\ SumOver(DroppedOf, input') \in Nat
  BY <1>1, <1>2, CountsType, SnapshotSums, SumOverTail
<1>4. /\ PassedOf[x] = x.passed /\ DroppedOf[x] = x.dropped
      /\ x.passed \in Nat /\ x.dropped \in Nat
  BY <1>3 DEF PassedOf, DroppedOf, Snapshot
<1>5. total'.passed = total.passed + x.passed /\ total'.dropped = total.dropped + x.dropped
  BY <1>1, <1>2 DEF AddCounts, Counts
<1>6. PICK p, d, q, e : /\ p = SumOver(PassedOf, input') /\ d = SumOver(DroppedOf, input')
                        /\ q = (IF Underway THEN poll.passed ELSE 0)
                        /\ e = (IF Underway THEN poll.dropped ELSE 0)
  OBVIOUS
<1>7. p \in Nat /\ d \in Nat /\ q \in Nat /\ e \in Nat
  BY <1>3, <1>6, CountsType
<1>8. /\ Balanced(total.passed, x.passed + p, q, lost.passed, prev.passed)
      /\ Balanced(total.dropped, x.dropped + d, e, lost.dropped, prev.dropped)
  BY <1>3, <1>4, <1>6 DEF CountsInv
<1>9. /\ Balanced(total.passed + x.passed, p, q, lost.passed, prev.passed)
      /\ Balanced(total.dropped + x.dropped, d, e, lost.dropped, prev.dropped)
  BY <1>4, <1>7, <1>8, CountsType, BalanceMoves
<1> QED
  BY <1>1, <1>5, <1>6, <1>9 DEF CountsInv, Underway

LEMMA CountsNext == TypeOK /\ CountsInv /\ [Next]_vars => CountsInv'
<1> SUFFICES ASSUME TypeOK, CountsInv, [Next]_vars PROVE CountsInv'
  OBVIOUS
<1>1. ASSUME UNCHANGED <<pollVars, input, total>> PROVE CountsInv'
  BY <1>1 DEF CountsInv, pollVars, Underway
<1>2. CASE Kernel \/ ReadRecord \/ SendEvent \/ consumeEvent \/ HandToBroadcaster \/ UNCHANGED vars
  BY <1>1, <1>2
  DEF Kernel, PassPacket, DropPacket, EmitEvent, ReadRecord, SendEvent, consumeEvent,
      HandToBroadcaster, vars, aggregatorVars
<1>3. ASSUME UNCHANGED <<input, total, lost, prev>>, ~ Underway, ~ Underway' PROVE CountsInv'
  BY <1>3 DEF CountsInv
<1>4. CASE ReadPassed \/ PollFails
  <2>1. poll.pc \in {"wait", "dropped"} /\ poll'.pc \in {"wait", "dropped"}
    BY <1>4, CountsType DEF ReadPassed, PollFails, PollRecord
  <2> QED
    BY <1>3, <1>4, <2>1
    DEF ReadPassed, PollFails, CollectorOnly, aggregatorVars, Underway
<1>5. CASE ReadDropped
  <2>1. /\ poll.pc = "dropped" /\ poll'.pc = "events"
        /\ poll'.passed = poll.passed - prev.passed
        /\ poll'.dropped = dropped - prev.dropped
        /\ prev'.passed = poll.passed /\ prev'.dropped = dropped
        /\ UNCHANGED <<input, total, lost>>
    BY <1>5, CountsType DEF ReadDropped, CollectorOnly, aggregatorVars, PollRecord
  <2>2. dropped \in Nat
    BY DEF TypeOK
  <2>3. ~ Underway /\ Underway'
    BY <2>1 DEF Underway
  <2>4. PICK p, d : p = SumOver(PassedOf, input) /\ d = SumOver(DroppedOf, input)
    OBVIOUS
  <2>5. /\ Balanced(total.passed, p, 0, lost.passed, prev.passed)
        /\ Balanced(total.dropped, d, 0, lost.dropped, prev.dropped)
    BY <2>3, <2>4 DEF CountsInv
  <2>6. p \in Nat /\ d \in Nat
    BY <2>4, CountsType
  <2>7. /\ Balanced(total.passed, p, poll.passed - prev.passed, lost.passed, poll.passed)
        /\ Balanced(total.dropped, d, dropped - prev.dropped, lost.dropped, dropped)
    BY <2>2, <2>5, <2>6, CountsType, BalanceMoves
  <2> QED
    BY <2>1, <2>3, <2>4, <2>7 DEF CountsInv
<1>6. CASE TakeEvents
  <2>1. /\ poll.pc = "events" /\ poll'.pc = "send"
        /\ poll'.passed = poll.passed /\ poll'.dropped = poll.dropped
        /\ UNCHANGED <<input, total, lost, prev>>
    BY <1>6, CountsType DEF TakeEvents, CollectorOnly, aggregatorVars, PollRecord
  <2> QED
    BY <2>1 DEF CountsInv, Underway
<1>7. CASE Subscribe
  BY <1>7 DEF Subscribe, CollectorOnly, aggregatorVars, CountsInv, Underway
<1> QED
  BY <1>2, <1>4, <1>5, <1>6, <1>7, CountsSend, CountsProcess DEF Next

\* For any channel size, any failed polls and any moment of the subscription,
\* what the collector has read is in the totals, on its way or lost, each
\* packet once (collector.go:95-138, aggregator.go:128-131).
THEOREM CountsAreConserved == Spec => []CountsConserved
<1> QED
  BY InitType, NextType, CountsInit, CountsNext, CountsMeaning, PTL DEF Spec

-----------------------------------------------------------------------------
(* Conservation of the drop events. *)

\* Drops counted are: about to be submitted, in the ring, with the reader, in
\* its channel, with the collector, in a snapshot to be sent, in one in the
\* channel, in the map, or lost.
Ledger(d, e, r, h, c, w, p, i, b, l) == d = e + r + h + c + (w + p + i) + b + l

Held(a) == IF reading = a THEN 1 ELSE 0

Accounted(a) ==
    Ledger(droppedBy[a], emitting[a], Occurrences(a, ring), Held(a),
           Occurrences(a, eventCh),
           Occurrences(ipToString(a), dropEvents),
           Occurrences(ipToString(a), poll.events),
           SumOver(NamedIn(ipToString(a)), input),
           blockedIPMap[ipToString(a)], lostEvents[ipToString(a)])

EventsInv == \A a \in Sources : Accounted(a)

LEMMA EventsMeaning == ASSUME TypeOK PROVE EventsInv <=> EventsConserved
<1>1. input \in Seq(Snapshot)
  BY DEF TypeOK
<1>2. ASSUME NEW n
      PROVE  EventsNamed(n) = Occurrences(n, dropEvents)
               + Occurrences(n, poll.events) + SumOver(NamedIn(n), input)
  BY <1>1, InputSums
<1> QED
  BY <1>2, Zenon DEF EventsInv, Accounted, Ledger, Held, EventsConserved

\* The numbers of the ledger.
LEMMA LedgerType ==
  ASSUME TypeOK, NEW a \in Sources
  PROVE  /\ ipToString(a) \in Names
         /\ droppedBy[a] \in Nat /\ emitting[a] \in Nat
         /\ Occurrences(a, ring) \in Nat /\ Held(a) \in Nat
         /\ Occurrences(a, eventCh) \in Nat
         /\ Occurrences(ipToString(a), dropEvents) \in Nat
         /\ Occurrences(ipToString(a), poll.events) \in Nat
         /\ SumOver(NamedIn(ipToString(a)), input) \in Nat
         /\ blockedIPMap[ipToString(a)] \in Nat
         /\ lostEvents[ipToString(a)] \in Nat
<1>1. ipToString(a) \in Names
  BY SourceNames
<1>2. /\ droppedBy[a] \in Nat /\ emitting[a] \in Nat
      /\ blockedIPMap[ipToString(a)] \in Nat /\ lostEvents[ipToString(a)] \in Nat
  BY <1>1 DEF TypeOK
<1>3. /\ ring \in Seq(Sources) /\ eventCh \in Seq(Sources)
      /\ dropEvents \in Seq(Names) /\ poll.events \in Seq(Names)
  BY DEF TypeOK
<1>4. /\ Occurrences(a, ring) \in Nat /\ Occurrences(a, eventCh) \in Nat
      /\ Occurrences(ipToString(a), dropEvents) \in Nat
      /\ Occurrences(ipToString(a), poll.events) \in Nat
  BY <1>3, OccurrencesType
<1>5. SumOver(NamedIn(ipToString(a)), input) \in Nat
  <2>1. [passed |-> 0, dropped |-> 0, events |-> <<>>] \in Snapshot
    BY DEF Snapshot
  <2>2. NamedIn(ipToString(a)) \in [Snapshot -> Nat] /\ input \in Seq(Snapshot)
    BY SnapshotSums DEF TypeOK
  <2> QED
    BY <2>1, <2>2, SumOverAppend
<1>6. Held(a) \in Nat
  BY DEF Held
<1> QED
  BY <1>1, <1>2, <1>4, <1>5, <1>6

\* What the steps do to it.
LEMMA LedgerMoves ==
  ASSUME NEW d \in Nat, NEW e \in Nat, NEW r \in Nat, NEW h \in Nat, NEW c \in Nat,
         NEW w \in Nat, NEW p \in Nat, NEW i \in Nat, NEW b \in Nat, NEW l \in Nat,
         NEW x \in Nat
  PROVE  /\ Ledger(d, e, r, h, c, w, p, i, b, l)
               => Ledger(d + x, e + x, r, h, c, w, p, i, b, l)
         /\ Ledger(d, e + x, r, h, c, w, p, i, b, l)
               => /\ Ledger(d, e, r + x, h, c, w, p, i, b, l)
                  /\ Ledger(d, e, r, h, c, w, p, i, b, l + x)
         /\ Ledger(d, e, x + r, 0, c, w, p, i, b, l)
               => Ledger(d, e, r, x, c, w, p, i, b, l)
         /\ Ledger(d, e, r, x, c, w, p, i, b, l)
               => Ledger(d, e, r, 0, c + x, w, p, i, b, l)
         /\ \A y, z \in Nat :
               /\ w + x = y + z
               /\ Ledger(d, e, r, h, x + c, w, p, i, b, l)
               => Ledger(d, e, r, h, c, z, p, i, b, l + y)
         /\ Ledger(d, e, r, h, c, w, 0, i, b, l)
               => Ledger(d, e, r, h, c, 0, w, i, b, l)
         /\ Ledger(d, e, r, h, c, w, x, i, b, l)
               => /\ Ledger(d, e, r, h, c, w, 0, i + x, b, l)
                  /\ Ledger(d, e, r, h, c, w, 0, i, b, l + x)
         /\ Ledger(d, e, r, h, c, w, p, x + i, b, l)
               => Ledger(d, e, r, h, c, w, p, i, b + x, l)
  BY DEF Ledger

LEMMA EventsInit == Init => EventsInv
<1> SUFFICES ASSUME Init, NEW a \in Sources PROVE Accounted(a)
  BY DEF EventsInv
<1>1. /\ Occurrences(a, ring) = 0 /\ Occurrences(a, eventCh) = 0
      /\ Occurrences(ipToString(a), dropEvents) = 0
      /\ Occurrences(ipToString(a), poll.events) = 0
      /\ SumOver(NamedIn(ipToString(a)), input) = 0
  BY OccurrencesNone, SumOverNone DEF Init, View!Init
<1>2. Held(a) = 0
  BY SourcesAssumption DEF Init, Held
<1>3. /\ droppedBy[a] = 0 /\ emitting[a] = 0
      /\ blockedIPMap[ipToString(a)] = 0 /\ lostEvents[ipToString(a)] = 0
  BY SourceNames DEF Init, View!Init
<1> QED
  BY <1>1, <1>2, <1>3 DEF Accounted, Ledger

\* The kernel's steps.
LEMMA EventsKernel == ASSUME TypeOK, TypeOK', EventsInv, Kernel PROVE EventsInv'
<1> USE DEF kernelVars, eventVars, pollVars, aggregatorVars
<1> SUFFICES ASSUME NEW a \in Sources PROVE Accounted(a)'
  BY DEF EventsInv
<1>0. Accounted(a)
  BY DEF EventsInv
<1>1. CASE PassPacket
  BY <1>0, <1>1 DEF PassPacket, View!Pass, Accounted, Held
<1>2. ASSUME NEW b \in Sources, DropPacket(b) PROVE Accounted(a)'
  <2>1. PICK x \in Nat : x = IF a = b THEN 1 ELSE 0
    OBVIOUS
  <2>2. droppedBy'[a] = droppedBy[a] + x /\ emitting'[a] = emitting[a] + x
    <3>1. droppedBy \in [Sources -> Nat] /\ emitting \in [Sources -> Nat]
      BY DEF TypeOK
    <3>2. /\ droppedBy' = [droppedBy EXCEPT ![b] = @ + 1]
          /\ emitting' = [emitting EXCEPT ![b] = @ + 1]
      BY <1>2 DEF DropPacket, View!Drop
    <3> QED
      BY <2>1, <3>1, <3>2
  <2>3. Ledger(droppedBy[a] + x, emitting[a] + x, Occurrences(a, ring), Held(a),
           Occurrences(a, eventCh),
           Occurrences(ipToString(a), dropEvents),
           Occurrences(ipToString(a), poll.events),
           SumOver(NamedIn(ipToString(a)), input),
           blockedIPMap[ipToString(a)], lostEvents[ipToString(a)])
    BY <1>0, LedgerType, LedgerMoves DEF Accounted
  <2> QED
    BY <1>2, <2>2, <2>3 DEF DropPacket, View!Drop, Accounted, Held
<1>3. ASSUME NEW b \in Sources, EmitEvent(b) PROVE Accounted(a)'
  <2>1. PICK x \in Nat : x = IF b = a THEN 1 ELSE 0
    OBVIOUS
  <2>2. emitting[a] = emitting'[a] + x /\ emitting'[a] \in Nat
    <3>1. emitting \in [Sources -> Nat] /\ emitting[b] > 0
          /\ emitting' = [emitting EXCEPT ![b] = @ - 1]
      BY <1>3 DEF EmitEvent, View!Emit, TypeOK
    <3> QED
      BY <2>1, <3>1
  <2>3. Ledger(droppedBy[a], emitting'[a] + x, Occurrences(a, ring), Held(a),
           Occurrences(a, eventCh),
           Occurrences(ipToString(a), dropEvents),
           Occurrences(ipToString(a), poll.events),
           SumOver(NamedIn(ipToString(a)), input),
           blockedIPMap[ipToString(a)], lostEvents[ipToString(a)])
    BY <1>0, <2>2 DEF Accounted
  <2>4. CASE ring' = Append(ring, b) /\ UNCHANGED lostEvents
    <3>1. Occurrences(a, ring') = Occurrences(a, ring) + x
      BY <2>1, <2>4, OccurrencesAppend DEF TypeOK
    <3>2. Ledger(droppedBy[a], emitting'[a], Occurrences(a, ring) + x, Held(a),
             Occurrences(a, eventCh),
             Occurrences(ipToString(a), dropEvents),
             Occurrences(ipToString(a), poll.events),
             SumOver(NamedIn(ipToString(a)), input),
             blockedIPMap[ipToString(a)], lostEvents[ipToString(a)])
      BY <2>2, <2>3, LedgerType, LedgerMoves
    <3> QED
      BY <1>3, <2>4, <3>1, <3>2 DEF EmitEvent, Accounted, Held
  <2>5. CASE Lose(<<ipToString(b)>>) /\ UNCHANGED ring
    <3>1. lostEvents'[ipToString(a)] = lostEvents[ipToString(a)] + x
      <4>1. Occurrences(ipToString(a), <<ipToString(b)>>) = x
        BY <2>1, SourceNames, OccurrencesOne
      <4> QED
        BY <2>5, <4>1, SourceNames DEF Lose
    <3>2. Ledger(droppedBy[a], emitting'[a], Occurrences(a, ring), Held(a),
             Occurrences(a, eventCh),
             Occurrences(ipToString(a), dropEvents),
             Occurrences(ipToString(a), poll.events),
             SumOver(NamedIn(ipToString(a)), input),
             blockedIPMap[ipToString(a)], lostEvents[ipToString(a)] + x)
      BY <2>2, <2>3, LedgerType, LedgerMoves
    <3> QED
      BY <1>3, <2>5, <3>1, <3>2 DEF EmitEvent, Accounted, Held
  <2> QED
    BY <1>3, <2>4, <2>5 DEF EmitEvent, View!Emit
<1> QED
  BY <1>1, <1>2, <1>3 DEF Kernel

\* The reader's steps.
LEMMA EventsReader ==
  ASSUME TypeOK, TypeOK', EventsInv, ReadRecord \/ SendEvent PROVE EventsInv'
<1> USE DEF kernelVars, eventVars, pollVars, aggregatorVars
<1> SUFFICES ASSUME NEW a \in Sources PROVE Accounted(a)'
  BY DEF EventsInv
<1>0. Accounted(a)
  BY DEF EventsInv
<1> DEFINE Rest(r, h, c) ==
             Ledger(droppedBy[a], emitting[a], r, h, c,
                    Occurrences(ipToString(a), dropEvents),
                    Occurrences(ipToString(a), poll.events),
                    SumOver(NamedIn(ipToString(a)), input),
                    blockedIPMap[ipToString(a)], lostEvents[ipToString(a)])
<1>1. CASE ReadRecord
  <2>1. PICK x \in Nat : x = IF Head(ring) = a THEN 1 ELSE 0
    OBVIOUS
  <2>2. Occurrences(a, ring) = x + Occurrences(a, ring')
    BY <1>1, <2>1, OccurrencesTail DEF ReadRecord, View!Take, TypeOK
  <2>3. Occurrences(a, ring') \in Nat
    BY OccurrencesType DEF TypeOK
  <2>4. Held(a) = 0 /\ Held(a)' = x
    BY <1>1, <2>1, SourcesAssumption DEF ReadRecord, View!Take, Held
  <2>5. Rest(x + Occurrences(a, ring'), 0, Occurrences(a, eventCh))
    BY <1>0, <2>2, <2>4 DEF Accounted
  <2>6. Rest(Occurrences(a, ring'), x, Occurrences(a, eventCh))
    BY <2>3, <2>5, LedgerType, LedgerMoves
  <2> QED
    BY <1>1, <2>4, <2>6 DEF ReadRecord, View!Take, Accounted
<1>2. CASE SendEvent
  <2>1. PICK x \in Nat : x = IF reading = a THEN 1 ELSE 0
    OBVIOUS
  <2>2. Occurrences(a, eventCh') = Occurrences(a, eventCh) + x
    <3>1. eventCh \in Seq(Sources) /\ reading \in Sources
      BY <1>2 DEF SendEvent, TypeOK
    <3>2. eventCh' = Append(eventCh, reading)
      BY <1>2 DEF SendEvent
    <3> QED
      BY <2>1, <3>1, <3>2, OccurrencesAppend
  <2>3. Held(a) = x /\ Held(a)' = 0
    BY <1>2, <2>1, SourcesAssumption DEF SendEvent, Held
  <2>4. Rest(Occurrences(a, ring), x, Occurrences(a, eventCh))
    BY <1>0, <2>3 DEF Accounted
  <2>5. Rest(Occurrences(a, ring), 0, Occurrences(a, eventCh) + x)
    BY <2>4, LedgerType, LedgerMoves
  <2> QED
    BY <1>2, <2>2, <2>3, <2>5 DEF SendEvent, Accounted
<1> QED
  BY <1>1, <1>2

\* The collector appends an event and cuts off the oldest.
LEMMA EventsConsume ==
  ASSUME TypeOK, TypeOK', EventsInv, consumeEvent PROVE EventsInv'
<1> USE DEF kernelVars, pollVars, aggregatorVars
<1> SUFFICES ASSUME NEW a \in Sources PROVE Accounted(a)'
  BY DEF EventsInv
<1>0. Accounted(a)
  BY DEF EventsInv
<1>n. PICK n \in Names : n = ipToString(a)
  BY SourceNames
<1>c. eventCh \in Seq(Sources) /\ eventCh # <<>> /\ dropEvents \in Seq(Names)
  BY DEF consumeEvent, TypeOK
<1>1. PICK o \in Sources : o = Head(eventCh)
  BY <1>c
<1>2. PICK x \in Nat : x = IF o = a THEN 1 ELSE 0
  OBVIOUS
<1>3. PICK s : s = Append(dropEvents, ipToString(o))
  OBVIOUS
<1>4. PICK k, t : k = LastOf(s, KeepEvents) /\ t = SubSeq(s, 1, Len(s) - Len(k))
  OBVIOUS
<1>5. /\ dropEvents' = k /\ Lose(t) /\ eventCh' = Tail(eventCh) /\ eventCh # <<>>
  BY <1>1, <1>3, <1>4 DEF consumeEvent
<1>6. s \in Seq(Names) /\ KeepEvents \in Nat
  BY <1>3, SourceNames, SizesAssumption DEF TypeOK
<1>7. k \in Seq(Names) /\ t \in Seq(Names) /\ Occurrences(n, s) = Occurrences(n, t) + Occurrences(n, k)
  <2>1. /\ LastOf(s, KeepEvents) \in Seq(Names)
        /\ Occurrences(n, s) =
               Occurrences(n, SubSeq(s, 1, Len(s) - Len(LastOf(s, KeepEvents))))
               + Occurrences(n, LastOf(s, KeepEvents))
    BY <1>6, OccurrencesLastOf
  <2>2. SubSeq(s, 1, Len(s) - Len(LastOf(s, KeepEvents))) \in Seq(Names)
    BY <1>6, CutOffType
  <2> QED
    BY <1>4, <2>1, <2>2
<1>8. Occurrences(n, s) = Occurrences(n, dropEvents) + x
  <2>1. Occurrences(n, s) = Occurrences(n, dropEvents) + IF ipToString(o) = n THEN 1 ELSE 0
    <3>1. ipToString(o) \in Names
      BY SourceNames
    <3> QED
      BY <1>3, <1>c, <3>1, OccurrencesAppend
  <2> QED
    BY <1>n, <1>2, <2>1, SourceNames
<1>9. /\ Occurrences(a, eventCh) = x + Occurrences(a, eventCh')
      /\ Occurrences(a, eventCh') \in Nat
  BY <1>1, <1>2, <1>5, OccurrencesTail, OccurrencesType DEF TypeOK
<1>10. Occurrences(n, t) \in Nat /\ Occurrences(n, k) \in Nat
  BY <1>7, OccurrencesType
<1>11. lostEvents'[n] = lostEvents[n] + Occurrences(n, t)
  BY <1>5 DEF Lose
<1> DEFINE Rest(c, w, l) ==
             Ledger(droppedBy[a], emitting[a], Occurrences(a, ring), Held(a), c, w,
                    Occurrences(n, poll.events), SumOver(NamedIn(n), input),
                    blockedIPMap[n], l)
<1>12. Rest(x + Occurrences(a, eventCh'), Occurrences(n, dropEvents), lostEvents[n])
  BY <1>0, <1>n, <1>9 DEF Accounted
<1>13. Rest(Occurrences(a, eventCh'), Occurrences(n, k), lostEvents[n] + Occurrences(n, t))
  <2>1. Occurrences(n, dropEvents) + x = Occurrences(n, t) + Occurrences(n, k)
    BY <1>7, <1>8
  <2>2. PICK c, w, l, y, z :
            /\ c = Occurrences(a, eventCh') /\ w = Occurrences(n, dropEvents)
            /\ l = lostEvents[n]
            /\ y = Occurrences(n, t) /\ z = Occurrences(n, k)
    OBVIOUS
  <2>3. c \in Nat /\ w \in Nat /\ l \in Nat /\ y \in Nat /\ z \in Nat /\ w + x = y + z
    BY <1>n, <1>9, <1>10, <2>1, <2>2, LedgerType
  <2>4. PICK d, e, r, h, p, i, b :
            /\ d = droppedBy[a] /\ e = emitting[a] /\ r = Occurrences(a, ring)
            /\ h = Held(a) /\ p = Occurrences(n, poll.events)
            /\ i = SumOver(NamedIn(n), input) /\ b = blockedIPMap[n]
    OBVIOUS
  <2>5. /\ d \in Nat /\ e \in Nat /\ r \in Nat /\ h \in Nat /\ p \in Nat
        /\ i \in Nat /\ b \in Nat
    BY <1>n, <2>4, LedgerType
  <2>6. Ledger(d, e, r, h, x + c, w, p, i, b, l)
    BY <1>12, <2>2, <2>4
  <2>7. Ledger(d, e, r, h, c, z, p, i, b, l + y)
    BY <2>3, <2>5, <2>6, LedgerMoves
  <2> QED
    BY <2>2, <2>4, <2>7
<1> QED
  BY <1>n, <1>5, <1>11, <1>13 DEF consumeEvent, Accounted, Held

\* The events travel with the snapshot of their second.
LEMMA EventsPoll ==
  ASSUME TypeOK, TypeOK', AheadInv, EventsInv,
         ReadPassed \/ ReadDropped \/ PollFails \/ TakeEvents \/ SendSnapshot \/ Subscribe
  PROVE  EventsInv'
<1> USE DEF CollectorOnly, kernelVars, eventVars, aggregatorVars
<1> SUFFICES ASSUME NEW a \in Sources PROVE Accounted(a)'
  BY DEF EventsInv
<1>0. Accounted(a)
  BY DEF EventsInv
<1>n. PICK n \in Names : n = ipToString(a)
  BY SourceNames
<1> DEFINE Rest(w, p, i, l) ==
             Ledger(droppedBy[a], emitting[a], Occurrences(a, ring), Held(a),
                    Occurrences(a, eventCh), w, p, i, blockedIPMap[n], l)
<1>1. CASE ReadPassed \/ ReadDropped \/ PollFails \/ Subscribe
  <2>1. poll'.events = poll.events
    BY <1>1, CountsType DEF ReadPassed, ReadDropped, PollFails, Subscribe, PollRecord
  <2>2. UNCHANGED <<dropEvents, input, lostEvents>>
    BY <1>1 DEF ReadPassed, ReadDropped, PollFails, Subscribe
  <2>3. UNCHANGED <<droppedBy, emitting, ring, reading, eventCh, blockedIPMap>>
    BY <1>1 DEF ReadPassed, ReadDropped, PollFails, Subscribe
  <2> QED
    BY <1>0, <2>1, <2>2, <2>3 DEF Accounted, Held
<1>2. CASE TakeEvents
  <2>1. poll.events = <<>> /\ poll'.events = dropEvents /\ dropEvents' = <<>>
    BY <1>2, CountsType DEF TakeEvents, AheadInv, PollRecord, NoEvents
  <2>2. Rest(Occurrences(n, dropEvents), 0, SumOver(NamedIn(n), input), lostEvents[n])
    BY <1>0, <1>n, <2>1, OccurrencesNone DEF Accounted
  <2>3. Rest(0, Occurrences(n, dropEvents), SumOver(NamedIn(n), input), lostEvents[n])
    BY <1>n, <2>2, LedgerType, LedgerMoves
  <2>4. Occurrences(n, dropEvents') = 0 /\ Occurrences(n, poll'.events) = Occurrences(n, dropEvents)
    BY <2>1, OccurrencesNone
  <2> QED
    BY <1>n, <1>2, <2>3, <2>4 DEF TakeEvents, Accounted, Held
<1>3. CASE SendSnapshot
  <2>1. poll'.events = <<>>
    BY <1>3 DEF SendSnapshot
  <2>2. PICK x \in Nat : x = Occurrences(n, poll.events)
    BY <1>n, LedgerType
  <2>3. Rest(Occurrences(n, dropEvents), x, SumOver(NamedIn(n), input), lostEvents[n])
    BY <1>0, <1>n, <2>2 DEF Accounted
  <2>4. /\ Rest(Occurrences(n, dropEvents), 0, SumOver(NamedIn(n), input) + x, lostEvents[n])
        /\ Rest(Occurrences(n, dropEvents), 0, SumOver(NamedIn(n), input), lostEvents[n] + x)
    BY <1>n, <2>3, LedgerType, LedgerMoves
  <2>5. PICK y : y = [passed |-> poll.passed, dropped |-> poll.dropped, events |-> poll.events]
    OBVIOUS
  <2>6. CASE input' = Append(input, y) /\ UNCHANGED lostEvents
    <3>1. y \in Snapshot /\ y.events = poll.events
      BY <2>5, CountsType DEF Snapshot
    <3>2. NamedIn(n)[y] = x
      BY <2>2, <3>1 DEF NamedIn
    <3>3. SumOver(NamedIn(n), input') = SumOver(NamedIn(n), input) + x
      BY <2>6, <3>1, <3>2, CountsType, SnapshotSums, SumOverAppend
    <3> QED
      BY <1>n, <1>3, <2>1, <2>4, <2>6, <3>3, OccurrencesNone DEF SendSnapshot, Accounted, Held
  <2>7. CASE Lose(poll.events) /\ UNCHANGED input
    <3>1. lostEvents'[n] = lostEvents[n] + x
      BY <2>2, <2>7 DEF Lose
    <3> QED
      BY <1>n, <1>3, <2>1, <2>4, <2>7, <3>1, OccurrencesNone DEF SendSnapshot, Accounted, Held
  <2> QED
    BY <1>3, <2>5, <2>6, <2>7 DEF SendSnapshot
<1> QED
  BY <1>1, <1>2, <1>3

\* The aggregator counts the events of a snapshot by source.
LEMMA EventsProcess ==
  ASSUME TypeOK, TypeOK', EventsInv, process PROVE EventsInv'
<1> USE DEF kernelVars, eventVars, pollVars
<1> SUFFICES ASSUME NEW a \in Sources PROVE Accounted(a)'
  BY DEF EventsInv
<1>0. Accounted(a)
  BY DEF EventsInv
<1>n. PICK n \in Names : n = ipToString(a)
  BY SourceNames
<1> DEFINE Rest(i, b) ==
             Ledger(droppedBy[a], emitting[a], Occurrences(a, ring), Held(a),
                    Occurrences(a, eventCh), Occurrences(n, dropEvents),
                    Occurrences(n, poll.events), i, b, lostEvents[n])
<1>1. PICK y : y = Head(input)
  OBVIOUS
<1>2. /\ y \in Snapshot
      /\ SumOver(NamedIn(n), input) = NamedIn(n)[y] + SumOver(NamedIn(n), input')
      /\ SumOver(NamedIn(n), input') \in Nat
  <2>1. NamedIn(n) \in [Snapshot -> Nat] /\ input \in Seq(Snapshot)
    BY CountsType, SnapshotSums
  <2>2. input # <<>> /\ input' = Tail(input)
    BY DEF process
  <2> QED
    BY <1>1, <2>1, <2>2, SumOverTail
<1>3. PICK x \in Nat : x = Occurrences(n, y.events) /\ x = NamedIn(n)[y]
  BY <1>2, SnapshotSums DEF NamedIn
<1>4. blockedIPMap'[n] = blockedIPMap[n] + x
  BY <1>1, <1>3 DEF process, CountSources
<1>5. Rest(x + SumOver(NamedIn(n), input'), blockedIPMap[n])
  BY <1>0, <1>n, <1>2, <1>3 DEF Accounted
<1>6. Rest(SumOver(NamedIn(n), input'), blockedIPMap[n] + x)
  BY <1>n, <1>2, <1>5, LedgerType, LedgerMoves
<1> QED
  BY <1>n, <1>4, <1>6 DEF process, Accounted, Held

LEMMA EventsNext ==
  TypeOK /\ TypeOK' /\ AheadInv /\ EventsInv /\ [Next]_vars => EventsInv'
<1> SUFFICES ASSUME TypeOK, TypeOK', AheadInv, EventsInv, [Next]_vars PROVE EventsInv'
  OBVIOUS
<1>1. CASE HandToBroadcaster \/ UNCHANGED vars
  BY <1>1 DEF HandToBroadcaster, vars, kernelVars, eventVars, pollVars, aggregatorVars,
              EventsInv, Accounted, Held
<1> QED
  BY <1>1, EventsKernel, EventsReader, EventsConsume, EventsPoll, EventsProcess DEF Next

\* For any sources and any sizes of the ring buffer, the channels and the
\* collector's list, every drop is blamed on its source once or is among the
\* events the code lets go of (maps.go:137-169, collector.go:125-168,
\* aggregator.go:137-139).
THEOREM EventsAreConserved == Spec => []EventsConserved
<1> QED
  BY InitType, NextType, EventsInit, EventsNext, EventsMeaning, PTL DEF Spec

-----------------------------------------------------------------------------
(* Deltas through the channel are absolute readings. *)

\* From the total t, the total once the snapshots s have been processed, and
\* the totals there will be on the way.
TotalAfter(t, s) == [passed  |-> t.passed + SumOver(PassedOf, s),
                     dropped |-> t.dropped + SumOver(DroppedOf, s)]

TotalsOf(t, s) == [i \in 1..Len(s) |-> TotalAfter(t, SubSeq(s, 1, i))]

AreTotals(f, t, s) ==
    /\ f \in Seq(CountRecord) /\ Len(f) = Len(s)
    /\ \A i \in 1..Len(s) : f[i] = TotalAfter(t, SubSeq(s, 1, i))

LEMMA TotalAfterType ==
  ASSUME NEW t \in CountRecord, NEW s \in Seq(Snapshot)
  PROVE  /\ TotalAfter(t, s) \in CountRecord
         /\ TotalAfter(t, s) = AddCounts(t, Deltas(s))
<1>1. t.passed \in Nat /\ t.dropped \in Nat
  BY DEF CountRecord
<1>2. PICK p, d : p = SumOver(PassedOf, s) /\ d = SumOver(DroppedOf, s)
  OBVIOUS
<1>3. p \in Nat /\ d \in Nat /\ Deltas(s) = [passed |-> p, dropped |-> d]
  BY <1>2, SumsOfDeltas
<1>4. t.passed + p \in Nat /\ t.dropped + d \in Nat
  BY <1>1, <1>3
<1>5. TotalAfter(t, s) = [passed |-> t.passed + p, dropped |-> t.dropped + d]
  BY <1>2 DEF TotalAfter
<1>6. AddCounts(t, Deltas(s)) = [passed |-> t.passed + p, dropped |-> t.dropped + d]
  BY <1>3 DEF AddCounts
<1> QED
  BY <1>4, <1>5, <1>6 DEF CountRecord

LEMMA TotalsType ==
  ASSUME NEW t \in CountRecord, NEW s \in Seq(Snapshot)
  PROVE  AreTotals(TotalsOf(t, s), t, s)
<1>1. PICK n : n = Len(s)
  OBVIOUS
<1>2. n \in Nat
  BY <1>1
<1>3. \A i \in 1..n : TotalAfter(t, SubSeq(s, 1, i)) \in CountRecord
  <2> SUFFICES ASSUME NEW i \in 1..n
               PROVE  TotalAfter(t, SubSeq(s, 1, i)) \in CountRecord
    OBVIOUS
  <2>1. SubSeq(s, 1, i) \in Seq(Snapshot)
    <3>1. i \in Int /\ 1 \in Int /\ i <= Len(s) /\ 1 <= i + 1
      BY <1>1, <1>2
    <3> QED
      BY <3>1, Part
  <2> QED
    BY <2>1, TotalAfterType
<1>4. PICK f : f = TotalsOf(t, s)
  OBVIOUS
<1>5. f = [i \in 1..n |-> TotalAfter(t, SubSeq(s, 1, i))]
  BY <1>1, <1>4 DEF TotalsOf
<1>6. f \in [1..n -> CountRecord] /\ \A i \in 1..n : f[i] = TotalAfter(t, SubSeq(s, 1, i))
  BY <1>3, <1>5
<1>7. f \in Seq(CountRecord) /\ Len(f) = n
  BY <1>2, <1>6
<1>8. AreTotals(f, t, s)
  BY <1>1, <1>6, <1>7 DEF AreTotals
<1> QED
  BY <1>4, <1>8

\* All of a sequence is its part up to its end, and what is appended to it
\* leaves its parts as they are.
LEMMA PartsFromStart ==
  ASSUME NEW s \in Seq(Snapshot), NEW x \in Snapshot
  PROVE  /\ SubSeq(s, 1, Len(s)) = s
         /\ \A i \in 1..Len(s) : SubSeq(Append(s, x), 1, i) = SubSeq(s, 1, i)
<1>1. PICK n : n = Len(s)
  OBVIOUS
<1>2. PICK w : w = Append(s, x)
  OBVIOUS
<1>3. /\ n \in Nat /\ w \in Seq(Snapshot) /\ Len(w) = n + 1
      /\ \A i \in 1..n : w[i] = s[i]
  BY <1>1, <1>2
<1>4. ASSUME NEW i \in 0..n
      PROVE  /\ SubSeq(s, 1, i) \in Seq(Snapshot) /\ Len(SubSeq(s, 1, i)) = i
             /\ SubSeq(w, 1, i) \in Seq(Snapshot) /\ Len(SubSeq(w, 1, i)) = i
             /\ \A j \in 1..i : SubSeq(s, 1, i)[j] = s[j] /\ SubSeq(w, 1, i)[j] = w[j]
  <2>1. /\ i \in Int /\ 1 \in Int /\ 1 >= 1 /\ i <= Len(s) /\ i <= Len(w)
        /\ 1 <= i + 1 /\ i - 1 + 1 = i /\ \A j \in 1..i : 1 + j - 1 = j
    BY <1>1, <1>3
  <2>2. /\ SubSeq(s, 1, i) \in Seq(Snapshot) /\ Len(SubSeq(s, 1, i)) = i - 1 + 1
        /\ \A j \in 1..(i - 1 + 1) : SubSeq(s, 1, i)[j] = s[1 + j - 1]
    BY <2>1, Part
  <2>3. /\ SubSeq(w, 1, i) \in Seq(Snapshot) /\ Len(SubSeq(w, 1, i)) = i - 1 + 1
        /\ \A j \in 1..(i - 1 + 1) : SubSeq(w, 1, i)[j] = w[1 + j - 1]
    BY <1>3, <2>1, Part
  <2> QED
    BY <2>1, <2>2, <2>3
<1>5. SubSeq(s, 1, n) = s
  <2>1. PICK u : u = SubSeq(s, 1, n)
    OBVIOUS
  <2>2. u \in Seq(Snapshot) /\ Len(u) = n /\ \A j \in 1..n : u[j] = s[j]
    BY <1>3, <1>4, <2>1
  <2>3. u = s
    BY <1>1, <2>2
  <2> QED
    BY <2>1, <2>3
<1>6. ASSUME NEW i \in 1..n PROVE SubSeq(w, 1, i) = SubSeq(s, 1, i)
  <2>1. PICK u : u = SubSeq(s, 1, i)
    OBVIOUS
  <2>2. PICK v : v = SubSeq(w, 1, i)
    OBVIOUS
  <2>3. i \in 0..n /\ \A j \in 1..i : j \in 1..n
    BY <1>3
  <2>4. /\ u \in Seq(Snapshot) /\ Len(u) = i /\ v \in Seq(Snapshot) /\ Len(v) = i
        /\ \A j \in 1..i : u[j] = s[j] /\ v[j] = w[j]
    BY <1>4, <2>1, <2>2, <2>3
  <2>5. \A j \in 1..i : u[j] = v[j]
    BY <1>3, <2>3, <2>4
  <2>6. u = v
    BY <2>4, <2>5
  <2> QED
    BY <2>1, <2>2, <2>6
<1> QED
  BY <1>1, <1>2, <1>5, <1>6


\* A snapshot appended adds the total after all of them.
LEMMA TotalsAppend ==
  ASSUME NEW t \in CountRecord, NEW s \in Seq(Snapshot), NEW x \in Snapshot
  PROVE  TotalsOf(t, Append(s, x))
            = Append(TotalsOf(t, s), TotalAfter(t, Append(s, x)))
<1>1. PICK n : n = Len(s)
  OBVIOUS
<1>2. PICK w : w = Append(s, x)
  OBVIOUS
<1>3. n \in Nat /\ w \in Seq(Snapshot) /\ Len(w) = n + 1
  BY <1>1, <1>2
<1>4. PICK f : f = TotalsOf(t, s)
  OBVIOUS
<1>5. PICK g : g = TotalsOf(t, w)
  OBVIOUS
<1>6. PICK y : y = TotalAfter(t, w)
  OBVIOUS
<1>7. /\ f \in Seq(CountRecord) /\ Len(f) = n
      /\ \A i \in 1..n : f[i] = TotalAfter(t, SubSeq(s, 1, i))
  <2>1. AreTotals(f, t, s)
    BY <1>4, TotalsType
  <2> QED
    BY <1>1, <2>1 DEF AreTotals
<1>8. /\ g \in Seq(CountRecord) /\ Len(g) = n + 1
      /\ \A i \in 1..(n + 1) : g[i] = TotalAfter(t, SubSeq(w, 1, i))
  <2>1. AreTotals(g, t, w)
    BY <1>3, <1>5, TotalsType
  <2>2. PICK m : m = Len(w)
    OBVIOUS
  <2>3. /\ g \in Seq(CountRecord) /\ Len(g) = m
        /\ \A i \in 1..m : g[i] = TotalAfter(t, SubSeq(w, 1, i))
    BY <2>1, <2>2 DEF AreTotals
  <2> QED
    BY <1>3, <2>2, <2>3
<1>9. \A i \in 1..n : g[i] = f[i]
  <2> SUFFICES ASSUME NEW i \in 1..n PROVE g[i] = f[i]
    OBVIOUS
  <2>1. SubSeq(w, 1, i) = SubSeq(s, 1, i)
    <3>1. \A j \in 1..Len(s) : SubSeq(Append(s, x), 1, j) = SubSeq(s, 1, j)
      BY PartsFromStart
    <3> QED
      BY <1>1, <1>2, <3>1
  <2>2. i \in 1..(n + 1)
    BY <1>3
  <2> QED
    BY <1>7, <1>8, <2>1, <2>2
<1>10. g[n + 1] = y
  <2>1. SubSeq(w, 1, Len(w)) = w
    <3>1. w \in Seq(Snapshot) /\ x \in Snapshot
      BY <1>3
    <3> QED
      BY <3>1, PartsFromStart
  <2>2. n + 1 \in 1..(n + 1)
    BY <1>3
  <2> QED
    BY <1>3, <1>6, <1>8, <2>1, <2>2
<1>11. y \in CountRecord
  BY <1>3, <1>6, TotalAfterType
<1>12. g = Append(f, y)
  BY <1>3, <1>7, <1>8, <1>9, <1>10, <1>11
<1> QED
  BY <1>2, <1>4, <1>5, <1>6, <1>12

\* The first snapshot moves from the sequence into the total.
LEMMA TotalAfterTail ==
  ASSUME NEW t \in CountRecord, NEW s \in Seq(Snapshot), s # <<>>, NEW u,
         u = AddCounts(t, Counts(Head(s)))
  PROVE  /\ u \in CountRecord
         /\ TotalAfter(t, s) = TotalAfter(u, Tail(s))
<1>1. PICK x : x = Head(s)
  OBVIOUS
<1>2. /\ x \in Snapshot
      /\ SumOver(PassedOf, s) = PassedOf[x] + SumOver(PassedOf, Tail(s))
      /\ SumOver(DroppedOf, s) = DroppedOf[x] + SumOver(DroppedOf, Tail(s))
      /\ SumOver(PassedOf, Tail(s)) \in Nat /\ SumOver(DroppedOf, Tail(s)) \in Nat
  BY <1>1, SnapshotSums, SumOverTail
<1>3. /\ PassedOf[x] = x.passed /\ DroppedOf[x] = x.dropped
      /\ x.passed \in Nat /\ x.dropped \in Nat
      /\ t.passed \in Nat /\ t.dropped \in Nat
  BY <1>2 DEF PassedOf, DroppedOf, Snapshot, CountRecord
<1>4. u = [passed |-> t.passed + x.passed, dropped |-> t.dropped + x.dropped]
  BY <1>1 DEF AddCounts, Counts
<1>5. PICK p, d : p = SumOver(PassedOf, Tail(s)) /\ d = SumOver(DroppedOf, Tail(s))
  OBVIOUS
<1>6. TotalAfter(t, s) = [passed |-> t.passed + (x.passed + p),
                          dropped |-> t.dropped + (x.dropped + d)]
  BY <1>2, <1>3, <1>5 DEF TotalAfter
<1>7. TotalAfter(u, Tail(s)) = [passed |-> t.passed + x.passed + p,
                                dropped |-> t.dropped + x.dropped + d]
  BY <1>4, <1>5 DEF TotalAfter
<1>8. /\ t.passed + (x.passed + p) = t.passed + x.passed + p
      /\ t.dropped + (x.dropped + d) = t.dropped + x.dropped + d
  BY <1>2, <1>3, <1>5
<1>9. u \in CountRecord
  BY <1>3, <1>4 DEF CountRecord
<1> QED
  BY <1>6, <1>7, <1>8, <1>9

LEMMA TotalsTail ==
  ASSUME NEW t \in CountRecord, NEW s \in Seq(Snapshot), s # <<>>, NEW u,
         u = AddCounts(t, Counts(Head(s)))
  PROVE  /\ TotalsOf(t, s) \in Seq(CountRecord) /\ TotalsOf(t, s) # <<>>
         /\ Head(TotalsOf(t, s)) = u
         /\ Tail(TotalsOf(t, s)) = TotalsOf(u, Tail(s))
<1>1. PICK n : n = Len(s)
  OBVIOUS
<1>2. PICK r : r = Tail(s)
  OBVIOUS
<1>3. PICK m : m = n - 1
  OBVIOUS
<1>4. /\ n \in Nat /\ n >= 1 /\ m \in Nat /\ n = m + 1
      /\ r \in Seq(Snapshot) /\ Len(r) = m
      /\ Head(s) = s[1] /\ s[1] \in Snapshot
      /\ \A i \in 1..m : r[i] = s[i + 1]
  BY <1>1, <1>2, <1>3
<1>5. PICK f : f = TotalsOf(t, s)
  OBVIOUS
<1>6. PICK g : g = TotalsOf(u, r)
  OBVIOUS
<1>7. u \in CountRecord
  BY TotalAfterTail
<1>8. /\ f \in Seq(CountRecord) /\ Len(f) = n
      /\ \A i \in 1..n : f[i] = TotalAfter(t, SubSeq(s, 1, i))
  <2>1. AreTotals(f, t, s)
    BY <1>5, TotalsType
  <2> QED
    BY <1>1, <2>1 DEF AreTotals
<1>9. /\ g \in Seq(CountRecord) /\ Len(g) = m
      /\ \A i \in 1..m : g[i] = TotalAfter(u, SubSeq(r, 1, i))
  <2>1. AreTotals(g, u, r)
    BY <1>4, <1>6, <1>7, TotalsType
  <2> QED
    BY <1>4, <2>1 DEF AreTotals
\* A part of s from its start, without its first snapshot.
<1>10. ASSUME NEW k \in 1..n
       PROVE  /\ SubSeq(s, 1, k) \in Seq(Snapshot) /\ SubSeq(s, 1, k) # <<>>
              /\ Head(SubSeq(s, 1, k)) = Head(s)
              /\ Tail(SubSeq(s, 1, k)) = SubSeq(r, 1, k - 1)
  <2>1. PICK v : v = SubSeq(s, 1, k)
    OBVIOUS
  <2>2. PICK w : w = SubSeq(r, 1, k - 1)
    OBVIOUS
  <2>3. PICK j : j = k - 1
    OBVIOUS
  <2>4. /\ k \in Nat /\ k >= 1 /\ k <= n /\ j \in Nat /\ j <= m /\ k = j + 1
    BY <1>4, <2>3
  <2>5. v \in Seq(Snapshot) /\ Len(v) = k /\ \A i \in 1..k : v[i] = s[i]
    <3>1. /\ k \in Int /\ 1 \in Int /\ 1 >= 1 /\ k <= Len(s) /\ 1 <= k + 1
          /\ k - 1 + 1 = k /\ \A i \in 1..k : 1 + i - 1 = i
      BY <1>1, <2>4
    <3>2. /\ v \in Seq(Snapshot) /\ Len(v) = k - 1 + 1
          /\ \A i \in 1..(k - 1 + 1) : v[i] = s[1 + i - 1]
      BY <2>1, <3>1, Part
    <3> QED
      BY <3>1, <3>2
  <2>6. w \in Seq(Snapshot) /\ Len(w) = j /\ \A i \in 1..j : w[i] = r[i]
    <3>1. /\ j \in Int /\ 1 \in Int /\ 1 >= 1 /\ j <= Len(r) /\ 1 <= j + 1
          /\ j - 1 + 1 = j /\ \A i \in 1..j : 1 + i - 1 = i
      BY <1>4, <2>4
    <3>2. /\ w \in Seq(Snapshot) /\ Len(w) = j - 1 + 1
          /\ \A i \in 1..(j - 1 + 1) : w[i] = r[1 + i - 1]
      BY <1>4, <2>2, <2>3, <3>1, Part
    <3> QED
      BY <3>1, <3>2
  <2>7. PICK x : x = Tail(v)
    OBVIOUS
  <2>8. /\ v # <<>> /\ Head(v) = v[1] /\ x \in Seq(Snapshot) /\ Len(x) = j
        /\ \A i \in 1..j : x[i] = v[i + 1]
    BY <2>4, <2>5, <2>7
  <2>9. v[1] = s[1]
    BY <2>4, <2>5
  <2>10. \A i \in 1..j : x[i] = w[i]
    <3> SUFFICES ASSUME NEW i \in 1..j PROVE x[i] = w[i]
      OBVIOUS
    <3>1. i + 1 \in 1..k /\ i \in 1..m
      BY <1>4, <2>4
    <3> QED
      BY <1>4, <2>5, <2>6, <2>8, <3>1
  <2>11. x = w
    BY <2>6, <2>8, <2>10
  <2> QED
    BY <1>4, <2>1, <2>2, <2>5, <2>7, <2>8, <2>9, <2>11
<1>11. \A k \in 1..n : f[k] = TotalAfter(u, SubSeq(r, 1, k - 1))
  <2> SUFFICES ASSUME NEW k \in 1..n PROVE f[k] = TotalAfter(u, SubSeq(r, 1, k - 1))
    OBVIOUS
  <2>1. PICK v : v = SubSeq(s, 1, k)
    OBVIOUS
  <2>2. /\ v \in Seq(Snapshot) /\ v # <<>> /\ Head(v) = Head(s)
        /\ Tail(v) = SubSeq(r, 1, k - 1)
    BY <1>10, <2>1
  <2>3. TotalAfter(t, v) = TotalAfter(u, Tail(v))
    BY <2>2, TotalAfterTail
  <2> QED
    BY <1>8, <2>1, <2>2, <2>3
<1>12. f[1] = u
  <2>1. SubSeq(r, 1, 1 - 1) = <<>>
    <3>1. /\ 0 \in Int /\ 1 \in Int /\ 1 >= 1 /\ 0 <= Len(r) /\ 1 <= 0 + 1 /\ 0 - 1 + 1 = 0
          /\ 1 - 1 = 0
      BY <1>4
    <3>2. SubSeq(r, 1, 0) \in Seq(Snapshot) /\ Len(SubSeq(r, 1, 0)) = 0 - 1 + 1
      BY <1>4, <3>1, Part
    <3>3. SubSeq(r, 1, 0) = <<>>
      BY <3>1, <3>2
    <3> QED
      BY <3>1, <3>3
  <2>2. TotalAfter(u, <<>>) = u
    <3>1. u.passed \in Nat /\ u.dropped \in Nat
          /\ u = [passed |-> u.passed, dropped |-> u.dropped]
      BY <1>7 DEF CountRecord
    <3>2. TotalAfter(u, <<>>) = [passed |-> u.passed + 0, dropped |-> u.dropped + 0]
      BY SumOverNone DEF TotalAfter
    <3> QED
      BY <3>1, <3>2
  <2>3. 1 \in 1..n
    BY <1>4
  <2> QED
    BY <1>11, <2>1, <2>2, <2>3
<1>13. PICK h : h = Tail(f)
  OBVIOUS
<1>14. /\ f # <<>> /\ Head(f) = f[1] /\ h \in Seq(CountRecord) /\ Len(h) = m
       /\ \A i \in 1..m : h[i] = f[i + 1]
  BY <1>4, <1>8, <1>13
<1>15. \A i \in 1..m : h[i] = g[i]
  <2> SUFFICES ASSUME NEW i \in 1..m PROVE h[i] = g[i]
    OBVIOUS
  <2>1. i + 1 \in 1..n /\ (i + 1) - 1 = i
    BY <1>4
  <2>2. f[i + 1] = TotalAfter(u, SubSeq(r, 1, (i + 1) - 1))
    BY <1>11, <2>1
  <2> QED
    BY <1>9, <1>14, <2>1, <2>2
<1>16. h = g
  BY <1>9, <1>14, <1>15
<1> QED
  BY <1>2, <1>5, <1>6, <1>8, <1>12, <1>13, <1>14, <1>16


LEMMA FeedOf ==
  ASSUME NEW t \in CountRecord, NEW s \in Seq(Snapshot)
  PROVE  [i \in DOMAIN s |-> AddCounts(t, Deltas(SubSeq(s, 1, i)))] = TotalsOf(t, s)
<1>1. PICK n : n = Len(s)
  OBVIOUS
<1>2. n \in Nat /\ DOMAIN s = 1..n
  BY <1>1
<1>3. ASSUME NEW i \in 1..n
      PROVE  AddCounts(t, Deltas(SubSeq(s, 1, i))) = TotalAfter(t, SubSeq(s, 1, i))
  <2>1. SubSeq(s, 1, i) \in Seq(Snapshot)
    <3>1. i \in Int /\ 1 \in Int /\ 1 >= 1 /\ i <= Len(s) /\ 1 <= i + 1
      BY <1>1, <1>2
    <3> QED
      BY <3>1, Part
  <2> QED
    BY <2>1, TotalAfterType
<1> QED
  BY <1>1, <1>2, <1>3 DEF TotalsOf

LEMMA FeedIs ==
  ASSUME TypeOK
  PROVE  /\ feed = TotalsOf(total, input)
         /\ Feed!Newest = TotalAfter(total, input)
<1>1. PICK n : n = Len(input)
  OBVIOUS
<1>2. input \in Seq(Snapshot) /\ n \in Nat
  BY <1>1 DEF TypeOK
<1>3. total \in CountRecord
  BY CountsType
<1>4. feed = TotalsOf(total, input)
  BY <1>2, <1>3, FeedOf DEF feed
<1>5. PICK f : f = feed
  OBVIOUS
<1>6. /\ f \in Seq(CountRecord) /\ Len(f) = n
      /\ \A i \in 1..n : f[i] = TotalAfter(total, SubSeq(input, 1, i))
  <2>1. AreTotals(f, total, input)
    BY <1>2, <1>3, <1>4, <1>5, TotalsType
  <2> QED
    BY <1>1, <2>1 DEF AreTotals
<1>7. Feed!Newest = IF f = <<>> THEN total ELSE f[Len(f)]
  BY <1>5 DEF Feed!Newest
<1>8. CASE n = 0
  <2>1. f = <<>> /\ input = <<>>
    <3>1. f = <<>>
      BY <1>6, <1>8
    <3>2. input = <<>>
      <4>1. PICK s : s = input
        OBVIOUS
      <4>2. s \in Seq(Snapshot) /\ Len(s) = 0
        BY <1>1, <1>2, <1>8, <4>1
      <4>3. s = <<>>
        BY <4>2
      <4> QED
        BY <4>1, <4>3
    <3> QED
      BY <3>1, <3>2
  <2>2. TotalAfter(total, <<>>) = total
    <3>1. /\ total.passed \in Nat /\ total.dropped \in Nat
          /\ total = [passed |-> total.passed, dropped |-> total.dropped]
      BY <1>3 DEF CountRecord
    <3>2. TotalAfter(total, <<>>) = [passed |-> total.passed + 0,
                                     dropped |-> total.dropped + 0]
      BY SumOverNone DEF TotalAfter
    <3> QED
      BY <3>1, <3>2
  <2> QED
    BY <1>4, <1>7, <2>1, <2>2
<1>9. CASE n # 0
  <2>1. f # <<>> /\ n \in 1..n
    BY <1>2, <1>6, <1>9
  <2>2. SubSeq(input, 1, n) = input
    <3>1. [passed |-> 0, dropped |-> 0, events |-> <<>>] \in Snapshot
      BY DEF Snapshot
    <3> QED
      BY <1>1, <1>2, <3>1, PartsFromStart
  <2> QED
    BY <1>4, <1>6, <1>7, <2>1, <2>2
<1> QED
  BY <1>8, <1>9

\* What is in the totals, on its way and in hand is the reading, less what was
\* lost.
LessLost(t, s, h, l, v) == t + (s + h) = v - l /\ l + h = v - (t + s)

LEMMA ReadingLess ==
  ASSUME NEW t \in Nat, NEW s \in Nat, NEW h \in Nat, NEW l \in Nat,
         NEW v \in Nat, Balanced(t, s, h, l, v)
  PROVE  LessLost(t, s, h, l, v)
  BY DEF Balanced, LessLost

LEMMA FeedSends ==
  ASSUME TypeOK, TypeOK', CountsInv, SendSnapshot
  PROVE  Feed!Send \/ Feed!Lose
<1>1. /\ poll.pc = "send" /\ poll'.pc = "wait"
      /\ UNCHANGED <<total, prev, shown, passed, dropped>>
  BY DEF SendSnapshot, CollectorOnly, aggregatorVars, kernelVars
<1>2. dropped' = dropped
  BY <1>1
<1>3. poll.pc \in {"events", "send"} /\ poll'.pc \notin {"events", "send"}
  BY <1>1
<1>x. PICK x : x = [passed |-> poll.passed, dropped |-> poll.dropped,
                    events |-> poll.events]
  OBVIOUS
<1>4. x \in Snapshot /\ PassedOf[x] = poll.passed /\ DroppedOf[x] = poll.dropped
  <2>1. x \in Snapshot /\ x.passed = poll.passed /\ x.dropped = poll.dropped
    BY <1>x, CountsType DEF Snapshot
  <2> QED
    BY <2>1 DEF PassedOf, DroppedOf
<1>n. PICK p, d : p = SumOver(PassedOf, input) /\ d = SumOver(DroppedOf, input)
  OBVIOUS
<1>5. /\ Balanced(total.passed, p, poll.passed, lost.passed, prev.passed)
      /\ Balanced(total.dropped, d, poll.dropped, lost.dropped, prev.dropped)
  BY <1>1, <1>n DEF CountsInv, Underway
<1>6. p \in Nat /\ d \in Nat
  BY <1>n, CountsType
<1>7. /\ LessLost(total.passed, p, poll.passed, lost.passed, prev.passed)
      /\ LessLost(total.dropped, d, poll.dropped, lost.dropped, prev.dropped)
  <2>1. /\ total.passed \in Nat /\ lost.passed \in Nat /\ prev.passed \in Nat
        /\ total.dropped \in Nat /\ lost.dropped \in Nat /\ prev.dropped \in Nat
        /\ poll.passed \in Nat /\ poll.dropped \in Nat
    BY CountsType
  <2> QED
    BY <1>5, <1>6, <2>1, ReadingLess
<1>8. CASE input' = Append(input, x) /\ UNCHANGED lost
  <2>1. TotalAfter(total, Append(input, x)) = Feed!Minus(prev, lost)
    <3>1. /\ SumOver(PassedOf, Append(input, x)) = p + poll.passed
          /\ SumOver(DroppedOf, Append(input, x)) = d + poll.dropped
      <4>1. /\ SumOver(PassedOf, Append(input, x)) = SumOver(PassedOf, input) + PassedOf[x]
            /\ SumOver(DroppedOf, Append(input, x)) = SumOver(DroppedOf, input) + DroppedOf[x]
        BY <1>4, CountsType, SnapshotSums, SumOverAppend
      <4> QED
        BY <1>4, <1>n, <4>1
    <3> QED
      BY <1>7, <3>1 DEF LessLost, TotalAfter, Feed!Minus
  <2>2. feed' = TotalsOf(total, Append(input, x)) /\ feed = TotalsOf(total, input)
    <3>1. total' \in CountRecord /\ input' \in Seq(Snapshot)
      BY DEF TypeOK
    <3>2. feed' = TotalsOf(total', input')
      BY <3>1, FeedOf DEF feed
    <3> QED
      BY <1>1, <1>8, <3>2, FeedIs
  <2>3. feed' = Append(feed, Feed!Minus(prev, lost))
    BY <1>4, <2>1, <2>2, CountsType, TotalsAppend
  <2> QED
    BY <1>1, <1>2, <1>3, <1>8, <2>3 DEF Feed!Send
<1>9. CASE lost' = AddCounts(lost, Counts(poll)) /\ UNCHANGED input
  <2>1. lost' = Feed!Minus(prev, Feed!Newest)
    <3>1. Feed!Newest = [passed |-> total.passed + p, dropped |-> total.dropped + d]
      BY <1>n, FeedIs DEF TotalAfter
    <3>2. lost' = [passed |-> lost.passed + poll.passed,
                   dropped |-> lost.dropped + poll.dropped]
      BY <1>9 DEF AddCounts, Counts
    <3> QED
      BY <1>7, <3>1, <3>2 DEF LessLost, Feed!Minus
  <2>2. feed' = feed
    BY <1>1, <1>9 DEF feed
  <2> QED
    BY <1>1, <1>2, <1>3, <2>1, <2>2 DEF Feed!Lose
<1> QED
  BY <1>x, <1>8, <1>9 DEF SendSnapshot

LEMMA FeedArrives ==
  ASSUME TypeOK, TypeOK', process
  PROVE  Feed!Arrive
<1>1. /\ input # <<>> /\ input' = Tail(input)
      /\ total' = AddCounts(total, Counts(Head(input)))
      /\ UNCHANGED <<poll, prev, lost, shown, passed, dropped>>
  BY DEF process, pollVars, kernelVars
<1>2. dropped' = dropped
  BY <1>1
<1>3. feed = TotalsOf(total, input) /\ feed' = TotalsOf(total', Tail(input))
  <2>1. total' \in CountRecord /\ input' \in Seq(Snapshot)
    BY DEF TypeOK
  <2>2. feed' = TotalsOf(total', input')
    BY <2>1, FeedOf DEF feed
  <2> QED
    BY <1>1, <2>2, FeedIs
<1>4. PICK t, s, u : t = total /\ s = input /\ u = total'
  OBVIOUS
<1>5. /\ t \in CountRecord /\ s \in Seq(Snapshot) /\ s # <<>>
      /\ u = AddCounts(t, Counts(Head(s)))
  BY <1>1, <1>4, CountsType
<1>6. /\ TotalsOf(t, s) # <<>>
      /\ Head(TotalsOf(t, s)) = u
      /\ Tail(TotalsOf(t, s)) = TotalsOf(u, Tail(s))
  BY <1>5, TotalsTail
<1>7. feed # <<>> /\ total' = Head(feed) /\ feed' = Tail(feed)
  BY <1>3, <1>4, <1>6
<1> QED
  BY <1>1, <1>2, <1>7 DEF Feed!Arrive

\* A reading: two lookups, of which the first may be some time ago.
LEMMA FeedReads ==
  ASSUME TypeOK, AheadInv, ReadDropped
  PROVE  Feed!Read
<1>1. /\ poll.pc = "dropped" /\ poll'.pc = "events"
      /\ prev' = [passed |-> poll.passed, dropped |-> dropped]
      /\ UNCHANGED <<input, total, lost, shown, passed, dropped>>
  BY CountsType DEF ReadDropped, CollectorOnly, aggregatorVars, kernelVars, PollRecord
<1>2. dropped' = dropped /\ feed' = feed
  BY <1>1 DEF feed
<1>3. poll.passed \in prev.passed..passed
  <2>1. prev.passed \in Nat /\ poll.passed \in Nat /\ passed \in Nat
    BY CountsType DEF TypeOK
  <2> QED
    BY <1>1, <2>1 DEF AheadInv
<1>4. poll.pc \notin {"events", "send"} /\ poll'.pc \in {"events", "send"}
  BY <1>1
<1> QED
  BY <1>1, <1>2, <1>3, <1>4 DEF Feed!Read

\* The other steps count a packet, show a total or do not show.
LEMMA FeedRest ==
  ASSUME TypeOK,
         \/ Kernel \/ ReadRecord \/ SendEvent \/ consumeEvent
         \/ ReadPassed \/ PollFails \/ TakeEvents \/ Subscribe
         \/ HandToBroadcaster \/ UNCHANGED vars
  PROVE  [Feed!Next]_(Feed!vars)
<1>1. ASSUME UNCHANGED <<passed, dropped, prev, lost, input, total, shown>>,
             poll.pc \in {"events", "send"} <=> poll'.pc \in {"events", "send"}
      PROVE  UNCHANGED Feed!vars
  <2>1. dropped' = dropped /\ feed' = feed
    BY <1>1 DEF feed
  <2> QED
    BY <1>1, <2>1 DEF Feed!vars
<1>2. CASE PassPacket
  <2>1. /\ passed' = passed + 1
        /\ UNCHANGED <<dropped, poll, prev, lost, input, total, shown>>
    BY <1>2 DEF PassPacket, View!Pass, pollVars, aggregatorVars
  <2>2. dropped' = dropped /\ feed' = feed
    BY <2>1 DEF feed
  <2>3. Feed!Count
    BY <2>1, <2>2 DEF Feed!Count
  <2> QED
    BY <2>3 DEF Feed!Next
<1>3. ASSUME NEW a \in Sources, DropPacket(a) PROVE [Feed!Next]_(Feed!vars)
  <2>1. /\ dropped' = dropped + 1
        /\ UNCHANGED <<passed, poll, prev, lost, input, total, shown>>
    BY <1>3 DEF DropPacket, View!Drop, pollVars, aggregatorVars
  <2>2. dropped' = dropped + 1 /\ feed' = feed
    BY <2>1 DEF feed
  <2>3. Feed!Count
    BY <2>1, <2>2 DEF Feed!Count
  <2> QED
    BY <2>3 DEF Feed!Next
<1>4. ASSUME NEW a \in Sources, EmitEvent(a) PROVE UNCHANGED Feed!vars
  BY <1>1, <1>4 DEF EmitEvent, View!Emit, pollVars, aggregatorVars
<1>5. CASE ReadRecord \/ SendEvent \/ consumeEvent
  BY <1>1, <1>5
  DEF ReadRecord, View!Take, SendEvent, consumeEvent, kernelVars, pollVars, aggregatorVars
<1>6. CASE ReadPassed \/ PollFails \/ TakeEvents \/ Subscribe
  <2>1. UNCHANGED <<passed, dropped, prev, lost, input, total, shown>>
    BY <1>6 DEF ReadPassed, PollFails, TakeEvents, Subscribe, CollectorOnly,
                kernelVars, aggregatorVars
  <2>2. poll.pc \in {"events", "send"} <=> poll'.pc \in {"events", "send"}
    BY <1>6, CountsType DEF ReadPassed, PollFails, TakeEvents, Subscribe, PollRecord
  <2> QED
    BY <1>1, <2>1, <2>2
<1>7. CASE HandToBroadcaster
  <2>1. /\ shown' = total
        /\ UNCHANGED <<passed, dropped, poll, prev, lost, input, total>>
    BY <1>7 DEF HandToBroadcaster, kernelVars, pollVars, aggregatorVars
  <2>2. dropped' = dropped /\ feed' = feed
    BY <2>1 DEF feed
  <2>3. Feed!Show
    BY <2>1, <2>2 DEF Feed!Show
  <2> QED
    BY <2>3 DEF Feed!Next
<1>8. CASE UNCHANGED vars
  BY <1>1, <1>8 DEF vars, kernelVars, pollVars, aggregatorVars
<1> QED
  BY <1>2, <1>3, <1>4, <1>5, <1>6, <1>7, <1>8 DEF Kernel

LEMMA FeedStep ==
  TypeOK /\ AheadInv /\ CountsInv /\ TypeOK' /\ [Next]_vars
    => [Feed!Next]_(Feed!vars)
  BY FeedSends, FeedArrives, FeedReads, FeedRest DEF Next, Feed!Next

LEMMA FeedInit == Init => Feed!Init
<1> SUFFICES ASSUME Init PROVE Feed!Init
  OBVIOUS
<1>1. input = <<>> /\ feed = <<>>
  BY DEF Init, feed
<1>2. passed = 0 /\ dropped = 0
  BY DEF Init, View!Init
<1>3. poll.pc = "wait"
  BY DEF Init
<1> QED
  BY <1>1, <1>2, <1>3 DEF Init, Feed!Init, Zero

\* For any sources and any channel sizes, polls that fail half way, snapshots
\* that no listener takes and a ticker that skips (collector.go:95-138,
\* aggregator.go:128-131, main.go:70-81): every total handed over is a reading
\* of both counters less what was lost before it.
THEOREM TotalsAreReadings == Spec => ImplementsTotalsFeed
<1>1. Init => TypeOK /\ AheadInv /\ CountsInv /\ Feed!Init
  BY InitType, CountsInit, FeedInit
<1>2. TypeOK /\ AheadInv /\ CountsInv /\ [Next]_vars
        => TypeOK' /\ AheadInv' /\ CountsInv' /\ [Feed!Next]_(Feed!vars)
  BY NextType, CountsNext, FeedStep
<1> QED
  BY <1>1, <1>2, PTL DEF Spec, ImplementsTotalsFeed, Feed!Spec
=============================================================================
