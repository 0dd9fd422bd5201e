----------------------------- MODULE DataFacts ------------------------------
(***************************************************************************)
(* Facts about data that several proofs need: division with remainder,     *)
(* least elements, sums of functions and of sequences.                     *)
(*                                                                         *)
(* A sum is a fold, which is defined by recursion.  What holds for every   *)
(* finite set or every length is shown by a smallest counterexample, a set *)
(* of sets or of numbers, and so needs no induction on a formula.          *)
(***************************************************************************)
EXTENDS Integers, FiniteSets, Sequences, SequencesExt, NaturalsInduction,
        WellFoundedInduction, FiniteSetTheorems, SequenceTheorems, TLAPS

\* Quotient and remainder of a natural number.
LEMMA Division ==
  ASSUME NEW n \in Nat, NEW m \in Nat, m > 0
  PROVE  /\ n % m \in 0..(m - 1)
         /\ n \div m \in Nat
         /\ n = m * (n \div m) + (n % m)
  OBVIOUS

\* They are the only ones.
LEMMA DivisionUnique ==
  ASSUME NEW m \in Nat, m > 0, NEW p \in Int, NEW q \in Int,
         NEW r \in 0..(m - 1), NEW s \in 0..(m - 1),
         m * p + r = m * q + s
  PROVE  r = s
<1>1. m * (p - q) = s - r
  OBVIOUS
<1>2. CASE p = q
  BY <1>1, <1>2
<1>3. CASE p > q
  <2>1. m * (p - q) >= m
    BY <1>3
  <2> QED
    BY <1>1, <2>1
<1>4. CASE p < q
  <2>1. m * (q - p) >= m
    BY <1>4
  <2>2. m * (q - p) = r - s
    BY <1>1
  <2> QED
    BY <2>1, <2>2
<1> QED
  BY <1>2, <1>3, <1>4

\* A nonempty set of natural numbers has a least element.
LEMMA LeastNatural ==
  ASSUME NEW S \in SUBSET Nat, S # {}
  PROVE  \E n \in S : \A k \in S : n <= k
<1>1. PICK n \in S : \A k \in S : <<k, n>> \notin OpToRel(<, Nat)
  BY WFMin, NatLessThanWellFounded, Zenon
<1>2. \A k \in S : ~ (k < n)
  BY <1>1, Zenon DEF OpToRel
<1> QED
  BY <1>2

-----------------------------------------------------------------------------
(* Sums. *)

\* Among sets of subsets of a finite set there is one none of whose elements
\* can be taken away without leaving them.
LEMMA SmallestSet ==
  ASSUME NEW T, IsFiniteSet(T), NEW B \in SUBSET (SUBSET T), B # {}
  PROVE  \E s \in B : \A x \in s : s \ {x} \notin B
<1> DEFINE N == {Cardinality(s) : s \in B}
<1>1. \A s \in B : IsFiniteSet(s) /\ Cardinality(s) \in Nat
  BY FS_Subset, FS_CardinalityType
<1>2. N \in SUBSET Nat /\ N # {}
  BY <1>1
<1>3. PICK n \in N : \A k \in N : n <= k
  <2> HIDE DEF N
  <2> QED
    BY <1>2, LeastNatural
<1>4. PICK s \in B : n = Cardinality(s)
  BY <1>3
<1>5. ASSUME NEW x \in s, s \ {x} \in B PROVE FALSE
  <2>1. Cardinality(s \ {x}) = Cardinality(s) - 1
    BY <1>1, <1>4, <1>5, FS_RemoveElement
  <2>2. n <= Cardinality(s \ {x})
    BY <1>3, <1>5
  <2> QED
    BY <1>1, <1>4, <2>1, <2>2
<1> QED
  BY <1>4, <1>5

\* The element a fold takes first.
Elem(s) == CHOOSE x \in s : TRUE

SumRule(f, h, s) == IF s = {} THEN 0 ELSE f[Elem(s)] + h[s \ {Elem(s)}]

IsSum(f, T, h) == h = [s \in SUBSET T |-> SumRule(f, h, s)]

LEMMA ElemIn == ASSUME NEW s, s # {} PROVE Elem(s) \in s
  BY DEF Elem

LEMMA SumIsChosen ==
  ASSUME NEW f, NEW T
  PROVE  SumFunctionOnSet(f, T) = (CHOOSE h : IsSum(f, T, h))[T]
  BY Zenon DEF SumFunctionOnSet, FoldFunctionOnSet, MapThenFoldSet, IsSum, SumRule, Elem

\* The recursion of the fold has a solution.
LEMMA SumExists ==
  ASSUME NEW f, NEW T, IsFiniteSet(T)
  PROVE  \E h : IsSum(f, T, h)
<1> DEFINE Small(n) == {s \in SUBSET T : Cardinality(s) <= n}
           Solved(n) == \E h : h = [s \in Small(n) |-> SumRule(f, h, s)]
           Bad == {n \in Nat : ~ Solved(n)}
<1>1. ASSUME NEW s \in SUBSET T PROVE IsFiniteSet(s) /\ Cardinality(s) \in Nat
  BY FS_Subset, FS_CardinalityType
<1>2. CASE Bad = {}
  <2>1. Cardinality(T) \in Nat
    BY FS_CardinalityType
  <2>2. PICK h : h = [s \in Small(Cardinality(T)) |-> SumRule(f, h, s)]
    BY <1>2, <2>1
  <2>3. Small(Cardinality(T)) = SUBSET T
    BY FS_Subset
  <2> QED
    BY <2>2, <2>3 DEF IsSum
<1>3. CASE Bad # {}
  <2>1. PICK n \in Bad : \A k \in Bad : n <= k
    <3>1. Bad \in SUBSET Nat
      OBVIOUS
    <3> HIDE DEF Bad
    <3> QED
      BY <1>3, <3>1, LeastNatural
  <2>2. n \in Nat /\ ~ Solved(n)
    OBVIOUS
  <2>3. PICK g : n > 0 => g = [s \in Small(n - 1) |-> SumRule(f, g, s)]
    <3>1. CASE n > 0
      <4>1. n - 1 \in Nat /\ n - 1 \notin Bad
        <5>1. n - 1 \in Nat /\ ~ (n <= n - 1)
          BY <2>2, <3>1
        <5> HIDE DEF Bad
        <5> QED
          BY <2>1, <5>1
      <4> QED
        BY <4>1
    <3> QED
      BY <3>1
  <2>4. PICK h : h = [s \in Small(n) |-> SumRule(f, g, s)]
    OBVIOUS
  <2>5. ASSUME NEW s \in Small(n) PROVE SumRule(f, h, s) = SumRule(f, g, s)
    <3>1. CASE s = {}
      BY <3>1 DEF SumRule
    <3>2. CASE s # {}
      <4>1. PICK u : u = s \ {Elem(s)}
        OBVIOUS
      <4>2. Cardinality(u) = Cardinality(s) - 1 /\ u \in SUBSET T
        BY <1>1, <3>2, <4>1, ElemIn, FS_RemoveElement
      <4>3. Cardinality(s) <= n /\ Cardinality(s) \in Nat /\ Cardinality(u) \in Nat
        BY <1>1, <4>2
      <4>4. n > 0 /\ u \in Small(n - 1) /\ u \in Small(n)
        BY <2>2, <4>2, <4>3
      <4>5. g[u] = SumRule(f, g, u)
        BY <2>3, <4>4
      <4>6. h[u] = SumRule(f, g, u)
        BY <2>4, <4>4
      <4> QED
        BY <4>1, <4>5, <4>6 DEF SumRule
    <3> QED
      BY <3>1, <3>2
  <2>6. h = [s \in Small(n) |-> SumRule(f, h, s)]
    BY <2>4, <2>5
  <2> QED
    BY <2>2, <2>6
<1> QED
  BY <1>2, <1>3

\* It has one only, whatever the set it is a solution for.
LEMMA SumUnique ==
  ASSUME NEW f, NEW T, IsFiniteSet(T), NEW U, NEW g, NEW h,
         IsSum(f, T, g), IsSum(f, U, h),
         NEW s \in SUBSET T, s \in SUBSET U
  PROVE  g[s] = h[s]
<1> DEFINE B == {t \in SUBSET T : t \in SUBSET U /\ g[t] # h[t]}
<1>1. B = {}
  <2> SUFFICES ASSUME B # {} PROVE FALSE
    OBVIOUS
  <2>1. PICK t \in B : \A x \in t : t \ {x} \notin B
    <3>1. B \in SUBSET (SUBSET T)
      OBVIOUS
    <3> HIDE DEF B
    <3> QED
      BY <3>1, SmallestSet
  <2>2. g[t] = SumRule(f, g, t) /\ h[t] = SumRule(f, h, t) /\ g[t] # h[t]
    BY DEF IsSum
  <2>3. t # {}
    BY <2>2 DEF SumRule
  <2>4. PICK u : u = t \ {Elem(t)}
    OBVIOUS
  <2>5. u \notin B
    BY <2>1, <2>3, <2>4, ElemIn
  <2>6. g[u] = h[u]
    BY <2>4, <2>5
  <2> QED
    BY <2>2, <2>3, <2>4, <2>6 DEF SumRule
<1> QED
  BY <1>1

LEMMA SumIs ==
  ASSUME NEW f, NEW T, IsFiniteSet(T), NEW h, IsSum(f, T, h), NEW s \in SUBSET T
  PROVE  SumFunctionOnSet(f, s) = h[s]
<1>1. IsFiniteSet(s)
  BY FS_Subset
<1>2. PICK g : g = CHOOSE k : IsSum(f, s, k)
  OBVIOUS
<1>3. IsSum(f, s, g)
  BY <1>1, <1>2, SumExists
<1>4. g[s] = h[s]
  BY <1>1, <1>3, SumUnique
<1> QED
  BY <1>2, <1>4, SumIsChosen

\* The equation of the fold.
LEMMA SumEquation ==
  ASSUME NEW f, NEW T, IsFiniteSet(T)
  PROVE  SumFunctionOnSet(f, T) =
            IF T = {} THEN 0
            ELSE f[Elem(T)] + SumFunctionOnSet(f, T \ {Elem(T)})
<1>1. PICK h : IsSum(f, T, h)
  BY SumExists
<1>2. SumFunctionOnSet(f, T) = h[T] /\ h[T] = SumRule(f, h, T)
  <2>1. T \in SUBSET T
    OBVIOUS
  <2>2. SumFunctionOnSet(f, T) = h[T]
    BY <1>1, <2>1, SumIs
  <2>3. h[T] = SumRule(f, h, T)
    BY <1>1, <2>1 DEF IsSum
  <2> QED
    BY <2>2, <2>3
<1>3. PICK u : u = T \ {Elem(T)}
  OBVIOUS
<1>4. SumFunctionOnSet(f, u) = h[u]
  BY <1>1, <1>3, SumIs
<1> QED
  BY <1>2, <1>3, <1>4 DEF SumRule

LEMMA SumEmpty == ASSUME NEW f PROVE SumFunctionOnSet(f, {}) = 0
  BY SumEquation, FS_EmptySet

LEMMA SumNat ==
  ASSUME NEW f, NEW T, IsFiniteSet(T), \A x \in T : f[x] \in Nat
  PROVE  SumFunctionOnSet(f, T) \in Nat
<1> DEFINE B == {t \in SUBSET T : SumFunctionOnSet(f, t) \notin Nat}
<1>1. B = {}
  <2> SUFFICES ASSUME B # {} PROVE FALSE
    OBVIOUS
  <2>1. PICK t \in B : \A x \in t : t \ {x} \notin B
    <3>1. B \in SUBSET (SUBSET T)
      OBVIOUS
    <3> HIDE DEF B
    <3> QED
      BY <3>1, SmallestSet
  <2>2. t \in SUBSET T /\ SumFunctionOnSet(f, t) \notin Nat /\ IsFiniteSet(t)
    BY FS_Subset
  <2>3. t # {}
    BY <2>2, SumEmpty
  <2>4. PICK a, u : a \in t /\ a = Elem(t) /\ u = t \ {a}
    BY <2>3, ElemIn
  <2>5. SumFunctionOnSet(f, t) = f[a] + SumFunctionOnSet(f, u)
    BY <2>2, <2>3, <2>4, SumEquation
  <2>6. u \notin B
    BY <2>1, <2>4
  <2>7. SumFunctionOnSet(f, u) \in Nat
    BY <2>2, <2>4, <2>6
  <2> QED
    BY <2>2, <2>4, <2>5, <2>7
<1> QED
  BY <1>1

\* The order of the fold does not matter.
LEMMA SumRemove ==
  ASSUME NEW f, NEW T, IsFiniteSet(T), \A x \in T : f[x] \in Nat, NEW y \in T
  PROVE  SumFunctionOnSet(f, T) = f[y] + SumFunctionOnSet(f, T \ {y})
<1> DEFINE OK(t, x) == SumFunctionOnSet(f, t) = f[x] + SumFunctionOnSet(f, t \ {x})
           B == {t \in SUBSET T : \E x \in t : ~ OK(t, x)}
<1>1. B = {}
  <2> SUFFICES ASSUME B # {} PROVE FALSE
    OBVIOUS
  <2>1. PICK t \in B : \A x \in t : t \ {x} \notin B
    <3>1. B \in SUBSET (SUBSET T)
      OBVIOUS
    <3> HIDE DEF B
    <3> QED
      BY <3>1, SmallestSet
  <2>2. PICK x \in t : ~ OK(t, x)
    OBVIOUS
  <2>3. t \in SUBSET T /\ IsFiniteSet(t) /\ t # {}
    BY <2>2, FS_Subset
  <2>4. PICK a \in t : a = Elem(t)
    BY <2>3, ElemIn
  <2>5. OK(t, a)
    BY <2>3, <2>4, SumEquation
  <2>6. a # x
    BY <2>2, <2>5
  <2>7. OK(t \ {a}, x)
    <3>1. t \ {a} \notin B /\ t \ {a} \in SUBSET T /\ x \in t \ {a}
      BY <2>1, <2>3, <2>4, <2>6
    <3> QED
      BY <3>1
  <2>8. OK(t \ {x}, a)
    <3>1. t \ {x} \notin B /\ t \ {x} \in SUBSET T /\ a \in t \ {x}
      BY <2>1, <2>3, <2>4, <2>6
    <3> QED
      BY <3>1
  <2>9. PICK u : u = (t \ {a}) \ {x}
    OBVIOUS
  <2>10. u = (t \ {x}) \ {a}
    BY <2>9
  <2>11. SumFunctionOnSet(f, u) \in Nat /\ f[a] \in Nat /\ f[x] \in Nat
    <3>1. IsFiniteSet(u) /\ u \in SUBSET T
      BY <2>3, <2>9, FS_Subset
    <3> QED
      BY <2>3, <3>1, SumNat
  <2>12. /\ SumFunctionOnSet(f, t) = f[a] + SumFunctionOnSet(f, t \ {a})
         /\ SumFunctionOnSet(f, t \ {a}) = f[x] + SumFunctionOnSet(f, u)
         /\ SumFunctionOnSet(f, t \ {x}) = f[a] + SumFunctionOnSet(f, u)
         /\ SumFunctionOnSet(f, t) # f[x] + SumFunctionOnSet(f, t \ {x})
    BY <2>2, <2>5, <2>7, <2>8, <2>9, <2>10
  <2> QED
    BY <2>11, <2>12
<1>2. OK(T, y)
  BY <1>1
<1> QED
  BY <1>2

LEMMA SumLess ==
  ASSUME NEW f, NEW T, IsFiniteSet(T), \A x \in T : f[x] \in Nat,
         NEW y \in T, NEW U, U = T \ {y}
  PROVE  SumFunctionOnSet(f, T) = f[y] + SumFunctionOnSet(f, U)
  BY SumRemove

\* A sum depends on the values that are added up only.
LEMMA SumSame ==
  ASSUME NEW f, NEW g, NEW T, IsFiniteSet(T), \A x \in T : f[x] = g[x]
  PROVE  SumFunctionOnSet(f, T) = SumFunctionOnSet(g, T)
<1> DEFINE B == {t \in SUBSET T : SumFunctionOnSet(f, t) # SumFunctionOnSet(g, t)}
<1>1. B = {}
  <2> SUFFICES ASSUME B # {} PROVE FALSE
    OBVIOUS
  <2>1. PICK t \in B : \A x \in t : t \ {x} \notin B
    <3>1. B \in SUBSET (SUBSET T)
      OBVIOUS
    <3> HIDE DEF B
    <3> QED
      BY <3>1, SmallestSet
  <2>2. t \in SUBSET T /\ IsFiniteSet(t) /\ t # {}
    BY SumEmpty, FS_Subset
  <2>3. PICK a, u : a \in t /\ a = Elem(t) /\ u = t \ {a}
    BY <2>2, ElemIn
  <2>4. u \notin B /\ u \in SUBSET T
    BY <2>1, <2>2, <2>3
  <2>5. SumFunctionOnSet(f, u) = SumFunctionOnSet(g, u) /\ f[a] = g[a]
    BY <2>2, <2>3, <2>4
  <2>6. /\ SumFunctionOnSet(f, t) = f[a] + SumFunctionOnSet(f, u)
        /\ SumFunctionOnSet(g, t) = g[a] + SumFunctionOnSet(g, u)
    BY <2>2, <2>3, SumEquation
  <2>7. SumFunctionOnSet(f, t) # SumFunctionOnSet(g, t)
    OBVIOUS
  <2> HIDE DEF B
  <2> QED
    BY <2>5, <2>6, <2>7
<1> QED
  BY <1>1

LEMMA SumType ==
  ASSUME NEW T, IsFiniteSet(T), NEW f \in [T -> Nat]
  PROVE  SumFunction(f) \in Nat
<1>1. DOMAIN f = T /\ \A x \in T : f[x] \in Nat
  OBVIOUS
<1>2. SumFunctionOnSet(f, T) \in Nat
  BY <1>1, SumNat
<1> QED
  BY <1>1, <1>2, Zenon DEF SumFunction

\* The sum of a function of which one value changes.
LEMMA SumChange ==
  ASSUME NEW T, IsFiniteSet(T), NEW f \in [T -> Nat], NEW y \in T, NEW n \in Nat
  PROVE  /\ SumFunction(f) \in Nat /\ SumFunction(f) >= f[y]
         /\ SumFunction([f EXCEPT ![y] = n]) = SumFunction(f) - f[y] + n
<1>1. PICK g : g = [f EXCEPT ![y] = n]
  OBVIOUS
<1>2. /\ DOMAIN f = T /\ DOMAIN g = T
      /\ \A x \in T : f[x] \in Nat /\ g[x] \in Nat
      /\ \A x \in T \ {y} : f[x] = g[x]
      /\ g[y] = n
  BY <1>1
<1>3. /\ SumFunction(f) = SumFunctionOnSet(f, T)
      /\ SumFunction(g) = SumFunctionOnSet(g, T)
  BY <1>2, Zenon DEF SumFunction
<1>4. IsFiniteSet(T \ {y})
  BY FS_RemoveElement
<1>5. PICK r : r = SumFunctionOnSet(f, T \ {y})
  OBVIOUS
<1>6. r = SumFunctionOnSet(g, T \ {y}) /\ r \in Nat
  BY <1>2, <1>4, <1>5, SumSame, SumNat
<1>7. SumFunctionOnSet(f, T) = f[y] + r
  BY <1>2, <1>5, SumRemove
<1>8. SumFunctionOnSet(g, T) = g[y] + r
  BY <1>2, <1>6, SumRemove
<1> QED
  BY <1>1, <1>2, <1>3, <1>6, <1>7, <1>8

LEMMA SumZero ==
  ASSUME NEW T, IsFiniteSet(T)
  PROVE  SumFunction([x \in T |-> 0]) = 0
<1> DEFINE f == [x \in T |-> 0]
           B == {t \in SUBSET T : SumFunctionOnSet(f, t) # 0}
<1>1. B = {}
  <2> SUFFICES ASSUME B # {} PROVE FALSE
    OBVIOUS
  <2>1. PICK t \in B : \A x \in t : t \ {x} \notin B
    <3>1. B \in SUBSET (SUBSET T)
      OBVIOUS
    <3> HIDE DEF B
    <3> QED
      BY <3>1, SmallestSet
  <2>2. t \in SUBSET T /\ IsFiniteSet(t) /\ t # {}
    BY SumEmpty, FS_Subset
  <2>3. PICK a, u : a \in t /\ a = Elem(t) /\ u = t \ {a}
    BY <2>2, ElemIn
  <2>4. u \notin B /\ u \in SUBSET T
    BY <2>1, <2>2, <2>3
  <2>5. SumFunctionOnSet(f, u) = 0 /\ f[a] = 0 /\ SumFunctionOnSet(f, t) # 0
    BY <2>2, <2>3, <2>4
  <2> HIDE DEF f
  <2>6. SumFunctionOnSet(f, t) = f[a] + SumFunctionOnSet(f, u)
    BY <2>2, <2>3, SumEquation
  <2> QED
    BY <2>5, <2>6
<1>2. SumFunctionOnSet(f, T) = 0 /\ DOMAIN f = T
  BY <1>1
<1> HIDE DEF f
<1>3. SumFunction(f) = 0
  BY <1>2, Zenon DEF SumFunction
<1> QED
  BY <1>3 DEF f

-----------------------------------------------------------------------------
(* Sums of sequences. *)

LEMMA SumSeqEmpty == SumFunction(<<>>) = 0
<1>1. DOMAIN <<>> = {}
  OBVIOUS
<1> QED
  BY <1>1, SumEmpty, Zenon DEF SumFunction

LEMMA SumSeqIs ==
  ASSUME NEW s \in Seq(Nat)
  PROVE  /\ SumFunction(s) = SumFunctionOnSet(s, 1..Len(s))
         /\ SumFunction(s) \in Nat
         /\ \A a, b \in Int : IsFiniteSet(a..b)
<1>1. DOMAIN s = 1..Len(s) /\ \A i \in 1..Len(s) : s[i] \in Nat
  OBVIOUS
<1>2. SumFunction(s) = SumFunctionOnSet(s, 1..Len(s))
  BY <1>1, Zenon DEF SumFunction
<1>3. ASSUME NEW a \in Int, NEW b \in Int PROVE IsFiniteSet(a..b)
  BY FS_Interval
<1>4. Len(s) \in Int
  OBVIOUS
<1> QED
  BY <1>1, <1>2, <1>3, <1>4, SumNat

LEMMA SumAppend ==
  ASSUME NEW s \in Seq(Nat), NEW n \in Nat
  PROVE  SumFunction(Append(s, n)) = SumFunction(s) + n
<1>1. PICK t \in Seq(Nat) : t = Append(s, n)
  BY AppendProperties
<1>2. PICK k \in Nat : k = Len(s)
  OBVIOUS
<1>3. Len(t) = k + 1 /\ t[k + 1] = n /\ \A i \in 1..k : t[i] = s[i]
  BY <1>1, <1>2
<1>4. \A i \in 1..(k + 1) : t[i] \in Nat
  BY <1>3
<1>5. IsFiniteSet(1..k) /\ IsFiniteSet(1..(k + 1))
  BY SumSeqIs
<1>6. (1..(k + 1)) \ {k + 1} = 1..k /\ k + 1 \in 1..(k + 1)
  OBVIOUS
<1>7. SumFunctionOnSet(t, 1..(k + 1)) = t[k + 1] + SumFunctionOnSet(t, 1..k)
  <2>1. PICK T, U : T = 1..(k + 1) /\ U = 1..k
    OBVIOUS
  <2>2. IsFiniteSet(T) /\ (\A i \in T : t[i] \in Nat) /\ U = T \ {k + 1} /\ k + 1 \in T
    BY <1>4, <1>5, <1>6, <2>1
  <2>3. SumFunctionOnSet(t, T) = t[k + 1] + SumFunctionOnSet(t, U)
    BY <2>2, SumLess
  <2> QED
    BY <2>1, <2>3
<1>8. SumFunctionOnSet(t, 1..k) = SumFunctionOnSet(s, 1..k)
  BY <1>3, <1>5, SumSame
<1>9. /\ SumFunction(t) = SumFunctionOnSet(t, 1..(k + 1))
      /\ SumFunction(s) = SumFunctionOnSet(s, 1..k) /\ SumFunction(s) \in Nat
  BY <1>2, <1>3, SumSeqIs
<1> QED
  BY <1>1, <1>3, <1>7, <1>8, <1>9

LEMMA SumTail ==
  ASSUME NEW s \in Seq(Nat), s # <<>>
  PROVE  SumFunction(s) = Head(s) + SumFunction(Tail(s))
<1>1. PICK t \in Seq(Nat) : t = Tail(s)
  BY HeadTailProperties
<1>2. PICK k \in Nat : k = Len(t)
  OBVIOUS
<1>3. Len(s) = k + 1 /\ \A i \in 1..k : t[i] = s[i + 1]
  BY <1>1, <1>2
<1>4. /\ \A i \in 1..(k + 1) : s[i] \in Nat
      /\ \A i \in 1..k : t[i] \in Nat
      /\ Head(s) = s[1]
  BY <1>2, <1>3
<1> DEFINE Shifted(n) ==
               SumFunctionOnSet(t, 1..n) = SumFunctionOnSet(s, 2..(n + 1))
           Bad == {n \in 0..k : ~ Shifted(n)}
<1>5. Bad = {}
  <2> SUFFICES ASSUME Bad # {} PROVE FALSE
    OBVIOUS
  <2>1. PICK n \in Bad : \A m \in Bad : n <= m
    <3>1. Bad \in SUBSET Nat
      OBVIOUS
    <3> HIDE DEF Bad
    <3> QED
      BY <3>1, LeastNatural
  <2>2. n \in 0..k /\ ~ Shifted(n)
    OBVIOUS
  <2>3. CASE n = 0
    <3>1. 1..n = {} /\ 2..(n + 1) = {}
      BY <2>3
    <3> QED
      BY <2>2, <3>1, SumEmpty
  <2>4. CASE n > 0
    <3>1. n - 1 \in 0..k /\ ~ (n <= n - 1)
      BY <2>2, <2>4
    <3>2. n - 1 \notin Bad
      <4> HIDE DEF Bad
      <4> QED
        BY <2>1, <3>1
    <3>3. Shifted(n - 1)
      BY <3>1, <3>2
    <3> HIDE DEF Bad
    <3>4. IsFiniteSet(1..n) /\ IsFiniteSet(2..(n + 1))
      BY <2>2, SumSeqIs
    <3>5. /\ (1..n) \ {n} = 1..(n - 1) /\ n \in 1..n
          /\ (2..(n + 1)) \ {n + 1} = 2..(n - 1 + 1) /\ n + 1 \in 2..(n + 1)
      BY <2>2, <2>4
    <3>6. \A i \in 1..n : t[i] \in Nat
      BY <1>4, <2>2
    <3>7. \A i \in 2..(n + 1) : s[i] \in Nat
      BY <1>4, <2>2
    <3>8. SumFunctionOnSet(t, 1..n) = t[n] + SumFunctionOnSet(t, 1..(n - 1))
      <4>1. PICK T, U : T = 1..n /\ U = 1..(n - 1)
        OBVIOUS
      <4>2. IsFiniteSet(T) /\ (\A i \in T : t[i] \in Nat) /\ U = T \ {n} /\ n \in T
        BY <3>4, <3>5, <3>6, <4>1
      <4>3. SumFunctionOnSet(t, T) = t[n] + SumFunctionOnSet(t, U)
        BY <4>2, SumLess
      <4> QED
        BY <4>1, <4>3
    <3>9. SumFunctionOnSet(s, 2..(n + 1))
              = s[n + 1] + SumFunctionOnSet(s, 2..(n - 1 + 1))
      <4>1. PICK T, U : T = 2..(n + 1) /\ U = 2..(n - 1 + 1)
        OBVIOUS
      <4>2. /\ IsFiniteSet(T) /\ \A i \in T : s[i] \in Nat
            /\ U = T \ {n + 1} /\ n + 1 \in T
        BY <3>4, <3>5, <3>7, <4>1
      <4>3. SumFunctionOnSet(s, T) = s[n + 1] + SumFunctionOnSet(s, U)
        BY <4>2, SumLess
      <4> QED
        BY <4>1, <4>3
    <3>10. t[n] = s[n + 1]
      BY <1>3, <2>2, <2>4
    <3> QED
      BY <2>2, <3>3, <3>8, <3>9, <3>10
  <2> QED
    BY <2>2, <2>3, <2>4
<1>6. Shifted(k)
  BY <1>5
<1>7. IsFiniteSet(1..(k + 1)) /\ 1 \in 1..(k + 1) /\ (1..(k + 1)) \ {1} = 2..(k + 1)
  BY SumSeqIs
<1>8. SumFunctionOnSet(s, 1..(k + 1)) = s[1] + SumFunctionOnSet(s, 2..(k + 1))
  <2>1. PICK T, U : T = 1..(k + 1) /\ U = 2..(k + 1)
    OBVIOUS
  <2>2. IsFiniteSet(T) /\ (\A i \in T : s[i] \in Nat) /\ U = T \ {1} /\ 1 \in T
    BY <1>4, <1>7, <2>1
  <2>3. SumFunctionOnSet(s, T) = s[1] + SumFunctionOnSet(s, U)
    BY <2>2, SumLess
  <2> QED
    BY <2>1, <2>3
<1>9. /\ SumFunction(s) = SumFunctionOnSet(s, 1..(k + 1))
      /\ SumFunction(t) = SumFunctionOnSet(t, 1..k)
  BY <1>2, <1>3, SumSeqIs
<1> QED
  BY <1>1, <1>4, <1>6, <1>8, <1>9
=============================================================================
