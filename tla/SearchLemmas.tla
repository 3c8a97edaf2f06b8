---------------------------- MODULE SearchLemmas ----------------------------
(***************************************************************************)
(* Facts that the proofs of the search and of the index share: least       *)
(* elements, induction along an interval, functions defined by recursion   *)
(* along one; and what insert does to the array of the best neighbours.    *)
(***************************************************************************)
EXTENDS Neighbours, FiniteSetTheorems, WellFoundedInduction, TLAPS

(***************************************************************************)
(* A set of naturals has a least element: what a loop finds that stops at  *)
(* the first position with some property.                                  *)
(***************************************************************************)
LEMMA LeastNatural ==
  ASSUME NEW S \in SUBSET Nat, S # {}
  PROVE  \E n \in S : \A m \in S : n <= m
<1> DEFINE T == {1 .. n : n \in S}
<1>1. T \subseteq FiniteSubsetsOf(Nat) /\ T # {}
  <2>1. ASSUME NEW n \in S PROVE 1 .. n \in FiniteSubsetsOf(Nat)
    <3>1. n \in Int /\ 1 \in Int /\ 1 .. n \subseteq Nat
      OBVIOUS
    <3>2. IsFiniteSet(1 .. n)
      BY <3>1, FS_Interval
    <3> QED BY <3>1, <3>2 DEF FiniteSubsetsOf
  <2> QED BY <2>1
<1>2. PICK t \in T : \A u \in T : <<u, t>> \notin StrictSubsetOrdering(Nat)
  <2> HIDE DEF T
  <2> QED BY <1>1, WFMin, FS_StrictSubsetOrderingWellFounded
<1>3. PICK n \in S : t = 1 .. n
  OBVIOUS
<1>4. ASSUME NEW m \in S, m < n PROVE FALSE
  <2>1. 1 .. m \subseteq 1 .. n /\ 1 .. m # 1 .. n
    <3>1. n \in 1 .. n /\ n \notin 1 .. m
      BY <1>4
    <3> QED BY <1>4, <3>1
  <2>2. <<1 .. m, t>> \in StrictSubsetOrdering(Nat)
    BY <1>3, <2>1 DEF StrictSubsetOrdering
  <2> QED BY <1>2, <2>2
<1>5. QED
  BY <1>4

(***************************************************************************)
(* What holds at the beginning of an interval and is handed on from each   *)
(* element to the next holds in all of it.  T is the set of those for      *)
(* which it holds.                                                         *)
(***************************************************************************)
LEMMA IntervalInduction ==
  ASSUME NEW lo \in Int, NEW hi \in Int, NEW T, lo \in T,
         \A i \in lo .. (hi - 1) : i \in T => i + 1 \in T
  PROVE  lo .. hi \subseteq T
<1> SUFFICES ASSUME NEW j \in lo .. hi, j \notin T PROVE FALSE
  OBVIOUS
<1> DEFINE S == {n \in Nat : lo + n \in lo .. hi /\ lo + n \notin T}
<1>1. j - lo \in S
  OBVIOUS
<1>2. PICK n \in S : \A m \in S : n <= m
  BY <1>1, LeastNatural
<1>3. n # 0
  BY <1>2
<1>4. n - 1 \notin S /\ n - 1 \in Nat
  BY <1>2, <1>3
<1>5. lo + (n - 1) \in lo .. (hi - 1) /\ lo + (n - 1) \in T
  BY <1>2, <1>3, <1>4
<1>6. (lo + (n - 1)) + 1 = lo + n
  BY <1>2
<1> QED BY <1>2, <1>5, <1>6

(***************************************************************************)
(* A function that begins with a value and goes on from each of its values *)
(* to the next by a given step.                                            *)
(***************************************************************************)
Steps(step, lo, hi, V) ==
  \A i \in (lo + 1) .. hi : \A v \in V : step[i][v] \in V

Recursion(g, base, step, lo, hi, V) ==
  /\ g \in [lo .. hi -> V] /\ g[lo] = base
  /\ \A i \in (lo + 1) .. hi : g[i] = step[i][g[i - 1]]

LEMMA RecursionExists ==
  ASSUME NEW lo \in Int, NEW hi \in Int, lo <= hi, NEW V, NEW base \in V,
         NEW step, Steps(step, lo, hi, V)
  PROVE  \E g : Recursion(g, base, step, lo, hi, V)
<1> USE DEF Steps
<1> DEFINE Works(g, m) == /\ g \in [lo .. m -> V] /\ g[lo] = base
                          /\ \A i \in (lo + 1) .. m : g[i] = step[i][g[i - 1]]
           T == {m \in lo .. hi : \E g : Works(g, m)}
<1>1. lo \in T
  <2> DEFINE g == [i \in lo .. lo |-> base]
  <2>1. Works(g, lo)
    OBVIOUS
  <2> HIDE DEF Works, g
  <2> QED BY <2>1
<1>2. ASSUME NEW m \in lo .. (hi - 1), m \in T PROVE m + 1 \in T
  <2>1. PICK g : Works(g, m)
    BY <1>2
  <2> DEFINE h == [i \in lo .. (m + 1) |-> IF i = m + 1 THEN step[m + 1][g[m]] ELSE g[i]]
  <2>2. g[m] \in V /\ m + 1 \in (lo + 1) .. hi
    BY <2>1
  <2>3. step[m + 1][g[m]] \in V
    BY <2>2
  <2>4. h \in [lo .. (m + 1) -> V]
    <3>1. \A i \in lo .. (m + 1) : i # m + 1 => i \in lo .. m
      OBVIOUS
    <3> QED BY <2>1, <2>3, <3>1
  <2>5. h[lo] = base
    BY <2>1
  <2>6. ASSUME NEW i \in (lo + 1) .. (m + 1) PROVE h[i] = step[i][h[i - 1]]
    <3>1. i - 1 \in lo .. m /\ h[i - 1] = g[i - 1]
      OBVIOUS
    <3>2. CASE i = m + 1
      BY <3>1, <3>2
    <3>3. CASE i # m + 1
      <4>1. i \in (lo + 1) .. m /\ h[i] = g[i]
        BY <3>3
      <4> QED BY <2>1, <3>1, <4>1
    <3> QED BY <3>2, <3>3
  <2>7. Works(h, m + 1)
    BY <2>4, <2>5, <2>6
  <2> HIDE DEF Works, h
  <2> QED BY <2>2, <2>7
<1>3. hi \in T
  <2> HIDE DEF T
  <2>1. lo .. hi \subseteq T
    BY <1>1, <1>2, IntervalInduction
  <2> QED BY <2>1
<1> QED BY <1>3 DEF Recursion

-----------------------------------------------------------------------------
(***************************************************************************)
(* What insert and the skip before it (scan.go) do to the array of the     *)
(* best neighbours, for every number of neighbours and every sentinel.     *)
(***************************************************************************)
Kepts == [Positions -> Entry]

KeptSorted(b) == \A m, n \in Positions : m < n => ~ Closer(b[n], b[m])

(***************************************************************************)
(* Closer is a strict order whose complement is transitive as well.        *)
(***************************************************************************)
LEMMA CloserIsOrder ==
  /\ \A a \in Entry : ~ Closer(a, a)
  /\ \A a, b, c \in Entry : Closer(a, b) /\ Closer(b, c) => Closer(a, c)
  /\ \A a, b, c \in Entry : ~ Closer(b, a) /\ ~ Closer(c, b) => ~ Closer(c, a)
  /\ \A a, b, c \in Entry : Closer(a, b) /\ ~ Closer(c, b) => Closer(a, c)
BY DEF Closer, Entry

LEMMA EmptySlotType == EmptySlot \in Entry /\ newSearchState \in Kepts
BY SentinelAssumption DEF EmptySlot, Entry, newSearchState, Kepts

(***************************************************************************)
(* The first position an entry is closer than.                             *)
(***************************************************************************)
LEMMA FirstPosition ==
  ASSUME NEW b \in Kepts, NEW e \in Entry, Closer(e, b[K])
  PROVE  \E p \in Positions : /\ Closer(e, b[p])
                              /\ \A j \in 1 .. (p - 1) : ~ Closer(e, b[j])
<1> DEFINE S == {p \in Positions : Closer(e, b[p])}
<1>1. S \in SUBSET Nat /\ K \in S
  BY KAssumption DEF Positions
<1>2. PICK p \in S : \A m \in S : p <= m
  <2> HIDE DEF S
  <2> QED BY <1>1, LeastNatural
<1>3. QED
  BY <1>2, KAssumption DEF Positions

(***************************************************************************)
(* Insert of an entry closer than the last: what comes before position p   *)
(* stays, the entry is at p, the others have moved back one.               *)
(***************************************************************************)
LEMMA InsertAt ==
  ASSUME NEW b \in Kepts, NEW e \in Entry, Closer(e, b[K])
  PROVE  \E p \in Positions :
           /\ Closer(e, b[p])
           /\ \A j \in 1 .. (p - 1) : ~ Closer(e, b[j])
           /\ Insert(b, e) = [i \in Positions |-> IF i < p THEN b[i]
                                                 ELSE IF i = p THEN e
                                                 ELSE b[i - 1]]
<1>1. PICK p \in Positions : /\ Closer(e, b[p])
                             /\ \A j \in 1 .. (p - 1) : ~ Closer(e, b[j])
  BY FirstPosition
<1>2. ASSUME NEW i \in Positions
      PROVE  /\ (\A j \in 1 .. i : ~ Closer(e, b[j])) <=> i < p
             /\ (\A j \in 1 .. (i - 1) : ~ Closer(e, b[j])) <=> i <= p
  <2>1. i \in Nat /\ p \in 1 .. K /\ i \in 1 .. K
    BY DEF Positions
  <2>2. i < p => \A j \in 1 .. i : ~ Closer(e, b[j])
    BY <1>1, <2>1, KAssumption
  <2>3. i >= p => p \in 1 .. i
    BY <2>1, KAssumption
  <2>4. i <= p => \A j \in 1 .. (i - 1) : ~ Closer(e, b[j])
    BY <1>1, <2>1, KAssumption
  <2>5. i > p => p \in 1 .. (i - 1)
    BY <2>1, KAssumption
  <2> QED BY <1>1, <2>1, <2>2, <2>3, <2>4, <2>5, KAssumption
<1>3. \A i \in Positions : i < p \/ i = p \/ i > p
  BY KAssumption DEF Positions
<1>4. Insert(b, e) = [i \in Positions |-> IF i < p THEN b[i]
                                         ELSE IF i <= p THEN e
                                         ELSE b[i - 1]]
  BY <1>2, Zenon DEF Insert
<1>5. QED
  <2>1. \A i \in Positions : ~ (i < p) => (i <= p <=> i = p)
    BY KAssumption DEF Positions
  <2> QED BY <1>1, <1>4, <2>1

(***************************************************************************)
(* One lane of a scan keeps the array typed and sorted, loses nothing that *)
(* is closer than its new last entry, lets the last entry only come closer *)
(* and brings in nothing but the row offered.                              *)
(***************************************************************************)
LEMMA OfferFacts ==
  ASSUME NEW b \in Kepts, NEW e \in Entry, KeptSorted(b)
  PROVE  /\ Offer(b, e) \in Kepts
         /\ KeptSorted(Offer(b, e))
         /\ ~ Closer(b[K], Offer(b, e)[K])
         /\ (\E n \in Positions : Offer(b, e)[n] = e) \/ ~ Closer(e, Offer(b, e)[K])
         /\ \A n \in Positions :
              \/ \E m \in Positions : Offer(b, e)[m] = b[n]
              \/ ~ Closer(b[n], Offer(b, e)[K])
         /\ \A n \in Positions :
              Offer(b, e)[n] = e \/ \E m \in Positions : Offer(b, e)[n] = b[m]
<1> DEFINE o == Offer(b, e)
<1>0. K \in Positions /\ K \in Nat \ {0}
  BY KAssumption DEF Positions
<1>1. CASE ~ Closer(e, b[K])
  <2>1. o = b
    BY <1>1 DEF Offer
  <2> QED BY <1>0, <1>1, <2>1, CloserIsOrder DEF Kepts
<1>2. CASE Closer(e, b[K])
  <2>1. PICK p \in Positions :
           /\ Closer(e, b[p])
           /\ \A j \in 1 .. (p - 1) : ~ Closer(e, b[j])
           /\ o = [i \in Positions |-> IF i < p THEN b[i]
                                       ELSE IF i = p THEN e
                                       ELSE b[i - 1]]
    BY <1>2, InsertAt DEF Offer
  <2> HIDE DEF o
  <2>2. /\ \A i \in Positions : i < p => o[i] = b[i]
        /\ o[p] = e
        /\ \A i \in Positions : i > p => o[i] = b[i - 1] /\ i - 1 \in Positions
    <3>1. p \in Int /\ \A i \in Positions : i \in Int /\ (i > p => i - 1 \in Positions)
      BY KAssumption DEF Positions
    <3>2. \A i \in Positions : o[i] = IF i < p THEN b[i] ELSE IF i = p THEN e ELSE b[i - 1]
      BY <2>1
    <3> QED BY <3>1, <3>2
  <2>3. \A i \in Positions : i < p \/ i = p \/ i > p
    BY DEF Positions
  <2>4. o \in Kepts
    BY <2>1, <2>2 DEF Kepts, Positions
  <2>5. KeptSorted(o)
    <3> SUFFICES ASSUME NEW m \in Positions, NEW n \in Positions, m < n
                 PROVE  ~ Closer(o[n], o[m])
      BY DEF KeptSorted
    <3>1. \A i, j \in Positions : i <= j => ~ Closer(b[j], b[i])
      BY CloserIsOrder DEF KeptSorted, Positions, Kepts
    <3>2. CASE n < p
      BY <2>2, <3>1, <3>2 DEF Positions
    <3>3. CASE n = p
      BY <2>1, <2>2, <3>3, CloserIsOrder DEF Positions, Kepts
    <3>4. CASE n > p /\ m < p
      BY <2>2, <3>1, <3>4 DEF Positions
    <3>5. CASE n > p /\ m = p
      <4>1. n - 1 \in Positions /\ p <= n - 1 /\ o[n] = b[n - 1] /\ o[m] = e
        BY <2>2, <3>5 DEF Positions
      <4>2. ~ Closer(b[n - 1], b[p])
        BY <3>1, <4>1
      <4> QED BY <2>1, <4>1, <4>2, CloserIsOrder DEF Kepts
    <3>6. CASE m > p
      BY <2>2, <3>1, <3>6 DEF Positions
    <3> QED BY <2>3, <3>2, <3>3, <3>4, <3>5, <3>6
  <2>6. ~ Closer(b[K], o[K])
    <3>1. CASE p = K
      BY <1>0, <1>2, <2>2, <3>1, CloserIsOrder DEF Kepts
    <3>2. CASE p # K
      <4>1. K - 1 \in Positions /\ o[K] = b[K - 1]
        BY <1>0, <2>2, <3>2 DEF Positions
      <4> QED BY <1>0, <4>1 DEF KeptSorted
    <3> QED BY <3>1, <3>2
  <2>7. \A n \in Positions : n # K => \E m \in Positions : o[m] = b[n]
    <3> SUFFICES ASSUME NEW n \in Positions, n # K
                 PROVE  \E m \in Positions : o[m] = b[n]
      OBVIOUS
    <3>1. CASE n < p
      BY <2>2, <3>1
    <3>2. CASE ~ (n < p)
      <4>1. n + 1 \in Positions /\ n + 1 > p /\ (n + 1) - 1 = n
        BY <1>0, <3>2 DEF Positions
      <4> QED BY <2>2, <4>1
    <3> QED BY <3>1, <3>2
  <2>8. \A n \in Positions : o[n] = e \/ \E m \in Positions : o[n] = b[m]
    BY <2>2, <2>3
  <2> QED BY <1>0, <2>2, <2>4, <2>5, <2>6, <2>7, <2>8 DEF o
<1>3. QED
  BY <1>1, <1>2

(***************************************************************************)
(* An entry that is not among distinct neighbours leaves them distinct.    *)
(***************************************************************************)
LEMMA OfferDistinct ==
  ASSUME NEW b \in Kepts, NEW e \in Entry,
         \A n \in Positions : b[n] # e,
         \A m, n \in Positions : m # n /\ b[m] = b[n] => b[m] = EmptySlot
  PROVE  \A m, n \in Positions :
           m # n /\ Offer(b, e)[m] = Offer(b, e)[n] => Offer(b, e)[m] = EmptySlot
<1>1. CASE ~ Closer(e, b[K])
  BY <1>1 DEF Offer
<1>2. CASE Closer(e, b[K])
  <2> DEFINE o == Offer(b, e)
  <2>1. PICK p \in Positions :
           o = [i \in Positions |-> IF i < p THEN b[i]
                                   ELSE IF i = p THEN e
                                   ELSE b[i - 1]]
    BY <1>2, InsertAt DEF Offer
  <2> HIDE DEF o
  <2>2. /\ \A i \in Positions : i < p => o[i] = b[i]
        /\ o[p] = e
        /\ \A i \in Positions : i > p => o[i] = b[i - 1] /\ i - 1 \in Positions
    <3>1. p \in Int /\ \A i \in Positions : i \in Int /\ (i > p => i - 1 \in Positions)
      BY KAssumption DEF Positions
    <3>2. \A i \in Positions : o[i] = IF i < p THEN b[i] ELSE IF i = p THEN e ELSE b[i - 1]
      BY <2>1
    <3>3. o[p] = e
      BY <3>1, <3>2
    <3>4. ASSUME NEW i \in Positions, i < p PROVE o[i] = b[i]
      BY <3>2, <3>4
    <3>5. ASSUME NEW i \in Positions, i > p PROVE o[i] = b[i - 1] /\ i - 1 \in Positions
      BY <3>1, <3>2, <3>5
    <3> QED BY <3>3, <3>4, <3>5
  <2>3. \A i \in Positions : i \in Int
    BY DEF Positions
  <2> SUFFICES ASSUME NEW m \in Positions, NEW n \in Positions, m # n, o[m] = o[n]
               PROVE  o[m] = EmptySlot
    BY DEF o
  <2>4. m # p /\ n # p
    BY <2>2, <2>3
  <2> QED BY <2>2, <2>3, <2>4
<1>3. QED
  BY <1>1, <1>2

(***************************************************************************)
(* The count of frauds among the kept is one of the six answers.           *)
(***************************************************************************)
LEMMA CountType ==
  ASSUME NEW b
  PROVE  countFrauds(b) \in 0 .. K
<1>1. IsFiniteSet(Positions) /\ Cardinality(Positions) = K
  BY KAssumption, FS_Interval DEF Positions
<1> DEFINE S == {i \in Positions : b[i].d # MaxInt64 /\ b[i].fraud}
<1>2. S \in SUBSET Positions
  OBVIOUS
<1>3. IsFiniteSet(S) /\ Cardinality(S) <= K
  BY <1>1, <1>2, FS_Subset
<1>4. Cardinality(S) \in Nat
  BY <1>3, FS_CardinalityType
<1>5. QED
  BY <1>3, <1>4, KAssumption DEF countFrauds
=============================================================================
