------------------------- MODULE TopCentroidsProofs -------------------------
(***************************************************************************)
(* Proofs about TopCentroids and the sums that stop early, for every       *)
(* number of clusters, of dimensions and of probes.                        *)
(*                                                                         *)
(* That the nearest are kept holds only where every distance is the whole  *)
(* sum: with AVX2 when the clusters fill their blocks, and anyhow when as  *)
(* many probes are asked for as there are clusters.  Build makes a power   *)
(* of two of clusters, so one or the other is the case on a machine with   *)
(* AVX2: eight clusters or more fill their blocks, and fewer are all       *)
(* probed, nprobe being 8 at least before it is cut down to them.          *)
(***************************************************************************)
EXTENDS TopCentroids, FiniteSetTheorems, WellFoundedInduction, TLAPS

(***************************************************************************)
(* A set of naturals has a least element: what a loop finds that stops at  *)
(* the first position with some property.                                  *)
(***************************************************************************)
LEMMA LeastNatural ==
  ASSUME NEW S \in SUBSET Nat, S # {}
  PROVE  \E n \in S : \A m \in S : n <= m
<1> DEFINE T == {1 .. n : n \in S}
<1>1. T \subseteq FiniteSubsetsOf(Nat) /\ T # {}
  <2>1. ASSUME NEW n \in S PROVE 1 .. n \in FiniteSubsetsOf(Nat)
    <3>1. n \in Int /\ 1 \in Int /\ 1 .. n \subseteq Nat
      OBVIOUS
    <3>2. IsFiniteSet(1 .. n)
      BY <3>1, FS_Interval
    <3> QED BY <3>1, <3>2 DEF FiniteSubsetsOf
  <2> QED BY <2>1
<1>2. PICK t \in T : \A u \in T : <<u, t>> \notin StrictSubsetOrdering(Nat)
  <2> HIDE DEF T
  <2> QED BY <1>1, WFMin, FS_StrictSubsetOrderingWellFounded
<1>3. PICK n \in S : t = 1 .. n
  OBVIOUS
<1>4. ASSUME NEW m \in S, m < n PROVE FALSE
  <2>1. 1 .. m \subseteq 1 .. n /\ 1 .. m # 1 .. n
    <3>1. n \in 1 .. n /\ n \notin 1 .. m
      BY <1>4
    <3> QED BY <1>4, <3>1
  <2>2. <<1 .. m, t>> \in StrictSubsetOrdering(Nat)
    BY <1>3, <2>1 DEF StrictSubsetOrdering
  <2> QED BY <1>2, <2>2
<1>5. QED
  BY <1>4

Exact ==
  \A s \in Centroids :
    (useIVFAVX2 /\ Len(s) % blockSize = 0) \/ \A n \in Probes : n >= Len(s)

-----------------------------------------------------------------------------
(***************************************************************************)
(* A sum that stopped early is over the cutoff when the whole one is: the  *)
(* squares that are left out make it no smaller.                           *)
(***************************************************************************)
LEMMA bboxDistIs ==
  ASSUME NEW s, PartialSum(s), NEW cutoff \in Int
  PROVE  bboxDist(s, cutoff) > cutoff <=> Total(s) > cutoff
<1> DEFINE over == {n \in 1 .. Len(s) : s[n] > cutoff}
<1>1. s \in Seq(Nat) /\ Len(s) \in 1 .. Len(s) /\ \A n \in 1 .. Len(s) : s[n] <= s[Len(s)]
  BY DEF PartialSum
<1>2. CASE over = {}
  BY <1>2 DEF bboxDist
<1>3. CASE over # {}
  <2>1. over \in SUBSET Nat
    OBVIOUS
  <2>2. PICK f \in over : \A m \in over : f <= m
    <3> HIDE DEF over
    <3> QED BY <1>3, <2>1, LeastNatural
  <2>3. First(over) \in over
    <3> HIDE DEF over
    <3> QED BY <2>2 DEF First
  <2>4. bboxDist(s, cutoff) = s[First(over)]
    BY <1>3 DEF bboxDist
  <2> QED BY <1>1, <2>3, <2>4 DEF Total
<1> QED BY <1>2, <1>3

(***************************************************************************)
(* A distance against a cutoff that it stays below is the whole one.       *)
(***************************************************************************)
LEMMA quantizedDistanceIs ==
  ASSUME NEW s, PartialSum(s), NEW cutoff \in Int, Total(s) < cutoff
  PROVE  quantizedDistance(s, cutoff) = Total(s)
<1>1. \A n \in 1 .. (Len(s) - 1) : s[n] <= s[Len(s)] /\ s[n] \in Nat
  BY DEF PartialSum
<1>2. Total(s) \in Nat
  BY DEF PartialSum, Total
<1>3. {n \in 1 .. (Len(s) - 1) : s[n] >= cutoff} = {}
  BY <1>1, <1>2 DEF Total
<1> QED BY <1>3 DEF quantizedDistance

-----------------------------------------------------------------------------
Entry == [d : Nat, id : Nat]

Ahead(x, y) == x.d < y.d \/ (x.d = y.d /\ x.id < y.id)

Ordered(b) == \A m, n \in 1 .. Len(b) : m < n => Ahead(b[m], b[n])

LEMMA LastIs ==
  ASSUME NEW n \in Nat, NEW S, S \subseteq 0 .. n, 0 \in S
  PROVE  Last(S) \in S /\ \A m \in S : m <= Last(S)
<1> DEFINE T == {n - m : m \in S}
<1>1. T \in SUBSET Nat /\ T # {}
  OBVIOUS
<1>2. PICK t \in T : \A u \in T : t <= u
  <2> HIDE DEF T
  <2> QED BY <1>1, LeastNatural
<1>3. PICK p \in S : t = n - p
  OBVIOUS
<1>4. \A m \in S : m <= p
  <2>1. \A m \in S : n - p <= n - m
    BY <1>2, <1>3
  <2> QED BY <2>1
<1> QED BY <1>4 DEF Last

(***************************************************************************)
(* An entry with a larger number than those kept so far comes to stand     *)
(* where it belongs, and nothing is lost.                                  *)
(***************************************************************************)
Inserted(r, b, e, p) ==
  /\ r[p] = e
  /\ \A i \in 1 .. (p - 1) : r[i] = b[i] /\ i \in 1 .. Len(b)
  /\ \A i \in (p + 1) .. (Len(b) + 1) : r[i] = b[i - 1] /\ i - 1 \in 1 .. Len(b)

LEMMA insertCentroidIs ==
  ASSUME NEW b \in Seq(Entry), NEW e \in Entry, Ordered(b),
         \A m \in 1 .. Len(b) : b[m].id < e.id
  PROVE  LET r == insertCentroid(b, e)
         IN  /\ r \in Seq(Entry) /\ Len(r) = Len(b) + 1 /\ Ordered(r)
             /\ \E p \in 1 .. (Len(b) + 1) : Inserted(r, b, e, p)
<1> DEFINE r == insertCentroid(b, e)
           L == Len(b)
           S == {0} \union {i \in 1 .. L : b[i].d <= e.d}
           n == Last(S)
           p == n + 1
<1>1. L \in Nat /\ \A i \in 1 .. L : b[i] \in Entry /\ b[i].d \in Nat /\ b[i].id \in Nat
  <2>1. L \in Nat /\ \A i \in 1 .. L : b[i] \in Entry
    OBVIOUS
  <2> QED BY <2>1 DEF Entry
<1>2. n \in S /\ \A m \in S : m <= n
  <2>1. S \subseteq 0 .. L /\ 0 \in S
    BY <1>1
  <2> HIDE DEF S, L
  <2> QED BY <1>1, <2>1, LastIs
<1>3. r = [i \in 1 .. (L + 1) |-> IF i <= n THEN b[i] ELSE IF i = n + 1 THEN e ELSE b[i - 1]]
  BY DEF insertCentroid, InsertAfter
<1> HIDE DEF n
<1>4. n \in 0 .. L /\ p \in 1 .. (L + 1) /\ e.d \in Nat /\ e.id \in Nat
  BY <1>1, <1>2 DEF Entry
<1>5. \A i \in 1 .. L : i <= n => b[i].d <= e.d
  <2> SUFFICES ASSUME NEW i \in 1 .. L, i <= n PROVE b[i].d <= e.d
    OBVIOUS
  <2>1. n \in 1 .. L /\ b[n].d <= e.d
    BY <1>2, <1>4
  <2>2. i = n \/ Ahead(b[i], b[n])
    BY <1>4, <2>1 DEF Ordered
  <2> QED BY <1>1, <1>4, <2>1, <2>2 DEF Ahead
<1>6. \A i \in 1 .. L : i > n => e.d < b[i].d
  <2> SUFFICES ASSUME NEW i \in 1 .. L, i > n PROVE e.d < b[i].d
    OBVIOUS
  <2>1. i \notin S
    BY <1>2, <1>4
  <2> QED BY <1>1, <1>4, <2>1
<1>7. Inserted(r, b, e, p)
  <2>1. r[p] = e
    BY <1>3, <1>4
  <2>2. ASSUME NEW i \in 1 .. (p - 1) PROVE r[i] = b[i] /\ i \in 1 .. L
    BY <1>3, <1>4
  <2>3. ASSUME NEW i \in (p + 1) .. (L + 1) PROVE r[i] = b[i - 1] /\ i - 1 \in 1 .. L
    <3>1. i \in 1 .. (L + 1) /\ ~ (i <= n) /\ i # n + 1
      BY <1>4
    <3> QED BY <1>3, <1>4, <3>1
  <2> HIDE DEF r
  <2> QED BY <2>1, <2>2, <2>3 DEF Inserted
<1>8. r \in Seq(Entry) /\ Len(r) = L + 1
  <2>1. \A i \in 1 .. (L + 1) : i < p \/ i = p \/ i \in (p + 1) .. (L + 1)
    BY <1>4
  <2>2. \A i \in 1 .. (L + 1) : r[i] \in Entry
    BY <1>1, <1>4, <1>7, <2>1 DEF Inserted
  <2>3. r \in [1 .. (L + 1) -> Entry]
    BY <1>3, <2>2
  <2> HIDE DEF r
  <2> QED BY <1>1, <2>3
<1>9. Ordered(r)
  <2> SUFFICES ASSUME NEW i \in 1 .. (L + 1), NEW j \in 1 .. (L + 1), i < j
               PROVE  Ahead(r[i], r[j])
    BY <1>8 DEF Ordered
  <2>1. /\ p \in 1 .. (L + 1) /\ p = n + 1 /\ L \in Nat /\ n \in Nat
        /\ \A k \in 1 .. L : b[k].id < e.id
    BY <1>1, <1>4
  <2>2. /\ r[p] = e
        /\ \A k \in 1 .. (p - 1) : r[k] = b[k] /\ k \in 1 .. L
        /\ \A k \in (p + 1) .. (L + 1) : r[k] = b[k - 1] /\ k - 1 \in 1 .. L
    BY <1>7 DEF Inserted
  <2>3. \A k, m \in 1 .. L : k < m => Ahead(b[k], b[m])
    BY DEF Ordered
  <2> HIDE DEF r, p, L
  <2>4. CASE j < p
    <3>1. i \in 1 .. (p - 1) /\ j \in 1 .. (p - 1)
      BY <2>1, <2>4
    <3> QED BY <2>2, <2>3, <3>1
  <2>5. CASE j = p
    <3>1. i \in 1 .. L /\ i <= n /\ r[i] = b[i] /\ r[j] = e
      BY <2>1, <2>2, <2>5
    <3> QED BY <1>1, <1>4, <1>5, <2>1, <3>1 DEF Ahead
  <2>6. CASE i = p
    <3>1. j - 1 \in 1 .. L /\ j - 1 > n /\ r[j] = b[j - 1] /\ r[i] = e
      <4>1. j \in (p + 1) .. (L + 1) /\ j - 1 > n
        BY <2>1, <2>6
      <4> QED BY <2>1, <2>2, <2>6, <4>1
    <3> QED BY <1>1, <1>4, <1>6, <3>1 DEF Ahead
  <2>7. CASE i < p /\ j > p
    <3>1. i \in 1 .. (p - 1) /\ j \in (p + 1) .. (L + 1) /\ i < j - 1
      BY <2>1, <2>7
    <3>2. i \in 1 .. L /\ r[i] = b[i] /\ j - 1 \in 1 .. L /\ r[j] = b[j - 1]
      BY <2>2, <3>1
    <3> QED BY <2>3, <3>1, <3>2
  <2>8. CASE i > p
    <3>1. i \in (p + 1) .. (L + 1) /\ j \in (p + 1) .. (L + 1) /\ i - 1 < j - 1
      BY <2>1, <2>8
    <3>2. i - 1 \in 1 .. L /\ r[i] = b[i - 1] /\ j - 1 \in 1 .. L /\ r[j] = b[j - 1]
      BY <2>2, <3>1
    <3> QED BY <2>3, <3>1, <3>2
  <2> QED BY <2>1, <2>4, <2>5, <2>6, <2>7, <2>8
<1> QED BY <1>4, <1>7, <1>8, <1>9

-----------------------------------------------------------------------------
(***************************************************************************)
(* What is kept stands in order, is the nearest of what was seen so far,   *)
(* and of what is not kept nothing comes before the last one.              *)
(***************************************************************************)
Seen(a) == [d |-> Total(sums[a + 1]), id |-> a]

TypeOK ==
  /\ sums \in Centroids /\ nprobe \in Probes /\ nprobe <= clusters
  /\ c \in 0 .. clusters
  /\ best \in Seq(Entry) /\ Len(best) = IF c < nprobe THEN c ELSE nprobe

TopInv ==
  /\ TypeOK
  /\ \A m \in 1 .. Len(best) : best[m].id \in 0 .. (c - 1) /\ best[m] = Seen(best[m].id)
  /\ Ordered(best)
  /\ \A a \in 0 .. (c - 1) :
       \/ \E m \in 1 .. Len(best) : best[m].id = a
       \/ Len(best) = nprobe /\ Ahead(best[nprobe], Seen(a))

LEMMA SumsAre ==
  ASSUME TypeOK
  PROVE  /\ clusters \in Nat /\ nprobe \in Nat \ {0}
         /\ \A a \in 0 .. (clusters - 1) :
              /\ PartialSum(sums[a + 1]) /\ Total(sums[a + 1]) < MaxInt64
              /\ Total(sums[a + 1]) \in Nat /\ Seen(a) \in Entry
<1>1. sums \in Seq(Seq(Nat)) /\ clusters \in Nat /\ nprobe \in Nat \ {0}
  BY CentroidAssumption, TopAssumption DEF TypeOK, clusters
<1>2. ASSUME NEW a \in 0 .. (clusters - 1)
      PROVE  /\ PartialSum(sums[a + 1]) /\ Total(sums[a + 1]) < MaxInt64
             /\ Total(sums[a + 1]) \in Nat /\ Seen(a) \in Entry
  <2>1. a + 1 \in DOMAIN sums
    BY <1>1 DEF clusters
  <2>2. PartialSum(sums[a + 1]) /\ Total(sums[a + 1]) < MaxInt64
    BY <2>1, CentroidAssumption DEF TypeOK
  <2>3. Total(sums[a + 1]) \in Nat
    BY <2>2 DEF PartialSum, Total
  <2> QED BY <2>2, <2>3 DEF Seen, Entry
<1> QED BY <1>1, <1>2

(***************************************************************************)
(* Under the hypothesis the loop compares whole distances.                 *)
(***************************************************************************)
LEMMA DistanceIs ==
  ASSUME Exact, TypeOK, c < clusters
  PROVE  Distance = Total(sums[c + 1])
<1>1. /\ PartialSum(sums[c + 1]) /\ Total(sums[c + 1]) < MaxInt64
      /\ clusters \in Nat /\ c \in Nat /\ nprobe \in Nat
  BY SumsAre DEF TypeOK
<1>2. CASE useIVFAVX2 /\ clusters % blockSize = 0
  <2> DEFINE q == c \div blockSize
             k == clusters \div blockSize
  <2>1. blockSize \in Nat \ {0}
    BY TopAssumption
  <2>2. /\ q \in Nat /\ k \in Nat /\ c = blockSize * q + (c % blockSize) /\ c % blockSize \in Nat
        /\ clusters = blockSize * k
    BY <1>1, <1>2, <2>1
  <2> HIDE DEF q, k
  <2>3. q < k
    <3>1. ASSUME k <= q PROVE FALSE
      <4>1. blockSize * k <= blockSize * q
        BY <2>1, <2>2, <3>1
      <4>2. blockSize * k \in Nat /\ blockSize * q \in Nat
        BY <2>1, <2>2
      <4> QED BY <1>1, <2>2, <4>1, <4>2
    <3> QED BY <2>2, <3>1
  <2>4. (q + 1) * blockSize <= k * blockSize
    BY <2>1, <2>2, <2>3
  <2>5. (q + 1) * blockSize <= clusters
    BY <2>1, <2>2, <2>4
  <2> QED BY <1>2, <2>5 DEF Distance, InBlock, q
<1>3. CASE nprobe >= clusters
  <2>1. Worst = MaxInt64
    BY <1>1, <1>3 DEF Worst, TypeOK
  <2>2. MaxInt64 \in Int
    BY TopAssumption
  <2> QED BY <1>1, <2>1, <2>2, quantizedDistanceIs DEF Distance
<1> QED BY <1>2, <1>3 DEF Exact, TypeOK, clusters

LEMMA AheadIs ==
  ASSUME NEW x \in Entry, NEW y \in Entry, NEW z \in Entry
  PROVE  /\ ~ Ahead(x, x)
         /\ Ahead(x, y) /\ Ahead(y, z) => Ahead(x, z)
BY DEF Ahead, Entry

LEMMA InitInv == Init => TopInv
<1> SUFFICES ASSUME Init PROVE TopInv
  OBVIOUS
<1>1. sums \in Centroids /\ sums \in Seq(Seq(Nat)) /\ nprobe \in Probes /\ nprobe \in Nat \ {0}
  BY CentroidAssumption, TopAssumption DEF Init
<1>2. c = 0 /\ best = <<>> /\ clusters \in Nat /\ nprobe <= clusters
  BY <1>1 DEF Init, clusters
<1>3. best \in Seq(Entry) /\ Len(best) = 0
  BY <1>2
<1> QED BY <1>1, <1>2, <1>3 DEF TopInv, TypeOK, Ordered

(***************************************************************************)
(* One entry more among those kept, the last of them gone or not: b are    *)
(* those that stay.                                                        *)
(***************************************************************************)
LEMMA ConsiderInv ==
  ASSUME Exact, TopInv, Consider
  PROVE  TopInv'
<1> USE DEF TopInv
<1> DEFINE e == Seen(c)
           L == Len(best)
<1>1. /\ c < clusters /\ c' = c + 1 /\ UNCHANGED <<sums, nprobe>>
      /\ best' = IF L < nprobe THEN insertCentroid(best, e)
                 ELSE IF Distance < Worst
                   THEN insertCentroid(SubSeq(best, 1, nprobe - 1), e)
                 ELSE best
  BY DistanceIs DEF Consider, Seen
<1>2. /\ clusters \in Nat /\ nprobe \in Nat \ {0} /\ c \in 0 .. (clusters - 1) /\ e \in Entry
      /\ e.d = Distance /\ e.id = c /\ L \in Nat /\ L = IF c < nprobe THEN c ELSE nprobe
      /\ \A a \in 0 .. c : Seen(a) \in Entry
  BY <1>1, SumsAre, DistanceIs DEF TypeOK, Seen
<1>3. /\ \A m \in 1 .. L : /\ best[m] \in Entry /\ best[m].id \in 0 .. (c - 1)
                           /\ best[m] = Seen(best[m].id)
      /\ \A m, n \in 1 .. L : m < n => Ahead(best[m], best[n])
  BY DEF TypeOK, Ordered
<1>4. (\A a : Seen(a)' = Seen(a)) /\ clusters' = clusters
  BY <1>1 DEF Seen, clusters
<1> HIDE DEF e
<1>5. ASSUME NEW b \in Seq(Entry), NEW M \in 0 .. L, Len(b) = M,
             \A m \in 1 .. M : b[m] = best[m],
             best' = insertCentroid(b, e), M + 1 = IF c + 1 < nprobe THEN c + 1 ELSE nprobe
      PROVE  /\ TypeOK' /\ Ordered(best)' /\ Len(best') = M + 1
             /\ \A m \in 1 .. (M + 1) : /\ best'[m].id \in 0 .. c
                                        /\ best'[m] = Seen(best'[m].id)
             /\ \A a \in 0 .. c : a = c \/ (\E m \in 1 .. M : best[m].id = a)
                                  => \E m \in 1 .. (M + 1) : best'[m].id = a
             /\ best'[M + 1] = e \/ (M # 0 /\ best'[M + 1] = best[M])
  <2>1. Ordered(b)
    BY <1>3, <1>5 DEF Ordered
  <2>2. \A m \in 1 .. M : b[m].id < e.id
    BY <1>2, <1>3, <1>5
  <2>3. PICK p \in 1 .. (M + 1) : Inserted(best', b, e, p)
    BY <1>2, <1>5, <2>1, <2>2, insertCentroidIs
  <2>4. best' \in Seq(Entry) /\ Len(best') = M + 1 /\ Ordered(best')
    BY <1>2, <1>5, <2>1, <2>2, insertCentroidIs
  <2>5. /\ best'[p] = e
        /\ \A i \in 1 .. (p - 1) : best'[i] = best[i] /\ i \in 1 .. M
        /\ \A i \in (p + 1) .. (M + 1) : best'[i] = best[i - 1] /\ i - 1 \in 1 .. M
    BY <1>5, <2>3 DEF Inserted
  <2>6. TypeOK'
    BY <1>1, <1>2, <1>4, <1>5, <2>4 DEF TypeOK
  <2>7. ASSUME NEW m \in 1 .. (M + 1)
        PROVE  best'[m].id \in 0 .. c /\ best'[m] = Seen(best'[m].id)
    <3>1. m = p \/ m \in 1 .. (p - 1) \/ m \in (p + 1) .. (M + 1)
      OBVIOUS
    <3>2. CASE m = p
      BY <1>2, <2>5, <3>2 DEF e
    <3>3. CASE m \in 1 .. (p - 1)
      <4>1. best'[m] = best[m] /\ m \in 1 .. L
        BY <1>2, <2>5, <3>3
      <4> QED BY <1>2, <1>3, <4>1
    <3>4. CASE m \in (p + 1) .. (M + 1)
      <4>1. best'[m] = best[m - 1] /\ m - 1 \in 1 .. L
        BY <1>2, <2>5, <3>4
      <4> QED BY <1>2, <1>3, <4>1
    <3> QED BY <3>1, <3>2, <3>3, <3>4
  <2>8. ASSUME NEW a \in 0 .. c, a = c \/ (\E m \in 1 .. M : best[m].id = a)
        PROVE  \E m \in 1 .. (M + 1) : best'[m].id = a
    <3>1. CASE a = c
      BY <1>2, <2>5, <3>1
    <3>2. CASE \E m \in 1 .. M : best[m].id = a
      <4>1. PICK m \in 1 .. M : best[m].id = a
        BY <3>2
      <4>2. CASE m < p
        <5>1. m \in 1 .. (p - 1) /\ m \in 1 .. (M + 1)
          BY <4>2
        <5> QED BY <2>5, <4>1, <5>1
      <4>3. CASE m >= p
        <5>1. m + 1 \in (p + 1) .. (M + 1) /\ m + 1 \in 1 .. (M + 1) /\ (m + 1) - 1 = m
          BY <4>3
        <5> QED BY <2>5, <4>1, <5>1
      <4> QED BY <4>2, <4>3
    <3> QED BY <2>8, <3>1, <3>2
  <2>9. best'[M + 1] = e \/ (M # 0 /\ best'[M + 1] = best[M])
    <3>1. M + 1 = p \/ (M + 1 \in (p + 1) .. (M + 1) /\ (M + 1) - 1 = M /\ M # 0)
      OBVIOUS
    <3> QED BY <2>5, <3>1
  <2>10. Ordered(best)'
    BY <2>4 DEF Ordered
  <2> QED BY <2>4, <2>6, <2>7, <2>8, <2>9, <2>10
<1> HIDE DEF L
<1>6. CASE L < nprobe
  <2>1. L = c /\ best \in Seq(Entry) /\ Len(best) = L /\ best' = insertCentroid(best, e)
    BY <1>1, <1>2, <1>6 DEF TypeOK, L
  <2>2. /\ L + 1 = IF c + 1 < nprobe THEN c + 1 ELSE nprobe
        /\ L \in 0 .. L /\ \A m \in 1 .. L : best[m] = best[m]
    BY <1>2, <1>6, <2>1
  <2>3. /\ TypeOK' /\ Ordered(best)' /\ Len(best') = L + 1
        /\ \A m \in 1 .. (L + 1) : best'[m].id \in 0 .. c /\ best'[m] = Seen(best'[m].id)
        /\ \A a \in 0 .. c : a = c \/ (\E m \in 1 .. L : best[m].id = a)
                             => \E m \in 1 .. (L + 1) : best'[m].id = a
    BY <1>2, <1>5, <2>1, <2>2
  <2>4. \A a \in 0 .. c : a = c \/ \E m \in 1 .. L : best[m].id = a
    BY <1>2, <1>6 DEF L
  <2>5. \A a \in 0 .. c : \E m \in 1 .. (L + 1) : best'[m].id = a
    BY <2>3, <2>4
  <2>6. c' - 1 = c
    BY <1>1, <1>2
  <2> QED BY <1>1, <1>4, <2>3, <2>5, <2>6
<1>7. CASE ~ (L < nprobe) /\ Distance < Worst
  <2> DEFINE M == nprobe - 1
             b == SubSeq(best, 1, M)
  <2>1. L = nprobe /\ M \in 0 .. L /\ M + 1 = nprobe /\ ~ (c + 1 < nprobe)
    BY <1>2, <1>7
  <2>2. best \in Seq(Entry) /\ Len(best) = L
    BY DEF TypeOK, L
  <2>3. b \in Seq(Entry) /\ Len(b) = M /\ \A m \in 1 .. M : b[m] = best[m]
    BY <2>1, <2>2
  <2>4. best' = insertCentroid(b, e) /\ e.d < best[nprobe].d
    BY <1>1, <1>2, <1>7, <2>1 DEF Worst, L
  <2>5. M + 1 = IF c + 1 < nprobe THEN c + 1 ELSE nprobe
    BY <1>2, <2>1
  <2> HIDE DEF M, b
  <2>6. /\ TypeOK' /\ Ordered(best)' /\ Len(best') = M + 1
        /\ \A m \in 1 .. (M + 1) : best'[m].id \in 0 .. c /\ best'[m] = Seen(best'[m].id)
        /\ \A a \in 0 .. c : a = c \/ (\E m \in 1 .. M : best[m].id = a)
                             => \E m \in 1 .. (M + 1) : best'[m].id = a
        /\ best'[M + 1] = e \/ (M # 0 /\ best'[M + 1] = best[M])
    BY <1>5, <2>1, <2>3, <2>4, <2>5
  <2>7. nprobe \in 1 .. L /\ best[nprobe] \in Entry
    BY <1>2, <1>3, <2>1
  <2>8. best'[nprobe] \in Entry /\ Ahead(best'[nprobe], best[nprobe])
    <3>1. CASE best'[nprobe] = e
      BY <1>2, <2>4, <3>1 DEF Ahead
    <3>2. CASE M # 0 /\ best'[nprobe] = best[M]
      <4>1. M \in 1 .. L /\ M < nprobe
        BY <1>2, <2>1, <3>2
      <4> QED BY <1>3, <2>7, <3>2, <4>1
    <3> QED BY <2>1, <2>6, <3>1, <3>2
  <2>9. ASSUME NEW a \in 0 .. c
        PROVE  \/ \E m \in 1 .. (M + 1) : best'[m].id = a
               \/ Ahead(best'[nprobe], Seen(a))
    <3>1. CASE a = c
      BY <1>2, <2>6, <3>1
    <3>2. CASE a # c
      <4>1. a \in 0 .. (c - 1) /\ Seen(a) \in Entry
        BY <1>2, <3>2
      <4>2. CASE \E m \in 1 .. L : best[m].id = a
        <5>1. PICK m \in 1 .. L : best[m].id = a
          BY <4>2
        <5>2. CASE m = nprobe
          BY <1>3, <2>8, <5>1, <5>2
        <5>3. CASE m # nprobe
          <6>1. m \in 1 .. M
            BY <1>2, <2>1, <5>3
          <6> QED BY <2>6, <5>1, <6>1
        <5> QED BY <5>2, <5>3
      <4>3. CASE Ahead(best[nprobe], Seen(a))
        BY <2>7, <2>8, <4>1, <4>3, AheadIs
      <4> QED BY <4>1, <4>2, <4>3 DEF L
    <3> QED BY <3>1, <3>2
  <2> QED BY <1>1, <1>2, <1>4, <2>1, <2>6, <2>9
<1>8. CASE ~ (L < nprobe) /\ ~ (Distance < Worst)
  <2>1. L = nprobe /\ best' = best /\ ~ (c + 1 < nprobe) /\ nprobe \in 1 .. L
    BY <1>1, <1>2, <1>8
  <2>2. best[nprobe].d <= e.d
    <3>1. Worst = best[nprobe].d
      BY <1>8 DEF Worst, L
    <3>2. best[nprobe].d \in Nat /\ e.d \in Nat
      BY <1>2, <1>3, <2>1 DEF Entry
    <3> QED BY <1>2, <1>8, <3>1, <3>2
  <2>3. Ahead(best[nprobe], e)
    <3>1. best[nprobe].d \in Nat /\ e.d \in Nat /\ best[nprobe].id < e.id
      BY <1>2, <1>3, <2>1 DEF Entry
    <3> QED BY <2>2, <3>1 DEF Ahead
  <2>4. TypeOK'
    BY <1>1, <1>2, <1>4, <2>1 DEF TypeOK, L
  <2>5. Ordered(best)'
    BY <2>1 DEF Ordered
  <2>6. \A m \in 1 .. L : best[m].id \in 0 .. c
    BY <1>2, <1>3
  <2>7. ASSUME NEW a \in 0 .. c
        PROVE  (\E m \in 1 .. L : best[m].id = a) \/ Ahead(best[nprobe], Seen(a))
    <3>1. CASE a = c
      BY <2>3, <3>1 DEF e
    <3>2. CASE a # c
      <4>1. a \in 0 .. (c - 1)
        BY <1>2, <3>2
      <4> QED BY <4>1 DEF L
    <3> QED BY <3>1, <3>2
  <2>8. (c' - 1) = c
    BY <1>1, <1>2
  <2> QED BY <1>1, <1>3, <1>4, <2>1, <2>4, <2>5, <2>6, <2>7, <2>8 DEF L
<1> QED BY <1>6, <1>7, <1>8

LEMMA NextInv == Exact /\ TopInv /\ [Next]_vars => TopInv'
<1> SUFFICES ASSUME Exact, TopInv, [Next]_vars PROVE TopInv'
  OBVIOUS
<1>1. CASE UNCHANGED vars
  BY <1>1 DEF vars, TopInv, TypeOK, Ordered, Seen, clusters
<1> QED BY <1>1, ConsiderInv DEF Next, Ended

(***************************************************************************)
(* Wherever the whole distances are compared, what topCentroids has kept   *)
(* at any point are the nearest of the clusters seen so far, in their      *)
(* stable order.                                                           *)
(***************************************************************************)
THEOREM NearestAreKept == Exact => (Spec => []TopSoFar)
<1> SUFFICES ASSUME Exact PROVE Spec => []TopSoFar
  OBVIOUS
<1>1. ASSUME TopInv PROVE TopSoFar
  <2> USE <1>1 DEF TopInv
  <2> DEFINE L == Len(best)
  <2>1. /\ \A m \in 1 .. L : best[m] \in Entry /\ best[m].id \in 0 .. (c - 1)
                             /\ best[m] = Seen(best[m].id)
        /\ \A m, n \in 1 .. L : m < n => Ahead(best[m], best[n])
        /\ DOMAIN best = 1 .. L /\ L \in Nat /\ c \in Nat
    BY DEF TypeOK, Ordered
  <2>2. \A a \in 0 .. (c - 1) : Seen(a) \in Entry
    BY SumsAre DEF TypeOK
  <2>3. \A a, b : Nearer(a, b) <=> Ahead(Seen(a), Seen(b))
    BY DEF Nearer, Ahead, Seen
  <2>4. ASSUME NEW m \in 1 .. L
        PROVE  /\ best[m].id < c
               /\ {a \in 0 .. (c - 1) : Nearer(a, best[m].id)} = {best[n].id : n \in 1 .. (m - 1)}
    <3>1. best[m].id < c
      BY <2>1
    <3>2. ASSUME NEW n \in 1 .. (m - 1)
          PROVE  best[n].id \in 0 .. (c - 1) /\ Nearer(best[n].id, best[m].id)
      <4>1. n \in 1 .. L /\ n < m
        BY <2>1
      <4> QED BY <2>1, <2>3, <4>1
    <3>3. ASSUME NEW a \in 0 .. (c - 1), Nearer(a, best[m].id)
          PROVE  \E n \in 1 .. (m - 1) : best[n].id = a
      <4>1. Ahead(Seen(a), best[m]) /\ Seen(a) \in Entry /\ best[m] \in Entry
        BY <2>1, <2>2, <2>3, <3>3
      <4>2. CASE \E n \in 1 .. L : best[n].id = a
        <5>1. PICK n \in 1 .. L : best[n].id = a
          BY <4>2
        <5>2. best[n] = Seen(a)
          BY <2>1, <5>1
        <5>3. CASE n < m
          BY <5>1, <5>3
        <5>4. CASE n = m
          BY <4>1, <5>2, <5>4, AheadIs
        <5>5. CASE n > m
          <6>1. Ahead(best[m], Seen(a))
            BY <2>1, <5>2, <5>5
          <6> QED BY <4>1, <6>1, AheadIs
        <5> QED BY <5>3, <5>4, <5>5
      <4>3. CASE L = nprobe /\ Ahead(best[nprobe], Seen(a))
        <5>1. nprobe \in 1 .. L /\ best[nprobe] \in Entry
          BY <2>1, <4>3
        <5>2. Ahead(best[nprobe], best[m])
          BY <4>1, <4>3, <5>1, AheadIs
        <5>3. CASE m = nprobe
          BY <5>1, <5>2, <5>3, AheadIs
        <5>4. CASE m # nprobe
          <6>1. m < nprobe
            BY <4>3, <5>1, <5>4
          <6>2. Ahead(best[m], best[nprobe])
            BY <2>1, <5>1, <6>1
          <6> QED BY <4>1, <5>1, <5>2, <6>2, AheadIs
        <5> QED BY <5>3, <5>4
      <4> QED BY <4>2, <4>3
    <3> QED BY <3>1, <3>2, <3>3
  <2>5. L = IF c < nprobe THEN c ELSE nprobe
    BY DEF TypeOK
  <2> QED BY <2>1, <2>4, <2>5 DEF TopSoFar
<1>2. TopInv => TopSoFar
  BY <1>1
<1>3. TopInv /\ [Next]_vars => TopInv'
  BY NextInv
<1> QED BY <1>2, <1>3, InitInv, PTL DEF Spec

(***************************************************************************)
(* No test against a cutoff is changed by the sums that stop early.        *)
(***************************************************************************)
THEOREM BoxTestsExact == Spec => []BoxTestIsExact
<1> DEFINE Inv == sums \in Centroids
<1>1. Init => Inv
  BY DEF Init
<1>2. Inv /\ [Next]_vars => Inv'
  BY DEF Next, Consider, Ended, vars
<1>3. Inv => BoxTestIsExact
  <2> SUFFICES ASSUME sums \in Centroids, NEW n \in 1 .. clusters, NEW cutoff \in 0 .. MaxInt64
               PROVE  bboxDist(sums[n], cutoff) > cutoff <=> Total(sums[n]) > cutoff
    BY DEF BoxTestIsExact
  <2>1. n \in DOMAIN sums
    BY CentroidAssumption DEF clusters
  <2>2. PartialSum(sums[n]) /\ cutoff \in Int
    BY <2>1, CentroidAssumption
  <2> QED BY <2>2, bboxDistIs
<1> QED BY <1>1, <1>2, <1>3, PTL DEF Spec
=============================================================================
