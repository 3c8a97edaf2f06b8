---------------------------- MODULE IndexProofs -----------------------------
(***************************************************************************)
(* What ClusterScan promises of the index while it is built, saved and     *)
(* loaded, for every input, dimension and number of clusters.              *)
(*                                                                         *)
(* Partitioned is not inductive: that a call keeps as many vectors as it   *)
(* has clusters needs that its clusters can be halved down to one, and the *)
(* sizes in the end need what they are on the way.  BuildInv says of each  *)
(* call that its clusters are a power of two, and that its vectors are     *)
(* between share and share + 1 for each of them.                           *)
(*                                                                         *)
(* IndexInv adds that ids stays a permutation of the input and what each   *)
(* cluster looks like once it is laid out; FileInv that every write lies   *)
(* at its place in the file, as far as the file goes; LoadInv that what is *)
(* in the server's memory came from such a file.                           *)
(*                                                                         *)
(* Ready says what that makes of a loaded index, and from it follow that a *)
(* search is given what it assumes and, with ScanInv, that both kernels    *)
(* find the nearest vectors of the clusters they have settled.             *)
(***************************************************************************)
EXTENDS ClusterScan, SearchLemmas, FunctionTheorems

-----------------------------------------------------------------------------
(***************************************************************************)
(* Powers of two.                                                          *)
(***************************************************************************)
LEMMA PowerOfTwoHalf ==
  ASSUME NEW p \in Nat \ {0, 1}, PowerOfTwo(p)
  PROVE  p \div 2 \in Nat \ {0} /\ p = 2 * (p \div 2) /\ PowerOfTwo(p \div 2)
<1> DEFINE h == p \div 2
<1>1. p % 2 = 0
  <2>1. p \in 2 .. p /\ 1 \in 1 .. p /\ 1 * p = p
    OBVIOUS
  <2> QED BY <2>1 DEF PowerOfTwo
<1>2. h \in Nat \ {0} /\ p = 2 * h
  BY <1>1
<1>3. ASSUME NEW q \in 2 .. h, NEW k \in 1 .. h, k * q = h PROVE q % 2 = 0
  <2>1. (2 * k) * q = p
    <3>1. (2 * k) * q = 2 * (k * q)
      BY <1>2
    <3> QED BY <1>2, <1>3, <3>1
  <2>2. q \in 2 .. p /\ 2 * k \in 1 .. p
    BY <1>2
  <2> QED BY <2>1, <2>2 DEF PowerOfTwo
<1> QED BY <1>2, <1>3 DEF PowerOfTwo

LEMMA PowerOfTwoDouble ==
  ASSUME NEW p \in Nat \ {0}, PowerOfTwo(p)
  PROVE  PowerOfTwo(2 * p)
<1> SUFFICES ASSUME NEW q \in 2 .. 2 * p, NEW k \in 1 .. 2 * p, k * q = 2 * p, q % 2 # 0
             PROVE  FALSE
  BY DEF PowerOfTwo
<1> DEFINE a == q \div 2
           b == k \div 2
<1>1. a \in Nat /\ q = 2 * a + 1
  OBVIOUS
<1>2. b \in Nat /\ (k = 2 * b \/ k = 2 * b + 1)
  OBVIOUS
<1> HIDE DEF a, b
<1>3. CASE k = 2 * b + 1
  <2>1. k * q = 2 * (2 * (a * b) + a + b) + 1
    <3>1. k * q = (2 * b + 1) * (2 * a + 1)
      BY <1>1, <1>3
    <3> QED BY <1>1, <1>2, <3>1
  <2>2. a * b \in Nat
    BY <1>1, <1>2
  <2> QED BY <1>1, <1>2, <2>1, <2>2
<1>4. CASE k = 2 * b
  <2>1. b * q = p
    <3>1. 2 * (b * q) = (2 * b) * q /\ b * q \in Nat
      BY <1>2
    <3> QED BY <1>4, <3>1
  <2>2. b # 0
    BY <1>4
  <2>3. b <= p /\ q <= p
    <3>1. b * q >= b /\ b * q >= q
      BY <1>2, <2>2
    <3> QED BY <1>2, <2>1, <3>1
  <2>4. b \in 1 .. p /\ q \in 2 .. p
    BY <1>2, <2>2, <2>3
  <2> QED BY <2>1, <2>4 DEF PowerOfTwo
<1> QED BY <1>2, <1>3, <1>4

LEMMA highestPowerOfTwoIs ==
  ASSUME NEW v \in Nat \ {0}
  PROVE  highestPowerOfTwoLE(v) \in 1 .. v /\ PowerOfTwo(highestPowerOfTwoLE(v))
<1> DEFINE T == {n \in Nat : \E p \in 1 .. v : PowerOfTwo(p) /\ n = v - p}
<1>1. PowerOfTwo(1)
  BY DEF PowerOfTwo
<1>2. v - 1 \in T
  BY <1>1
<1>3. PICK n \in T : \A m \in T : n <= m
  BY <1>2, LeastNatural
<1>4. PICK p \in 1 .. v : PowerOfTwo(p) /\ n = v - p
  BY <1>3
<1>5. ASSUME ~ (2 * p > v) PROVE FALSE
  <2>1. PowerOfTwo(2 * p) /\ 2 * p \in 1 .. v
    BY <1>4, <1>5, PowerOfTwoDouble
  <2>2. v - 2 * p \in T
    BY <2>1
  <2> QED BY <1>3, <1>4, <2>2
<1> QED BY <1>4, <1>5 DEF highestPowerOfTwoLE

-----------------------------------------------------------------------------
Calls  == [start : Nat, end : Nat, clusterBase : Nat, clusterCount : Nat \ {0}]
Ranges == [start : Nat, end : Nat]

share == input.nVectors \div clusters

(***************************************************************************)
(* A call for vectors of the input and clusters that there are, with share *)
(* or share + 1 vectors for each cluster.                                  *)
(***************************************************************************)
Fair(size, count) == count * share <= size /\ size <= count * (share + 1)

CallOK(call) ==
  /\ PowerOfTwo(call.clusterCount)
  /\ call.clusterBase + call.clusterCount <= clusters
  /\ call.start <= call.end /\ call.end <= input.nVectors
  /\ Fair(call.end - call.start, call.clusterCount)

TypeOK ==
  /\ input \in Inputs
  /\ clusters \in Nat \ {0} /\ clusters <= input.nVectors /\ PowerOfTwo(clusters)
  /\ todo \in Seq(Calls) /\ ranges \in [0 .. (clusters - 1) -> Ranges]
  /\ stage # "split" => todo = <<>>

(***************************************************************************)
(* The calls to come follow one another and end with the last vector and   *)
(* the last cluster.                                                       *)
(***************************************************************************)
Chained ==
  /\ \A i \in 1 .. Len(todo) : CallOK(todo[i])
  /\ \A i \in 1 .. (Len(todo) - 1) :
       /\ todo[i + 1].start = todo[i].end
       /\ todo[i + 1].clusterBase = todo[i].clusterBase + todo[i].clusterCount
  /\ todo # <<>> =>
       /\ todo[Len(todo)].end = input.nVectors
       /\ todo[Len(todo)].clusterBase + todo[Len(todo)].clusterCount = clusters

(***************************************************************************)
(* The ranges given so far follow one another up to the first call.        *)
(***************************************************************************)
GivenOK ==
  /\ Given = 0 => GivenTo = 0
  /\ \A c \in 0 .. (Given - 1) :
       /\ ranges[c].start = (IF c = 0 THEN 0 ELSE ranges[c - 1].end)
       /\ c = Given - 1 => ranges[c].end = GivenTo
       /\ share <= ranges[c].end - ranges[c].start
       /\ ranges[c].end - ranges[c].start <= share + 1
       /\ ranges[c].end <= input.nVectors

BuildInv == TypeOK /\ Chained /\ GivenOK

-----------------------------------------------------------------------------
LEMMA ShareType ==
  ASSUME TypeOK
  PROVE  /\ input.nVectors \in Nat \ {0} /\ share \in Nat \ {0}
         /\ clusters * share <= input.nVectors
         /\ input.nVectors <= clusters * (share + 1)
<1>1. input.nVectors \in Nat \ {0} /\ clusters \in Nat \ {0} /\ clusters <= input.nVectors
  BY InputAssumption DEF TypeOK, Input
<1> DEFINE n == input.nVectors
           r == n % clusters
<1>2. n = clusters * share + r /\ r \in 0 .. (clusters - 1) /\ share \in Nat
  BY <1>1 DEF share
<1> HIDE DEF r
<1>3. share # 0
  BY <1>1, <1>2
<1>4. clusters * (share + 1) = clusters * share + clusters /\ clusters * share \in Nat
  BY <1>1, <1>2
<1> QED BY <1>1, <1>2, <1>3, <1>4

LEMMA ClustersForIs ==
  ASSUME NEW n \in Nat \ {0}
  PROVE  ClustersFor(n) \in Nat \ {0} /\ ClustersFor(n) <= n /\ PowerOfTwo(ClustersFor(n))
<1>1. highestPowerOfTwoLE(n) \in 1 .. n /\ PowerOfTwo(highestPowerOfTwoLE(n))
  BY highestPowerOfTwoIs
<1> QED BY <1>1, ClustersAssumption DEF ClustersFor

LEMMA BuildInitInv == BuildInit => BuildInv
<1> SUFFICES ASSUME BuildInit PROVE BuildInv
  OBVIOUS
<1> DEFINE all == Call(0, input.nVectors, 0, clusters)
<1>1. input \in Inputs /\ input.nVectors \in Nat \ {0}
  BY InputAssumption DEF BuildInit, Input
<1>2. clusters \in Nat \ {0} /\ clusters <= input.nVectors /\ PowerOfTwo(clusters)
  BY <1>1, ClustersForIs DEF BuildInit
<1>3. all \in Calls /\ todo = <<all>> /\ ranges = [c \in 0 .. (clusters - 1) |-> NoRange]
  BY <1>1, <1>2 DEF BuildInit, Calls, Call
<1>4. TypeOK
  BY <1>1, <1>2, <1>3 DEF TypeOK, BuildInit, Ranges, NoRange
<1>5. CallOK(all)
  BY <1>1, <1>2, <1>4, ShareType DEF CallOK, Fair, Call
<1>6. /\ Len(todo) = 1 /\ todo[1] = all /\ todo # <<>>
      /\ all.start = 0 /\ all.end = input.nVectors
      /\ all.clusterBase = 0 /\ all.clusterCount = clusters
  BY <1>3 DEF Call
<1> HIDE DEF all
<1>7. Chained
  BY <1>2, <1>5, <1>6 DEF Chained
<1>8. GivenOK
  BY <1>6 DEF GivenOK, Given, GivenTo
<1> QED BY <1>4, <1>7, <1>8 DEF BuildInv

-----------------------------------------------------------------------------
(***************************************************************************)
(* The sequences that a call leaves: without its head, and with two in the *)
(* place of the head.                                                      *)
(***************************************************************************)
LEMMA TailIs ==
  ASSUME NEW S, NEW s \in Seq(S), s # <<>>
  PROVE  /\ Tail(s) \in Seq(S) /\ Len(Tail(s)) = Len(s) - 1 /\ Len(s) \in Nat \ {0}
         /\ Head(s) = s[1] /\ s[1] \in S
         /\ \A i \in 1 .. (Len(s) - 1) : Tail(s)[i] = s[i + 1]
         /\ Tail(s) = <<>> <=> Len(s) = 1
<1>1. Tail(s) \in Seq(S) /\ Len(Tail(s)) = Len(s) - 1 /\ Len(s) \in Nat \ {0}
  OBVIOUS
<1>2. Head(s) = s[1] /\ s[1] \in S /\ \A i \in 1 .. (Len(s) - 1) : Tail(s)[i] = s[i + 1]
  OBVIOUS
<1>3. \A t \in Seq(S) : t = <<>> <=> Len(t) = 0
  OBVIOUS
<1> QED BY <1>1, <1>2, <1>3

LEMMA TwoForHead ==
  ASSUME NEW S, NEW s \in Seq(S), s # <<>>, NEW a \in S, NEW b \in S
  PROVE  LET t == <<a, b>> \o Tail(s)
         IN  /\ t \in Seq(S) /\ Len(t) = Len(s) + 1 /\ t # <<>>
             /\ t[1] = a /\ t[2] = b
             /\ \A i \in 3 .. (Len(s) + 1) : t[i] = s[i - 1]
<1> DEFINE t == <<a, b>> \o Tail(s)
<1>1. /\ Tail(s) \in Seq(S) /\ Len(Tail(s)) = Len(s) - 1 /\ Len(s) \in Nat \ {0}
      /\ \A i \in 1 .. (Len(s) - 1) : Tail(s)[i] = s[i + 1]
  BY TailIs
<1>2. <<a, b>> \in Seq(S) /\ Len(<<a, b>>) = 2 /\ <<a, b>>[1] = a /\ <<a, b>>[2] = b
  OBVIOUS
<1>3. /\ t \in Seq(S) /\ Len(t) = Len(s) + 1
      /\ \A i \in 1 .. 2 : t[i] = <<a, b>>[i]
      /\ \A i \in 3 .. (Len(s) + 1) : t[i] = Tail(s)[i - 2]
  BY <1>1, <1>2
<1>4. ASSUME NEW i \in 3 .. (Len(s) + 1) PROVE t[i] = s[i - 1]
  <2>1. i - 2 \in 1 .. (Len(s) - 1) /\ (i - 2) + 1 = i - 1
    BY <1>1
  <2> QED BY <1>1, <1>3, <2>1
<1> QED BY <1>1, <1>2, <1>3, <1>4

-----------------------------------------------------------------------------
(***************************************************************************)
(* The two halves of a call share its vectors and its clusters.            *)
(***************************************************************************)
LEMMA HalvesAre ==
  ASSUME TypeOK, NEW call \in Calls, CallOK(call), call.clusterCount # 1
  PROVE  \E a, b \in Calls :
           /\ Halves(call) = <<a, b>> /\ CallOK(a) /\ CallOK(b)
           /\ a.start = call.start /\ b.start = a.end /\ b.end = call.end
           /\ a.clusterBase = call.clusterBase
           /\ b.clusterBase = a.clusterBase + a.clusterCount
           /\ b.clusterBase + b.clusterCount = call.clusterBase + call.clusterCount
<1> DEFINE size == call.end - call.start
           half == call.clusterCount \div 2
           mid  == call.start + size \div 2
           a == Call(call.start, mid, call.clusterBase, half)
           b == Call(mid, call.end, call.clusterBase + half, half)
<1>1. /\ call.start \in Nat /\ call.end \in Nat /\ call.clusterBase \in Nat
      /\ call.clusterCount \in Nat \ {0, 1} /\ PowerOfTwo(call.clusterCount)
      /\ call.start <= call.end /\ call.end <= input.nVectors
      /\ call.clusterBase + call.clusterCount <= clusters
      /\ Fair(size, call.clusterCount)
  BY DEF Calls, CallOK
<1>2. half \in Nat \ {0} /\ call.clusterCount = 2 * half /\ PowerOfTwo(half)
  BY <1>1, PowerOfTwoHalf
<1>3. /\ input.nVectors \in Nat /\ share \in Nat /\ clusters \in Nat
  BY ShareType DEF TypeOK
<1>4. /\ mid \in Nat /\ call.start <= mid /\ mid <= call.end
      /\ mid - call.start = size \div 2 /\ call.end - mid = size - size \div 2
  BY <1>1
<1>5. Fair(size \div 2, half) /\ Fair(size - size \div 2, half)
  <2>1. /\ half * share \in Nat /\ half * (share + 1) \in Nat
        /\ (2 * half) * share = 2 * (half * share)
        /\ (2 * half) * (share + 1) = 2 * (half * (share + 1))
    BY <1>2, <1>3
  <2>2. 2 * (half * share) <= size /\ size <= 2 * (half * (share + 1)) /\ size \in Nat
    BY <1>1, <1>2, <2>1 DEF Fair
  <2> HIDE DEF size, half
  <2>3. ASSUME NEW x \in Nat, NEW y \in Nat, 2 * x <= size, size <= 2 * y
        PROVE  x <= size \div 2 /\ size \div 2 <= y /\ x <= size - size \div 2
               /\ size - size \div 2 <= y
    BY <2>2, <2>3
  <2> QED BY <2>1, <2>2, <2>3 DEF Fair
<1>6. a \in Calls /\ b \in Calls
  BY <1>1, <1>2, <1>4 DEF Calls, Call
<1>7. /\ a.start = call.start /\ a.end = mid /\ a.clusterBase = call.clusterBase
      /\ a.clusterCount = half
      /\ b.start = mid /\ b.end = call.end /\ b.clusterBase = call.clusterBase + half
      /\ b.clusterCount = half
  BY DEF Call
<1>8. Halves(call) = <<a, b>>
  BY DEF Halves
<1> HIDE DEF a, b, mid, half
<1>9. CallOK(a) /\ CallOK(b)
  BY <1>1, <1>2, <1>3, <1>4, <1>5, <1>7 DEF CallOK
<1> QED BY <1>1, <1>2, <1>6, <1>7, <1>8, <1>9

(***************************************************************************)
(* A call that is halved leaves the clusters given so far as they are.     *)
(***************************************************************************)
LEMMA SplitInv == ASSUME BuildInv, Split PROVE BuildInv'
<1> DEFINE call == Head(todo)
<1> USE DEF BuildInv
<1>1. /\ todo # <<>> /\ call.clusterCount # 1 /\ todo' = Halves(call) \o Tail(todo)
      /\ UNCHANGED <<input, stage, clusters, ranges>>
  BY DEF Split
<1>2. todo \in Seq(Calls) /\ call = todo[1] /\ call \in Calls /\ Len(todo) \in Nat \ {0}
  BY <1>1, TailIs DEF TypeOK
<1>3. CallOK(call)
  BY <1>2 DEF Chained
<1>4. PICK a, b \in Calls :
        /\ Halves(call) = <<a, b>> /\ CallOK(a) /\ CallOK(b)
        /\ a.start = call.start /\ b.start = a.end /\ b.end = call.end
        /\ a.clusterBase = call.clusterBase
        /\ b.clusterBase = a.clusterBase + a.clusterCount
        /\ b.clusterBase + b.clusterCount = call.clusterBase + call.clusterCount
  BY <1>1, <1>2, <1>3, HalvesAre
<1> DEFINE n == Len(todo)
<1>5. /\ todo' \in Seq(Calls) /\ Len(todo') = n + 1 /\ todo' # <<>>
      /\ todo'[1] = a /\ todo'[2] = b
      /\ \A i \in 3 .. (n + 1) : todo'[i] = todo[i - 1]
  <2> DEFINE t == <<a, b>> \o Tail(todo)
  <2>1. /\ t \in Seq(Calls) /\ Len(t) = n + 1 /\ t # <<>>
        /\ t[1] = a /\ t[2] = b /\ \A i \in 3 .. (n + 1) : t[i] = todo[i - 1]
    BY <1>1, <1>2, TwoForHead
  <2>2. todo' = t
    BY <1>1, <1>4
  <2> HIDE DEF t
  <2> QED BY <2>1, <2>2
<1>6. n \in Nat \ {0}
  BY <1>2
<1>7. TypeOK'
  BY <1>1, <1>5 DEF TypeOK
<1>8. Chained'
  <2>1. ASSUME NEW i \in 1 .. n + 1 PROVE CallOK(todo'[i])
    <3>1. i \in 3 .. (n + 1) => i - 1 \in 1 .. n
      BY <1>2
    <3>2. i = 1 \/ i = 2 \/ i \in 3 .. (n + 1)
      BY <1>2
    <3> QED BY <1>4, <1>5, <3>1, <3>2 DEF Chained
  <2>2. ASSUME NEW i \in 1 .. n
        PROVE  /\ todo'[i + 1].start = todo'[i].end
               /\ todo'[i + 1].clusterBase = todo'[i].clusterBase + todo'[i].clusterCount
    <3>1. CASE i = 1
      BY <1>4, <1>5, <3>1
    <3>2. CASE i = 2
      <4>1. todo'[3] = todo[2] /\ n >= 2 /\ 1 \in 1 .. (n - 1)
        BY <1>2, <1>5, <3>2
      <4>2. todo[2].start = call.end
            /\ todo[2].clusterBase = call.clusterBase + call.clusterCount
        BY <1>2, <4>1 DEF Chained
      <4> QED BY <1>4, <1>5, <3>2, <4>1, <4>2
    <3>3. CASE i > 2
      <4>1. todo'[i + 1] = todo[i] /\ todo'[i] = todo[i - 1] /\ i - 1 \in 1 .. (n - 1)
            /\ (i - 1) + 1 = i
        BY <1>2, <1>5, <3>3
      <4> QED BY <4>1 DEF Chained
    <3> QED BY <1>2, <3>1, <3>2, <3>3
  <2>3. /\ todo'[n + 1].end = input.nVectors
        /\ todo'[n + 1].clusterBase + todo'[n + 1].clusterCount = clusters
    <3>1. todo[n].end = input.nVectors
          /\ todo[n].clusterBase + todo[n].clusterCount = clusters
      BY <1>1 DEF Chained
    <3>2. CASE n = 1
      BY <1>2, <1>4, <1>5, <3>1, <3>2
    <3>3. CASE n # 1
      <4> HIDE DEF n
      <4>1. n + 1 \in 3 .. (n + 1) /\ (n + 1) - 1 = n
        BY <1>6, <3>3
      <4>2. todo'[n + 1] = todo[n]
        BY <1>5, <4>1
      <4> QED BY <3>1, <4>2
    <3> QED BY <3>2, <3>3
  <2>4. \A d \in Calls : CallOK(d) => CallOK(d)'
    BY <1>1 DEF CallOK, Fair, share
  <2>5. \A i \in 1 .. n + 1 : todo'[i] \in Calls
    BY <1>2, <1>5
  <2> QED BY <1>1, <1>2, <1>5, <2>1, <2>2, <2>3, <2>4, <2>5 DEF Chained
<1>9. Given' = Given /\ GivenTo' = GivenTo
  BY <1>1, <1>2, <1>4, <1>5 DEF Given, GivenTo
<1>10. GivenOK'
  BY <1>1, <1>9 DEF GivenOK, share
<1> QED BY <1>7, <1>8, <1>10

(***************************************************************************)
(* A call for one cluster gives it its range, next to that of the cluster  *)
(* before.                                                                 *)
(***************************************************************************)
LEMMA LeafInv == ASSUME BuildInv, Leaf PROVE BuildInv'
<1> DEFINE call == Head(todo)
           n == Len(todo)
           base == call.clusterBase
<1> USE DEF BuildInv
<1>1. /\ todo # <<>> /\ call.clusterCount = 1 /\ todo' = Tail(todo)
      /\ ranges' = [ranges EXCEPT ![base] = [start |-> call.start, end |-> call.end]]
      /\ UNCHANGED <<input, stage, clusters>>
  BY DEF Leaf
<1>2. /\ todo \in Seq(Calls) /\ call = todo[1] /\ call \in Calls /\ n \in Nat \ {0}
      /\ todo' \in Seq(Calls) /\ Len(todo') = n - 1
      /\ todo' = <<>> <=> n = 1
      /\ \A i \in 1 .. (n - 1) : todo'[i] = todo[i + 1]
  <2>1. todo \in Seq(Calls)
    BY DEF TypeOK
  <2> QED BY <1>1, <2>1, TailIs
<1>3. /\ CallOK(call) /\ call.start \in Nat /\ call.end \in Nat /\ base \in Nat
      /\ clusters \in Nat /\ base \in 0 .. (clusters - 1)
      /\ Given = base /\ GivenTo = call.start
  <2>1. CallOK(call) /\ call.start \in Nat /\ call.end \in Nat /\ base \in Nat
        /\ clusters \in Nat
    BY <1>2 DEF Chained, Calls, TypeOK
  <2>2. base + 1 <= clusters
    BY <1>1, <2>1 DEF CallOK
  <2> QED BY <1>1, <1>2, <2>1, <2>2 DEF Given, GivenTo
<1>4. n = Len(todo)
  OBVIOUS
<1> HIDE DEF n
<1>5. TypeOK'
  BY <1>1, <1>2, <1>3 DEF TypeOK, Ranges
<1>6. Given' = base + 1 /\ GivenTo' = call.end
  <2>1. CASE n = 1
    <3>1. call.end = input.nVectors /\ base + 1 = clusters
      BY <1>1, <1>2, <1>4, <2>1 DEF Chained
    <3> QED BY <1>1, <1>2, <2>1, <3>1 DEF Given, GivenTo
  <2>2. CASE n # 1
    <3>1. 1 \in 1 .. (n - 1) /\ todo'[1] = todo[2] /\ todo' # <<>>
      <4>1. 1 \in 1 .. (n - 1) /\ 1 + 1 = 2
        BY <1>2, <2>2
      <4> QED BY <1>2, <2>2, <4>1
    <3>2. todo[2].start = call.end /\ todo[2].clusterBase = base + 1
      BY <1>1, <1>2, <1>4, <3>1 DEF Chained
    <3> QED BY <3>1, <3>2 DEF Given, GivenTo
  <2> QED BY <2>1, <2>2
<1>7. Chained'
  <2>1. ASSUME NEW i \in 1 .. (n - 1) PROVE CallOK(todo'[i]) /\ todo'[i] \in Calls
    <3>1. i + 1 \in 1 .. n /\ todo'[i] = todo[i + 1]
      BY <1>2
    <3>2. CallOK(todo[i + 1]) /\ todo[i + 1] \in Calls
      BY <1>2, <1>4, <3>1 DEF Chained
    <3> QED BY <3>1, <3>2
  <2>2. ASSUME NEW i \in 1 .. (n - 2)
        PROVE  /\ todo'[i + 1].start = todo'[i].end
               /\ todo'[i + 1].clusterBase = todo'[i].clusterBase + todo'[i].clusterCount
    <3>1. i + 1 \in 1 .. (n - 1) /\ i \in 1 .. (n - 1)
      BY <1>2
    <3>2. todo'[i] = todo[i + 1] /\ todo'[i + 1] = todo[(i + 1) + 1]
      BY <1>2, <3>1
    <3> QED BY <1>4, <3>1, <3>2 DEF Chained
  <2>3. n # 1 => todo'[n - 1] = todo[n]
    <3>1. n # 1 => n - 1 \in 1 .. (n - 1) /\ (n - 1) + 1 = n
      BY <1>2
    <3> QED BY <1>2, <3>1
  <2>4. Len(todo') = n - 1 /\ Len(todo') - 1 = n - 2 /\ (todo' # <<>> => n # 1)
    BY <1>2, <1>4
  <2>5. /\ todo[n].end = input.nVectors
        /\ todo[n].clusterBase + todo[n].clusterCount = clusters
    BY <1>1, <1>4 DEF Chained
  <2>6. \A d \in Calls : CallOK(d) => CallOK(d)'
    BY <1>1 DEF CallOK, Fair, share
  <2> QED BY <1>1, <2>1, <2>2, <2>3, <2>4, <2>5, <2>6 DEF Chained
<1>8. GivenOK'
  <2>1. share \in Nat /\ share' = share
    BY <1>1, ShareType DEF share
  <2>2. /\ ranges'[base] = [start |-> call.start, end |-> call.end]
        /\ \A c \in 0 .. (clusters - 1) : c # base => ranges'[c] = ranges[c]
    BY <1>1, <1>3 DEF TypeOK
  <2>3. share <= call.end - call.start /\ call.end - call.start <= share + 1
        /\ call.end <= input.nVectors
    <3>1. 1 * share <= call.end - call.start /\ call.end - call.start <= 1 * (share + 1)
      BY <1>1, <1>3 DEF CallOK, Fair
    <3> QED BY <1>3, <2>1, <3>1 DEF CallOK
  <2>4. ASSUME NEW c \in 0 .. base
        PROVE  /\ ranges'[c].start = (IF c = 0 THEN 0 ELSE ranges'[c - 1].end)
               /\ c = base => ranges'[c].end = call.end
               /\ share <= ranges'[c].end - ranges'[c].start
               /\ ranges'[c].end - ranges'[c].start <= share + 1
               /\ ranges'[c].end <= input.nVectors
    <3>1. CASE c = base
      <4>1. c # 0 => c - 1 \in 0 .. (base - 1) /\ c - 1 = Given - 1
                     /\ ranges'[c - 1] = ranges[c - 1]
        BY <1>3, <2>2, <3>1
      <4>2. c # 0 => ranges[c - 1].end = call.start
        BY <1>3, <4>1 DEF GivenOK
      <4>3. c = 0 => call.start = 0
        BY <1>3, <3>1 DEF GivenOK
      <4> QED BY <2>2, <2>3, <3>1, <4>1, <4>2, <4>3
    <3>2. CASE c # base
      <4>1. c \in 0 .. (Given - 1) /\ ranges'[c] = ranges[c]
            /\ (c # 0 => ranges'[c - 1] = ranges[c - 1])
        BY <1>3, <2>2, <3>2
      <4> QED BY <3>2, <4>1 DEF GivenOK
    <3> QED BY <3>1, <3>2
  <2>5. Given' # 0 /\ Given' - 1 = base
    BY <1>3, <1>6
  <2> QED BY <1>1, <1>6, <2>1, <2>4, <2>5 DEF GivenOK
<1> QED BY <1>5, <1>7, <1>8

-----------------------------------------------------------------------------
BuildVars == <<input, stage, clusters, todo, ranges>>

LEMMA NextInv == BuildInv /\ [Next]_<<vars, fileVars, scanVars>> => BuildInv'
<1> SUFFICES ASSUME BuildInv, [Next]_<<vars, fileVars, scanVars>> PROVE BuildInv'
  OBVIOUS
<1>1. ASSUME UNCHANGED <<input, clusters, todo, ranges>>, stage' # "split" => todo = <<>>
      PROVE  BuildInv'
  BY <1>1 DEF BuildInv, TypeOK, Chained, CallOK, Fair, share, GivenOK, Given, GivenTo
<1>2. CASE UNCHANGED BuildVars
  BY <1>1, <1>2 DEF BuildVars, BuildInv, TypeOK
<1>3. CASE BuildNext
  <2>1. CASE SplitEnds
    BY <1>1, <2>1 DEF SplitEnds
  <2>2. CASE MakeCluster
    BY <1>2, <2>2 DEF MakeCluster, BuildVars
  <2>3. CASE MakeBlocks
    BY <1>1, <2>3 DEF MakeBlocks, BuildInv, TypeOK
  <2> QED BY <1>3, <2>1, <2>2, <2>3, LeafInv, SplitInv DEF BuildNext
<1>4. UNCHANGED vars => UNCHANGED BuildVars
  BY DEF vars, BuildVars
<1>5. CASE FileNext
  BY <1>2, <1>4, <1>5 DEF FileNext, Create, Save, SaveStops, Load
<1>6. CASE Ask \/ Scan \/ Stopped
  BY <1>2, <1>4, <1>6 DEF Ask, Scan, Stopped
<1> QED BY <1>2, <1>3, <1>4, <1>5, <1>6 DEF Next

LEMMA SpecBuildInv == Spec => []BuildInv
<1>1. Init => BuildInv
  BY BuildInitInv DEF Init
<1> QED BY <1>1, NextInv, PTL DEF Spec

(***************************************************************************)
(* The ranges that clusters were given, and those of the calls to come,    *)
(* lie end to end from the first vector to the last, and none is empty.    *)
(***************************************************************************)
THEOREM BuildPartitioned == Spec => []Partitioned
<1>1. BuildInv => Partitioned
  <2> SUFFICES ASSUME BuildInv PROVE Partitioned
    OBVIOUS
  <2> USE DEF BuildInv
  <2>1. share \in Nat \ {0}
    BY ShareType
  <2>2. ASSUME NEW i \in 1 .. Len(todo)
        PROVE  todo[i].clusterCount <= todo[i].end - todo[i].start
    <3> DEFINE m == todo[i].clusterCount
    <3>1. todo[i] \in Calls /\ CallOK(todo[i])
      BY DEF TypeOK, Chained
    <3>2. /\ m \in Nat /\ m * share <= todo[i].end - todo[i].start
          /\ todo[i].end - todo[i].start \in Int
      BY <3>1 DEF Calls, CallOK, Fair
    <3>3. m <= m * share /\ m * share \in Nat
      BY <2>1, <3>2
    <3> QED BY <3>2, <3>3
  <2>3. Given \in Nat /\ clusters \in Nat /\ Given <= clusters
    <3>1. clusters \in Nat \ {0}
      BY DEF TypeOK
    <3>2. CASE todo # <<>>
      <4>1. todo[1] \in Calls /\ CallOK(todo[1])
        BY <3>2 DEF TypeOK, Chained
      <4> QED BY <3>1, <3>2, <4>1 DEF Given, Calls, CallOK
    <3> QED BY <3>1, <3>2 DEF Given
  <2>4. ASSUME NEW c \in 0 .. (Given - 1) PROVE ranges[c].start < ranges[c].end
    <3>1. c \in 0 .. (clusters - 1)
      BY <2>3
    <3>2. ranges[c].start \in Nat /\ ranges[c].end \in Nat
      BY <3>1 DEF TypeOK, Ranges
    <3>3. share <= ranges[c].end - ranges[c].start
      BY DEF GivenOK
    <3> QED BY <2>1, <3>2, <3>3
  <2> QED BY <2>2, <2>4 DEF Partitioned, Chained, GivenOK
<1> QED BY <1>1, SpecBuildInv, PTL

(***************************************************************************)
(* The sizes of any two clusters differ by at most one.                    *)
(***************************************************************************)
THEOREM BuildBalancedSizes == Spec => []BalancedSizes
<1>1. BuildInv => BalancedSizes
  <2> SUFFICES ASSUME BuildInv, stage # "split",
                      NEW c \in 0 .. (clusters - 1), NEW e \in 0 .. (clusters - 1)
               PROVE  Size(c) <= Size(e) + 1
    BY DEF BalancedSizes
  <2> USE DEF BuildInv
  <2>1. share \in Nat
    BY ShareType
  <2>2. Given = clusters
    BY DEF TypeOK, Given
  <2>3. Size(c) <= share + 1 /\ share <= Size(e)
    BY <2>2 DEF GivenOK, Size
  <2>4. Size(c) \in Int /\ Size(e) \in Int
    BY DEF TypeOK, Ranges, Size
  <2> QED BY <2>1, <2>3, <2>4
<1> QED BY <1>1, SpecBuildInv, PTL

-----------------------------------------------------------------------------
(***************************************************************************)
(* SumOver adds up: it is the last of the sums that begin with 0 and take  *)
(* in one value after the other.                                           *)
(***************************************************************************)
SumsOf(s, f, first, last) ==
  /\ s \in [(first - 1) .. last -> Int] /\ s[first - 1] = 0
  /\ \A i \in first .. last : s[i] = s[i - 1] + f[i]

LEMMA SumOverIs ==
  ASSUME NEW first \in Int, NEW last \in Int, first - 1 <= last,
         NEW f, \A i \in first .. last : f[i] \in Int
  PROVE  \E s : SumsOf(s, f, first, last) /\ SumOver(f, first, last) = s[last]
<1> DEFINE lo == first - 1
           D == lo .. last
           Eq(s) == s = [i \in D |-> IF i < first THEN 0 ELSE s[i - 1] + f[i]]
           step == [i \in (lo + 1) .. last |-> [v \in Int |-> v + f[i]]]
           sum == CHOOSE s : Eq(s)
<1>1. lo \in Int /\ lo <= last /\ lo + 1 = first
  OBVIOUS
<1>2. Steps(step, lo, last, Int)
  BY <1>1 DEF Steps
<1>3. PICK g \in [D -> Int] :
        g[lo] = 0 /\ \A i \in (lo + 1) .. last : g[i] = step[i][g[i - 1]]
  <2>1. 0 \in Int
    OBVIOUS
  <2> HIDE DEF step, lo
  <2>2. \E g : Recursion(g, 0, step, lo, last, Int)
    BY <1>1, <1>2, <2>1, RecursionExists
  <2> QED BY <2>2 DEF Recursion
<1> HIDE DEF lo
<1>4. ASSUME NEW i \in first .. last PROVE i - 1 \in D /\ g[i] = g[i - 1] + f[i]
  <2>1. i - 1 \in D /\ i \in (lo + 1) .. last
    BY <1>1
  <2> QED BY <1>1, <1>3, <2>1
<1>5. Eq(g)
  <2>1. \A i \in D : g[i] = IF i < first THEN 0 ELSE g[i - 1] + f[i]
    <3>1. \A i \in D : i = lo \/ i \in first .. last
      BY <1>1
    <3> QED BY <1>1, <1>3, <1>4, <3>1
  <2> QED BY <1>3, <2>1
<1>6. Eq(sum)
  <2> HIDE DEF Eq
  <2> QED BY <1>5
<1>7. SumOver(f, first, last) = sum[last]
  BY DEF SumOver, lo
<1> HIDE DEF sum
<1>8. sum[lo] = 0 /\ \A i \in first .. last : sum[i] = sum[i - 1] + f[i]
  <2>1. lo \in D /\ \A i \in first .. last : i \in D /\ ~ (i < first)
    BY <1>1
  <2> QED BY <1>1, <1>6, <2>1
<1>9. D \subseteq {i \in D : sum[i] \in Int}
  <2> DEFINE T == {i \in D : sum[i] \in Int}
  <2>1. lo \in T
    BY <1>1, <1>8
  <2>2. ASSUME NEW i \in lo .. (last - 1), i \in T PROVE i + 1 \in T
    <3>1. i + 1 \in first .. last /\ (i + 1) - 1 = i /\ i + 1 \in D
      BY <1>1
    <3>2. sum[i + 1] = sum[i] + f[i + 1] /\ f[i + 1] \in Int
      BY <1>8, <3>1
    <3> QED BY <2>2, <3>1, <3>2
  <2> HIDE DEF T
  <2>3. D \subseteq T
    BY <1>1, <2>1, <2>2, IntervalInduction
  <2> QED BY <2>3 DEF T
<1>10. sum \in [D -> Int]
  <2>1. sum = [i \in D |-> sum[i]]
    BY <1>6
  <2> QED BY <1>9, <2>1
<1> QED BY <1>7, <1>8, <1>10 DEF SumsOf, lo

LEMMA SumOverType ==
  ASSUME NEW first \in Int, NEW last \in Int, first - 1 <= last,
         NEW f, \A i \in first .. last : f[i] \in Int
  PROVE  SumOver(f, first, last) \in Int
<1>1. PICK s : SumsOf(s, f, first, last) /\ SumOver(f, first, last) = s[last]
  BY SumOverIs
<1> QED BY <1>1 DEF SumsOf

(***************************************************************************)
(* Two ranges with the same values have the same sum.                      *)
(***************************************************************************)
LEMMA SumOverSame ==
  ASSUME NEW first \in Int, NEW last \in Int, first - 1 <= last,
         NEW f, NEW g, \A i \in first .. last : f[i] \in Int /\ g[i] = f[i]
  PROVE  SumOver(f, first, last) = SumOver(g, first, last)
<1>1. PICK s : SumsOf(s, f, first, last) /\ SumOver(f, first, last) = s[last]
  BY SumOverIs
<1>2. PICK t : SumsOf(t, g, first, last) /\ SumOver(g, first, last) = t[last]
  BY SumOverIs
<1> DEFINE lo == first - 1
           T == {i \in lo .. last : s[i] = t[i]}
<1>3. lo \in T /\ lo \in Int /\ lo + 1 = first
  BY <1>1, <1>2 DEF SumsOf
<1>4. ASSUME NEW i \in lo .. (last - 1), i \in T PROVE i + 1 \in T
  <2>1. i + 1 \in first .. last /\ (i + 1) - 1 = i /\ i + 1 \in lo .. last
    OBVIOUS
  <2>2. s[i + 1] = s[i] + f[i + 1] /\ t[i + 1] = t[i] + g[i + 1]
    BY <1>1, <1>2, <2>1 DEF SumsOf
  <2> QED BY <1>4, <2>1, <2>2
<1>5. lo .. last \subseteq T
  <2> HIDE DEF T
  <2> QED BY <1>3, <1>4, IntervalInduction
<1>6. last \in lo .. last
  OBVIOUS
<1> QED BY <1>1, <1>2, <1>5, <1>6

-----------------------------------------------------------------------------
(***************************************************************************)
(* Nth: with a key for each element there is exactly one element that k    *)
(* others come before, for each k less than how many there are.            *)
(***************************************************************************)
Keyed(S, key) == IsFiniteSet(S) /\ S \subseteq Int /\ \A x \in S : key[x] \in Int

Rank(S, key, x) == Cardinality({y \in S : Before(key, y, x)})

LEMMA RankInjective ==
  ASSUME NEW S, NEW key, Keyed(S, key)
  PROVE  /\ \A x \in S : Rank(S, key, x) \in 0 .. (Cardinality(S) - 1)
         /\ \A x, y \in S : Rank(S, key, x) = Rank(S, key, y) => x = y
<1> DEFINE B(x) == {y \in S : Before(key, y, x)}
<1>1. \A x \in S : x \in Int /\ key[x] \in Int
  BY DEF Keyed
<1>2. Cardinality(S) \in Nat
  BY FS_CardinalityType DEF Keyed
<1>3. ASSUME NEW x \in S, NEW T \in SUBSET S, x \notin T
      PROVE  IsFiniteSet(T) /\ Cardinality(T) \in Nat /\ Cardinality(T) < Cardinality(S)
  <2>1. IsFiniteSet(T) /\ Cardinality(T) <= Cardinality(S) /\ Cardinality(T) # Cardinality(S)
    BY <1>3, FS_Subset DEF Keyed
  <2>2. Cardinality(T) \in Nat
    BY <2>1, FS_CardinalityType
  <2> QED BY <1>2, <2>1, <2>2
<1>4. ASSUME NEW x \in S
      PROVE  IsFiniteSet(B(x)) /\ Cardinality(B(x)) \in 0 .. (Cardinality(S) - 1)
  <2>1. x \notin B(x) /\ B(x) \in SUBSET S
    BY <1>1 DEF Before
  <2>2. IsFiniteSet(B(x)) /\ Cardinality(B(x)) \in Nat /\ Cardinality(B(x)) < Cardinality(S)
    BY <1>3, <2>1
  <2> QED BY <1>2, <2>2
<1>5. ASSUME NEW x \in S, NEW y \in S, Before(key, x, y)
      PROVE  Cardinality(B(x)) # Cardinality(B(y))
  <2>1. x \in B(y) /\ x \notin B(x)
    BY <1>1, <1>5 DEF Before
  <2>2. ASSUME NEW z \in B(x) PROVE z \in B(y)
    BY <1>1, <1>5 DEF Before
  <2>3. B(x) \in SUBSET B(y) /\ B(x) # B(y)
    BY <2>1, <2>2
  <2>4. IsFiniteSet(B(y))
    BY <1>4
  <2> HIDE DEF B
  <2> QED BY <2>3, <2>4, FS_Subset
<1>6. ASSUME NEW x \in S, NEW y \in S, x # y PROVE Before(key, x, y) \/ Before(key, y, x)
  <2>1. x \in Int /\ y \in Int /\ key[x] \in Int /\ key[y] \in Int
    BY <1>1
  <2> QED BY <1>6, <2>1 DEF Before
<1>7. \A x \in S : Rank(S, key, x) = Cardinality(B(x))
  BY DEF Rank
<1> HIDE DEF B
<1> QED BY <1>4, <1>5, <1>6, <1>7

LEMMA NthIs ==
  ASSUME NEW S, NEW key, Keyed(S, key), NEW k \in 0 .. (Cardinality(S) - 1)
  PROVE  Nth(S, key, k) \in S /\ Rank(S, key, Nth(S, key, k)) = k
<1> DEFINE n == Cardinality(S)
           T == 0 .. (n - 1)
           f == [x \in S |-> Rank(S, key, x)]
<1>1. n \in Nat
  BY FS_CardinalityType DEF Keyed
<1>2. f \in [S -> T] /\ \A x, y \in S : f[x] = f[y] => x = y
  BY RankInjective
<1>3. IsFiniteSet(T) /\ Cardinality(T) = n
  <2>1. 0 \in Int /\ n - 1 \in Int
    BY <1>1
  <2>2. IsFiniteSet(T) /\ Cardinality(T) = IF 0 > n - 1 THEN 0 ELSE (n - 1) - 0 + 1
    BY <2>1, FS_Interval
  <2> QED BY <1>1, <2>2
<1> HIDE DEF T, f
<1>4. f \in Injection(S, T)
  BY <1>2, Fun_IsInj
<1>5. f \in Surjection(S, T)
  BY <1>3, <1>4, FS_Injection
<1>6. PICK x \in S : f[x] = k
  BY <1>5 DEF Surjection, T
<1>7. Rank(S, key, x) = k
  BY <1>6 DEF f
<1> QED BY <1>7 DEF Nth, Rank

(***************************************************************************)
(* So that Nth goes through the set, each element once.                    *)
(***************************************************************************)
LEMMA NthEnumerates ==
  ASSUME NEW S, NEW key, Keyed(S, key)
  PROVE  /\ \A j, k \in 0 .. (Cardinality(S) - 1) : Nth(S, key, j) = Nth(S, key, k) => j = k
         /\ \A x \in S : /\ Rank(S, key, x) \in 0 .. (Cardinality(S) - 1)
                         /\ Nth(S, key, Rank(S, key, x)) = x
<1>1. \A j, k \in 0 .. (Cardinality(S) - 1) : Nth(S, key, j) = Nth(S, key, k) => j = k
  BY NthIs
<1>2. ASSUME NEW x \in S
      PROVE  /\ Rank(S, key, x) \in 0 .. (Cardinality(S) - 1)
             /\ Nth(S, key, Rank(S, key, x)) = x
  <2>1. Rank(S, key, x) \in 0 .. (Cardinality(S) - 1)
    BY RankInjective
  <2>2. Nth(S, key, Rank(S, key, x)) \in S
        /\ Rank(S, key, Nth(S, key, Rank(S, key, x))) = Rank(S, key, x)
    BY <2>1, NthIs
  <2> QED BY <2>1, <2>2, RankInjective
<1> QED BY <1>1, <1>2

(***************************************************************************)
(* Of finitely many numbers one is the greatest, and one of the greatest   *)
(* is the first.                                                           *)
(***************************************************************************)
LEMMA FirstGreatest ==
  ASSUME NEW lo \in Int, NEW hi \in Int, lo <= hi, NEW f, \A i \in lo .. hi : f[i] \in Int
  PROVE  \E d \in lo .. hi : /\ \A e \in lo .. hi : f[e] <= f[d]
                             /\ \A e \in lo .. (d - 1) : f[e] < f[d]
<1> DEFINE Works(d, m) == /\ d \in lo .. m /\ \A e \in lo .. m : f[e] <= f[d]
                          /\ \A e \in lo .. (d - 1) : f[e] < f[d]
           T == {m \in lo .. hi : \E d : Works(d, m)}
<1>1. lo \in T
  <2>1. Works(lo, lo)
    OBVIOUS
  <2> HIDE DEF Works
  <2> QED BY <2>1
<1>2. ASSUME NEW m \in lo .. (hi - 1), m \in T PROVE m + 1 \in T
  <2>1. PICK d : Works(d, m)
    BY <1>2
  <2>2. m + 1 \in lo .. hi /\ f[m + 1] \in Int /\ \A e \in lo .. m : f[e] \in Int
    OBVIOUS
  <2>3. d \in lo .. m /\ f[d] \in Int
    BY <2>1, <2>2
  <2>4. \A e \in lo .. (m + 1) : e = m + 1 \/ e \in lo .. m
    OBVIOUS
  <2>5. CASE f[m + 1] <= f[d]
    <3>1. Works(d, m + 1)
      BY <2>1, <2>2, <2>3, <2>4, <2>5
    <3> HIDE DEF Works
    <3> QED BY <2>2, <3>1
  <2>6. CASE ~ (f[m + 1] <= f[d])
    <3>1. \A e \in lo .. m : f[e] < f[m + 1]
      BY <2>1, <2>2, <2>3, <2>6
    <3>2. Works(m + 1, m + 1)
      BY <2>2, <2>4, <3>1
    <3> HIDE DEF Works
    <3> QED BY <2>2, <3>2
  <2> QED BY <2>5, <2>6
<1>3. hi \in T
  <2> HIDE DEF T
  <2>1. lo .. hi \subseteq T
    BY <1>1, <1>2, IntervalInduction
  <2> QED BY <2>1
<1> QED BY <1>3

-----------------------------------------------------------------------------
(***************************************************************************)
(* The identifiers stay a permutation of those of the input.               *)
(***************************************************************************)
IdsOK ==
  /\ ids \in [Ids(input) -> Ids(input)]
  /\ \A i, j \in Ids(input) : ids[i] = ids[j] => i = j

Window(start, end) == {ids[i] : i \in start .. (end - 1)}

LEMMA InputIs ==
  ASSUME input \in Inputs
  PROVE  /\ input.nVectors \in Nat \ {0} /\ Ids(input) \subseteq Nat
         /\ \A i \in Ids(input) : i < input.nVectors
         /\ \A x \in Ids(input) : \A d \in Dimensions : vectors[x][d] \in Int
         /\ input.labels \in [Ids(input) -> BOOLEAN]
<1>1. Input(input)
  BY InputAssumption
<1> QED BY <1>1 DEF Input, Ids, vectors

LEMMA WindowIs ==
  ASSUME input \in Inputs, IdsOK, NEW start \in Nat, NEW end \in Nat, start <= end,
         end <= input.nVectors
  PROVE  /\ start .. (end - 1) \subseteq Ids(input)
         /\ Window(start, end) \subseteq Ids(input) /\ IsFiniteSet(Window(start, end))
         /\ Cardinality(Window(start, end)) = end - start
<1> DEFINE S == start .. (end - 1)
           f == [i \in S |-> ids[i]]
<1>1. S \subseteq Ids(input) /\ input.nVectors \in Nat
  BY InputIs DEF Ids
<1>2. IsFiniteSet(S) /\ Cardinality(S) = end - start
  <2>1. start \in Int /\ end - 1 \in Int
    OBVIOUS
  <2>2. IsFiniteSet(S) /\ Cardinality(S) = IF start > end - 1 THEN 0 ELSE end - 1 - start + 1
    BY <2>1, FS_Interval
  <2> QED BY <2>2
<1>3. f \in [S -> Window(start, end)] /\ \A i, j \in S : f[i] = f[j] => i = j
  BY <1>1 DEF IdsOK, Window
<1>4. \A x \in Window(start, end) : \E i \in S : f[i] = x
  BY DEF Window
<1>5. Window(start, end) \subseteq Ids(input)
  BY <1>1 DEF Window, IdsOK
<1> HIDE DEF S, f
<1>6. f \in Bijection(S, Window(start, end))
  <2>1. f \in Injection(S, Window(start, end))
    BY <1>3, Fun_IsInj
  <2>2. f \in Surjection(S, Window(start, end))
    BY <1>3, <1>4 DEF Surjection
  <2> QED BY <2>1, <2>2 DEF Bijection
<1>7. ExistsBijection(S, Window(start, end))
  BY <1>6 DEF ExistsBijection
<1>8. IsFiniteSet(Window(start, end)) /\ Cardinality(Window(start, end)) = Cardinality(S)
  BY <1>2, <1>7, FS_Bijection
<1> QED BY <1>1, <1>2, <1>5, <1>8 DEF S

LEMMA maxVarianceDimensionIs ==
  ASSUME input \in Inputs, IdsOK, NEW start \in Nat, NEW end \in Nat, start <= end,
         end <= input.nVectors
  PROVE  maxVarianceDimension(start, end) \in Dimensions
<1>1. start .. (end - 1) \subseteq Ids(input)
  BY WindowIs
<1>2. ASSUME NEW d \in Dimensions PROVE Variance(start, end, d) \in Int
  <2> DEFINE value[i \in start .. (end - 1)]  == vectors[ids[i]][d]
             square[i \in start .. (end - 1)] == value[i] * value[i]
             sum == SumOver(value, start, end - 1)
             squares == SumOver(square, start, end - 1)
  <2>1. \A i \in start .. (end - 1) : value[i] \in Int
    BY <1>1, InputIs DEF IdsOK
  <2>2. \A i \in start .. (end - 1) : square[i] \in Int
    BY <2>1
  <2>3. start \in Int /\ end - 1 \in Int /\ start - 1 <= end - 1
    OBVIOUS
  <2>4. Variance(start, end, d) = (end - start) * squares - sum * sum
    BY DEF Variance
  <2> HIDE DEF value, square
  <2>5. sum \in Int /\ squares \in Int
    BY <2>1, <2>2, <2>3, SumOverType
  <2> HIDE DEF sum, squares
  <2> QED BY <2>4, <2>5
<1> DEFINE f == [d \in Dimensions |-> Variance(start, end, d)]
<1>3. 0 \in Int /\ Dim - 1 \in Int /\ 0 <= Dim - 1 /\ Dimensions = 0 .. (Dim - 1)
  BY SizesAssumption DEF Dimensions
<1>4. \A d \in 0 .. (Dim - 1) : f[d] \in Int
  BY <1>2, <1>3
<1>5. \E d \in 0 .. (Dim - 1) : /\ \A e \in 0 .. (Dim - 1) : f[e] <= f[d]
                                /\ \A e \in 0 .. (d - 1) : f[e] < f[d]
  <2> HIDE DEF f
  <2> QED BY <1>3, <1>4, FirstGreatest
<1>6. PICK d \in Dimensions : /\ \A e \in Dimensions : f[e] <= f[d]
                              /\ \A e \in 0 .. (d - 1) : f[e] < f[d]
  BY <1>3, <1>5
<1>7. /\ \A e \in Dimensions : Variance(start, end, e) <= Variance(start, end, d)
      /\ \A e \in 0 .. (d - 1) : Variance(start, end, e) < Variance(start, end, d)
  <2>1. 0 .. (d - 1) \subseteq Dimensions
    BY <1>3
  <2> QED BY <1>6, <2>1
<1> QED BY <1>7 DEF maxVarianceDimension

LEMMA SortedIs ==
  ASSUME input \in Inputs, IdsOK, NEW start \in Nat, NEW end \in Nat, start <= end,
         end <= input.nVectors, ids' = Sorted(start, end), UNCHANGED input
  PROVE  IdsOK'
<1> DEFINE S == start .. (end - 1)
           W == Window(start, end)
           dim == maxVarianceDimension(start, end)
           key == [x \in Ids(input) |-> vectors[x][dim]]
<1>1. /\ S \subseteq Ids(input) /\ W \subseteq Ids(input) /\ IsFiniteSet(W)
      /\ Cardinality(W) = end - start
  BY WindowIs
<1>2. Keyed(W, key)
  <2>1. dim \in Dimensions
    BY maxVarianceDimensionIs
  <2> HIDE DEF dim
  <2>2. \A x \in W : key[x] \in Int
    BY <1>1, <2>1, InputIs
  <2>3. W \subseteq Int
    BY <1>1, InputIs
  <2> QED BY <1>1, <2>2, <2>3 DEF Keyed
<1>3. ids' = [i \in Ids(input) |-> IF i \in S THEN Nth(W, key, i - start) ELSE ids[i]]
  BY DEF Sorted, Window
<1>4. \A i \in S : i - start \in 0 .. (Cardinality(W) - 1)
  BY <1>1
<1>5. \A i \in Ids(input) : i \notin S => ids[i] \notin W
  BY <1>1 DEF Window, IdsOK
<1> HIDE DEF W, key
<1>6. ASSUME NEW i \in S PROVE ids'[i] = Nth(W, key, i - start) /\ ids'[i] \in W
  <2>1. i - start \in 0 .. (Cardinality(W) - 1)
    BY <1>4
  <2>2. Nth(W, key, i - start) \in W
    BY <1>2, <2>1, NthIs
  <2> QED BY <1>1, <1>3, <2>2
<1>7. ids' \in [Ids(input) -> Ids(input)]
  <2>1. \A i \in Ids(input) : ids'[i] \in Ids(input)
    BY <1>1, <1>3, <1>6 DEF IdsOK
  <2> QED BY <1>3, <2>1
<1>8. ASSUME NEW i \in Ids(input), NEW j \in Ids(input), ids'[i] = ids'[j] PROVE i = j
  <2>1. CASE i \in S /\ j \in S
    <3>1. i - start = j - start
      <4>1. /\ i - start \in 0 .. (Cardinality(W) - 1)
            /\ j - start \in 0 .. (Cardinality(W) - 1)
            /\ Nth(W, key, i - start) = Nth(W, key, j - start)
        BY <1>4, <1>6, <1>8, <2>1
      <4> QED BY <1>2, <4>1, NthEnumerates
    <3> QED BY <2>1, <3>1
  <2>2. CASE i \notin S /\ j \notin S
    BY <1>3, <1>8, <2>2 DEF IdsOK
  <2>3. CASE ~ (i \in S <=> j \in S)
    BY <1>3, <1>5, <1>6, <1>8, <2>3
  <2> QED BY <2>1, <2>2, <2>3
<1> QED BY <1>7, <1>8 DEF IdsOK

-----------------------------------------------------------------------------
(***************************************************************************)
(* When the calls are over every cluster has its range, which begins where *)
(* the one before ends, and the last one ends with the vectors.            *)
(***************************************************************************)
LEMMA RangesAre ==
  ASSUME BuildInv, todo = <<>>, NEW c \in 0 .. (clusters - 1)
  PROVE  /\ ranges[c].start \in Nat /\ ranges[c].end \in Nat
         /\ ranges[c].start < ranges[c].end /\ ranges[c].end <= input.nVectors
         /\ ranges[c].start = (IF c = 0 THEN 0 ELSE ranges[c - 1].end)
         /\ c = clusters - 1 => ranges[c].end = input.nVectors
         /\ Size(c) \in Nat \ {0}
<1> USE DEF BuildInv
<1>1. Given = clusters /\ GivenTo = input.nVectors
  BY DEF Given, GivenTo
<1>2. share \in Nat \ {0}
  BY ShareType
<1>3. ranges[c].start \in Nat /\ ranges[c].end \in Nat
  BY DEF TypeOK, Ranges
<1> QED BY <1>1, <1>2, <1>3 DEF GivenOK, Size

-----------------------------------------------------------------------------
(***************************************************************************)
(* Sums and means of a range are numbers.                                  *)
(***************************************************************************)
RangeOK(r) == r.start \in Nat /\ r.end \in Nat /\ r.start < r.end /\ r.end <= input.nVectors

LEMMA SumOfType ==
  ASSUME input \in Inputs, IdsOK, NEW r, RangeOK(r), NEW d \in Dimensions
  PROVE  SumOf(r, d) \in Int
<1> DEFINE value[i \in r.start .. (r.end - 1)] == vectors[ids[i]][d]
<1>1. r.start .. (r.end - 1) \subseteq Ids(input)
  BY WindowIs DEF RangeOK
<1>2. \A i \in r.start .. (r.end - 1) : value[i] \in Int
  BY <1>1, InputIs DEF IdsOK
<1>3. r.start \in Int /\ r.end - 1 \in Int /\ r.start - 1 <= r.end - 1
  BY DEF RangeOK
<1>4. SumOf(r, d) = SumOver(value, r.start, r.end - 1)
  BY DEF SumOf
<1> HIDE DEF value
<1> QED BY <1>2, <1>3, <1>4, SumOverType

(***************************************************************************)
(* A quotient truncates towards zero.                                      *)
(***************************************************************************)
LEMMA QuotientIs ==
  ASSUME NEW a \in Int, NEW n \in Nat \ {0}
  PROVE  /\ Quotient(a, n) \in Int /\ n * Quotient(a, n) \in Int
         /\ a >= 0 => n * Quotient(a, n) <= a /\ a < n * Quotient(a, n) + n
         /\ a < 0 => a <= n * Quotient(a, n) /\ n * Quotient(a, n) - n < a
                     /\ n * Quotient(a, n) <= 0
<1>1. ASSUME NEW b \in Nat
      PROVE  b \div n \in Nat /\ n * (b \div n) \in Nat /\ n * (b \div n) <= b
             /\ b < n * (b \div n) + n
  <2>1. b = n * (b \div n) + (b % n) /\ b % n \in 0 .. (n - 1) /\ b \div n \in Nat
    OBVIOUS
  <2>2. n * (b \div n) \in Nat
    BY <2>1
  <2> QED BY <2>1, <2>2
<1>2. CASE a >= 0
  <2>1. a \in Nat /\ Quotient(a, n) = a \div n
    BY <1>2 DEF Quotient
  <2> QED BY <1>1, <1>2, <2>1
<1>3. CASE a < 0
  <2> DEFINE k == (- a) \div n
  <2>1. - a \in Nat /\ Quotient(a, n) = - k
    BY <1>3 DEF Quotient
  <2>2. k \in Nat /\ n * k \in Nat /\ n * k <= - a /\ - a < n * k + n
    BY <1>1, <2>1
  <2> HIDE DEF k
  <2>3. n * (- k) = - (n * k)
    BY <2>2
  <2> QED BY <1>3, <2>1, <2>2, <2>3
<1> QED BY <1>2, <1>3

LEMMA CentroidType ==
  ASSUME input \in Inputs, IdsOK, NEW r, RangeOK(r), NEW d \in Dimensions
  PROVE  centroid(r, d) \in Int
<1>1. SumOf(r, d) \in Int /\ r.end - r.start \in Nat \ {0}
  BY SumOfType DEF RangeOK
<1>2. SumOf(r, d) + (r.end - r.start) \div 2 \in Int
  BY <1>1
<1> QED BY <1>1, <1>2, QuotientIs DEF centroid

LEMMA SquaredDistanceType ==
  ASSUME NEW v, NEW w, \A d \in Dimensions : v[d] \in Int /\ w[d] \in Int
  PROVE  SquaredDistance(v, w) \in Int
<1> DEFINE square[d \in Dimensions] == (v[d] - w[d]) * (v[d] - w[d])
<1>1. Dimensions = 0 .. (Dim - 1) /\ 0 \in Int /\ Dim - 1 \in Int /\ 0 - 1 <= Dim - 1
  BY SizesAssumption DEF Dimensions
<1>2. \A d \in 0 .. (Dim - 1) : square[d] \in Int
  BY <1>1
<1>3. SquaredDistance(v, w) = SumOver(square, 0, Dim - 1)
  BY DEF SquaredDistance
<1> HIDE DEF square
<1> QED BY <1>1, <1>2, <1>3, SumOverType

(***************************************************************************)
(* sortClusterByCentroidDist goes through the vectors of a cluster, each   *)
(* one once.                                                               *)
(***************************************************************************)
LEMMA ClusterOrder ==
  ASSUME input \in Inputs, IdsOK, NEW r, RangeOK(r)
  PROVE  LET size == r.end - r.start
             W == Window(r.start, r.end)
         IN  /\ size \in Nat \ {0} /\ W \subseteq Ids(input)
             /\ \A k \in 0 .. (size - 1) : sortClusterByCentroidDist(r, k) \in W
             /\ \A j, k \in 0 .. (size - 1) :
                  sortClusterByCentroidDist(r, j) = sortClusterByCentroidDist(r, k) => j = k
             /\ \A x \in W : \E k \in 0 .. (size - 1) : sortClusterByCentroidDist(r, k) = x
<1> DEFINE size == r.end - r.start
           W == Window(r.start, r.end)
           mean == [d \in Dimensions |-> centroid(r, d)]
           key == [x \in Ids(input) |-> SquaredDistance(vectors[x], mean)]
<1>1. size \in Nat \ {0} /\ W \subseteq Ids(input) /\ IsFiniteSet(W) /\ Cardinality(W) = size
  BY WindowIs DEF RangeOK
<1>2. Keyed(W, key)
  <2>1. \A d \in Dimensions : mean[d] \in Int
    BY CentroidType
  <2> HIDE DEF mean
  <2>2. ASSUME NEW x \in W PROVE key[x] \in Int
    <3>1. \A d \in Dimensions : vectors[x][d] \in Int /\ mean[d] \in Int
      BY <1>1, <2>1, InputIs
    <3> QED BY <1>1, <3>1, SquaredDistanceType
  <2>3. W \subseteq Int
    BY <1>1, InputIs
  <2> HIDE DEF W, key
  <2> QED BY <1>1, <2>2, <2>3 DEF Keyed
<1>3. \A k : sortClusterByCentroidDist(r, k) = Nth(W, key, k)
  BY DEF sortClusterByCentroidDist, Window
<1> HIDE DEF W, key, size
<1>4. \A k \in 0 .. (size - 1) : Nth(W, key, k) \in W
  BY <1>1, <1>2, NthIs
<1>5. /\ \A j, k \in 0 .. (size - 1) : Nth(W, key, j) = Nth(W, key, k) => j = k
      /\ \A x \in W : \E k \in 0 .. (size - 1) : Nth(W, key, k) = x
  BY <1>1, <1>2, NthEnumerates
<1> QED BY <1>1, <1>3, <1>4, <1>5 DEF W, size

-----------------------------------------------------------------------------
(***************************************************************************)
(* What materializeIVF has made of the clusters before next: rows where    *)
(* the range was, blocks enough for them, and in each row the next vector  *)
(* in the order of the cluster.                                            *)
(***************************************************************************)
ClusterMade(c) ==
  /\ listOffsets[c] = ranges[c].start /\ listOffsets[c + 1] = ranges[c].end
  /\ blockOffsets[c + 1] = blockOffsets[c] + blocksForRows(Size(c))
  /\ stats[c] = computeClusterStats(ranges[c])
  /\ \A row \in ranges[c].start .. (ranges[c].end - 1) :
       rows[row] = sortClusterByCentroidDist(ranges[c], row - ranges[c].start)

LaidOut ==
  /\ stage \in {"split", "materialize", "done"} /\ next \in 0 .. clusters
  /\ stage = "split" => next = 0
  /\ stage = "done" => next = clusters
  /\ stats = [c \in 0 .. (clusters - 1) |-> stats[c]]
  /\ rows \in [Ids(input) -> Ids(input)]
  /\ listOffsets \in [0 .. clusters -> Nat] /\ listOffsets[0] = 0
  /\ blockOffsets \in [0 .. clusters -> Nat] /\ blockOffsets[0] = 0
  /\ \A c \in 0 .. (next - 1) : ClusterMade(c)
  /\ stage = "done" => blocks = buildIVFBlocks /\ centroidBlocks = buildCentroidBlocks

IndexInv == BuildInv /\ IdsOK /\ LaidOut

LEMMA InitIndexInv == BuildInit => IndexInv
<1> SUFFICES ASSUME BuildInit PROVE IndexInv
  OBVIOUS
<1>1. BuildInv
  BY BuildInitInv
<1>2. input \in Inputs /\ clusters \in Nat \ {0}
  BY <1>1 DEF BuildInv, TypeOK
<1>3. IdsOK
  BY DEF BuildInit, IdsOK
<1>4. 0 \in Ids(input)
  BY <1>2, InputIs DEF Ids
<1>5. LaidOut
  BY <1>2, <1>4 DEF BuildInit, LaidOut
<1> QED BY <1>1, <1>3, <1>5 DEF IndexInv

LEMMA RangeIsOK ==
  ASSUME BuildInv, todo = <<>>, NEW c \in 0 .. (clusters - 1)
  PROVE  RangeOK(ranges[c])
BY RangesAre DEF RangeOK

LEMMA blocksForRowsIs ==
  ASSUME NEW n \in Nat
  PROVE  blocksForRows(n) \in Nat /\ n <= blocksForRows(n) * blockSize
<1>1. blockSize \in Nat \ {0}
  BY SizesAssumption
<1> DEFINE m == n + blockSize - 1
           q == m \div blockSize
<1>2. CASE n = 0
  BY <1>1, <1>2 DEF blocksForRows
<1>3. CASE n # 0
  <2>1. m \in Nat /\ blocksForRows(n) = q
    BY <1>1, <1>3 DEF blocksForRows
  <2>2. m = blockSize * q + (m % blockSize) /\ m % blockSize \in 0 .. (blockSize - 1) /\ q \in Nat
    BY <1>1, <2>1
  <2>3. blockSize * q = q * blockSize /\ q * blockSize \in Nat
    BY <1>1, <2>2
  <2> HIDE DEF q
  <2> QED BY <1>1, <2>1, <2>2, <2>3
<1> QED BY <1>2, <1>3

LEMMA MakeClusterStep ==
  ASSUME IndexInv, MakeCluster
  PROVE  LaidOut'
<1> DEFINE r    == ranges[next]
           pos  == listOffsets[next]
           size == r.end - r.start
<1> USE DEF IndexInv
<1>1. /\ stage = "materialize" /\ next < clusters
      /\ stats' = [stats EXCEPT ![next] = computeClusterStats(r)]
      /\ rows' = [row \in Ids(input) |->
                    IF row \in pos .. (pos + size - 1)
                      THEN sortClusterByCentroidDist(r, row - pos) ELSE rows[row]]
      /\ listOffsets' = [listOffsets EXCEPT ![next + 1] = pos + size]
      /\ blockOffsets' =
           [blockOffsets EXCEPT ![next + 1] = blockOffsets[next] + blocksForRows(size)]
      /\ next' = next + 1
      /\ UNCHANGED <<input, stage, clusters, ids, todo, ranges, blocks, centroidBlocks>>
  BY DEF MakeCluster
<1>2. /\ todo = <<>> /\ next \in 0 .. (clusters - 1) /\ clusters \in Nat \ {0}
      /\ input \in Inputs /\ next + 1 \in 0 .. clusters
  BY <1>1 DEF BuildInv, TypeOK, LaidOut
<1>3. /\ r.start \in Nat /\ r.end \in Nat /\ r.start < r.end /\ r.end <= input.nVectors
      /\ r.start = (IF next = 0 THEN 0 ELSE ranges[next - 1].end)
      /\ size \in Nat \ {0} /\ size = Size(next)
  BY <1>2, RangesAre DEF Size
<1>4. pos = r.start /\ pos + size = r.end
  <2>1. next # 0 => next - 1 \in 0 .. (next - 1) /\ (next - 1) + 1 = next
    BY <1>2
  <2>2. next # 0 => listOffsets[next] = ranges[next - 1].end
    BY <2>1 DEF LaidOut, ClusterMade
  <2>3. next = 0 => listOffsets[next] = 0
    BY DEF LaidOut
  <2> QED BY <1>3, <2>2, <2>3
<1>5. /\ \A k \in 0 .. (size - 1) : sortClusterByCentroidDist(r, k) \in Ids(input)
  <2>1. RangeOK(r)
    BY <1>2, RangeIsOK
  <2> QED BY <1>2, <2>1, ClusterOrder
<1> HIDE DEF size, pos
<1>6. blocksForRows(size) \in Nat
  BY <1>3, blocksForRowsIs
<1>7. /\ listOffsets' \in [0 .. clusters -> Nat] /\ blockOffsets' \in [0 .. clusters -> Nat]
      /\ listOffsets'[next + 1] = pos + size
      /\ blockOffsets'[next + 1] = blockOffsets[next] + blocksForRows(size)
      /\ \A c \in 0 .. clusters : c # next + 1 => /\ listOffsets'[c] = listOffsets[c]
                                                  /\ blockOffsets'[c] = blockOffsets[c]
      /\ \A c \in 0 .. (clusters - 1) :
           stats'[c] = IF c = next THEN computeClusterStats(r) ELSE stats[c]
      /\ stats' = [c \in 0 .. (clusters - 1) |-> stats'[c]]
  <2> DEFINE after == pos + size
             blocksAfter == blockOffsets[next] + blocksForRows(size)
             made == computeClusterStats(r)
  <2>1. after \in Nat
    BY <1>3, <1>4
  <2>2. blockOffsets[next] \in Nat
    BY <1>2 DEF LaidOut
  <2>3. blocksAfter \in Nat
    BY <1>6, <2>2
  <2>4. /\ listOffsets' = [listOffsets EXCEPT ![next + 1] = after]
        /\ blockOffsets' = [blockOffsets EXCEPT ![next + 1] = blocksAfter]
        /\ stats' = [stats EXCEPT ![next] = made]
    BY <1>1
  <2> HIDE DEF after, blocksAfter, made
  <2>5. /\ listOffsets \in [0 .. clusters -> Nat] /\ blockOffsets \in [0 .. clusters -> Nat]
        /\ stats = [c \in 0 .. (clusters - 1) |-> stats[c]]
    BY DEF LaidOut
  <2>6. /\ listOffsets' \in [0 .. clusters -> Nat] /\ listOffsets'[next + 1] = after
        /\ \A c \in 0 .. clusters : c # next + 1 => listOffsets'[c] = listOffsets[c]
    BY <1>2, <2>1, <2>4, <2>5
  <2>7. /\ blockOffsets' \in [0 .. clusters -> Nat] /\ blockOffsets'[next + 1] = blocksAfter
        /\ \A c \in 0 .. clusters : c # next + 1 => blockOffsets'[c] = blockOffsets[c]
    BY <1>2, <2>3, <2>4, <2>5
  <2>8. DOMAIN stats = 0 .. (clusters - 1)
    BY <2>5
  <2>9. stats' = [c \in 0 .. (clusters - 1) |-> IF c = next THEN made ELSE stats[c]]
    BY <2>4, <2>8
  <2>10. \A c \in 0 .. (clusters - 1) : stats'[c] = IF c = next THEN made ELSE stats[c]
    BY <2>9
  <2>11. stats' = [c \in 0 .. (clusters - 1) |-> stats'[c]]
    BY <2>9
  <2> QED BY <2>6, <2>7, <2>10, <2>11 DEF after, blocksAfter, made
<1>8. rows' \in [Ids(input) -> Ids(input)]
  <2>1. ASSUME NEW row \in Ids(input) PROVE rows'[row] \in Ids(input)
    <3>1. CASE row \in pos .. (pos + size - 1)
      <4>1. row - pos \in 0 .. (size - 1)
        BY <1>3, <1>4, <3>1
      <4>2. rows'[row] = sortClusterByCentroidDist(r, row - pos)
        BY <1>1, <3>1
      <4> QED BY <1>5, <4>1, <4>2
    <3>2. CASE row \notin pos .. (pos + size - 1)
      BY <1>1, <3>2 DEF LaidOut
    <3> QED BY <3>1, <3>2
  <2> QED BY <1>1, <2>1
<1>9. ASSUME NEW c \in 0 .. (next - 1)
      PROVE  /\ listOffsets'[c] = ranges[c].start /\ listOffsets'[c + 1] = ranges[c].end
             /\ blockOffsets'[c + 1] = blockOffsets'[c] + blocksForRows(Size(c))
             /\ stats'[c] = stats[c]
             /\ \A row \in ranges[c].start .. (ranges[c].end - 1) : rows'[row] = rows[row]
  <2>1. /\ c \in 0 .. clusters /\ c + 1 \in 0 .. clusters /\ c # next + 1 /\ c + 1 # next + 1
        /\ c \in 0 .. (clusters - 1) /\ c # next
    BY <1>2
  <2>2. ClusterMade(c)
    BY DEF LaidOut
  <2>3. ranges[c].end <= r.start
    <3> DEFINE T == {m \in c .. (next - 1) : ranges[c].end <= ranges[m].end}
    <3>1. c \in T
      BY <1>2, <2>1, RangesAre
    <3>2. ASSUME NEW m \in c .. ((next - 1) - 1), m \in T PROVE m + 1 \in T
      <4>1. m + 1 \in 0 .. (clusters - 1) /\ m \in 0 .. (clusters - 1) /\ m + 1 # 0
            /\ (m + 1) - 1 = m /\ m + 1 \in c .. (next - 1)
        BY <1>2
      <4>2. ranges[m + 1].start = ranges[m].end /\ ranges[m + 1].start < ranges[m + 1].end
            /\ ranges[m + 1].start \in Nat /\ ranges[m + 1].end \in Nat
        BY <1>2, <4>1, RangesAre
      <4>3. ranges[c].end \in Nat
        BY <1>2, <2>1, RangesAre
      <4> QED BY <3>2, <4>1, <4>2, <4>3
    <3>3. c \in Int /\ next - 1 \in Int
      BY <1>2
    <3> HIDE DEF T
    <3>4. c .. (next - 1) \subseteq T
      BY <3>1, <3>2, <3>3, IntervalInduction
    <3>5. next - 1 \in T
      BY <1>2, <3>4
    <3> QED BY <1>2, <1>3, <3>5 DEF T
  <2>4. ranges[c].start \in Nat /\ ranges[c].end \in Nat /\ ranges[c].end <= input.nVectors
        /\ input.nVectors \in Nat
    BY <1>2, <2>1, RangesAre, InputIs
  <2>5. ASSUME NEW row \in ranges[c].start .. (ranges[c].end - 1) PROVE rows'[row] = rows[row]
    <3>1. row \in Ids(input) /\ row \notin pos .. (pos + size - 1)
      BY <1>3, <1>4, <2>3, <2>4 DEF Ids
    <3> QED BY <1>1, <3>1
  <2> QED BY <1>7, <2>1, <2>2, <2>5 DEF ClusterMade
<1>10. ASSUME NEW c \in 0 .. (next - 1) PROVE ClusterMade(c)'
  <2>1. ClusterMade(c)
    BY DEF LaidOut
  <2>2. /\ computeClusterStats(ranges[c])' = computeClusterStats(ranges[c])
        /\ Size(c)' = Size(c)
        /\ \A k : sortClusterByCentroidDist(ranges[c], k)' = sortClusterByCentroidDist(ranges[c], k)
    BY <1>1 DEF computeClusterStats, centroid, bboxMin, bboxMax, SumOf, Values, Size, vectors,
                sortClusterByCentroidDist
  <2> QED BY <1>1, <1>9, <2>1, <2>2 DEF ClusterMade
<1>11. ASSUME NEW c, c = next PROVE ClusterMade(c)'
  <2>1. /\ listOffsets'[c] = ranges[c].start /\ listOffsets'[c + 1] = ranges[c].end
        /\ blockOffsets'[c + 1] = blockOffsets'[c] + blocksForRows(Size(c))
        /\ stats'[c] = computeClusterStats(ranges[c])
    <3>1. c \in 0 .. clusters /\ c # c + 1 /\ c \in 0 .. (clusters - 1)
      BY <1>2, <1>11
    <3>2. listOffsets'[c] = listOffsets[c] /\ blockOffsets'[c] = blockOffsets[c]
      BY <1>7, <1>11, <3>1
    <3> QED BY <1>3, <1>4, <1>7, <1>11, <3>1, <3>2 DEF pos
  <2>2. ASSUME NEW row \in ranges[c].start .. (ranges[c].end - 1)
        PROVE  rows'[row] = sortClusterByCentroidDist(ranges[c], row - ranges[c].start)
    <3>1. row \in r.start .. (r.end - 1)
      BY <1>11
    <3>2. input.nVectors \in Nat
      BY <1>2, InputIs
    <3>3. row \in Ids(input)
      BY <1>3, <3>1, <3>2 DEF Ids
    <3>4. row \in pos .. (pos + size - 1)
      BY <1>3, <1>4, <3>1
    <3> QED BY <1>1, <1>4, <1>11, <3>3, <3>4
  <2>3. /\ computeClusterStats(ranges[c])' = computeClusterStats(ranges[c])
        /\ Size(c)' = Size(c)
        /\ \A k : sortClusterByCentroidDist(ranges[c], k)' = sortClusterByCentroidDist(ranges[c], k)
    BY <1>1 DEF computeClusterStats, centroid, bboxMin, bboxMax, SumOf, Values, Size, vectors,
                sortClusterByCentroidDist
  <2> QED BY <1>1, <2>1, <2>2, <2>3 DEF ClusterMade
<1>12. ASSUME NEW c \in (0 .. (next - 1))' PROVE ClusterMade(c)'
  <2>1. c = next \/ c \in 0 .. (next - 1)
    BY <1>1, <1>2
  <2> QED BY <1>10, <1>11, <2>1
<1>13. listOffsets'[0] = 0 /\ blockOffsets'[0] = 0
  <2>1. 0 \in 0 .. clusters /\ 0 # next + 1
    BY <1>2
  <2> QED BY <1>7, <2>1 DEF LaidOut
<1> QED BY <1>1, <1>2, <1>7, <1>8, <1>12, <1>13 DEF LaidOut

LEMMA ClusterMadeSame ==
  ASSUME NEW c, ClusterMade(c),
         UNCHANGED <<input, ids, ranges, stats, listOffsets, blockOffsets, rows>>
  PROVE  ClusterMade(c)'
<1>1. /\ computeClusterStats(ranges[c])' = computeClusterStats(ranges[c])
      /\ Size(c)' = Size(c)
      /\ \A k : sortClusterByCentroidDist(ranges[c], k)' = sortClusterByCentroidDist(ranges[c], k)
  BY DEF computeClusterStats, centroid, bboxMin, bboxMax, SumOf, Values, Size, vectors,
         sortClusterByCentroidDist
<1> QED BY <1>1 DEF ClusterMade

LEMMA LaidOutSame ==
  ASSUME LaidOut, stage \in {"materialize", "done"}, UNCHANGED <<input, clusters, ids, ranges, layout>>,
         stage' = stage
  PROVE  LaidOut'
<1>1. UNCHANGED <<next, stats, listOffsets, blockOffsets, rows, blocks, centroidBlocks>>
  BY DEF layout
<1>2. \A c : ClusterMade(c) => ClusterMade(c)'
  BY <1>1, ClusterMadeSame
<1>3. Ids(input)' = Ids(input)
  BY DEF Ids
<1>4. buildIVFBlocks' = buildIVFBlocks /\ buildCentroidBlocks' = buildCentroidBlocks
  BY <1>1 DEF buildIVFBlocks, buildCentroidBlocks, RowsOf, vectors
<1> QED BY <1>1, <1>2, <1>3, <1>4 DEF LaidOut

(***************************************************************************)
(* While the ranges are cut nothing is laid out yet.                       *)
(***************************************************************************)
LEMMA LaidOutEmpty ==
  ASSUME LaidOut, stage = "split", UNCHANGED <<input, clusters, layout>>,
         stage' \in {"split", "materialize"}, clusters \in Nat
  PROVE  LaidOut'
<1>1. UNCHANGED <<next, stats, listOffsets, blockOffsets, rows, blocks, centroidBlocks>>
  BY DEF layout
<1>2. next' = 0 /\ 0 .. (next' - 1) = {}
  BY <1>1 DEF LaidOut
<1>3. Ids(input)' = Ids(input)
  BY DEF Ids
<1> QED BY <1>1, <1>2, <1>3 DEF LaidOut

LEMMA NextIndexInv == IndexInv /\ [Next]_<<vars, fileVars, scanVars>> => IndexInv'
<1> SUFFICES ASSUME IndexInv, [Next]_<<vars, fileVars, scanVars>> PROVE IndexInv'
  OBVIOUS
<1> USE DEF IndexInv
<1>1. BuildInv'
  BY NextInv
<1>2. /\ input \in Inputs /\ clusters \in Nat \ {0} /\ stage \in {"split", "materialize", "done"}
      /\ todo # <<>> => stage = "split"
  BY DEF BuildInv, TypeOK, LaidOut
<1>3. ASSUME UNCHANGED <<input, ids>> PROVE IdsOK'
  BY <1>3 DEF IdsOK, Ids
<1>4. ASSUME UNCHANGED vars PROVE IndexInv'
  <2>1. UNCHANGED <<input, clusters, ids, ranges, layout>> /\ stage' = stage
    BY <1>4 DEF vars, layout
  <2> QED BY <1>1, <1>2, <1>3, <2>1, LaidOutSame, LaidOutEmpty
<1>5. CASE Leaf
  BY <1>1, <1>2, <1>3, <1>5, LaidOutEmpty DEF Leaf
<1>6. CASE Split
  <2> DEFINE call == Head(todo)
  <2>1. todo # <<>> /\ ids' = Sorted(call.start, call.end) /\ UNCHANGED <<input, stage, clusters, layout>>
    BY <1>6 DEF Split
  <2>2. call \in Calls /\ CallOK(call)
    BY <2>1, TailIs DEF BuildInv, TypeOK, Chained
  <2>3. IdsOK'
    BY <1>2, <2>1, <2>2, SortedIs DEF CallOK, Calls
  <2> QED BY <1>1, <1>2, <2>1, <2>3, LaidOutEmpty
<1>7. CASE SplitEnds
  BY <1>1, <1>2, <1>3, <1>7, LaidOutEmpty DEF SplitEnds
<1>8. CASE MakeCluster
  BY <1>1, <1>3, <1>8, MakeClusterStep DEF MakeCluster
<1>9. CASE MakeBlocks
  <2>1. /\ stage = "materialize" /\ next = clusters /\ stage' = "done"
        /\ blocks' = buildIVFBlocks /\ centroidBlocks' = buildCentroidBlocks
        /\ UNCHANGED <<input, clusters, ids, todo, ranges, next, stats, listOffsets, blockOffsets, rows>>
    BY <1>9 DEF MakeBlocks
  <2>2. \A c : ClusterMade(c) => ClusterMade(c)'
    BY <2>1, ClusterMadeSame
  <2>3. buildIVFBlocks' = buildIVFBlocks /\ buildCentroidBlocks' = buildCentroidBlocks
    BY <2>1 DEF buildIVFBlocks, buildCentroidBlocks, RowsOf, vectors
  <2>4. Ids(input)' = Ids(input)
    BY <2>1 DEF Ids
  <2>5. LaidOut'
    BY <2>1, <2>2, <2>3, <2>4 DEF LaidOut
  <2> QED BY <1>1, <1>3, <2>1, <2>5
<1>10. BuildNext => IndexInv'
  BY <1>5, <1>6, <1>7, <1>8, <1>9 DEF BuildNext
<1>11. CASE FileNext
  BY <1>4, <1>11 DEF FileNext, Create, Save, SaveStops, Load
<1>12. CASE Ask \/ Scan \/ Stopped
  BY <1>4, <1>12 DEF Ask, Scan, Stopped
<1> QED BY <1>4, <1>10, <1>11, <1>12 DEF Next

LEMMA SpecIndexInv == Spec => []IndexInv
<1>1. Init => IndexInv
  BY InitIndexInv DEF Init
<1> QED BY <1>1, NextIndexInv, PTL DEF Spec

(***************************************************************************)
(* The centroid of every cluster made so far is within half a unit of the  *)
(* mean of its vectors, or where their sum is negative above it by less    *)
(* than one and a half: for any vectors and sizes.                         *)
(***************************************************************************)
THEOREM BuildCentroidNearMean == Spec => []CentroidNearMean
<1>1. IndexInv => CentroidNearMean
  <2> SUFFICES ASSUME IndexInv, NEW c \in 0 .. (next - 1), NEW d \in Dimensions
               PROVE  LET sum   == SumOf(ranges[c], d)
                          error == Size(c) * stats[c].centroid[d] - sum
                      IN  /\ - Size(c) <= 2 * error
                          /\ 2 * error <= Size(c) \/ (sum < 0 /\ 2 * error < 3 * Size(c))
    BY DEF CentroidNearMean
  <2> DEFINE n == Size(c)
             sum == SumOf(ranges[c], d)
             half == n \div 2
             q == Quotient(sum + half, n)
  <2>1. /\ todo = <<>> /\ input \in Inputs /\ c \in 0 .. (clusters - 1) /\ ClusterMade(c)
    BY DEF IndexInv, BuildInv, TypeOK, LaidOut
  <2>2. n \in Nat \ {0} /\ RangeOK(ranges[c]) /\ n = ranges[c].end - ranges[c].start
    BY <2>1, RangesAre, RangeIsOK DEF IndexInv, Size
  <2>3. sum \in Int
    BY <2>1, <2>2, SumOfType DEF IndexInv
  <2>4. stats[c].centroid[d] = q
    <3>1. stats[c].centroid[d] = centroid(ranges[c], d)
      BY <2>1 DEF ClusterMade, computeClusterStats
    <3>2. ranges[c].end # ranges[c].start
      BY <2>2 DEF RangeOK
    <3> QED BY <2>2, <3>1, <3>2 DEF centroid
  <2> HIDE DEF n, sum
  <2>5. half \in Nat /\ 2 * half <= n /\ n <= 2 * half + 1
    BY <2>2
  <2> HIDE DEF half
  <2>6. sum + half \in Int
    BY <2>3, <2>5
  <2>7. /\ q \in Int /\ n * q \in Int
        /\ sum + half >= 0 => n * q <= sum + half /\ sum + half < n * q + n
        /\ sum + half < 0 => sum + half <= n * q /\ n * q - n < sum + half /\ n * q <= 0
    BY <2>2, <2>6, QuotientIs
  <2> HIDE DEF q
  <2> DEFINE nq == n * q
  <2>8. /\ - n <= 2 * (nq - sum)
        /\ 2 * (nq - sum) <= n \/ (sum < 0 /\ 2 * (nq - sum) < 3 * n)
    <3> HIDE DEF nq
    <3>1. nq \in Int /\ n \in Nat \ {0}
      BY <2>2, <2>7 DEF nq
    <3>2. /\ sum + half >= 0 => nq <= sum + half /\ sum + half < nq + n
          /\ sum + half < 0 => sum + half <= nq /\ nq - n < sum + half /\ nq <= 0
      BY <2>7 DEF nq
    <3> QED BY <2>3, <2>5, <3>1, <3>2
  <2> QED BY <2>4, <2>8 DEF n, sum
<1> QED BY <1>1, SpecIndexInv, PTL

-----------------------------------------------------------------------------
(***************************************************************************)
(* The index that Build returns: arrays of numbers of these lengths.       *)
(***************************************************************************)
Array(a, n) == a = [i \in 0 .. (n - 1) |-> a[i]] /\ \A i \in 0 .. (n - 1) : a[i] \in Int

LEMMA WrittenIs ==
  ASSUME NEW count \in Nat, NEW writes, \A w \in writes : w.value \in Int
  PROVE  Array(Written(count, writes), count * blockStride)
<1> DEFINE f == Written(count, writes)
<1>1. f = [n \in 0 .. (count * blockStride - 1) |->
             IF \E w \in writes : w.at = n THEN (CHOOSE w \in writes : w.at = n).value ELSE 0]
  BY DEF Written
<1>2. ASSUME NEW n \in 0 .. (count * blockStride - 1) PROVE f[n] \in Int
  <2>1. CASE \E w \in writes : w.at = n
    <3>1. (CHOOSE w \in writes : w.at = n) \in writes
      BY <2>1
    <3> QED BY <1>1, <2>1, <3>1
  <2>2. CASE ~ \E w \in writes : w.at = n
    BY <1>1, <2>2
  <2> QED BY <2>1, <2>2
<1> HIDE DEF f
<1>3. f = [n \in 0 .. (count * blockStride - 1) |-> f[n]]
  BY <1>1
<1> QED BY <1>2, <1>3 DEF Array, f

(***************************************************************************)
(* The sides of the box of a cluster are the least and the greatest value. *)
(***************************************************************************)
LEMMA BoxIs ==
  ASSUME input \in Inputs, IdsOK, NEW r, RangeOK(r), NEW d \in Dimensions
  PROVE  /\ bboxMin(r, d) \in Int /\ bboxMax(r, d) \in Int
         /\ bboxMin(r, d) \in Values(r, d) /\ bboxMax(r, d) \in Values(r, d)
         /\ \A i \in r.start .. (r.end - 1) : /\ bboxMin(r, d) <= vectors[ids[i]][d]
                                              /\ vectors[ids[i]][d] <= bboxMax(r, d)
<1> DEFINE lo == r.start
           hi == r.end - 1
           f == [i \in lo .. hi |-> vectors[ids[i]][d]]
           g == [i \in lo .. hi |-> - f[i]]
<1>1. lo \in Int /\ hi \in Int /\ lo <= hi /\ r.end # r.start
  BY DEF RangeOK
<1>2. \A i \in lo .. hi : f[i] \in Int /\ f[i] = vectors[ids[i]][d]
  <2>1. lo .. hi \subseteq Ids(input)
    BY WindowIs DEF RangeOK
  <2> QED BY <2>1, InputIs DEF IdsOK
<1>3. Values(r, d) = {f[i] : i \in lo .. hi}
  BY DEF Values
<1>4. bboxMin(r, d) = Least(Values(r, d)) /\ bboxMax(r, d) = Greatest(Values(r, d))
  BY <1>1 DEF bboxMin, bboxMax
<1> HIDE DEF lo, hi, f
<1>5. PICK m \in lo .. hi : \A i \in lo .. hi : f[i] <= f[m]
  BY <1>1, <1>2, FirstGreatest
<1>6. \A i \in lo .. hi : g[i] \in Int /\ g[i] = - f[i]
  BY <1>2
<1> HIDE DEF g
<1>7. PICK l \in lo .. hi : \A i \in lo .. hi : g[i] <= g[l]
  BY <1>1, <1>6, FirstGreatest
<1>8. \A i \in lo .. hi : f[l] <= f[i]
  BY <1>2, <1>6, <1>7
<1>9. Least(Values(r, d)) \in Values(r, d) /\ \A v \in Values(r, d) : Least(Values(r, d)) <= v
  BY <1>3, <1>8 DEF Least
<1>10. Greatest(Values(r, d)) \in Values(r, d) /\ \A v \in Values(r, d) : v <= Greatest(Values(r, d))
  BY <1>3, <1>5 DEF Greatest
<1>11. \A v \in Values(r, d) : v \in Int
  BY <1>2, <1>3
<1>12. \A i \in lo .. hi : vectors[ids[i]][d] \in Values(r, d)
  BY <1>2, <1>3
<1> QED BY <1>4, <1>9, <1>10, <1>11, <1>12 DEF lo, hi

LEMMA DivIs ==
  ASSUME NEW w \in Nat \ {0}, NEW n \in Nat, NEW i \in 0 .. (n * w - 1)
  PROVE  /\ i \div w \in 0 .. (n - 1) /\ i % w \in 0 .. (w - 1)
         /\ i = w * (i \div w) + (i % w)
<1> DEFINE q == i \div w
<1>1. i = w * q + (i % w) /\ i % w \in 0 .. (w - 1) /\ q \in Nat
  OBVIOUS
<1>2. n * w = w * n /\ w * n \in Nat /\ w * q \in Nat
  BY <1>1
<1> HIDE DEF q
<1>3. ASSUME q >= n PROVE FALSE
  <2>1. w * q >= w * n
    BY <1>1, <1>3
  <2> QED BY <1>1, <1>2, <2>1
<1>4. q \in 0 .. (n - 1)
  BY <1>1, <1>3
<1> QED BY <1>1, <1>4 DEF q

LEMMA FlatIs ==
  ASSUME NEW v, clusters \in Nat,
         \A c \in 0 .. (clusters - 1) : \A d \in Dimensions : v[c][d] \in Int
  PROVE  Array(Flat(v), clusters * Dim)
<1>1. Dim \in Nat \ {0}
  BY SizesAssumption
<1>2. ASSUME NEW i \in 0 .. (clusters * Dim - 1)
      PROVE  i \div Dim \in 0 .. (clusters - 1) /\ i % Dim \in Dimensions
  BY <1>1, DivIs DEF Dimensions
<1> DEFINE f == Flat(v)
<1>3. f = [i \in 0 .. (clusters * Dim - 1) |-> v[i \div Dim][i % Dim]]
  BY DEF Flat
<1> HIDE DEF f
<1>4. \A i \in 0 .. (clusters * Dim - 1) : f[i] \in Int
  BY <1>2, <1>3
<1>5. f = [i \in 0 .. (clusters * Dim - 1) |-> f[i]]
  BY <1>3
<1> QED BY <1>4, <1>5 DEF Array, f

(***************************************************************************)
(* Rows and blocks of the clusters once they are all laid out.             *)
(***************************************************************************)
LEMMA RowsOfIs ==
  ASSUME IndexInv, stage = "done", NEW c \in 0 .. (clusters - 1)
  PROVE  /\ todo = <<>> /\ RangeOK(ranges[c]) /\ ClusterMade(c)
         /\ RowsOf(c) = ranges[c].start .. (ranges[c].end - 1)
         /\ RowsOf(c) \subseteq Ids(input)
<1>1. todo = <<>> /\ next = clusters /\ clusters \in Nat /\ input \in Inputs /\ BuildInv
  BY DEF IndexInv, BuildInv, TypeOK, LaidOut
<1>2. ClusterMade(c)
  BY <1>1 DEF IndexInv, LaidOut
<1>3. RangeOK(ranges[c]) /\ input.nVectors \in Nat
  BY <1>1, RangeIsOK, InputIs
<1>4. RowsOf(c) = ranges[c].start .. (ranges[c].end - 1)
  BY <1>2 DEF RowsOf, ClusterMade
<1>5. RowsOf(c) \subseteq Ids(input)
  BY <1>3, <1>4 DEF RangeOK, Ids
<1> QED BY <1>1, <1>2, <1>3, <1>4, <1>5

LEMMA StatsAre ==
  ASSUME IndexInv, stage = "done", NEW c \in 0 .. (clusters - 1), NEW d \in Dimensions
  PROVE  /\ stats[c].centroid[d] = centroid(ranges[c], d)
         /\ stats[c].bboxMin[d] = bboxMin(ranges[c], d)
         /\ stats[c].bboxMax[d] = bboxMax(ranges[c], d)
         /\ stats[c].centroid[d] \in Int /\ stats[c].bboxMin[d] \in Int
         /\ stats[c].bboxMax[d] \in Int
<1>1. ClusterMade(c) /\ RangeOK(ranges[c]) /\ input \in Inputs /\ IdsOK
  BY RowsOfIs DEF IndexInv, BuildInv, TypeOK
<1>2. stats[c] = computeClusterStats(ranges[c])
  BY <1>1 DEF ClusterMade
<1>3. /\ stats[c].centroid[d] = centroid(ranges[c], d)
      /\ stats[c].bboxMin[d] = bboxMin(ranges[c], d)
      /\ stats[c].bboxMax[d] = bboxMax(ranges[c], d)
  BY <1>2 DEF computeClusterStats
<1> QED BY <1>1, <1>3, CentroidType, BoxIs

LEMMA BlocksAre ==
  ASSUME IndexInv, stage = "done"
  PROVE  /\ blockOffsets[clusters] \in Nat \ {0}
         /\ Array(blocks, blockOffsets[clusters] * blockStride)
         /\ Array(centroidBlocks, blocksForRows(clusters) * blockStride)
<1>1. /\ clusters \in Nat \ {0} /\ input \in Inputs
      /\ blockOffsets \in [0 .. clusters -> Nat] /\ rows \in [Ids(input) -> Ids(input)]
      /\ blocks = buildIVFBlocks /\ centroidBlocks = buildCentroidBlocks
  BY DEF IndexInv, BuildInv, TypeOK, LaidOut
<1>2. blockOffsets[clusters] \in Nat \ {0}
  <2> DEFINE last == clusters - 1
  <2>1. last \in 0 .. (clusters - 1) /\ last + 1 = clusters /\ last \in 0 .. clusters
    BY <1>1
  <2>2. blockOffsets[clusters] = blockOffsets[last] + blocksForRows(Size(last))
        /\ RangeOK(ranges[last])
    BY <2>1, RowsOfIs DEF ClusterMade
  <2> HIDE DEF last
  <2>3. Size(last) \in Nat \ {0}
    BY <2>2 DEF RangeOK, Size
  <2>4. blocksForRows(Size(last)) \in Nat /\ Size(last) <= blocksForRows(Size(last)) * blockSize
    BY <2>3, blocksForRowsIs
  <2>5. blocksForRows(Size(last)) # 0
    <3>1. blockSize \in Nat /\ 0 * blockSize = 0
      BY SizesAssumption
    <3> QED BY <2>3, <2>4, <3>1
  <2> QED BY <1>1, <2>1, <2>2, <2>4, <2>5
<1>3. Array(blocks, blockOffsets[clusters] * blockStride)
  <2> DEFINE writes == UNION {{[at |-> At(blockOffsets[c], row - listOffsets[c], d),
                                value |-> vectors[rows[row]][d]] : row \in RowsOf(c), d \in Dimensions}
                              : c \in 0 .. (clusters - 1)}
  <2>1. ASSUME NEW c \in 0 .. (clusters - 1), NEW row \in RowsOf(c), NEW d \in Dimensions
        PROVE  vectors[rows[row]][d] \in Int
    BY <1>1, RowsOfIs, InputIs
  <2>2. \A w \in writes : w.value \in Int
    BY <2>1
  <2>3. blocks = Written(blockOffsets[clusters], writes)
    BY <1>1 DEF buildIVFBlocks
  <2> HIDE DEF writes
  <2> QED BY <1>2, <2>2, <2>3, WrittenIs
<1>4. Array(centroidBlocks, blocksForRows(clusters) * blockStride)
  <2> DEFINE writes == {[at |-> At(0, c, d), value |-> stats[c].centroid[d]]
                        : c \in 0 .. (clusters - 1), d \in Dimensions}
  <2>1. ASSUME NEW c \in 0 .. (clusters - 1), NEW d \in Dimensions
        PROVE  stats[c].centroid[d] \in Int
    BY StatsAre
  <2>2. \A w \in writes : w.value \in Int
    BY <2>1
  <2>3. centroidBlocks = Written(blocksForRows(clusters), writes)
    BY <1>1 DEF buildCentroidBlocks
  <2>4. blocksForRows(clusters) \in Nat
    BY <1>1, blocksForRowsIs
  <2> HIDE DEF writes
  <2> QED BY <2>2, <2>3, <2>4, WrittenIs
<1> QED BY <1>2, <1>3, <1>4

LEMMA IndexIs ==
  ASSUME IndexInv, stage = "done"
  PROVE  /\ Index.clusters = clusters /\ Count(Index) = input.nVectors
         /\ Array(Index.centroids, clusters * Dim)
         /\ Array(Index.centroidBlocks, blocksForRows(clusters) * blockStride)
         /\ Array(Index.listOffsets, clusters + 1) /\ Array(Index.blockOffsets, clusters + 1)
         /\ Array(Index.bboxMin, clusters * Dim) /\ Array(Index.bboxMax, clusters * Dim)
         /\ Array(Index.origIDs, input.nVectors) /\ Array(Index.labels, input.nVectors)
         /\ Array(Index.blocks, blockOffsets[clusters] * blockStride)
<1>1. /\ clusters \in Nat \ {0} /\ input \in Inputs /\ IdsOK
      /\ blockOffsets \in [0 .. clusters -> Nat] /\ listOffsets \in [0 .. clusters -> Nat]
      /\ rows \in [Ids(input) -> Ids(input)] /\ DOMAIN stats = 0 .. (clusters - 1)
  BY DEF IndexInv, BuildInv, TypeOK, LaidOut
<1>2. input.nVectors \in Nat \ {0} /\ Ids(input) = 0 .. (input.nVectors - 1)
  BY <1>1, InputIs DEF Ids
<1>3. ASSUME NEW c \in 0 .. (clusters - 1), NEW d \in Dimensions
      PROVE  stats[c].centroid[d] \in Int /\ stats[c].bboxMin[d] \in Int /\ stats[c].bboxMax[d] \in Int
  BY StatsAre
<1>4. Array(Index.centroids, clusters * Dim)
  <2> DEFINE v == [c \in DOMAIN stats |-> stats[c].centroid]
  <2>1. \A c \in 0 .. (clusters - 1) : \A d \in Dimensions : v[c][d] \in Int
    BY <1>1, <1>3
  <2>2. Index.centroids = Flat(v)
    BY DEF Index
  <2> HIDE DEF v
  <2> QED BY <1>1, <2>1, <2>2, FlatIs
<1>5. Array(Index.bboxMin, clusters * Dim)
  <2> DEFINE v == [c \in DOMAIN stats |-> stats[c].bboxMin]
  <2>1. \A c \in 0 .. (clusters - 1) : \A d \in Dimensions : v[c][d] \in Int
    BY <1>1, <1>3
  <2>2. Index.bboxMin = Flat(v)
    BY DEF Index
  <2> HIDE DEF v
  <2> QED BY <1>1, <2>1, <2>2, FlatIs
<1>6. Array(Index.bboxMax, clusters * Dim)
  <2> DEFINE v == [c \in DOMAIN stats |-> stats[c].bboxMax]
  <2>1. \A c \in 0 .. (clusters - 1) : \A d \in Dimensions : v[c][d] \in Int
    BY <1>1, <1>3
  <2>2. Index.bboxMax = Flat(v)
    BY DEF Index
  <2> HIDE DEF v
  <2> QED BY <1>1, <2>1, <2>2, FlatIs
<1>7. Array(Index.listOffsets, clusters + 1) /\ Array(Index.blockOffsets, clusters + 1)
  <2>1. (clusters + 1) - 1 = clusters
    BY <1>1
  <2>2. Index.listOffsets = listOffsets /\ Index.blockOffsets = blockOffsets
    BY DEF Index
  <2>3. listOffsets = [i \in 0 .. clusters |-> listOffsets[i]] /\ \A i \in 0 .. clusters : listOffsets[i] \in Int
    BY <1>1
  <2>4. blockOffsets = [i \in 0 .. clusters |-> blockOffsets[i]] /\ \A i \in 0 .. clusters : blockOffsets[i] \in Int
    BY <1>1
  <2> QED BY <2>1, <2>2, <2>3, <2>4 DEF Array
<1>8. Array(Index.origIDs, input.nVectors) /\ Array(Index.labels, input.nVectors)
  <2> DEFINE l == [row \in Ids(input) |-> IF input.labels[rows[row]] THEN 1 ELSE 0]
  <2>1. Index.origIDs = rows /\ Index.labels = l
    BY DEF Index
  <2>2. rows = [i \in Ids(input) |-> rows[i]] /\ \A i \in Ids(input) : rows[i] \in Int
    BY <1>1, InputIs
  <2>3. l = [i \in Ids(input) |-> l[i]] /\ \A i \in Ids(input) : l[i] \in Int
    OBVIOUS
  <2> HIDE DEF l
  <2> QED BY <1>2, <2>1, <2>2, <2>3 DEF Array
<1>9. Count(Index) = input.nVectors
  <2> DEFINE n == input.nVectors
  <2>1. DOMAIN Index.labels = 0 .. (n - 1)
    BY <1>2 DEF Index
  <2>2. 0 \in Int /\ n - 1 \in Int /\ n \in Nat \ {0}
    BY <1>2
  <2> HIDE DEF n
  <2>3. Cardinality(0 .. (n - 1)) = IF 0 > n - 1 THEN 0 ELSE (n - 1) - 0 + 1
    BY <2>2, FS_Interval
  <2> QED BY <2>1, <2>2, <2>3 DEF Count, n
<1>10. /\ Index.clusters = clusters /\ Index.centroidBlocks = centroidBlocks
       /\ Index.blocks = blocks
  BY DEF Index
<1> QED BY <1>4, <1>5, <1>6, <1>7, <1>8, <1>9, <1>10, BlocksAre

-----------------------------------------------------------------------------
(***************************************************************************)
(* The writes of Save, and where in the file each of them begins.          *)
(***************************************************************************)
Byte == Int \X Nat

LEMMA BytesAre ==
  ASSUME NEW w \in Nat \ {0}, NEW n \in Nat, NEW a, Array(a, n)
  PROVE  /\ Bytes(w, a) \in Seq(Byte) /\ Len(Bytes(w, a)) = w * n
         /\ \A j \in 1 .. (w * n) : Bytes(w, a)[j] = <<a[(j - 1) \div w], (j - 1) % w>>
<1>1. Cardinality(DOMAIN a) = n
  <2>1. DOMAIN a = 0 .. (n - 1)
    BY DEF Array
  <2>2. Cardinality(0 .. (n - 1)) = IF 0 > n - 1 THEN 0 ELSE (n - 1) - 0 + 1
    BY FS_Interval
  <2> QED BY <2>1, <2>2
<1>2. Bytes(w, a) = [i \in 1 .. (w * n) |-> <<a[(i - 1) \div w], (i - 1) % w>>]
  BY <1>1 DEF Bytes
<1>3. ASSUME NEW j \in 1 .. (w * n) PROVE <<a[(j - 1) \div w], (j - 1) % w>> \in Byte
  <2>1. j - 1 \in 0 .. (n * w - 1)
    <3>1. w * n = n * w /\ w * n \in Nat
      OBVIOUS
    <3> QED BY <3>1
  <2>2. (j - 1) \div w \in 0 .. (n - 1) /\ (j - 1) % w \in 0 .. (w - 1)
    BY <2>1, DivIs
  <2>3. a[(j - 1) \div w] \in Int /\ (j - 1) % w \in Nat
    BY <2>2 DEF Array
  <2> QED BY <2>3 DEF Byte
<1>4. w * n \in Nat
  OBVIOUS
<1>5. Bytes(w, a) \in [1 .. (w * n) -> Byte]
  BY <1>2, <1>3
<1>6. Bytes(w, a) \in Seq(Byte) /\ Len(Bytes(w, a)) = w * n
  BY <1>4, <1>5
<1> QED BY <1>2, <1>6

LEMMA ConcatIs ==
  ASSUME NEW S, NEW s \in Seq(S), NEW t \in Seq(S)
  PROVE  /\ s \o t \in Seq(S) /\ Len(s \o t) = Len(s) + Len(t)
         /\ \A j \in 1 .. Len(s) : (s \o t)[j] = s[j]
         /\ \A j \in 1 .. Len(t) : (s \o t)[Len(s) + j] = t[j]
OBVIOUS

Header == [i \in {0} |-> indexMagic]

Numbers(s) == [i \in 0 .. (Len(s) - 1) |-> s[i + 1]]

LEMMA NumbersAre ==
  ASSUME NEW s \in Seq(Int)
  PROVE  Array(Numbers(s), Len(s)) /\ Words(s) = Bytes(4, Numbers(s))
<1>1. \A i \in 0 .. (Len(s) - 1) : Numbers(s)[i] = s[i + 1] /\ s[i + 1] \in Int
  BY DEF Numbers
<1>2. Numbers(s) = [i \in 0 .. (Len(s) - 1) |-> Numbers(s)[i]]
  BY DEF Numbers
<1> QED BY <1>1, <1>2 DEF Array, Numbers, Words

First4(x) == <<indexVersion, Dim, quantScale, Count(x)>>
Next4(x)  == <<x.clusters, x.nprobe, x.ambiguousNprobe, IF x.repair THEN 1 ELSE 0>>

Padding(n) == IF n % 2 # 0 THEN <<<<0, 0>>>> ELSE <<>>

LEMMA WritesAre ==
  /\ DOMAIN Writes(Index) = 1 .. 12
  /\ Writes(Index)[1] = Bytes(8, Header) \o Words(First4(Index))
  /\ Writes(Index)[2] = Words(Next4(Index))
  /\ Writes(Index)[3] = Bytes(2, Index.centroids)
  /\ Writes(Index)[4] = Bytes(2, Index.centroidBlocks)
  /\ Writes(Index)[5] = Bytes(4, Index.listOffsets)
  /\ Writes(Index)[6] = Bytes(4, Index.blockOffsets)
  /\ Writes(Index)[7] = Bytes(2, Index.bboxMin)
  /\ Writes(Index)[8] = Bytes(2, Index.bboxMax)
  /\ Writes(Index)[9] = Bytes(4, Index.origIDs)
  /\ Writes(Index)[10] = Bytes(1, Index.labels)
  /\ Writes(Index)[11] = Padding(Count(Index))
  /\ Writes(Index)[12] = Bytes(2, Index.blocks)
BY DEF Writes, First4, Next4, Header, Padding

LEMMA HeadersAre ==
  ASSUME IndexInv, stage = "done"
  PROVE  /\ Array(Header, 1) /\ First4(Index) \in Seq(Int) /\ Len(First4(Index)) = 4
         /\ Next4(Index) \in Seq(Int) /\ Len(Next4(Index)) = 4
<1>1. Dim \in Int /\ Count(Index) \in Int /\ Index.clusters \in Int
  <2>1. clusters \in Nat /\ input \in Inputs
    BY DEF IndexInv, BuildInv, TypeOK
  <2> QED BY <2>1, IndexIs, InputIs, SizesAssumption
<1>2. Index.nprobe = 8 /\ Index.ambiguousNprobe = 24
  BY DEF Index
<1>3. Array(Header, 1)
  <2>1. 0 .. (1 - 1) = {0}
    OBVIOUS
  <2> QED BY <2>1 DEF Array, Header, indexMagic
<1>4. First4(Index) \in Seq(Int) /\ Len(First4(Index)) = 4
  BY <1>1 DEF First4, indexVersion, quantScale
<1>5. Next4(Index) \in Seq(Int) /\ Len(Next4(Index)) = 4
  BY <1>1, <1>2 DEF Next4
<1> QED BY <1>3, <1>4, <1>5

Lengths == [s \in 1 .. 12 |-> Len(Writes(Index)[s])]

Begin(s) == SumOver(Lengths, 1, s - 1)

LEMMA LengthsAre ==
  ASSUME IndexInv, stage = "done"
  PROVE  /\ \A s \in 1 .. 12 : Writes(Index)[s] \in Seq(Byte) /\ Lengths[s] \in Nat
         /\ Lengths[1] = 24 /\ Lengths[2] = 16
         /\ Lengths[3] = 2 * (clusters * Dim)
         /\ Lengths[4] = 2 * (blocksForRows(clusters) * blockStride)
         /\ Lengths[5] = 4 * (clusters + 1) /\ Lengths[6] = 4 * (clusters + 1)
         /\ Lengths[7] = 2 * (clusters * Dim) /\ Lengths[8] = 2 * (clusters * Dim)
         /\ Lengths[9] = 4 * input.nVectors /\ Lengths[10] = input.nVectors
         /\ Lengths[11] = input.nVectors % 2
         /\ Lengths[12] = 2 * (blockOffsets[clusters] * blockStride)
<1> DEFINE W(s) == Writes(Index)[s]
           Is(s, n) == W(s) \in Seq(Byte) /\ Len(W(s)) = n
<1>1. /\ clusters \in Nat \ {0} /\ input.nVectors \in Nat \ {0} /\ blockStride \in Nat
      /\ Dim \in Nat /\ blocksForRows(clusters) \in Nat /\ blockOffsets[clusters] \in Nat
  <2>1. clusters \in Nat \ {0} /\ input \in Inputs
    BY DEF IndexInv, BuildInv, TypeOK
  <2> QED BY <2>1, SizesAssumption, InputIs, blocksForRowsIs, BlocksAre DEF blockStride
<1>2. /\ clusters * Dim \in Nat /\ blocksForRows(clusters) * blockStride \in Nat
      /\ blockOffsets[clusters] * blockStride \in Nat /\ clusters + 1 \in Nat
  BY <1>1
<1>3. ASSUME NEW n \in Nat, NEW a, Array(a, n)
      PROVE  /\ Bytes(1, a) \in Seq(Byte) /\ Len(Bytes(1, a)) = n
             /\ Bytes(2, a) \in Seq(Byte) /\ Len(Bytes(2, a)) = 2 * n
             /\ Bytes(4, a) \in Seq(Byte) /\ Len(Bytes(4, a)) = 4 * n
             /\ Bytes(8, a) \in Seq(Byte) /\ Len(Bytes(8, a)) = 8 * n
  <2>1. ASSUME NEW w \in Nat \ {0}
        PROVE  Bytes(w, a) \in Seq(Byte) /\ Len(Bytes(w, a)) = w * n
    BY <1>3, BytesAre
  <2>2. 1 \in Nat \ {0} /\ 2 \in Nat \ {0} /\ 4 \in Nat \ {0} /\ 8 \in Nat \ {0} /\ 1 * n = n
    OBVIOUS
  <2> QED BY <2>1, <2>2
<1>wordsAre. ASSUME NEW s \in Seq(Int), Len(s) = 4
      PROVE  Words(s) \in Seq(Byte) /\ Len(Words(s)) = 16
  <2>1. Array(Numbers(s), Len(s)) /\ Words(s) = Bytes(4, Numbers(s)) /\ Len(s) \in Nat
    BY NumbersAre
  <2>2. Words(s) \in Seq(Byte) /\ Len(Words(s)) = 4 * Len(s)
    BY <1>3, <2>1
  <2> QED BY <1>wordsAre, <2>2
<1>4. /\ W(1) = Bytes(8, Header) \o Words(First4(Index)) /\ W(2) = Words(Next4(Index))
       /\ W(3) = Bytes(2, Index.centroids) /\ W(4) = Bytes(2, Index.centroidBlocks)
       /\ W(5) = Bytes(4, Index.listOffsets) /\ W(6) = Bytes(4, Index.blockOffsets)
       /\ W(7) = Bytes(2, Index.bboxMin) /\ W(8) = Bytes(2, Index.bboxMax)
       /\ W(9) = Bytes(4, Index.origIDs) /\ W(10) = Bytes(1, Index.labels)
       /\ W(11) = Padding(Count(Index)) /\ W(12) = Bytes(2, Index.blocks)
  BY WritesAre
<1>5. /\ Array(Index.centroids, clusters * Dim)
       /\ Array(Index.centroidBlocks, blocksForRows(clusters) * blockStride)
       /\ Array(Index.listOffsets, clusters + 1) /\ Array(Index.blockOffsets, clusters + 1)
       /\ Array(Index.bboxMin, clusters * Dim) /\ Array(Index.bboxMax, clusters * Dim)
       /\ Array(Index.origIDs, input.nVectors) /\ Array(Index.labels, input.nVectors)
       /\ Array(Index.blocks, blockOffsets[clusters] * blockStride)
       /\ Count(Index) = input.nVectors
  BY IndexIs
<1> HIDE DEF W
<1>6. Is(1, 24)
  <2>1. Bytes(8, Header) \in Seq(Byte) /\ Len(Bytes(8, Header)) = 8
    <3>1. PICK one \in Nat : one = 1
      OBVIOUS
    <3>2. Array(Header, one)
      BY <3>1, HeadersAre
    <3>3. Bytes(8, Header) \in Seq(Byte) /\ Len(Bytes(8, Header)) = 8 * one
      BY <1>3, <3>2
    <3>4. 8 * one = 8
      BY <3>1
    <3> QED BY <3>3, <3>4
  <2>2. Words(First4(Index)) \in Seq(Byte) /\ Len(Words(First4(Index))) = 16
    <3>1. First4(Index) \in Seq(Int) /\ Len(First4(Index)) = 4
      BY HeadersAre
    <3> QED BY <1>wordsAre, <3>1
  <2>3. W(1) = Bytes(8, Header) \o Words(First4(Index))
    BY <1>4
  <2> DEFINE a == Bytes(8, Header)
             b == Words(First4(Index))
  <2>4. a \in Seq(Byte) /\ b \in Seq(Byte) /\ Len(a) = 8 /\ Len(b) = 16
    BY <2>1, <2>2
  <2> HIDE DEF a, b
  <2>5. a \o b \in Seq(Byte) /\ Len(a \o b) = Len(a) + Len(b)
    BY <2>4, ConcatIs
  <2>6. Len(a \o b) = 24
    BY <2>4, <2>5
  <2> QED BY <2>3, <2>5, <2>6 DEF a, b
<1>7. Is(2, 16)
  <2>1. Next4(Index) \in Seq(Int) /\ Len(Next4(Index)) = 4
    BY HeadersAre
  <2> QED BY <1>wordsAre, <1>4, <2>1
<1>8. Is(3, 2 * (clusters * Dim))
  <2>1. W(3) = Bytes(2, Index.centroids) /\ Array(Index.centroids, (clusters * Dim)) /\ (clusters * Dim) \in Nat
    BY <1>1, <1>2, <1>4, <1>5
  <2> QED BY <1>3, <2>1
<1>9. Is(4, 2 * (blocksForRows(clusters) * blockStride))
  <2>1. W(4) = Bytes(2, Index.centroidBlocks) /\ Array(Index.centroidBlocks, (blocksForRows(clusters) * blockStride)) /\ (blocksForRows(clusters) * blockStride) \in Nat
    BY <1>1, <1>2, <1>4, <1>5
  <2> QED BY <1>3, <2>1
<1>10. Is(5, 4 * (clusters + 1))
  <2>1. W(5) = Bytes(4, Index.listOffsets) /\ Array(Index.listOffsets, (clusters + 1)) /\ (clusters + 1) \in Nat
    BY <1>1, <1>2, <1>4, <1>5
  <2> QED BY <1>3, <2>1
<1>11. Is(6, 4 * (clusters + 1))
  <2>1. W(6) = Bytes(4, Index.blockOffsets) /\ Array(Index.blockOffsets, (clusters + 1)) /\ (clusters + 1) \in Nat
    BY <1>1, <1>2, <1>4, <1>5
  <2> QED BY <1>3, <2>1
<1>12. Is(7, 2 * (clusters * Dim))
  <2>1. W(7) = Bytes(2, Index.bboxMin) /\ Array(Index.bboxMin, (clusters * Dim)) /\ (clusters * Dim) \in Nat
    BY <1>1, <1>2, <1>4, <1>5
  <2> QED BY <1>3, <2>1
<1>13. Is(8, 2 * (clusters * Dim))
  <2>1. W(8) = Bytes(2, Index.bboxMax) /\ Array(Index.bboxMax, (clusters * Dim)) /\ (clusters * Dim) \in Nat
    BY <1>1, <1>2, <1>4, <1>5
  <2> QED BY <1>3, <2>1
<1>14. Is(9, 4 * input.nVectors)
  <2>1. W(9) = Bytes(4, Index.origIDs) /\ Array(Index.origIDs, input.nVectors) /\ input.nVectors \in Nat
    BY <1>1, <1>2, <1>4, <1>5
  <2> QED BY <1>3, <2>1
<1>15. Is(10, input.nVectors)
  <2>1. W(10) = Bytes(1, Index.labels) /\ Array(Index.labels, input.nVectors) /\ input.nVectors \in Nat
    BY <1>1, <1>4, <1>5
  <2> QED BY <1>3, <2>1
<1>16. Is(11, input.nVectors % 2)
  <2>1. W(11) = Padding(input.nVectors)
    BY <1>4, <1>5
  <2>2. input.nVectors % 2 \in {0, 1}
    BY <1>1
  <2>3. <<<<0, 0>>>> \in Seq(Byte) /\ <<>> \in Seq(Byte) /\ Len(<<<<0, 0>>>>) = 1
    BY DEF Byte
  <2> QED BY <2>1, <2>2, <2>3 DEF Padding
<1>17. Is(12, 2 * (blockOffsets[clusters] * blockStride))
  <2>1. W(12) = Bytes(2, Index.blocks) /\ Array(Index.blocks, (blockOffsets[clusters] * blockStride)) /\ (blockOffsets[clusters] * blockStride) \in Nat
    BY <1>1, <1>2, <1>4, <1>5
  <2> QED BY <1>3, <2>1
<1>18. \A s \in 1 .. 12 : Lengths[s] = Len(W(s))
  BY DEF Lengths, W
<1>19. \A s \in 1 .. 12 : W(s) \in Seq(Byte)
  <2>1. \A s \in 1 .. 12 : s \in {1, 2, 3, 4, 5, 6, 7, 8, 9, 10, 11, 12}
    OBVIOUS
  <2> QED BY <1>6, <1>7, <1>8, <1>9, <1>10, <1>11, <1>12, <1>13, <1>14, <1>15, <1>16, <1>17, <2>1
<1>20. \A s \in 1 .. 12 : Lengths[s] \in Nat
  <2>1. ASSUME NEW t \in Seq(Byte) PROVE Len(t) \in Nat
    OBVIOUS
  <2> QED BY <1>18, <1>19, <2>1
<1>21. /\ Lengths[1] = Len(W(1)) /\ Lengths[2] = Len(W(2)) /\ Lengths[3] = Len(W(3))
       /\ Lengths[4] = Len(W(4)) /\ Lengths[5] = Len(W(5)) /\ Lengths[6] = Len(W(6))
       /\ Lengths[7] = Len(W(7)) /\ Lengths[8] = Len(W(8)) /\ Lengths[9] = Len(W(9))
       /\ Lengths[10] = Len(W(10)) /\ Lengths[11] = Len(W(11)) /\ Lengths[12] = Len(W(12))
  BY DEF Lengths, W
<1>22. \A s \in 1 .. 12 : Writes(Index)[s] \in Seq(Byte) /\ Lengths[s] \in Nat
  BY <1>19, <1>20 DEF W
<1> QED BY <1>6, <1>7, <1>8, <1>9, <1>10, <1>11, <1>12, <1>13, <1>14, <1>15, <1>16, <1>17, <1>21,
           <1>22

LEMMA PrefixSums ==
  ASSUME NEW n \in Nat, NEW f, \A i \in 1 .. n : f[i] \in Nat
  PROVE  /\ SumOver(f, 1, 0) = 0
         /\ \A i \in 1 .. n : SumOver(f, 1, i) = SumOver(f, 1, i - 1) + f[i]
         /\ \A i \in 0 .. n : SumOver(f, 1, i) \in Nat
<1>1. PICK s : SumsOf(s, f, 1, n)
  <2>1. \A i \in 1 .. n : f[i] \in Int
    OBVIOUS
  <2>2. \E s : SumsOf(s, f, 1, n) /\ SumOver(f, 1, n) = s[n]
    BY <2>1, SumOverIs
  <2> QED BY <2>2
<1>2. /\ s \in [0 .. n -> Int] /\ s[0] = 0
      /\ \A i \in 1 .. n : s[i] = s[i - 1] + f[i]
  BY <1>1 DEF SumsOf
<1>3. ASSUME NEW m \in 0 .. n PROVE SumOver(f, 1, m) = s[m]
  <2>1. PICK t : SumsOf(t, f, 1, m) /\ SumOver(f, 1, m) = t[m]
    BY SumOverIs
  <2>2. t[0] = 0 /\ \A i \in 1 .. m : t[i] = t[i - 1] + f[i]
    BY <2>1 DEF SumsOf
  <2> DEFINE T == {i \in 0 .. m : s[i] = t[i]}
  <2>3. 0 \in T
    BY <1>2, <2>2
  <2>4. ASSUME NEW i \in 0 .. (m - 1), i \in T PROVE i + 1 \in T
    <3>1. i + 1 \in 1 .. m /\ i + 1 \in 1 .. n /\ (i + 1) - 1 = i /\ i + 1 \in 0 .. m
      OBVIOUS
    <3>2. s[i + 1] = s[i] + f[i + 1] /\ t[i + 1] = t[i] + f[i + 1]
      BY <1>2, <2>2, <3>1
    <3> QED BY <2>4, <3>1, <3>2
  <2>5. 0 .. m \subseteq T
    <3> HIDE DEF T
    <3> QED BY <2>3, <2>4, IntervalInduction
  <2>6. m \in 0 .. m
    OBVIOUS
  <2> QED BY <2>1, <2>5, <2>6
<1>4. 0 .. n \subseteq {i \in 0 .. n : s[i] \in Nat}
  <2> DEFINE T == {i \in 0 .. n : s[i] \in Nat}
  <2>1. 0 \in T
    BY <1>2
  <2>2. ASSUME NEW i \in 0 .. (n - 1), i \in T PROVE i + 1 \in T
    <3>1. i + 1 \in 1 .. n /\ (i + 1) - 1 = i /\ i + 1 \in 0 .. n
      OBVIOUS
    <3>2. s[i + 1] = s[i] + f[i + 1] /\ f[i + 1] \in Nat
      BY <1>2, <3>1
    <3> QED BY <2>2, <3>1, <3>2
  <2> HIDE DEF T
  <2>3. 0 .. n \subseteq T
    BY <2>1, <2>2, IntervalInduction
  <2> QED BY <2>3 DEF T
<1>5. SumOver(f, 1, 0) = 0
  <2>1. 0 \in 0 .. n
    OBVIOUS
  <2> QED BY <1>2, <1>3, <2>1
<1>6. ASSUME NEW i \in 1 .. n PROVE SumOver(f, 1, i) = SumOver(f, 1, i - 1) + f[i]
  <2>1. i \in 0 .. n /\ i - 1 \in 0 .. n
    OBVIOUS
  <2> QED BY <1>2, <1>3, <2>1
<1> QED BY <1>3, <1>4, <1>5, <1>6

LEMMA BeginIs ==
  ASSUME IndexInv, stage = "done"
  PROVE  /\ Begin(1) = 0
         /\ \A s \in 1 .. 12 : Begin(s + 1) = Begin(s) + Lengths[s]
         /\ \A s \in 1 .. 13 : Begin(s) \in Nat
         /\ \A s \in 1 .. 13 : \A t \in s .. 13 : Begin(s) <= Begin(t)
<1> DEFINE sum(s) == SumOver(Lengths, 1, s)
<1>1. \A s \in 1 .. 12 : Lengths[s] \in Nat
  BY LengthsAre
<1>2. /\ sum(0) = 0 /\ \A s \in 1 .. 12 : sum(s) = sum(s - 1) + Lengths[s]
      /\ \A s \in 0 .. 12 : sum(s) \in Nat
  <2>1. PICK n \in Nat : n = 12
    OBVIOUS
  <2>2. \A s \in 1 .. n : Lengths[s] \in Nat
    BY <1>1, <2>1
  <2> HIDE DEF Lengths
  <2>3. /\ sum(0) = 0 /\ \A s \in 1 .. n : sum(s) = sum(s - 1) + Lengths[s]
        /\ \A s \in 0 .. n : sum(s) \in Nat
    BY <2>2, PrefixSums
  <2> QED BY <2>1, <2>3
<1> HIDE DEF sum
<1>3. \A s : Begin(s) = sum(s - 1)
  BY DEF Begin, sum
<1>4. Begin(1) = 0
  <2>1. 1 - 1 = 0
    OBVIOUS
  <2> QED BY <1>2, <1>3, <2>1
<1>5. ASSUME NEW s \in 1 .. 12 PROVE Begin(s + 1) = Begin(s) + Lengths[s]
  <2>1. (s + 1) - 1 = s
    OBVIOUS
  <2> QED BY <1>2, <1>3, <2>1
<1>6. ASSUME NEW s \in 1 .. 13 PROVE Begin(s) \in Nat
  <2>1. s - 1 \in 0 .. 12
    OBVIOUS
  <2> QED BY <1>2, <1>3, <2>1
<1>7. ASSUME NEW s \in 1 .. 13, NEW t \in s .. 13 PROVE Begin(s) <= Begin(t)
  <2> DEFINE T == {i \in s .. 13 : Begin(s) <= Begin(i)}
  <2>1. s \in T
    BY <1>6
  <2>2. ASSUME NEW i \in s .. (13 - 1), i \in T PROVE i + 1 \in T
    <3>1. i \in 1 .. 12 /\ i + 1 \in s .. 13 /\ i \in 1 .. 13 /\ i + 1 \in 1 .. 13
      OBVIOUS
    <3>2. Begin(i + 1) = Begin(i) + Lengths[i] /\ Lengths[i] \in Nat
      BY <1>1, <1>5, <3>1
    <3> QED BY <1>6, <2>2, <3>1, <3>2
  <2> HIDE DEF T
  <2>3. s .. 13 \subseteq T
    <3>1. s \in Int /\ 13 \in Int
      OBVIOUS
    <3> QED BY <2>1, <2>2, <3>1, IntervalInduction
  <2> QED BY <2>3 DEF T
<1> QED BY <1>4, <1>5, <1>6, <1>7

LEMMA WritesSame ==
  ASSUME UNCHANGED vars
  PROVE  Index' = Index /\ Writes(Index)' = Writes(Index) /\ Lengths' = Lengths
<1>1. /\ input' = input /\ clusters' = clusters /\ stats' = stats /\ rows' = rows
      /\ listOffsets' = listOffsets /\ blockOffsets' = blockOffsets
      /\ blocks' = blocks /\ centroidBlocks' = centroidBlocks
  BY DEF vars
<1>2. Index' = Index
  BY <1>1 DEF Index, Flat, Ids
<1>3. Writes(Index)' = Writes(Index)
  BY <1>2
<1> QED BY <1>2, <1>3 DEF Lengths

(***************************************************************************)
(* The file holds what was written, each write at its place, however far   *)
(* it goes.                                                                *)
(***************************************************************************)
Laid(f) ==
  \A s \in 1 .. 12 : \A j \in 1 .. Lengths[s] :
    Begin(s) + j <= Len(f) => f[Begin(s) + j] = Writes(Index)[s][j]

FileInv ==
  /\ section \in 0 .. 12 /\ file \in Seq(Byte)
  /\ saver \in {"idle", "saving", "saved", "stopped"}
  /\ saver = "idle" => file = <<>> /\ section = 0
  /\ saver # "idle" => stage = "done" /\ Laid(file)
  /\ saver = "saving" => section \in 0 .. 11 /\ Len(file) = Begin(section + 1)
  /\ saver = "saved" => Len(file) = Begin(13)
  /\ saver = "stopped" => Len(file) < Begin(13)

LEMMA AppendLaid ==
  ASSUME IndexInv, stage = "done", NEW f \in Seq(Byte), NEW t \in 1 .. 12,
         Len(f) = Begin(t), Laid(f),
         NEW g \in Seq(Byte), Len(g) <= Lengths[t],
         \A j \in 1 .. Len(g) : g[j] = Writes(Index)[t][j]
  PROVE  /\ f \o g \in Seq(Byte) /\ Len(f \o g) = Begin(t) + Len(g)
         /\ Laid(f \o g)
<1> DEFINE h == f \o g
<1>1. /\ h \in Seq(Byte) /\ Len(h) = Begin(t) + Len(g)
      /\ \A j \in 1 .. Len(f) : h[j] = f[j]
      /\ \A j \in 1 .. Len(g) : h[Len(f) + j] = g[j]
  <2>1. f \o g \in Seq(Byte) /\ Len(f \o g) = Len(f) + Len(g)
    BY ConcatIs
  <2>2. \A j \in 1 .. Len(f) : (f \o g)[j] = f[j]
    OBVIOUS
  <2>3. \A j \in 1 .. Len(g) : (f \o g)[Len(f) + j] = g[j]
    OBVIOUS
  <2> QED BY <2>1, <2>2, <2>3
<1>2. Len(g) \in Nat /\ Len(f) \in Nat
  OBVIOUS
<1> HIDE DEF h
<1>3. ASSUME NEW s \in 1 .. 12, NEW j \in 1 .. Lengths[s], Begin(s) + j <= Len(h)
      PROVE  h[Begin(s) + j] = Writes(Index)[s][j]
  <2>1. /\ Begin(s) \in Nat /\ Begin(t) \in Nat /\ Lengths[s] \in Nat /\ Lengths[t] \in Nat
        /\ Begin(s + 1) = Begin(s) + Lengths[s] /\ Begin(t + 1) = Begin(t) + Lengths[t]
    <3>1. s \in 1 .. 13 /\ t \in 1 .. 13
      OBVIOUS
    <3> QED BY <3>1, LengthsAre, BeginIs
  <2>2. CASE s < t
    <3>1. Begin(s + 1) <= Begin(t)
      <4>1. s + 1 \in 1 .. 13 /\ t \in (s + 1) .. 13
        BY <2>2
      <4> QED BY <4>1, BeginIs
    <3>2. Begin(s) + j \in 1 .. Len(f)
      BY <2>1, <3>1
    <3>3. Begin(s) + j <= Len(f)
      BY <3>2
    <3>4. f[Begin(s) + j] = Writes(Index)[s][j]
      BY <3>3 DEF Laid
    <3> QED BY <1>1, <3>2, <3>4
  <2>3. CASE s = t
    <3>1. j \in 1 .. Len(g) /\ Begin(s) = Len(f)
      BY <1>1, <1>2, <1>3, <2>1, <2>3
    <3> QED BY <1>1, <2>3, <3>1
  <2>4. CASE s > t
    <3>1. Begin(t + 1) <= Begin(s)
      <4>1. t + 1 \in 1 .. 13 /\ s \in (t + 1) .. 13
        BY <2>4
      <4> QED BY <4>1, BeginIs
    <3>2. FALSE
      BY <1>1, <1>2, <1>3, <2>1, <3>1
    <3> QED BY <3>2
  <2> QED BY <2>2, <2>3, <2>4
<1>4. Laid(h)
  BY <1>3 DEF Laid
<1> QED BY <1>1, <1>4 DEF h

LEMMA LaidSame ==
  ASSUME UNCHANGED vars, NEW f, f = file', Laid(f)
  PROVE  Laid(file)'
<1>1. Writes(Index)' = Writes(Index) /\ Lengths' = Lengths
  BY WritesSame
<1>2. \A s : Begin(s)' = Begin(s)
  BY <1>1 DEF Begin
<1> QED BY <1>1, <1>2 DEF Laid

LEMMA FileSame ==
  ASSUME FileInv, UNCHANGED vars, UNCHANGED <<section, file, saver>>
  PROVE  FileInv'
<1>1. stage' = stage
  BY DEF vars
<1>2. \A s : Begin(s)' = Begin(s)
  BY WritesSame DEF Begin
<1>3. Laid(file) => Laid(file)'
  BY LaidSame
<1> QED BY <1>1, <1>2, <1>3 DEF FileInv

LEMMA NextFileInv ==
  ASSUME IndexInv, FileInv, [Next]_<<vars, fileVars, scanVars>>
  PROVE  FileInv'
<1>1. CASE Create
  <2>1. stage = "done" /\ saver = "idle" /\ saver' = "saving" /\ UNCHANGED <<vars, section, file>>
    BY <1>1 DEF Create
  <2>2. stage' = "done" /\ \A s : Begin(s)' = Begin(s)
    BY <2>1, WritesSame DEF vars, Begin
  <2>3. file = <<>> /\ section = 0 /\ Len(file) = 0
    BY <2>1 DEF FileInv
  <2>4. Laid(file)
    <3>1. \A s \in 1 .. 12 : \A j \in 1 .. Lengths[s] : Begin(s) \in Nat
      BY <2>1, BeginIs
    <3> QED BY <2>3, <3>1 DEF Laid
  <2>5. Laid(file)'
    BY <2>1, <2>4, LaidSame
  <2>6. section' = 0 /\ file' = <<>> /\ Len(file)' = Begin(section + 1)'
    <3>1. Begin(0 + 1) = 0
      BY <2>1, BeginIs
    <3> QED BY <2>1, <2>2, <2>3, <3>1
  <2> QED BY <2>1, <2>2, <2>5, <2>6 DEF FileInv
<1>2. CASE Save
  <2> DEFINE t == section + 1
             g == Writes(Index)[t]
  <2>1. /\ saver = "saving" /\ file' = file \o g /\ section' = t
        /\ saver' = IF t = 12 THEN "saved" ELSE "saving"
        /\ UNCHANGED vars
    BY <1>2 DEF Save, Sections
  <2>2. /\ stage = "done" /\ stage' = "done" /\ \A s : Begin(s)' = Begin(s)
        /\ t \in 1 .. 12 /\ Len(file) = Begin(t) /\ Laid(file) /\ file \in Seq(Byte)
    BY <2>1, WritesSame DEF FileInv, vars, Begin
  <2>3. g \in Seq(Byte) /\ Len(g) = Lengths[t] /\ Lengths[t] \in Nat /\ Begin(t + 1) = Begin(t) + Lengths[t]
    BY <2>2, LengthsAre, BeginIs DEF Lengths
  <2> HIDE DEF t, g
  <2>4. g = Writes(Index)[t]
    BY DEF g
  <2>5. file' \in Seq(Byte) /\ Len(file') = Begin(t + 1) /\ Laid(file')
    <3>1. /\ file \o g \in Seq(Byte) /\ Len(file \o g) = Begin(t) + Len(g)
          /\ Laid(file \o g)
      <4>1. Len(g) <= Lengths[t] /\ \A j \in 1 .. Len(g) : g[j] = Writes(Index)[t][j]
        BY <2>3, <2>4
      <4> QED BY <2>2, <2>3, <4>1, AppendLaid
    <3> QED BY <2>1, <2>3, <3>1
  <2>6. Laid(file)'
    <3>1. PICK f : f = file'
      OBVIOUS
    <3>2. Laid(f)
      BY <2>5, <3>1
    <3> QED BY <2>1, <3>1, <3>2, LaidSame
  <2>7. CASE t = 12
    <3>1. saver' = "saved" /\ section' = 12 /\ Len(file)' = Begin(13)'
      BY <2>1, <2>2, <2>5, <2>7
    <3> QED BY <2>2, <2>5, <2>6, <3>1 DEF FileInv
  <2>8. CASE t # 12
    <3>1. saver' = "saving" /\ section' = t /\ t \in 0 .. 11 /\ Len(file)' = Begin(section + 1)'
      BY <2>1, <2>2, <2>5, <2>8
    <3> QED BY <2>2, <2>5, <2>6, <3>1 DEF FileInv
  <2> QED BY <2>7, <2>8
<1>3. CASE SaveStops
  <2> DEFINE t == section + 1
             w == Writes(Index)[t]
  <2>1. /\ saver = "saving" /\ saver' = "stopped" /\ UNCHANGED <<vars, section>>
        /\ \E n \in 0 .. (Len(w) - 1) : file' = file \o SubSeq(w, 1, n)
    BY <1>3 DEF SaveStops
  <2>2. PICK n \in 0 .. (Len(w) - 1) : file' = file \o SubSeq(w, 1, n)
    BY <2>1
  <2>3. /\ stage = "done" /\ stage' = "done" /\ \A s : Begin(s)' = Begin(s)
        /\ t \in 1 .. 12 /\ Len(file) = Begin(t) /\ Laid(file) /\ file \in Seq(Byte)
    BY <2>1, WritesSame DEF FileInv, vars, Begin
  <2>4. /\ w \in Seq(Byte) /\ Len(w) = Lengths[t] /\ Lengths[t] \in Nat
        /\ Begin(t) \in Nat /\ Begin(t + 1) = Begin(t) + Lengths[t] /\ Begin(t + 1) <= Begin(13)
        /\ Begin(t + 1) \in Nat /\ Begin(13) \in Nat
    <3>1. t \in 1 .. 13 /\ t + 1 \in 1 .. 13 /\ 13 \in (t + 1) .. 13 /\ 13 \in 1 .. 13
      BY <2>3
    <3> QED BY <2>3, <3>1, LengthsAre, BeginIs DEF Lengths
  <2> DEFINE g == SubSeq(w, 1, n)
  <2> HIDE DEF t
  <2>5. w = Writes(Index)[t]
    BY DEF t
  <2> HIDE DEF w
  <2>6. g \in Seq(Byte) /\ Len(g) = n /\ \A j \in 1 .. n : g[j] = w[j]
    <3>1. n \in 0 .. Len(w)
      BY <2>2, <2>4
    <3> HIDE DEF Byte
    <3> QED BY <2>4, <3>1
  <2> HIDE DEF g
  <2>7. file' \in Seq(Byte) /\ Len(file') < Begin(13) /\ Laid(file')
    <3>1. Len(g) <= Lengths[t] /\ \A j \in 1 .. Len(g) : g[j] = Writes(Index)[t][j]
      BY <2>2, <2>4, <2>5, <2>6
    <3>2. /\ file \o g \in Seq(Byte) /\ Len(file \o g) = Begin(t) + Len(g)
          /\ Laid(file \o g)
      BY <2>3, <2>6, <3>1, AppendLaid
    <3>3. file' = file \o g
      BY <2>2 DEF g
    <3>4. n < Lengths[t]
      BY <2>2, <2>4
    <3>5. Begin(t) + n < Begin(13)
      BY <2>2, <2>4, <3>4
    <3> QED BY <2>6, <3>2, <3>3, <3>5
  <2>8. Laid(file)'
    <3>1. PICK f : f = file'
      OBVIOUS
    <3>2. Laid(f)
      BY <2>7, <3>1
    <3> QED BY <2>1, <3>1, <3>2, LaidSame
  <2>9. section' \in 0 .. 12 /\ Len(file)' < Begin(13)'
    BY <2>1, <2>3, <2>7 DEF FileInv
  <2> QED BY <2>1, <2>3, <2>7, <2>8, <2>9 DEF FileInv
<1>4. CASE BuildNext /\ UNCHANGED <<fileVars, scanVars>>
  <2>1. UNCHANGED <<section, file, saver>>
    BY <1>4 DEF fileVars
  <2>2. CASE saver = "idle"
    BY <2>1, <2>2 DEF FileInv
  <2>3. CASE saver # "idle"
    <3>1. stage = "done" /\ todo = <<>> /\ stage # "split" /\ stage # "materialize"
      <4>1. stage = "done"
        BY <2>3 DEF FileInv
      <4>2. clusters - 1 \in 0 .. (clusters - 1)
        BY DEF IndexInv, BuildInv, TypeOK
      <4> QED BY <4>1, <4>2, RowsOfIs
    <3>2. ~ BuildNext
      BY <3>1 DEF BuildNext, Leaf, Split, SplitEnds, MakeCluster, MakeBlocks
    <3> QED BY <1>4, <3>2
  <2> QED BY <2>2, <2>3
<1>5. CASE Load \/ Ask \/ Scan \/ Stopped \/ UNCHANGED <<vars, fileVars, scanVars>>
  <2>1. UNCHANGED vars /\ UNCHANGED <<section, file, saver>>
    BY <1>5 DEF Load, Ask, Scan, Stopped, fileVars
  <2> QED BY <2>1, FileSame
<1> QED BY <1>1, <1>2, <1>3, <1>4, <1>5 DEF Next, FileNext

-----------------------------------------------------------------------------
(***************************************************************************)
(* Reading: where the bytes of an array of w bytes each lie, its values    *)
(* are read, and NoValue where the file has ended.                         *)
(***************************************************************************)
Widths == {1, 2, 4, 8}

Lies(p, w, a, m) ==
  \A j \in 1 .. (w * m) :
    p + j <= Len(file) => file[p + j] = <<a[(j - 1) \div w], (j - 1) % w>>

LEMMA PlaceIs ==
  ASSUME NEW w \in Widths, NEW m \in Nat, NEW i \in 0 .. (m - 1), NEW k \in 0 .. (w - 1)
  PROVE  /\ i * w + 1 + k \in 1 .. (w * m)
         /\ ((i * w + 1 + k) - 1) \div w = i /\ ((i * w + 1 + k) - 1) % w = k
<1>1. CASE w = 1
  BY <1>1
<1>2. CASE w = 2
  BY <1>2
<1>3. CASE w = 4
  BY <1>3
<1>4. CASE w = 8
  BY <1>4
<1> QED BY <1>1, <1>2, <1>3, <1>4 DEF Widths

LEMMA ReadIs ==
  ASSUME file \in Seq(Byte), NEW p \in Nat, NEW w \in Widths, NEW m \in Nat,
         NEW a, Lies(p, w, a, m), NEW i \in 0 .. (m - 1)
  PROVE  ValueAt(w, p + i * w) = IF p + i * w + w <= Len(file) THEN a[i] ELSE NoValue
<1>1. w \in Nat \ {0} /\ i \in Nat /\ Len(file) \in Nat /\ i * w \in Nat
  BY DEF Widths
<1>2. CASE ~ (p + i * w + w <= Len(file))
  <2>1. p + i * w + w > Len(file)
    BY <1>1, <1>2
  <2> QED BY <1>2, <2>1 DEF ValueAt
<1>3. CASE p + i * w + w <= Len(file)
  <2>1. ASSUME NEW k \in 0 .. (w - 1) PROVE file[p + i * w + 1 + k] = <<a[i], k>>
    <3> DEFINE j == i * w + 1 + k
    <3>1. j \in 1 .. (w * m) /\ (j - 1) \div w = i /\ (j - 1) % w = k
      BY PlaceIs
    <3>2. p + j = p + i * w + 1 + k /\ p + j <= Len(file)
      BY <1>1, <1>3
    <3> HIDE DEF j
    <3>3. file[p + j] = <<a[(j - 1) \div w], (j - 1) % w>>
      BY <3>1, <3>2 DEF Lies
    <3> QED BY <3>1, <3>2, <3>3
  <2>2. 0 \in 0 .. (w - 1) /\ p + i * w + 1 + 0 = p + i * w + 1
    BY <1>1
  <2>3. file[p + i * w + 1] = <<a[i], 0>>
    BY <2>1, <2>2
  <2>4. ~ (p + i * w + w > Len(file))
    BY <1>1, <1>3
  <2> QED BY <1>3, <2>1, <2>3, <2>4 DEF ValueAt
<1> QED BY <1>2, <1>3

LEMMA ArrayReadIs ==
  ASSUME file \in Seq(Byte), NEW p \in Nat, NEW w \in Widths, NEW m \in Nat,
         NEW a, Array(a, m), Lies(p, w, a, m), p + w * m <= Len(file)
  PROVE  ArrayAt(w, p, m) = a
<1>1. ASSUME NEW i \in 0 .. (m - 1) PROVE ValueAt(w, p + i * w) = a[i]
  <2>1. p + i * w + w <= Len(file)
    <3>1. i * w + w <= w * m /\ i * w \in Nat /\ w * m \in Nat
      <4>1. CASE w = 1
        BY <4>1
      <4>2. CASE w = 2
        BY <4>2
      <4>3. CASE w = 4
        BY <4>3
      <4>4. CASE w = 8
        BY <4>4
      <4> QED BY <4>1, <4>2, <4>3, <4>4 DEF Widths
    <3>2. w \in Nat /\ Len(file) \in Nat
      BY DEF Widths
    <3> QED BY <3>1, <3>2
  <2> QED BY <2>1, ReadIs
<1>2. a = [i \in 0 .. (m - 1) |-> a[i]]
  BY DEF Array
<1> QED BY <1>1, <1>2 DEF ArrayAt

(***************************************************************************)
(* What lies where in the file of the index.                               *)
(***************************************************************************)
LEMMA SectionLies ==
  ASSUME Laid(file), NEW s \in 1 .. 12, NEW w \in Nat \ {0}, NEW m \in Nat,
         NEW a, Array(a, m), Writes(Index)[s] = Bytes(w, a)
  PROVE  Lies(Begin(s), w, a, m)
<1>1. Lengths[s] = w * m /\ \A j \in 1 .. (w * m) :
        Writes(Index)[s][j] = <<a[(j - 1) \div w], (j - 1) % w>>
  BY BytesAre DEF Lengths
<1> QED BY <1>1 DEF Lies, Laid

LEMMA WordIs ==
  ASSUME file \in Seq(Byte), NEW p \in Nat, NEW s \in Seq(Int),
         Lies(p, 4, Numbers(s), Len(s)), p + 4 * Len(s) <= Len(file),
         NEW i \in 1 .. Len(s), NEW off, off = p + 4 * (i - 1)
  PROVE  ValueAt(4, off) = s[i]
<1>1. PICK w \in Widths : w = 4
  BY DEF Widths
<1>2. Array(Numbers(s), Len(s)) /\ Len(s) \in Nat
  BY NumbersAre
<1>3. Lies(p, w, Numbers(s), Len(s)) /\ p + w * Len(s) <= Len(file)
  BY <1>1
<1>4. ArrayAt(w, p, Len(s)) = Numbers(s)
  BY <1>2, <1>3, ArrayReadIs
<1>5. i - 1 \in 0 .. (Len(s) - 1) /\ off = p + (i - 1) * w
  BY <1>1
<1>6. ValueAt(w, off) = Numbers(s)[i - 1]
  BY <1>4, <1>5 DEF ArrayAt
<1>7. Numbers(s)[i - 1] = s[i]
  BY <1>5 DEF Numbers
<1> QED BY <1>1, <1>6, <1>7

LEMMA HeadersLie ==
  ASSUME IndexInv, stage = "done", Laid(file)
  PROVE  /\ Lies(0, 8, Header, 1)
         /\ Lies(8, 4, Numbers(First4(Index)), Len(First4(Index)))
         /\ Lies(24, 4, Numbers(Next4(Index)), Len(Next4(Index)))
<1> DEFINE a == Bytes(8, Header)
           s == First4(Index)
           t == Next4(Index)
<1>1. /\ Array(Header, 1) /\ s \in Seq(Int) /\ Len(s) = 4 /\ t \in Seq(Int) /\ Len(t) = 4
  BY HeadersAre
<1>2. /\ Writes(Index)[1] = a \o Words(s) /\ Writes(Index)[2] = Words(t)
      /\ Lengths[1] = 24 /\ Lengths[2] = 16
  BY WritesAre, LengthsAre
<1>3. Begin(1) = 0 /\ Begin(2) = 24
  <2>1. Begin(1 + 1) = Begin(1) + Lengths[1] /\ Begin(1) = 0
    BY BeginIs
  <2> QED BY <1>2, <2>1
<1> HIDE DEF s, t
<1>4. /\ Words(s) \in Seq(Byte) /\ Len(Words(s)) = 16
      /\ \A j \in 1 .. 16 : Words(s)[j] = <<Numbers(s)[(j - 1) \div 4], (j - 1) % 4>>
  <2>1. PICK w \in Nat \ {0}, m \in Nat : w = 4 /\ m = 4
    OBVIOUS
  <2>2. Array(Numbers(s), m) /\ Words(s) = Bytes(w, Numbers(s))
    BY <1>1, <2>1, NumbersAre
  <2>3. /\ Words(s) \in Seq(Byte) /\ Len(Words(s)) = w * m
        /\ \A j \in 1 .. (w * m) : Words(s)[j] = <<Numbers(s)[(j - 1) \div w], (j - 1) % w>>
    BY <2>2, BytesAre
  <2> QED BY <2>1, <2>3
<1>5. /\ a \in Seq(Byte) /\ Len(a) = 8
      /\ \A j \in 1 .. 8 : a[j] = <<Header[(j - 1) \div 8], (j - 1) % 8>>
  <2>1. PICK w \in Nat \ {0}, m \in Nat : w = 8 /\ m = 1
    OBVIOUS
  <2>2. Array(Header, m) /\ a = Bytes(w, Header)
    BY <1>1, <2>1
  <2> HIDE DEF a
  <2>3. /\ a \in Seq(Byte) /\ Len(a) = w * m
        /\ \A j \in 1 .. (w * m) : a[j] = <<Header[(j - 1) \div w], (j - 1) % w>>
    BY <2>2, BytesAre
  <2> QED BY <2>1, <2>3
<1> HIDE DEF a
<1>6. /\ \A j \in 1 .. 8 : Writes(Index)[1][j] = a[j]
      /\ \A j \in 1 .. 16 : Writes(Index)[1][8 + j] = Words(s)[j]
  <2>1. PICK f \in Seq(Byte), g \in Seq(Byte) : f = a /\ g = Words(s)
    BY <1>4, <1>5
  <2>2. Len(f) = 8 /\ Len(g) = 16 /\ Writes(Index)[1] = f \o g
    BY <1>2, <1>4, <1>5, <2>1
  <2>3. \A j \in 1 .. Len(f) : (f \o g)[j] = f[j]
    OBVIOUS
  <2>4. \A j \in 1 .. Len(g) : (f \o g)[Len(f) + j] = g[j]
    OBVIOUS
  <2> QED BY <2>1, <2>2, <2>3, <2>4
<1>7. \A j \in 1 .. 24 : j <= Len(file) => file[j] = Writes(Index)[1][j]
  <2>1. \A j \in 1 .. 24 : Begin(1) + j <= Len(file) => file[Begin(1) + j] = Writes(Index)[1][j]
    <3>1. PICK n \in 1 .. 12 : n = 1
      OBVIOUS
    <3>2. \A j \in 1 .. Lengths[n] : Begin(n) + j <= Len(file) => file[Begin(n) + j] = Writes(Index)[n][j]
      BY DEF Laid
    <3> QED BY <1>2, <3>1, <3>2
  <2>2. \A j \in 1 .. 24 : Begin(1) + j = j
    BY <1>3
  <2> QED BY <2>1, <2>2
<1>8. Lies(0, 8, Header, 1)
  <2>1. ASSUME NEW j \in 1 .. 8, 0 + j <= Len(file)
        PROVE  file[0 + j] = <<Header[(j - 1) \div 8], (j - 1) % 8>>
    <3>1. 0 + j = j /\ j \in 1 .. 24
      OBVIOUS
    <3> QED BY <1>5, <1>6, <1>7, <2>1, <3>1
  <2>2. 8 * 1 = 8
    OBVIOUS
  <2> QED BY <2>1, <2>2 DEF Lies
<1>9. Lies(8, 4, Numbers(s), Len(s))
  <2>1. ASSUME NEW j \in 1 .. 16, 8 + j <= Len(file)
        PROVE  file[8 + j] = <<Numbers(s)[(j - 1) \div 4], (j - 1) % 4>>
    <3>1. 8 + j \in 1 .. 24
      OBVIOUS
    <3> QED BY <1>4, <1>6, <1>7, <2>1, <3>1
  <2>2. 4 * Len(s) = 16
    BY <1>1
  <2> QED BY <2>1, <2>2 DEF Lies
<1>10. Lies(24, 4, Numbers(t), Len(t))
  <2>1. PICK n \in 1 .. 12, w \in Nat \ {0}, m \in Nat : n = 2 /\ w = 4 /\ m = 4
    OBVIOUS
  <2>2. /\ Array(Numbers(t), m) /\ Writes(Index)[n] = Bytes(w, Numbers(t))
    BY <1>1, <1>2, <2>1, NumbersAre
  <2>3. Lies(Begin(n), w, Numbers(t), m)
    BY <2>2, SectionLies
  <2> QED BY <1>1, <1>3, <2>1, <2>3
<1> QED BY <1>8, <1>9, <1>10 DEF s, t

LEMMA HeadersRead ==
  ASSUME IndexInv, stage = "done", FileInv, saver # "idle", Len(file) >= 40
  PROVE  /\ ValueAt(8, 0) = indexMagic /\ Dimension = Dim /\ Scale = quantScale
         /\ Count32 = input.nVectors /\ Clusters32 = clusters
         /\ ValueAt(4, 28) = 8 /\ ValueAt(4, 32) = 24 /\ ValueAt(4, 36) = 1
<1> DEFINE s == First4(Index)
           t == Next4(Index)
<1>1. /\ Array(Header, 1) /\ s \in Seq(Int) /\ Len(s) = 4 /\ t \in Seq(Int) /\ Len(t) = 4
      /\ Lies(0, 8, Header, 1) /\ Lies(8, 4, Numbers(s), Len(s)) /\ Lies(24, 4, Numbers(t), Len(t))
      /\ file \in Seq(Byte) /\ Len(file) \in Nat
  BY HeadersAre, HeadersLie DEF FileInv
<1>2. ValueAt(8, 0) = indexMagic
  <2>1. PICK p \in Nat, w \in Widths, m \in Nat : p = 0 /\ w = 8 /\ m = 1
    BY DEF Widths
  <2>2. ArrayAt(w, p, m) = Header
    <3>1. Array(Header, m) /\ Lies(p, w, Header, m) /\ p + w * m <= Len(file)
      BY <1>1, <2>1
    <3> QED BY <1>1, <3>1, ArrayReadIs
  <2>3. ArrayAt(w, p, m)[0] = ValueAt(w, p + 0 * w)
    BY <2>1 DEF ArrayAt
  <2>4. p + 0 * w = 0
    BY <2>1
  <2>5. Header[0] = indexMagic
    BY DEF Header
  <2> QED BY <2>1, <2>2, <2>3, <2>4, <2>5
<1> HIDE DEF s, t
<1>3. ASSUME NEW i \in 1 .. 4, NEW off, off = 8 + 4 * (i - 1) PROVE ValueAt(4, off) = s[i]
  <2>1. PICK p \in Nat : p = 8
    OBVIOUS
  <2>2. Lies(p, 4, Numbers(s), Len(s)) /\ p + 4 * Len(s) <= Len(file) /\ i \in 1 .. Len(s)
        /\ off = p + 4 * (i - 1)
    BY <1>1, <1>3, <2>1
  <2> QED BY <1>1, <2>2, WordIs
<1>4. ASSUME NEW i \in 1 .. 4, NEW off, off = 24 + 4 * (i - 1) PROVE ValueAt(4, off) = t[i]
  <2>1. PICK p \in Nat : p = 24
    OBVIOUS
  <2>2. Lies(p, 4, Numbers(t), Len(t)) /\ p + 4 * Len(t) <= Len(file) /\ i \in 1 .. Len(t)
        /\ off = p + 4 * (i - 1)
    BY <1>1, <1>4, <2>1
  <2> QED BY <1>1, <2>2, WordIs
<1>5. ValueAt(4, 12) = s[2] /\ ValueAt(4, 16) = s[3] /\ ValueAt(4, 20) = s[4]
  BY <1>3
<1>6. ValueAt(4, 24) = t[1] /\ ValueAt(4, 28) = t[2] /\ ValueAt(4, 32) = t[3] /\ ValueAt(4, 36) = t[4]
  BY <1>4
<1>7. s[2] = Dim /\ s[3] = quantScale /\ s[4] = input.nVectors
  BY IndexIs DEF s, First4
<1>8. t[1] = clusters /\ t[2] = 8 /\ t[3] = 24 /\ t[4] = 1
  BY DEF t, Next4, Index
<1> QED BY <1>2, <1>5, <1>6, <1>7, <1>8 DEF Dimension, Scale, Count32, Clusters32, headerSize

(***************************************************************************)
(* Offset: every array of the reader begins where the writer put it.       *)
(***************************************************************************)
LEMMA OffsetIs ==
  ASSUME NEW size, size = Sizes(Clusters32, Count32), \A i \in 1 .. 8 : size[i] \in Int
  PROVE  Offset(1) = 40 /\ \A i \in 2 .. 9 : Offset(i) = Offset(i - 1) + size[i - 1]
<1> DEFINE Eq(s) == s = [i \in 1 .. 9 |-> IF i = 1 THEN 40 ELSE s[i - 1] + size[i - 1]]
           step == [i \in (1 + 1) .. 9 |-> [v \in Int |-> v + size[i - 1]]]
           from == CHOOSE s : Eq(s)
<1>1. Steps(step, 1, 9, Int)
  <2>1. \A i \in 2 .. 9 : i - 1 \in 1 .. 8
    OBVIOUS
  <2> QED BY <2>1 DEF Steps
<1>2. \E g : Recursion(g, 40, step, 1, 9, Int)
  <2>1. PICK lo \in Int, hi \in Int, base \in Int : lo = 1 /\ hi = 9 /\ base = 40
    OBVIOUS
  <2>2. Steps(step, lo, hi, Int) /\ lo <= hi
    BY <1>1, <2>1
  <2> HIDE DEF step
  <2>3. \E g : Recursion(g, base, step, lo, hi, Int)
    BY <2>2, RecursionExists
  <2> QED BY <2>1, <2>3
<1>3. PICK g \in [1 .. 9 -> Int] :
        g[1] = 40 /\ \A i \in (1 + 1) .. 9 : g[i] = step[i][g[i - 1]]
  BY <1>2 DEF Recursion
<1>4. Eq(g)
  <2>1. \A i \in 2 .. 9 : i - 1 \in 1 .. 9 /\ g[i] = g[i - 1] + size[i - 1]
    BY <1>3
  <2>2. \A i \in 1 .. 9 : i = 1 \/ i \in 2 .. 9
    OBVIOUS
  <2>3. \A i \in 1 .. 9 : g[i] = IF i = 1 THEN 40 ELSE g[i - 1] + size[i - 1]
    BY <1>3, <2>1, <2>2
  <2> QED BY <1>3, <2>3
<1>5. Eq(from)
  <2> HIDE DEF Eq
  <2> QED BY <1>4
<1>6. \A i : Offset(i) = from[i]
  BY DEF Offset, headerSize, ivfHeaderSize
<1> HIDE DEF from
<1>7. from[1] = 40 /\ \A i \in 2 .. 9 : from[i] = from[i - 1] + size[i - 1]
  <2>1. 1 \in 1 .. 9 /\ \A i \in 2 .. 9 : i \in 1 .. 9 /\ i # 1
    OBVIOUS
  <2> QED BY <1>5, <2>1
<1> QED BY <1>6, <1>7

LEMMA OffsetsAre ==
  ASSUME IndexInv, stage = "done", Clusters32 = clusters, Count32 = input.nVectors
  PROVE  /\ Begin(3) = 40 /\ Offset(9) = Begin(12)
         /\ \A i \in 1 .. 8 : Offset(i) = Begin(i + 2)
<1> DEFINE size == Sizes(clusters, input.nVectors)
           from(i) == Offset(i)
<1>1. /\ clusters \in Nat \ {0} /\ input.nVectors \in Nat \ {0} /\ blockStride \in Nat
      /\ Dim \in Nat /\ blocksForRows(clusters) \in Nat
  <2>1. clusters \in Nat \ {0} /\ input \in Inputs
    BY DEF IndexInv, BuildInv, TypeOK
  <2> QED BY <2>1, SizesAssumption, InputIs, blocksForRowsIs DEF blockStride
<1>2. /\ size[1] = Lengths[3] /\ size[2] = Lengths[4] /\ size[3] = Lengths[5]
      /\ size[4] = Lengths[6] /\ size[5] = Lengths[7] /\ size[6] = Lengths[8]
      /\ size[7] = Lengths[9] /\ size[8] = Lengths[10] + Lengths[11]
  <2>1. 2 * clusters * Dim = 2 * (clusters * Dim)
    BY <1>1
  <2>2. 2 * blocksForRows(clusters) * blockStride = 2 * (blocksForRows(clusters) * blockStride)
    BY <1>1
  <2>3. /\ size[1] = 2 * clusters * Dim /\ size[2] = 2 * blocksForRows(clusters) * blockStride
        /\ size[3] = 4 * (clusters + 1) /\ size[4] = 4 * (clusters + 1)
        /\ size[5] = 2 * clusters * Dim /\ size[6] = 2 * clusters * Dim
        /\ size[7] = 4 * input.nVectors /\ size[8] = input.nVectors + (input.nVectors % 2)
    BY DEF Sizes
  <2> HIDE DEF size
  <2> QED BY <2>1, <2>2, <2>3, LengthsAre
<1>3. \A s \in 1 .. 12 : Lengths[s] \in Nat
  BY LengthsAre
<1> HIDE DEF size
<1>4. from(1) = 40 /\ \A i \in 2 .. 9 : from(i) = from(i - 1) + size[i - 1]
  <2>1. \A i \in 1 .. 8 : size[i] \in Int
    <3>1. \A i \in 1 .. 8 : i \in {1, 2, 3, 4, 5, 6, 7, 8}
      OBVIOUS
    <3>2. /\ Lengths[3] \in Nat /\ Lengths[4] \in Nat /\ Lengths[5] \in Nat /\ Lengths[6] \in Nat
          /\ Lengths[7] \in Nat /\ Lengths[8] \in Nat /\ Lengths[9] \in Nat /\ Lengths[10] \in Nat
          /\ Lengths[11] \in Nat
      BY <1>3
    <3> QED BY <1>2, <3>1, <3>2
  <2>2. size = Sizes(Clusters32, Count32)
    BY DEF size
  <2> QED BY <2>1, <2>2, OffsetIs
<1> HIDE DEF from
<1>5. /\ from(2) = from(1) + size[1] /\ from(3) = from(2) + size[2] /\ from(4) = from(3) + size[3]
      /\ from(5) = from(4) + size[4] /\ from(6) = from(5) + size[5] /\ from(7) = from(6) + size[6]
      /\ from(8) = from(7) + size[7] /\ from(9) = from(8) + size[8]
  <2>1. \A i \in 2 .. 9 : from(i) = from(i - 1) + size[i - 1]
    BY <1>4
  <2> QED BY <2>1
<1>6. \A s \in 1 .. 12 : Begin(s + 1) = Begin(s) + Lengths[s]
  BY BeginIs
<1>7. /\ Begin(2) = Begin(1) + Lengths[1] /\ Begin(3) = Begin(2) + Lengths[2]
      /\ Begin(4) = Begin(3) + Lengths[3] /\ Begin(5) = Begin(4) + Lengths[4]
      /\ Begin(6) = Begin(5) + Lengths[5] /\ Begin(7) = Begin(6) + Lengths[6]
      /\ Begin(8) = Begin(7) + Lengths[7] /\ Begin(9) = Begin(8) + Lengths[8]
      /\ Begin(10) = Begin(9) + Lengths[9] /\ Begin(11) = Begin(10) + Lengths[10]
      /\ Begin(12) = Begin(11) + Lengths[11]
  BY <1>6
<1>8. Begin(3) = 40
  <2>1. Lengths[1] = 24 /\ Lengths[2] = 16
    BY LengthsAre
  <2>2. Begin(1) = 0
    BY BeginIs
  <2> QED BY <1>7, <2>1, <2>2
<1>9. /\ from(1) = Begin(3) /\ from(2) = Begin(4) /\ from(3) = Begin(5) /\ from(4) = Begin(6)
      /\ from(5) = Begin(7) /\ from(6) = Begin(8) /\ from(7) = Begin(9) /\ from(8) = Begin(10)
  BY <1>2, <1>4, <1>5, <1>7, <1>8
<1>10. Begin(10) \in Nat /\ Lengths[10] \in Nat /\ Lengths[11] \in Nat
  BY <1>3, BeginIs
<1>11. from(9) = Begin(12)
  BY <1>2, <1>5, <1>7, <1>9, <1>10
<1>12. \A i \in 1 .. 8 : from(i) = Begin(i + 2)
  <2>1. \A i \in 1 .. 8 : i \in {1, 2, 3, 4, 5, 6, 7, 8}
    OBVIOUS
  <2> QED BY <1>9, <2>1
<1> QED BY <1>8, <1>11, <1>12 DEF from

(***************************************************************************)
(* An array whose place the file reaches to the end is read as it was.     *)
(***************************************************************************)
LEMMA PartIs ==
  ASSUME IndexInv, FileInv, saver # "idle", NEW s \in 1 .. 12, NEW w \in Widths, NEW m \in Nat,
         NEW a, Array(a, m), Writes(Index)[s] = Bytes(w, a), Begin(s + 1) <= Len(file)
  PROVE  ArrayAt(w, Begin(s), m) = a
<1>1. /\ stage = "done" /\ Laid(file) /\ file \in Seq(Byte) /\ w \in Nat \ {0}
  BY DEF FileInv, Widths
<1>2. Lies(Begin(s), w, a, m)
  BY <1>1, SectionLies
<1>3. Begin(s) \in Nat /\ Begin(s + 1) = Begin(s) + Lengths[s] /\ Lengths[s] = w * m
  <2>1. Begin(s) \in Nat /\ Begin(s + 1) = Begin(s) + Lengths[s]
    <3>1. s \in 1 .. 13
      OBVIOUS
    <3> QED BY <1>1, <3>1, BeginIs
  <2>2. Lengths[s] = w * m
    BY <1>1, BytesAre DEF Lengths
  <2> QED BY <2>1, <2>2
<1> QED BY <1>1, <1>2, <1>3, ArrayReadIs

LEMMA PartsAre ==
  ASSUME IndexInv, FileInv, saver # "idle", Begin(12) <= Len(file)
  PROVE  /\ ArrayAt(2, Begin(3), clusters * Dim) = Index.centroids
         /\ ArrayAt(2, Begin(4), blocksForRows(clusters) * blockStride) = Index.centroidBlocks
         /\ ArrayAt(4, Begin(5), clusters + 1) = Index.listOffsets
         /\ ArrayAt(4, Begin(6), clusters + 1) = Index.blockOffsets
         /\ ArrayAt(2, Begin(7), clusters * Dim) = Index.bboxMin
         /\ ArrayAt(2, Begin(8), clusters * Dim) = Index.bboxMax
         /\ ArrayAt(4, Begin(9), input.nVectors) = Index.origIDs
         /\ ArrayAt(1, Begin(10), input.nVectors) = Index.labels
<1>1. /\ clusters \in Nat \ {0} /\ input.nVectors \in Nat \ {0} /\ blockStride \in Nat
      /\ Dim \in Nat /\ blocksForRows(clusters) \in Nat /\ stage = "done"
  <2>1. clusters \in Nat \ {0} /\ input \in Inputs /\ stage = "done"
    BY DEF IndexInv, BuildInv, TypeOK, FileInv
  <2>2. Dim \in Nat /\ blockStride \in Nat
    BY SizesAssumption DEF blockStride
  <2>3. input.nVectors \in Nat \ {0}
    BY <2>1, InputIs
  <2>4. blocksForRows(clusters) \in Nat
    BY <2>1, blocksForRowsIs
  <2> QED BY <2>1, <2>2, <2>3, <2>4
<1>2. /\ clusters * Dim \in Nat /\ blocksForRows(clusters) * blockStride \in Nat /\ clusters + 1 \in Nat
  BY <1>1
<1>3. ASSUME NEW s \in 1 .. 10 PROVE s \in 1 .. 12 /\ Begin(s + 1) <= Len(file)
  <2>1. s + 1 \in 1 .. 13 /\ 12 \in (s + 1) .. 13 /\ 12 \in 1 .. 13
    OBVIOUS
  <2>2. Begin(s + 1) <= Begin(12) /\ Begin(s + 1) \in Nat /\ Begin(12) \in Nat
    BY <1>1, <2>1, BeginIs
  <2>3. Len(file) \in Nat
    BY DEF FileInv
  <2> QED BY <2>1, <2>2, <2>3
<1>4. ASSUME NEW s \in 1 .. 10, NEW w \in Widths, NEW m \in Nat, NEW a, Array(a, m),
             Writes(Index)[s] = Bytes(w, a)
      PROVE  ArrayAt(w, Begin(s), m) = a
  BY <1>3, <1>4, PartIs
<1>5. PICK one \in Widths, two \in Widths, four \in Widths : one = 1 /\ two = 2 /\ four = 4
  BY DEF Widths
<1>6. ASSUME NEW s \in 1 .. 10, NEW m \in Nat, NEW a, Array(a, m), Writes(Index)[s] = Bytes(2, a)
      PROVE  ArrayAt(2, Begin(s), m) = a
  BY <1>4, <1>5, <1>6
<1>7. ASSUME NEW s \in 1 .. 10, NEW m \in Nat, NEW a, Array(a, m), Writes(Index)[s] = Bytes(4, a)
      PROVE  ArrayAt(4, Begin(s), m) = a
  BY <1>4, <1>5, <1>7
<1>8. PICK s3 \in 1 .. 10, s4 \in 1 .. 10, s5 \in 1 .. 10, s6 \in 1 .. 10, s7 \in 1 .. 10,
           s8 \in 1 .. 10, s9 \in 1 .. 10, s10 \in 1 .. 10 :
        s3 = 3 /\ s4 = 4 /\ s5 = 5 /\ s6 = 6 /\ s7 = 7 /\ s8 = 8 /\ s9 = 9 /\ s10 = 10
  OBVIOUS
<1>9. ArrayAt(2, Begin(3), clusters * Dim) = Index.centroids
  <2>1. Array(Index.centroids, clusters * Dim) /\ Writes(Index)[s3] = Bytes(2, Index.centroids)
    BY <1>1, <1>8, IndexIs, WritesAre
  <2>2. ArrayAt(2, Begin(s3), clusters * Dim) = Index.centroids
    BY <1>2, <1>6, <2>1
  <2> QED BY <1>8, <2>2
<1>10. ArrayAt(2, Begin(4), blocksForRows(clusters) * blockStride) = Index.centroidBlocks
  <2>1. /\ Array(Index.centroidBlocks, blocksForRows(clusters) * blockStride)
        /\ Writes(Index)[s4] = Bytes(2, Index.centroidBlocks)
    BY <1>1, <1>8, IndexIs, WritesAre
  <2>2. ArrayAt(2, Begin(s4), blocksForRows(clusters) * blockStride) = Index.centroidBlocks
    BY <1>2, <1>6, <2>1
  <2> QED BY <1>8, <2>2
<1>11. ArrayAt(4, Begin(5), clusters + 1) = Index.listOffsets
  <2>1. Array(Index.listOffsets, clusters + 1) /\ Writes(Index)[s5] = Bytes(4, Index.listOffsets)
    BY <1>1, <1>8, IndexIs, WritesAre
  <2>2. ArrayAt(4, Begin(s5), clusters + 1) = Index.listOffsets
    BY <1>2, <1>7, <2>1
  <2> QED BY <1>8, <2>2
<1>12. ArrayAt(4, Begin(6), clusters + 1) = Index.blockOffsets
  <2>1. Array(Index.blockOffsets, clusters + 1) /\ Writes(Index)[s6] = Bytes(4, Index.blockOffsets)
    BY <1>1, <1>8, IndexIs, WritesAre
  <2>2. ArrayAt(4, Begin(s6), clusters + 1) = Index.blockOffsets
    BY <1>2, <1>7, <2>1
  <2> QED BY <1>8, <2>2
<1>13. ArrayAt(2, Begin(7), clusters * Dim) = Index.bboxMin
  <2>1. Array(Index.bboxMin, clusters * Dim) /\ Writes(Index)[s7] = Bytes(2, Index.bboxMin)
    BY <1>1, <1>8, IndexIs, WritesAre
  <2>2. ArrayAt(2, Begin(s7), clusters * Dim) = Index.bboxMin
    BY <1>2, <1>6, <2>1
  <2> QED BY <1>8, <2>2
<1>14. ArrayAt(2, Begin(8), clusters * Dim) = Index.bboxMax
  <2>1. Array(Index.bboxMax, clusters * Dim) /\ Writes(Index)[s8] = Bytes(2, Index.bboxMax)
    BY <1>1, <1>8, IndexIs, WritesAre
  <2>2. ArrayAt(2, Begin(s8), clusters * Dim) = Index.bboxMax
    BY <1>2, <1>6, <2>1
  <2> QED BY <1>8, <2>2
<1>15. ArrayAt(4, Begin(9), input.nVectors) = Index.origIDs
  <2>1. Array(Index.origIDs, input.nVectors) /\ Writes(Index)[s9] = Bytes(4, Index.origIDs)
    BY <1>1, <1>8, IndexIs, WritesAre
  <2>2. input.nVectors \in Nat
    BY <1>1
  <2>3. ArrayAt(4, Begin(s9), input.nVectors) = Index.origIDs
    BY <1>7, <2>1, <2>2
  <2> QED BY <1>8, <2>3
<1>16. ArrayAt(1, Begin(10), input.nVectors) = Index.labels
  <2>1. Array(Index.labels, input.nVectors) /\ Writes(Index)[s10] = Bytes(one, Index.labels)
    BY <1>1, <1>5, <1>8, IndexIs, WritesAre
  <2>2. input.nVectors \in Nat
    BY <1>1
  <2>3. ArrayAt(one, Begin(s10), input.nVectors) = Index.labels
    BY <1>4, <2>1, <2>2
  <2> QED BY <1>5, <1>8, <2>3
<1> QED BY <1>9, <1>10, <1>11, <1>12, <1>13, <1>14, <1>15, <1>16

(***************************************************************************)
(* The blocks are the last part, and there are some: each is read as it    *)
(* was, or as NoValue where the file has ended.                            *)
(***************************************************************************)
BlockValues == blockOffsets[clusters] * blockStride

LEMMA BlockValuesAre ==
  ASSUME IndexInv, stage = "done"
  PROVE  /\ BlockValues \in Nat \ {0} /\ Array(blocks, BlockValues)
         /\ Begin(13) = Begin(12) + 2 * BlockValues /\ Begin(12) \in Nat
<1>1. blockOffsets[clusters] \in Nat \ {0} /\ Array(blocks, BlockValues)
  BY BlocksAre DEF BlockValues
<1>2. blockStride \in Nat \ {0}
  BY SizesAssumption DEF blockStride
<1>3. BlockValues \in Nat \ {0}
  BY <1>1, <1>2 DEF BlockValues
<1>4. Begin(12 + 1) = Begin(12) + Lengths[12] /\ Begin(12) \in Nat
  BY BeginIs
<1>5. Lengths[12] = 2 * BlockValues
  BY LengthsAre DEF BlockValues
<1> QED BY <1>1, <1>3, <1>4, <1>5

LEMMA BlocksRead ==
  ASSUME IndexInv, FileInv, saver # "idle", NEW i \in 0 .. (BlockValues - 1)
  PROVE  ValueAt(2, Begin(12) + i * 2) =
           IF Begin(12) + i * 2 + 2 <= Len(file) THEN blocks[i] ELSE NoValue
<1>1. stage = "done" /\ Laid(file) /\ file \in Seq(Byte)
  BY DEF FileInv
<1>2. PICK two \in Widths, s \in 1 .. 12 : two = 2 /\ s = 12
  BY DEF Widths
<1>3. BlockValues \in Nat /\ Array(blocks, BlockValues) /\ Begin(s) \in Nat
  BY <1>1, <1>2, BlockValuesAre
<1>4. Writes(Index)[s] = Bytes(two, blocks) /\ two \in Nat \ {0}
  BY <1>2, WritesAre DEF Index
<1>5. Lies(Begin(s), two, blocks, BlockValues)
  BY <1>1, <1>3, <1>4, SectionLies
<1>6. ValueAt(two, Begin(s) + i * two) =
        IF Begin(s) + i * two + two <= Len(file) THEN blocks[i] ELSE NoValue
  BY <1>1, <1>3, <1>5, ReadIs
<1> QED BY <1>2, <1>6

(***************************************************************************)
(* What Load makes of the file.                                            *)
(***************************************************************************)
LoadedOK(x) ==
  /\ \A part \in AllButBlocks : x[part] = Index[part]
  /\ DOMAIN x.blocks = DOMAIN blocks
  /\ \A i \in DOMAIN blocks : x.blocks[i] \in {blocks[i], NoValue}
  /\ (\A i \in DOMAIN blocks : x.blocks[i] = blocks[i]) <=> saver = "saved"

LEMMA SavedIsAccepted ==
  ASSUME IndexInv, FileInv, saver = "saved"
  PROVE  ~ Refused /\ ~ Panics
<1>1. /\ stage = "done" /\ Len(file) = Begin(13) /\ saver # "idle"
  BY DEF FileInv
<1>2. /\ BlockValues \in Nat \ {0} /\ Begin(13) = Begin(12) + 2 * BlockValues /\ Begin(12) \in Nat
  BY <1>1, BlockValuesAre
<1>3. Begin(12) < Len(file)
  BY <1>1, <1>2
<1>4. \A s \in 1 .. 12 : Begin(s) <= Begin(12) /\ Begin(s) \in Nat
  <2>1. \A s \in 1 .. 12 : 12 \in s .. 13 /\ s \in 1 .. 13
    OBVIOUS
  <2> QED BY <1>1, <2>1, BeginIs
<1>5. Begin(3) \in Nat /\ Begin(3) <= Begin(12)
  BY <1>4
<1>6. /\ Len(file) >= 40 /\ Len(file) \in Nat
      /\ ValueAt(8, 0) = indexMagic /\ Dimension = Dim /\ Scale = quantScale
      /\ Count32 = input.nVectors /\ Clusters32 = clusters
  <2>1. Begin(3) = 40
    <3>1. Begin(1) = 0 /\ Begin(1 + 1) = Begin(1) + Lengths[1] /\ Begin(2 + 1) = Begin(2) + Lengths[2]
      BY <1>1, BeginIs
    <3>2. Lengths[1] = 24 /\ Lengths[2] = 16
      BY <1>1, LengthsAre
    <3> QED BY <3>1, <3>2
  <2>2. Len(file) \in Nat
    BY DEF FileInv
  <2>3. Len(file) >= 40
    BY <1>2, <1>3, <1>5, <2>1, <2>2
  <2> QED BY <1>1, <2>2, <2>3, HeadersRead
<1>7. ~ Refused
  BY <1>6 DEF Refused, headerSize, ivfHeaderSize
<1>8. /\ Offset(9) = Begin(12) /\ \A i \in 1 .. 8 : Offset(i) = Begin(i + 2)
  BY <1>1, <1>6, OffsetsAre
<1>9. ASSUME NEW a \in 1 .. 9 PROVE Offset(a) < Len(file)
  <2>1. CASE a = 9
    BY <1>3, <1>8, <2>1
  <2>2. CASE a \in 1 .. 8
    <3>1. Offset(a) = Begin(a + 2) /\ a + 2 \in 1 .. 12
      BY <1>8, <2>2
    <3>2. Offset(a) <= Begin(12) /\ Offset(a) \in Nat
      BY <1>4, <3>1
    <3> QED BY <1>2, <1>3, <1>6, <3>2
  <2> QED BY <2>1, <2>2
<1>10. Offset(8) + Count32 <= Len(file) /\ Offset(8) \in Nat /\ Count32 \in Nat
  <2>1. Begin(10 + 1) = Begin(10) + Lengths[10] /\ Lengths[10] = input.nVectors
    BY <1>1, BeginIs, LengthsAre
  <2>2. Begin(11) <= Begin(12) /\ Begin(11) \in Nat /\ Begin(10) \in Nat
    BY <1>4
  <2>3. Offset(8) = Begin(10)
    BY <1>8
  <2>4. input.nVectors \in Nat
    <3>1. input \in Inputs
      BY DEF IndexInv, BuildInv, TypeOK
    <3> QED BY <3>1, InputIs
  <2> QED BY <1>2, <1>3, <1>6, <2>1, <2>2, <2>3, <2>4
<1>11. ~ Panics
  <2>1. \A a \in (1 .. 9) \ {8} : Offset(a) \in Int /\ ~ (Offset(a) >= Len(file))
    <3>1. ASSUME NEW a \in 1 .. 9 PROVE Offset(a) \in Int
      <4>1. a = 9 \/ (a \in 1 .. 8 /\ a + 2 \in 1 .. 12)
        OBVIOUS
      <4> QED BY <1>2, <1>4, <1>8, <4>1
    <3> QED BY <1>6, <1>9, <3>1
  <2>2. ~ (Offset(8) + Count32 > Len(file))
    BY <1>6, <1>10
  <2> QED BY <2>1, <2>2 DEF Panics
<1> QED BY <1>7, <1>11

LEMMA AcceptedIsOK ==
  ASSUME IndexInv, FileInv, saver \in {"saved", "stopped"}, ~ Refused, ~ Panics
  PROVE  LoadedOK(parseIndexBytes)
<1> DEFINE x == parseIndexBytes
           at(i) == Begin(12) + i * 2
<1>1. stage = "done" /\ saver # "idle" /\ file \in Seq(Byte) /\ Len(file) \in Nat
  BY DEF FileInv
<1>2. Len(file) >= 40
  BY <1>1 DEF Refused, headerSize, ivfHeaderSize
<1>3. /\ Count32 = input.nVectors /\ Clusters32 = clusters
      /\ ValueAt(4, 28) = 8 /\ ValueAt(4, 32) = 24 /\ ValueAt(4, 36) = 1
  BY <1>1, <1>2, HeadersRead
<1>4. Offset(9) = Begin(12) /\ \A i \in 1 .. 8 : Offset(i) = Begin(i + 2)
  BY <1>1, <1>3, OffsetsAre
<1>5. /\ BlockValues \in Nat \ {0} /\ Array(blocks, BlockValues)
      /\ Begin(13) = Begin(12) + 2 * BlockValues /\ Begin(12) \in Nat
  BY <1>1, BlockValuesAre
<1>6. Begin(12) <= Len(file)
  <2>1. PICK a \in (1 .. 9) \ {8} : a = 9
    OBVIOUS
  <2>2. ~ (Offset(a) >= Len(file))
    BY DEF Panics
  <2> QED BY <1>1, <1>4, <1>5, <2>1, <2>2
<1>7. /\ Offset(1) = Begin(3) /\ Offset(2) = Begin(4) /\ Offset(3) = Begin(5)
      /\ Offset(4) = Begin(6) /\ Offset(5) = Begin(7) /\ Offset(6) = Begin(8)
      /\ Offset(7) = Begin(9) /\ Offset(8) = Begin(10)
  BY <1>4
<1>8. /\ x.clusters = clusters /\ x.nprobe = 8 /\ x.ambiguousNprobe = 24 /\ x.repair = TRUE
      /\ x.centroids      = ArrayAt(2, Begin(3), clusters * Dim)
      /\ x.centroidBlocks = ArrayAt(2, Begin(4), blocksForRows(clusters) * blockStride)
      /\ x.listOffsets    = ArrayAt(4, Begin(5), clusters + 1)
      /\ x.blockOffsets   = ArrayAt(4, Begin(6), clusters + 1)
      /\ x.bboxMin        = ArrayAt(2, Begin(7), clusters * Dim)
      /\ x.bboxMax        = ArrayAt(2, Begin(8), clusters * Dim)
      /\ x.origIDs        = ArrayAt(4, Begin(9), input.nVectors)
      /\ x.labels         = ArrayAt(1, Begin(10), input.nVectors)
      /\ x.blocks = ArrayAt(2, Begin(12), ArrayAt(4, Begin(6), clusters + 1)[clusters] * blockStride)
  <2>1. headerSize + 4 = 28 /\ headerSize + 8 = 32 /\ headerSize + 12 = 36
    BY DEF headerSize
  <2> QED BY <1>3, <1>4, <1>7, <2>1 DEF parseIndexBytes
<1>9. /\ x.centroids = Index.centroids /\ x.centroidBlocks = Index.centroidBlocks
      /\ x.listOffsets = Index.listOffsets /\ x.blockOffsets = Index.blockOffsets
      /\ x.bboxMin = Index.bboxMin /\ x.bboxMax = Index.bboxMax
      /\ x.origIDs = Index.origIDs /\ x.labels = Index.labels
      /\ x.blocks = ArrayAt(2, Begin(12), BlockValues)
  <2>1. Index.blockOffsets = blockOffsets
    BY DEF Index
  <2> HIDE DEF x
  <2> QED BY <1>1, <1>6, <1>8, <2>1, PartsAre DEF BlockValues
<1>10. \A part \in AllButBlocks : x[part] = Index[part]
  <2>1. AllButBlocks = {"clusters", "nprobe", "ambiguousNprobe", "repair", "centroids",
                        "centroidBlocks", "listOffsets", "blockOffsets", "bboxMin", "bboxMax",
                        "origIDs", "labels"}
    BY DEF AllButBlocks, Index
  <2>2. Index.clusters = clusters /\ Index.nprobe = 8 /\ Index.ambiguousNprobe = 24 /\ Index.repair = TRUE
    BY DEF Index
  <2> HIDE DEF x
  <2> QED BY <1>8, <1>9, <2>1, <2>2
<1> HIDE DEF x
<1>11. DOMAIN blocks = 0 .. (BlockValues - 1) /\ \A i \in DOMAIN blocks : blocks[i] \in Int
  BY <1>5 DEF Array
<1>12. DOMAIN x.blocks = DOMAIN blocks
  BY <1>9, <1>11 DEF ArrayAt
<1>13. ASSUME NEW i \in DOMAIN blocks
       PROVE  x.blocks[i] = IF at(i) + 2 <= Len(file) THEN blocks[i] ELSE NoValue
  <2>1. x.blocks[i] = ValueAt(2, at(i))
    BY <1>9, <1>11 DEF ArrayAt
  <2> QED BY <1>1, <1>11, <2>1, BlocksRead
<1>14. \A i \in DOMAIN blocks : x.blocks[i] \in {blocks[i], NoValue}
  BY <1>13
<1>15. ASSUME saver = "saved", NEW i \in DOMAIN blocks PROVE x.blocks[i] = blocks[i]
  <2>1. at(i) + 2 <= Len(file)
    BY <1>5, <1>11, <1>15 DEF FileInv
  <2> QED BY <1>13, <2>1
<1>16. ASSUME saver # "saved" PROVE \E i \in DOMAIN blocks : x.blocks[i] # blocks[i]
  <2> DEFINE last == BlockValues - 1
  <2>1. last \in DOMAIN blocks /\ at(last) + 2 = Begin(13)
    BY <1>5, <1>11
  <2>2. ~ (at(last) + 2 <= Len(file))
    <3>1. Len(file) < Begin(13)
      BY <1>16 DEF FileInv
    <3> QED BY <1>1, <1>5, <2>1, <3>1
  <2>3. x.blocks[last] = NoValue
    BY <1>13, <2>1, <2>2
  <2>4. blocks[last] # NoValue
    BY <1>11, <2>1, NoValueAssumption
  <2> QED BY <2>1, <2>3, <2>4
<1>17. (\A i \in DOMAIN blocks : x.blocks[i] = blocks[i]) <=> saver = "saved"
  BY <1>15, <1>16
<1> QED BY <1>10, <1>12, <1>14, <1>17 DEF LoadedOK, x

(***************************************************************************)
(* The two programs together.                                              *)
(***************************************************************************)
LoadInv ==
  /\ loader \in {"idle", "loaded", "refused", "panicked"}
  /\ loader # "idle" => saver \in {"saved", "stopped"}
  /\ loader # "idle" /\ saver = "saved" => loader = "loaded"
  /\ loader = "loaded" => LoadedOK(idx)

LEMMA NextLoadInv ==
  ASSUME IndexInv, FileInv, LoadInv, [Next]_<<vars, fileVars, scanVars>>
  PROVE  LoadInv'
<1>1. CASE Load
  <2>1. saver \in {"saved", "stopped"} /\ UNCHANGED <<vars, section, file, saver>>
    BY <1>1 DEF Load
  <2>2. /\ loader' \in {"loaded", "refused", "panicked"}
        /\ loader' = "loaded" => ~ Refused /\ ~ Panics /\ idx' = parseIndexBytes
        /\ loader' # "loaded" => Refused \/ Panics
    BY <1>1 DEF Load
  <2>3. saver = "saved" => loader' = "loaded"
    BY <2>2, SavedIsAccepted
  <2>4. ASSUME loader' = "loaded" PROVE LoadedOK(idx)'
    <3>1. PICK x : x = idx'
      OBVIOUS
    <3>2. LoadedOK(x)
      BY <2>1, <2>2, <2>4, <3>1, AcceptedIsOK
    <3>3. Index' = Index /\ blocks' = blocks
      BY <2>1, WritesSame DEF vars
    <3> QED BY <2>1, <3>1, <3>2, <3>3 DEF LoadedOK, AllButBlocks
  <2> QED BY <2>1, <2>2, <2>3, <2>4 DEF LoadInv
<1>2. ASSUME UNCHANGED <<vars, saver, loader, idx>> PROVE LoadInv'
  <2>1. Index' = Index /\ blocks' = blocks
    BY <1>2, WritesSame DEF vars
  <2>2. LoadedOK(idx) => LoadedOK(idx)'
    BY <1>2, <2>1 DEF LoadedOK, AllButBlocks
  <2> QED BY <1>2, <2>2 DEF LoadInv
<1>3. ASSUME loader = "idle", loader' = "idle" PROVE LoadInv'
  BY <1>3 DEF LoadInv
<1>4. CASE Create \/ Save \/ SaveStops
  <2>1. saver \notin {"saved", "stopped"} /\ loader' = loader
    BY <1>4 DEF Create, Save, SaveStops
  <2> QED BY <1>3, <2>1 DEF LoadInv
<1>5. CASE BuildNext /\ UNCHANGED <<fileVars, scanVars>>
  <2>1. loader' = loader
    BY <1>5 DEF fileVars
  <2>2. CASE loader = "idle"
    BY <1>3, <2>1, <2>2
  <2>3. CASE loader # "idle"
    <3>1. stage = "done" /\ todo = <<>> /\ stage # "split" /\ stage # "materialize"
      <4>1. stage = "done"
        BY <2>3 DEF FileInv, LoadInv
      <4>2. clusters - 1 \in 0 .. (clusters - 1)
        BY DEF IndexInv, BuildInv, TypeOK
      <4> QED BY <4>1, <4>2, RowsOfIs
    <3>2. ~ BuildNext
      BY <3>1 DEF BuildNext, Leaf, Split, SplitEnds, MakeCluster, MakeBlocks
    <3> QED BY <1>5, <3>2
  <2> QED BY <2>2, <2>3
<1>6. CASE Ask \/ Scan \/ Stopped \/ UNCHANGED <<vars, fileVars, scanVars>>
  <2>1. UNCHANGED <<vars, saver, loader, idx>>
    BY <1>6 DEF Ask, Scan, Stopped, fileVars
  <2> QED BY <1>2, <2>1
<1> QED BY <1>1, <1>4, <1>5, <1>6 DEF Next, FileNext

LEMMA SpecFileInv == Spec => [](IndexInv /\ FileInv /\ LoadInv)
<1>1. Init => IndexInv /\ FileInv /\ LoadInv
  <2> SUFFICES ASSUME Init PROVE IndexInv /\ FileInv /\ LoadInv
    OBVIOUS
  <2>1. IndexInv
    BY InitIndexInv DEF Init
  <2>2. FileInv /\ LoadInv
    BY DEF Init, FileInit, FileInv, LoadInv
  <2> QED BY <2>1, <2>2
<1>2. IndexInv /\ FileInv /\ LoadInv /\ [Next]_<<vars, fileVars, scanVars>>
      => (IndexInv /\ FileInv /\ LoadInv)'
  BY NextIndexInv, NextFileInv, NextLoadInv
<1> QED BY <1>1, <1>2, PTL DEF Spec

(***************************************************************************)
(* What Load returns is what Build returned: Save puts every array where   *)
(* Load looks for it, for every dimension and number of clusters and of    *)
(* vectors; and a file that was cut is refused, or ends the server, or has *)
(* all parts but the last of the blocks.                                   *)
(***************************************************************************)
THEOREM IndexLoadedIsSaved == Spec => []LoadedIsSaved
<1>1. LoadInv => LoadedIsSaved
  BY DEF LoadInv, LoadedIsSaved, LoadedOK
<1> QED BY <1>1, SpecFileInv, PTL

-----------------------------------------------------------------------------
(***************************************************************************)
(* Sums compared, and bounded.                                             *)
(***************************************************************************)
LEMMA SumOverMonotone ==
  ASSUME NEW first \in Int, NEW last \in Int, first - 1 <= last,
         NEW f, NEW g, \A i \in first .. last : f[i] \in Int /\ g[i] \in Int /\ f[i] <= g[i]
  PROVE  SumOver(f, first, last) <= SumOver(g, first, last)
<1>1. PICK s : SumsOf(s, f, first, last) /\ SumOver(f, first, last) = s[last]
  BY SumOverIs
<1>2. PICK t : SumsOf(t, g, first, last) /\ SumOver(g, first, last) = t[last]
  BY SumOverIs
<1> DEFINE lo == first - 1
           T == {i \in lo .. last : s[i] <= t[i]}
<1>3. lo \in T /\ lo \in Int /\ lo + 1 = first
  BY <1>1, <1>2 DEF SumsOf
<1>4. ASSUME NEW i \in lo .. (last - 1), i \in T PROVE i + 1 \in T
  <2>1. i + 1 \in first .. last /\ (i + 1) - 1 = i /\ i + 1 \in lo .. last
    OBVIOUS
  <2>2. s[i + 1] = s[i] + f[i + 1] /\ t[i + 1] = t[i] + g[i + 1]
    BY <1>1, <1>2, <2>1 DEF SumsOf
  <2>3. s[i] \in Int /\ t[i] \in Int /\ f[i + 1] \in Int /\ g[i + 1] \in Int /\ f[i + 1] <= g[i + 1]
    BY <1>1, <1>2, <2>1 DEF SumsOf
  <2> QED BY <1>4, <2>1, <2>2, <2>3
<1>5. lo .. last \subseteq T
  <2> HIDE DEF T
  <2> QED BY <1>3, <1>4, IntervalInduction
<1>6. last \in lo .. last
  OBVIOUS
<1> QED BY <1>1, <1>2, <1>5, <1>6

LEMMA SumOverBetween ==
  ASSUME NEW first \in Int, NEW last \in Int, NEW n \in Nat, n = last - first + 1,
         NEW l \in Int, NEW u \in Int, NEW f,
         \A i \in first .. last : f[i] \in Int /\ l <= f[i] /\ f[i] <= u
  PROVE  n * l <= SumOver(f, first, last) /\ SumOver(f, first, last) <= n * u
<1>1. first - 1 <= last /\ \A i \in first .. last : f[i] \in Int
  OBVIOUS
<1>2. PICK s : SumsOf(s, f, first, last) /\ SumOver(f, first, last) = s[last]
  BY <1>1, SumOverIs
<1> DEFINE at(k) == first - 1 + k
           T == {k \in 0 .. n : k * l <= s[at(k)] /\ s[at(k)] <= k * u}
<1>3. 0 \in T
  <2>1. at(0) = first - 1 /\ 0 * l = 0 /\ 0 * u = 0
    OBVIOUS
  <2> QED BY <1>2, <2>1 DEF SumsOf
<1>4. ASSUME NEW k \in 0 .. (n - 1), k \in T PROVE k + 1 \in T
  <2>1. at(k + 1) \in first .. last /\ at(k + 1) - 1 = at(k) /\ at(k) \in (first - 1) .. last
    BY <1>1
  <2>2. s[at(k + 1)] = s[at(k)] + f[at(k + 1)] /\ s[at(k)] \in Int
    BY <1>2, <2>1 DEF SumsOf
  <2>3. (k + 1) * l = k * l + l /\ (k + 1) * u = k * u + u
        /\ k * l \in Int /\ k * u \in Int
    OBVIOUS
  <2>4. f[at(k + 1)] \in Int /\ l <= f[at(k + 1)] /\ f[at(k + 1)] <= u
    BY <2>1
  <2>5. k * l <= s[at(k)] /\ s[at(k)] <= k * u /\ k + 1 \in 0 .. n
    BY <1>4
  <2> HIDE DEF at
  <2> QED BY <2>2, <2>3, <2>4, <2>5
<1>5. 0 .. n \subseteq T
  <2>1. 0 \in Int /\ n \in Int
    OBVIOUS
  <2> HIDE DEF T
  <2> QED BY <1>3, <1>4, <2>1, IntervalInduction
<1>6. n \in 0 .. n /\ at(n) = last
  OBVIOUS
<1>7. n * l <= s[at(n)] /\ s[at(n)] <= n * u
  BY <1>5, <1>6
<1> QED BY <1>2, <1>6, <1>7

LEMMA SumOverBounded ==
  ASSUME NEW n \in Nat, NEW b \in Nat, NEW f, \A i \in 0 .. (n - 1) : f[i] \in 0 .. b
  PROVE  SumOver(f, 0, n - 1) \in 0 .. (n * b)
<1>1. PICK zero \in Int : zero = 0
  OBVIOUS
<1>2. PICK last \in Int : last = n - 1
  OBVIOUS
<1>3. /\ n = last - zero + 1 /\ zero - 1 <= last /\ n * zero = 0 /\ b \in Int
      /\ \A i \in zero .. last : f[i] \in Int /\ zero <= f[i] /\ f[i] <= b
  BY <1>1, <1>2
<1>4. n * zero <= SumOver(f, zero, last) /\ SumOver(f, zero, last) <= n * b
  BY <1>2, <1>3, SumOverBetween
<1>5. SumOver(f, zero, last) \in Int
  BY <1>2, <1>3, SumOverType
<1>6. SumOver(f, zero, last) = SumOver(f, 0, n - 1) /\ n * b \in Nat
  BY <1>1, <1>2
<1> QED BY <1>3, <1>4, <1>5, <1>6

-----------------------------------------------------------------------------
(***************************************************************************)
(* A lane of VPMULLD holds the whole square, and a lane's sum is the       *)
(* squared distance to the vector that lies in it.                         *)
(***************************************************************************)
LEMMA SmallModulo ==
  ASSUME NEW n \in Nat \ {0}, NEW a \in 0 .. (n - 1)
  PROVE  a % n = a
<1> DEFINE q == a \div n
<1>1. a = n * q + (a % n) /\ a % n \in 0 .. (n - 1) /\ q \in Nat
  OBVIOUS
<1> HIDE DEF q
<1>2. q = 0
  <2>1. ASSUME q >= 1 PROVE FALSE
    <3>1. n * q >= n
      BY <1>1, <2>1
    <3> QED BY <1>1, <3>1
  <2> QED BY <1>1, <2>1
<1>3. n * 0 = 0
  OBVIOUS
<1> QED BY <1>1, <1>2, <1>3

LEMMA LowIs ==
  ASSUME NEW p \in 0 .. MaxProduct
  PROVE  Low(p) = p
<1> DEFINE a == p + MaxProduct + 1
           n == 2 * (MaxProduct + 1)
<1>1. n \in Nat \ {0} /\ a \in 0 .. (n - 1) /\ MaxProduct \in Nat
  BY RoomAssumption, SentinelAssumption
<1>2. Low(p) = (a % n) - (MaxProduct + 1)
  BY DEF Low
<1> HIDE DEF n
<1>3. a % n = a
  BY <1>1, SmallModulo
<1> QED BY <1>1, <1>2, <1>3

LEMMA SquareIs ==
  ASSUME NEW a \in Int
  PROVE  a * a \in Nat
<1>1. CASE a >= 0
  BY <1>1
<1>2. CASE a < 0
  <2>1. -a \in Nat /\ (-a) * (-a) = a * a
    BY <1>2
  <2>2. \A b \in Nat : b * b \in Nat
    OBVIOUS
  <2> QED BY <2>1, <2>2
<1> QED BY <1>1, <1>2

Fits(q, v) ==
  \A d \in Dimensions : q[d] \in Int /\ v[d] \in Int
                        /\ (q[d] - v[d]) * (q[d] - v[d]) \in 0 .. MaxProduct

LEMMA DistanceIsSum ==
  ASSUME NEW q, NEW v, Fits(q, v)
  PROVE  /\ SquaredDistance(q, v) =
              SumOver([d \in Dimensions |-> (q[d] - v[d]) * (q[d] - v[d])], 0, Dim - 1)
         /\ SquaredDistance(q, v) \in 0 .. (MaxInt64 - 1)
<1> DEFINE f == [d \in Dimensions |-> (q[d] - v[d]) * (q[d] - v[d])]
<1>1. SquaredDistance(q, v) = SumOver(f, 0, Dim - 1)
  BY DEF SquaredDistance
<1>2. Dimensions = 0 .. (Dim - 1) /\ Dim \in Nat /\ MaxProduct \in Nat
  BY SizesAssumption, RoomAssumption, SentinelAssumption DEF Dimensions
<1>3. \A d \in 0 .. (Dim - 1) : f[d] \in 0 .. MaxProduct
  BY <1>2 DEF Fits
<1> HIDE DEF f
<1>4. SumOver(f, 0, Dim - 1) \in 0 .. (Dim * MaxProduct)
  BY <1>2, <1>3, SumOverBounded
<1>5. Dim * MaxProduct \in Nat /\ Dim * MaxProduct < MaxInt64 /\ MaxInt64 \in Nat
  BY <1>2, RoomAssumption, SentinelAssumption
<1> QED BY <1>1, <1>4, <1>5 DEF f

LEMMA LaneDistanceIs ==
  ASSUME NEW q, NEW v, Fits(q, v), NEW blks, NEW block, NEW lane \in 0 .. (blockSize - 1),
         \A d \in Dimensions : Value(blks, block, lane, d) = v[d]
  PROVE  quantizedBlock8DistancesAVX2(q, blks, block)[lane] = SquaredDistance(q, v)
<1> DEFINE f == [d \in Dimensions |-> (q[d] - v[d]) * (q[d] - v[d])]
           g == [d \in Dimensions |->
                   LET delta == q[d] - Value(blks, block, lane, d) IN Low(delta * delta)]
<1>1. quantizedBlock8DistancesAVX2(q, blks, block)[lane] = SumOver(g, 0, Dim - 1)
  BY DEF quantizedBlock8DistancesAVX2
<1>2. Dimensions = 0 .. (Dim - 1) /\ 0 \in Int /\ Dim - 1 \in Int /\ 0 - 1 <= Dim - 1
  BY SizesAssumption DEF Dimensions
<1>3. ASSUME NEW d \in Dimensions PROVE f[d] \in Int /\ g[d] = f[d]
  <2>1. f[d] \in 0 .. MaxProduct /\ MaxProduct \in Nat
    BY RoomAssumption, SentinelAssumption DEF Fits
  <2>2. g[d] = Low(f[d])
    OBVIOUS
  <2> HIDE DEF f, g
  <2> QED BY <2>1, <2>2, LowIs
<1> HIDE DEF f, g
<1>4. SumOver(f, 0, Dim - 1) = SumOver(g, 0, Dim - 1)
  BY <1>2, <1>3, SumOverSame
<1> QED BY <1>1, <1>4, DistanceIsSum DEF f

-----------------------------------------------------------------------------
(***************************************************************************)
(* A value that was written into the blocks is read where it was written.  *)
(***************************************************************************)
LEMMA WrittenAt ==
  ASSUME NEW count, NEW writes, NEW w \in writes, w.at \in 0 .. (count * blockStride - 1),
         \A u \in writes : u.at = w.at => u.value = w.value
  PROVE  Written(count, writes)[w.at] = w.value
<1>1. \E u \in writes : u.at = w.at
  OBVIOUS
<1> DEFINE v == CHOOSE u \in writes : u.at = w.at
<1>2. v \in writes /\ v.at = w.at
  BY <1>1
<1>3. Written(count, writes)[w.at] = v.value
  BY <1>1 DEF Written
<1> HIDE DEF v
<1> QED BY <1>2, <1>3

(***************************************************************************)
(* Numbers of two digits, of which the lower one is less than m.           *)
(***************************************************************************)
LEMMA DigitsUnique ==
  ASSUME NEW m \in Nat \ {0}, NEW a \in Int, NEW b \in Int,
         NEW r \in 0 .. (m - 1), NEW s \in 0 .. (m - 1), a * m + r = b * m + s
  PROVE  a = b /\ r = s
<1>1. \A x, y \in Int : x >= y + 1 => x * m >= y * m + m
  <2> SUFFICES ASSUME NEW x \in Int, NEW y \in Int, x >= y + 1 PROVE x * m >= y * m + m
    OBVIOUS
  <2>1. PICK k \in Nat : x = y + 1 + k
    <3>1. x - (y + 1) \in Nat /\ x = y + 1 + (x - (y + 1))
      OBVIOUS
    <3> QED BY <3>1
  <2>2. x * m = y * m + m + k * m /\ k * m \in Nat /\ y * m \in Int
    BY <2>1
  <2> QED BY <2>2
<1>2. a * m \in Int /\ b * m \in Int
  OBVIOUS
<1>3. ~ (a >= b + 1) /\ ~ (b >= a + 1)
  BY <1>1, <1>2
<1>4. a = b
  BY <1>3
<1> QED BY <1>2, <1>4

LEMMA DigitsBelow ==
  ASSUME NEW m \in Nat \ {0}, NEW n \in Nat, NEW a \in 0 .. (n - 1), NEW r \in 0 .. (m - 1)
  PROVE  a * m + r \in 0 .. (n * m - 1)
<1>1. PICK k \in Nat : n = a + 1 + k
  <2>1. n - (a + 1) \in Nat /\ n = a + 1 + (n - (a + 1))
    OBVIOUS
  <2> QED BY <2>1
<1>2. n * m = a * m + m + k * m /\ k * m \in Nat /\ a * m \in Nat
  BY <1>1
<1> QED BY <1>2

(***************************************************************************)
(* The place of a value: its block, its dimension and its lane.            *)
(***************************************************************************)
Place(block, d, lane) == block * blockStride + d * blockSize + lane

Lanes == 0 .. (blockSize - 1)

LEMMA PlacesUnique ==
  ASSUME NEW b \in Int, NEW c \in Int, NEW d \in Dimensions, NEW e \in Dimensions,
         NEW l \in Lanes, NEW m \in Lanes, Place(b, d, l) = Place(c, e, m)
  PROVE  b = c /\ d = e /\ l = m
<1> DEFINE x == d * blockSize + l
           y == e * blockSize + m
<1>1. /\ blockSize \in Nat \ {0} /\ Dim \in Nat \ {0} /\ blockStride = Dim * blockSize
      /\ blockStride \in Nat \ {0}
  BY SizesAssumption DEF blockStride
<1>2. x \in 0 .. (blockStride - 1) /\ y \in 0 .. (blockStride - 1)
  BY <1>1, DigitsBelow DEF Dimensions, Lanes
<1>3. b * blockStride + x = c * blockStride + y
  <2>1. b * blockStride \in Int /\ c * blockStride \in Int /\ d * blockSize \in Int /\ e * blockSize \in Int
        /\ l \in Int /\ m \in Int
    BY <1>1 DEF Dimensions, Lanes
  <2> QED BY <2>1 DEF Place
<1> HIDE DEF x, y
<1>4. b = c /\ x = y
  BY <1>1, <1>2, <1>3, DigitsUnique
<1>5. d = e /\ l = m
  BY <1>1, <1>4, DigitsUnique DEF Dimensions, Lanes, x, y
<1> QED BY <1>4, <1>5

LEMMA PlacesBelow ==
  ASSUME NEW n \in Nat, NEW b \in 0 .. (n - 1), NEW d \in Dimensions, NEW l \in Lanes
  PROVE  Place(b, d, l) \in 0 .. (n * blockStride - 1)
<1> DEFINE x == d * blockSize + l
<1>1. /\ blockSize \in Nat \ {0} /\ Dim \in Nat \ {0} /\ blockStride = Dim * blockSize
      /\ blockStride \in Nat \ {0}
  BY SizesAssumption DEF blockStride
<1>2. x \in 0 .. (blockStride - 1)
  BY <1>1, DigitsBelow DEF Dimensions, Lanes
<1>3. b * blockStride + x = Place(b, d, l)
  <2>1. b * blockStride \in Int /\ d * blockSize \in Int /\ l \in Int
    BY <1>1 DEF Dimensions, Lanes
  <2> QED BY <2>1 DEF Place
<1> HIDE DEF x
<1> QED BY <1>1, <1>2, <1>3, DigitsBelow

LEMMA AtIs ==
  ASSUME NEW block \in Int, NEW rel \in Nat, NEW d \in Dimensions
  PROVE  /\ rel \div blockSize \in Nat /\ rel % blockSize \in Lanes
         /\ rel = (rel \div blockSize) * blockSize + (rel % blockSize)
         /\ At(block, rel, d) = Place(block + rel \div blockSize, d, rel % blockSize)
<1>1. blockSize \in Nat \ {0}
  BY SizesAssumption
<1>2. /\ rel \div blockSize \in Nat /\ rel % blockSize \in Lanes
      /\ rel = blockSize * (rel \div blockSize) + (rel % blockSize)
  BY <1>1 DEF Lanes
<1>3. blockSize * (rel \div blockSize) = (rel \div blockSize) * blockSize
  BY <1>1, <1>2
<1> QED BY <1>2, <1>3 DEF At, Place

-----------------------------------------------------------------------------
(***************************************************************************)
(* Rows and blocks of the finished index, cluster after cluster.           *)
(***************************************************************************)
LEMMA OffsetsLieInOrder ==
  ASSUME IndexInv, stage = "done"
  PROVE  /\ listOffsets[0] = 0 /\ listOffsets[clusters] = input.nVectors
         /\ \A c, e \in 0 .. clusters : c <= e => /\ listOffsets[c] <= listOffsets[e]
                                                  /\ blockOffsets[c] <= blockOffsets[e]
<1>1. /\ clusters \in Nat \ {0} /\ todo = <<>> /\ BuildInv
      /\ listOffsets \in [0 .. clusters -> Nat] /\ listOffsets[0] = 0
      /\ blockOffsets \in [0 .. clusters -> Nat]
  <2>1. clusters - 1 \in 0 .. (clusters - 1)
    BY DEF IndexInv, BuildInv, TypeOK
  <2> QED BY <2>1, RowsOfIs DEF IndexInv, BuildInv, TypeOK, LaidOut
<1>2. ASSUME NEW c \in 0 .. (clusters - 1)
      PROVE  listOffsets[c] <= listOffsets[c + 1] /\ blockOffsets[c] <= blockOffsets[c + 1]
  <2>1. ClusterMade(c) /\ RangeOK(ranges[c])
    BY RowsOfIs
  <2>2. Size(c) \in Nat
    BY <2>1 DEF RangeOK, Size
  <2>3. c \in 0 .. clusters /\ c + 1 \in 0 .. clusters
    BY <1>1
  <2>4. blockOffsets[c] \in Nat /\ blocksForRows(Size(c)) \in Nat
    BY <1>1, <2>2, <2>3, blocksForRowsIs
  <2>5. blockOffsets[c + 1] = blockOffsets[c] + blocksForRows(Size(c))
    BY <2>1 DEF ClusterMade
  <2>6. listOffsets[c] <= listOffsets[c + 1]
    BY <2>1 DEF ClusterMade, RangeOK
  <2> QED BY <2>4, <2>5, <2>6
<1>3. ASSUME NEW c \in 0 .. clusters, NEW e \in c .. clusters
      PROVE  listOffsets[c] <= listOffsets[e] /\ blockOffsets[c] <= blockOffsets[e]
  <2> DEFINE T == {i \in c .. clusters : listOffsets[c] <= listOffsets[i] /\ blockOffsets[c] <= blockOffsets[i]}
  <2>1. c \in T
    BY <1>1
  <2>2. ASSUME NEW i \in c .. (clusters - 1), i \in T PROVE i + 1 \in T
    <3>1. i \in 0 .. (clusters - 1) /\ i \in 0 .. clusters /\ i + 1 \in 0 .. clusters /\ i + 1 \in c .. clusters
      BY <1>1
    <3>2. listOffsets[i] <= listOffsets[i + 1] /\ blockOffsets[i] <= blockOffsets[i + 1]
      BY <1>2, <3>1
    <3>3. /\ listOffsets[c] \in Nat /\ listOffsets[i] \in Nat /\ listOffsets[i + 1] \in Nat
          /\ blockOffsets[c] \in Nat /\ blockOffsets[i] \in Nat /\ blockOffsets[i + 1] \in Nat
      BY <1>1, <3>1
    <3> QED BY <2>2, <3>1, <3>2, <3>3
  <2> HIDE DEF T
  <2>3. c .. clusters \subseteq T
    <3>1. c \in Int /\ clusters \in Int
      BY <1>1
    <3> QED BY <2>1, <2>2, <3>1, IntervalInduction
  <2> QED BY <2>3 DEF T
<1>4. listOffsets[clusters] = input.nVectors
  <2> DEFINE last == clusters - 1
  <2>1. last \in 0 .. (clusters - 1) /\ last + 1 = clusters
    BY <1>1
  <2> HIDE DEF last
  <2>2. ClusterMade(last) /\ ranges[last].end = input.nVectors
    <3>1. last = clusters - 1
      BY DEF last
    <3> QED BY <1>1, <2>1, <3>1, RowsOfIs, RangesAre
  <2> QED BY <2>1, <2>2 DEF ClusterMade
<1>5. \A c, e \in 0 .. clusters : c <= e => e \in c .. clusters
  BY <1>1
<1> QED BY <1>1, <1>3, <1>4, <1>5

LEMMA RowsCovered ==
  ASSUME IndexInv, stage = "done", NEW row \in 0 .. (input.nVectors - 1)
  PROVE  \E c \in 0 .. (clusters - 1) : row \in RowsOf(c)
<1>1. /\ clusters \in Nat \ {0} /\ listOffsets \in [0 .. clusters -> Nat] /\ listOffsets[0] = 0
      /\ listOffsets[clusters] = input.nVectors /\ input.nVectors \in Nat
  <2>1. input \in Inputs
    BY DEF IndexInv, BuildInv, TypeOK
  <2>2. input.nVectors \in Nat
    BY <2>1, InputIs
  <2> QED BY <2>2, OffsetsLieInOrder DEF IndexInv, BuildInv, TypeOK, LaidOut
<1> SUFFICES ASSUME \A c \in 0 .. (clusters - 1) : row \notin RowsOf(c) PROVE FALSE
  OBVIOUS
<1> DEFINE T == {i \in 0 .. clusters : listOffsets[i] <= row}
<1>2. 0 \in T
  BY <1>1
<1>3. ASSUME NEW i \in 0 .. (clusters - 1), i \in T PROVE i + 1 \in T
  <2>1. i + 1 \in 0 .. clusters /\ listOffsets[i + 1] \in Nat /\ listOffsets[i] \in Nat
    BY <1>1
  <2>2. row \notin listOffsets[i] .. (listOffsets[i + 1] - 1)
    BY DEF RowsOf
  <2> QED BY <1>3, <2>1, <2>2
<1> HIDE DEF T
<1>4. 0 .. clusters \subseteq T
  <2>1. 0 \in Int /\ clusters \in Int
    BY <1>1
  <2> QED BY <1>1, <1>2, <1>3, <2>1, IntervalInduction
<1>5. clusters \in T
  BY <1>1, <1>4
<1> QED BY <1>1, <1>5 DEF T

(***************************************************************************)
(* The block a row lies in is one of its cluster.                          *)
(***************************************************************************)
BlockOf(c, row) == blockOffsets[c] + (row - listOffsets[c]) \div blockSize
LaneOf(c, row)  == (row - listOffsets[c]) % blockSize

LEMMA BlockOfIs ==
  ASSUME IndexInv, stage = "done", NEW c \in 0 .. (clusters - 1), NEW row \in RowsOf(c)
  PROVE  /\ BlockOf(c, row) \in blockOffsets[c] .. (blockOffsets[c + 1] - 1)
         /\ LaneOf(c, row) \in Lanes /\ row - listOffsets[c] \in Nat
         /\ blockOffsets[c] \in Nat /\ blockOffsets[c + 1] \in Nat
         /\ row = listOffsets[c] + ((BlockOf(c, row) - blockOffsets[c]) * blockSize + LaneOf(c, row))
<1> DEFINE rel == row - listOffsets[c]
           q == rel \div blockSize
           n == Size(c)
           b == blocksForRows(n)
<1>1. ClusterMade(c) /\ RangeOK(ranges[c]) /\ RowsOf(c) = ranges[c].start .. (ranges[c].end - 1)
  BY RowsOfIs
<1>2. n \in Nat /\ rel \in Nat /\ rel < n /\ row = listOffsets[c] + rel /\ listOffsets[c] \in Int
  BY <1>1 DEF ClusterMade, RangeOK, Size
<1>3. b \in Nat /\ n <= b * blockSize /\ blockOffsets[c + 1] = blockOffsets[c] + b
  BY <1>1, <1>2, blocksForRowsIs DEF ClusterMade
<1>4. blockOffsets[c] \in Nat /\ blockOffsets[c + 1] \in Nat
  <2>1. c \in 0 .. clusters /\ c + 1 \in 0 .. clusters
    BY DEF IndexInv, BuildInv, TypeOK
  <2> QED BY <2>1 DEF IndexInv, LaidOut
<1>5. q \in Nat /\ rel % blockSize \in Lanes /\ rel = q * blockSize + (rel % blockSize)
  <2>1. 0 \in Int /\ 0 \in 0 .. (Dim - 1)
    BY SizesAssumption
  <2>2. \E d \in Dimensions : TRUE
    BY <2>1 DEF Dimensions
  <2> HIDE DEF rel
  <2> QED BY <1>2, <2>1, <2>2, AtIs
<1> HIDE DEF q, n, b
<1>6. blockSize \in Nat \ {0}
  BY SizesAssumption
<1>7. q < b
  <2>1. ASSUME q >= b PROVE FALSE
    <3>1. PICK k \in Nat : q = b + k
      <4>1. q - b \in Nat /\ q = b + (q - b)
        BY <1>3, <1>5, <2>1
      <4> QED BY <4>1
    <3>2. q * blockSize = b * blockSize + k * blockSize /\ k * blockSize \in Nat /\ b * blockSize \in Nat
      BY <1>3, <1>6, <3>1
    <3>3. q * blockSize >= n
      BY <1>2, <1>3, <3>2
    <3>4. rel >= q * blockSize
      BY <1>2, <1>3, <1>5, <1>6, <3>2 DEF Lanes
    <3> QED BY <1>2, <1>3, <3>2, <3>3, <3>4
  <2> QED BY <1>3, <1>5, <2>1
<1>8. BlockOf(c, row) = blockOffsets[c] + q /\ LaneOf(c, row) = rel % blockSize
  BY DEF BlockOf, LaneOf, q
<1>9. BlockOf(c, row) - blockOffsets[c] = q
  BY <1>4, <1>5, <1>8
<1>10. row = listOffsets[c] + (q * blockSize + (rel % blockSize))
  BY <1>2, <1>5
<1> HIDE DEF rel
<1> QED BY <1>2, <1>3, <1>4, <1>5, <1>7, <1>8, <1>9, <1>10 DEF rel

LEMMA RowsApart ==
  ASSUME IndexInv, stage = "done",
         NEW c \in 0 .. (clusters - 1), NEW row \in RowsOf(c),
         NEW e \in 0 .. (clusters - 1), NEW other \in RowsOf(e),
         BlockOf(c, row) = BlockOf(e, other), LaneOf(c, row) = LaneOf(e, other)
  PROVE  c = e /\ row = other
<1>1. /\ BlockOf(c, row) \in blockOffsets[c] .. (blockOffsets[c + 1] - 1)
      /\ blockOffsets[c] \in Nat /\ blockOffsets[c + 1] \in Nat
      /\ row = listOffsets[c] + ((BlockOf(c, row) - blockOffsets[c]) * blockSize + LaneOf(c, row))
  BY BlockOfIs
<1>2. /\ BlockOf(e, other) \in blockOffsets[e] .. (blockOffsets[e + 1] - 1)
      /\ blockOffsets[e] \in Nat /\ blockOffsets[e + 1] \in Nat
      /\ other = listOffsets[e] + ((BlockOf(e, other) - blockOffsets[e]) * blockSize + LaneOf(e, other))
  BY BlockOfIs
<1>3. /\ c \in 0 .. clusters /\ c + 1 \in 0 .. clusters
      /\ e \in 0 .. clusters /\ e + 1 \in 0 .. clusters
      /\ \A f, g \in 0 .. clusters : f <= g => blockOffsets[f] <= blockOffsets[g]
  BY OffsetsLieInOrder DEF IndexInv, BuildInv, TypeOK
<1>4. ASSUME c + 1 <= e PROVE FALSE
  <2>1. blockOffsets[c + 1] <= blockOffsets[e]
    BY <1>3, <1>4
  <2> QED BY <1>1, <1>2, <2>1
<1>5. ASSUME e + 1 <= c PROVE FALSE
  <2>1. blockOffsets[e + 1] <= blockOffsets[c]
    BY <1>3, <1>5
  <2> QED BY <1>1, <1>2, <2>1
<1>6. c = e
  BY <1>4, <1>5
<1> QED BY <1>1, <1>2, <1>6

(***************************************************************************)
(* The blocks hold every vector at the place of its row, and the blocks of *)
(* the centroids every centroid.                                           *)
(***************************************************************************)
RowWrites(c) ==
  {[at |-> At(blockOffsets[c], row - listOffsets[c], d), value |-> vectors[rows[row]][d]]
   : row \in RowsOf(c), d \in Dimensions}

LEMMA BlocksHold ==
  ASSUME IndexInv, stage = "done",
         NEW c \in 0 .. (clusters - 1), NEW row \in RowsOf(c), NEW d \in Dimensions
  PROVE  /\ Place(BlockOf(c, row), d, LaneOf(c, row)) \in 0 .. (BlockValues - 1)
         /\ blocks[Place(BlockOf(c, row), d, LaneOf(c, row))] = vectors[rows[row]][d]
<1> DEFINE writes == UNION {RowWrites(e) : e \in 0 .. (clusters - 1)}
           w == [at |-> At(blockOffsets[c], row - listOffsets[c], d),
                 value |-> vectors[rows[row]][d]]
<1>1. blocks = Written(blockOffsets[clusters], writes)
  BY DEF IndexInv, LaidOut, buildIVFBlocks, RowWrites
<1>2. ASSUME NEW e \in 0 .. (clusters - 1), NEW other \in RowsOf(e), NEW f \in Dimensions
      PROVE  At(blockOffsets[e], other - listOffsets[e], f)
               = Place(BlockOf(e, other), f, LaneOf(e, other))
  <2>1. other - listOffsets[e] \in Nat /\ blockOffsets[e] \in Int
    BY BlockOfIs
  <2> QED BY <2>1, AtIs DEF BlockOf, LaneOf
<1>3. w \in writes
  BY DEF RowWrites
<1>4. w.at = Place(BlockOf(c, row), d, LaneOf(c, row)) /\ w.value = vectors[rows[row]][d]
  BY <1>2
<1>5. BlockOf(c, row) \in 0 .. (blockOffsets[clusters] - 1) /\ blockOffsets[clusters] \in Nat
  <2>1. /\ BlockOf(c, row) \in blockOffsets[c] .. (blockOffsets[c + 1] - 1)
        /\ blockOffsets[c] \in Nat /\ blockOffsets[c + 1] \in Nat
    BY BlockOfIs
  <2>2. c + 1 \in 0 .. clusters /\ clusters \in 0 .. clusters /\ c + 1 <= clusters
    BY DEF IndexInv, BuildInv, TypeOK
  <2>3. blockOffsets[c + 1] <= blockOffsets[clusters] /\ blockOffsets[clusters] \in Nat
    BY <2>2, OffsetsLieInOrder, BlocksAre
  <2> QED BY <2>1, <2>3
<1>6. LaneOf(c, row) \in Lanes
  BY BlockOfIs
<1>7. w.at \in 0 .. (blockOffsets[clusters] * blockStride - 1)
  BY <1>4, <1>5, <1>6, PlacesBelow
<1>8. ASSUME NEW u \in writes, u.at = w.at PROVE u.value = w.value
  <2>1. PICK e \in 0 .. (clusters - 1) : u \in RowWrites(e)
    OBVIOUS
  <2>2. PICK other \in RowsOf(e), f \in Dimensions :
          u = [at |-> At(blockOffsets[e], other - listOffsets[e], f), value |-> vectors[rows[other]][f]]
    BY <2>1 DEF RowWrites
  <2>3. Place(BlockOf(e, other), f, LaneOf(e, other)) = Place(BlockOf(c, row), d, LaneOf(c, row))
    BY <1>2, <1>4, <1>8, <2>2
  <2>4. BlockOf(e, other) \in Int /\ BlockOf(c, row) \in Int
        /\ LaneOf(e, other) \in Lanes
    BY BlockOfIs
  <2>5. BlockOf(e, other) = BlockOf(c, row) /\ f = d /\ LaneOf(e, other) = LaneOf(c, row)
    BY <1>6, <2>3, <2>4, PlacesUnique
  <2>6. other = row
    BY <2>5, RowsApart
  <2> QED BY <2>2, <2>5, <2>6
<1> HIDE DEF writes, w
<1>9. Written(blockOffsets[clusters], writes)[w.at] = w.value
  BY <1>3, <1>7, <1>8, WrittenAt
<1> QED BY <1>1, <1>4, <1>7, <1>9 DEF BlockValues

LEMMA CentroidsHold ==
  ASSUME IndexInv, stage = "done", NEW c \in 0 .. (clusters - 1), NEW d \in Dimensions
  PROVE  centroidBlocks[Place(c \div blockSize, d, c % blockSize)] = stats[c].centroid[d]
         /\ Place(c \div blockSize, d, c % blockSize) \in 0 .. (blocksForRows(clusters) * blockStride - 1)
         /\ c \div blockSize \in Nat /\ c % blockSize \in Lanes
<1> DEFINE writes == {[at |-> At(0, e, f), value |-> stats[e].centroid[f]]
                      : e \in 0 .. (clusters - 1), f \in Dimensions}
           w == [at |-> At(0, c, d), value |-> stats[c].centroid[d]]
           n == blocksForRows(clusters)
<1>1. centroidBlocks = Written(n, writes)
  BY DEF IndexInv, LaidOut, buildCentroidBlocks
<1>2. ASSUME NEW e \in 0 .. (clusters - 1), NEW f \in Dimensions
      PROVE  /\ At(0, e, f) = Place(e \div blockSize, f, e % blockSize)
             /\ e \div blockSize \in Nat /\ e % blockSize \in Lanes
             /\ e = (e \div blockSize) * blockSize + (e % blockSize)
  <2>1. PICK zero \in Int : zero = 0
    OBVIOUS
  <2>2. /\ At(zero, e, f) = Place(zero + e \div blockSize, f, e % blockSize)
        /\ e \div blockSize \in Nat /\ e % blockSize \in Lanes
        /\ e = (e \div blockSize) * blockSize + (e % blockSize)
    BY AtIs
  <2>3. zero + e \div blockSize = e \div blockSize
    BY <2>1, <2>2
  <2> QED BY <2>1, <2>2, <2>3
<1>3. w \in writes
  OBVIOUS
<1>4. w.at = Place(c \div blockSize, d, c % blockSize) /\ w.value = stats[c].centroid[d]
  BY <1>2
<1>5. n \in Nat /\ clusters \in Nat /\ clusters <= n * blockSize
  BY blocksForRowsIs DEF IndexInv, BuildInv, TypeOK
<1>6. c \div blockSize \in 0 .. (n - 1)
  <2> DEFINE q == c \div blockSize
  <2>1. q \in Nat /\ c = q * blockSize + (c % blockSize) /\ c % blockSize \in Lanes
    BY <1>2
  <2>2. blockSize \in Nat \ {0} /\ c % blockSize >= 0 /\ c % blockSize \in Int
    BY <2>1, SizesAssumption DEF Lanes
  <2> HIDE DEF q, n
  <2>3. ASSUME q >= n PROVE FALSE
    <3>1. PICK k \in Nat : q = n + k
      <4>1. q - n \in Nat /\ q = n + (q - n)
        BY <1>5, <2>1, <2>3
      <4> QED BY <4>1
    <3>2. q * blockSize = n * blockSize + k * blockSize /\ k * blockSize \in Nat /\ n * blockSize \in Nat
      BY <1>5, <2>2, <3>1
    <3> QED BY <1>5, <2>1, <2>2, <3>2
  <2>4. q \in 0 .. (n - 1)
    BY <1>5, <2>1, <2>3
  <2> QED BY <2>4 DEF q
<1>7. w.at \in 0 .. (n * blockStride - 1)
  <2> HIDE DEF n
  <2> QED BY <1>2, <1>4, <1>5, <1>6, PlacesBelow
<1>8. ASSUME NEW u \in writes, u.at = w.at PROVE u.value = w.value
  <2>1. PICK e \in 0 .. (clusters - 1), f \in Dimensions :
          u = [at |-> At(0, e, f), value |-> stats[e].centroid[f]]
    OBVIOUS
  <2>2. Place(e \div blockSize, f, e % blockSize) = Place(c \div blockSize, d, c % blockSize)
    BY <1>2, <1>4, <1>8, <2>1
  <2>3. /\ e \div blockSize \in Int /\ c \div blockSize \in Int
        /\ e % blockSize \in Lanes /\ c % blockSize \in Lanes
    BY <1>2
  <2>4. e \div blockSize = c \div blockSize /\ f = d /\ e % blockSize = c % blockSize
    BY <2>2, <2>3, PlacesUnique
  <2>5. e = c
    BY <1>2, <2>4
  <2> QED BY <2>1, <2>4, <2>5
<1> HIDE DEF writes, w, n
<1>9. Written(n, writes)[w.at] = w.value
  BY <1>3, <1>5, <1>7, <1>8, WrittenAt
<1>10. c \div blockSize \in Nat /\ c % blockSize \in Lanes
  BY <1>2
<1> QED BY <1>1, <1>4, <1>7, <1>9, <1>10 DEF n

-----------------------------------------------------------------------------
(***************************************************************************)
(* A centroid lies in its box, or one above it in a dimension where its    *)
(* sum is negative.                                                        *)
(***************************************************************************)
LEMMA ProductOrder ==
  ASSUME NEW n \in Nat \ {0}, NEW a \in Int, NEW b \in Int, n * a < n * b
  PROVE  a < b
<1> SUFFICES ASSUME a >= b PROVE FALSE
  OBVIOUS
<1>1. PICK k \in Nat : a = b + k
  <2>1. a - b \in Nat /\ a = b + (a - b)
    OBVIOUS
  <2> QED BY <2>1
<1>2. n * a = n * b + n * k /\ n * k \in Nat /\ n * b \in Int
  BY <1>1
<1> QED BY <1>2

LEMMA CentroidInBox ==
  ASSUME input \in Inputs, IdsOK, NEW r, RangeOK(r), NEW d \in Dimensions
  PROVE  bboxMin(r, d) <= centroid(r, d) /\ centroid(r, d) <= bboxMax(r, d) + 1
<1> DEFINE value[i \in r.start .. (r.end - 1)] == vectors[ids[i]][d]
           n == r.end - r.start
           lo == bboxMin(r, d)
           hi == bboxMax(r, d)
           sum == SumOf(r, d)
           a == sum + n \div 2
           c == Quotient(a, n)
<1>1. n \in Nat \ {0} /\ r.end # r.start /\ r.start \in Int
      /\ r.end - 1 \in Int /\ n = (r.end - 1) - r.start + 1 /\ n \div 2 \in 0 .. n /\ 2 * (n \div 2) <= n
  BY DEF RangeOK
<1>2. lo \in Int /\ hi \in Int /\ sum \in Int
  BY BoxIs, SumOfType
<1>3. \A i \in r.start .. (r.end - 1) : value[i] \in Int /\ lo <= value[i] /\ value[i] <= hi
  <2>1. r.start .. (r.end - 1) \subseteq Ids(input)
    BY WindowIs DEF RangeOK
  <2>2. \A i \in r.start .. (r.end - 1) : vectors[ids[i]][d] \in Int
    BY <2>1, InputIs DEF IdsOK
  <2> QED BY <2>2, BoxIs
<1>4. sum = SumOver(value, r.start, r.end - 1)
  BY DEF SumOf
<1>5. n * lo <= sum /\ sum <= n * hi
  <2> HIDE DEF value, lo, hi, n, sum
  <2> QED BY <1>1, <1>2, <1>3, <1>4, SumOverBetween
<1>6. centroid(r, d) = c
  BY <1>1 DEF centroid
<1>7. a \in Int /\ a = sum + n \div 2
  BY <1>1, <1>2
<1> HIDE DEF value, sum, lo, hi, a, n
<1>8. /\ c \in Int /\ n * c \in Int
      /\ a >= 0 => n * c <= a /\ a < n * c + n
      /\ a < 0 => a <= n * c /\ n * c - n < a
  BY <1>1, <1>7, QuotientIs
<1> HIDE DEF c
<1>9. /\ n * (lo - 1) = n * lo - n /\ n * (hi + 2) = n * hi + 2 * n
      /\ n * lo \in Int /\ n * hi \in Int
  BY <1>1, <1>2
<1>10. n * (lo - 1) < n * c
  BY <1>1, <1>2, <1>5, <1>7, <1>8, <1>9
<1>11. n * c < n * (hi + 2)
  BY <1>1, <1>2, <1>5, <1>7, <1>8, <1>9
<1>12. lo - 1 < c
  BY <1>1, <1>2, <1>8, <1>10, ProductOrder
<1>13. c < hi + 2
  BY <1>1, <1>2, <1>8, <1>11, ProductOrder
<1>14. lo <= c /\ c <= hi + 1
  BY <1>2, <1>8, <1>12, <1>13
<1> QED BY <1>6, <1>14 DEF lo, hi

(***************************************************************************)
(* No square of a difference to a vector or a centroid has more than its   *)
(* 31 bits.                                                                *)
(***************************************************************************)
LEMMA SquaresOrder ==
  ASSUME NEW a \in Nat, NEW b \in Nat, a <= b
  PROVE  a * a <= b * b
<1>1. PICK k \in Nat : b = a + k
  <2>1. b - a \in Nat /\ b = a + (b - a)
    OBVIOUS
  <2> QED BY <2>1
<1>2. b * b = a * a + a * k + a * k + k * k /\ a * k \in Nat /\ k * k \in Nat /\ a * a \in Nat
  BY <1>1
<1> QED BY <1>2

LEMMA DeltaFits ==
  ASSUME input \in Inputs, NEW q \in Queries, NEW x \in Ids(input), NEW d \in Dimensions,
         NEW e \in {-1, 0, 1}
  PROVE  /\ q[d] \in Int /\ vectors[x][d] \in Int
         /\ (q[d] - vectors[x][d] + e) * (q[d] - vectors[x][d] + e) \in 0 .. MaxProduct
<1>1. q[d] \in Int /\ vectors[x][d] \in Int
  BY QueryAssumption, InputIs
<1> DEFINE delta == q[d] - vectors[x][d] + e
<1>2. delta \in (q[d] - input.vectors[x][d] - 1) .. (q[d] - input.vectors[x][d] + 1) /\ delta \in Int
  BY <1>1 DEF vectors
<1> HIDE DEF delta
<1>3. delta * delta <= MaxProduct /\ delta * delta \in Nat /\ MaxProduct \in Nat
  BY <1>2, ProductAssumption, RoomAssumption, SentinelAssumption, SquareIs
<1> QED BY <1>1, <1>3 DEF delta

LEMMA VectorFits ==
  ASSUME input \in Inputs, NEW q \in Queries, NEW x \in Ids(input)
  PROVE  Fits(q, vectors[x])
<1> SUFFICES ASSUME NEW d \in Dimensions
             PROVE  /\ q[d] \in Int /\ vectors[x][d] \in Int
                    /\ (q[d] - vectors[x][d]) * (q[d] - vectors[x][d]) \in 0 .. MaxProduct
  BY DEF Fits
<1>1. PICK e \in {-1, 0, 1} : e = 0
  OBVIOUS
<1>2. /\ q[d] \in Int /\ vectors[x][d] \in Int
      /\ (q[d] - vectors[x][d] + e) * (q[d] - vectors[x][d] + e) \in 0 .. MaxProduct
  BY DeltaFits
<1>3. q[d] - vectors[x][d] + e = q[d] - vectors[x][d]
  BY <1>1, <1>2
<1> QED BY <1>2, <1>3

LEMMA CentroidFits ==
  ASSUME input \in Inputs, IdsOK, NEW q \in Queries, NEW r, RangeOK(r), NEW v,
         \A d \in Dimensions : v[d] = centroid(r, d)
  PROVE  Fits(q, v)
<1> SUFFICES ASSUME NEW d \in Dimensions
             PROVE  q[d] \in Int /\ v[d] \in Int /\ (q[d] - v[d]) * (q[d] - v[d]) \in 0 .. MaxProduct
  BY DEF Fits
<1> DEFINE lo == bboxMin(r, d)
           hi == bboxMax(r, d)
           delta == q[d] - v[d]
<1>1. lo \in Int /\ hi \in Int /\ lo \in Values(r, d) /\ hi \in Values(r, d)
  BY BoxIs
<1>2. r.start .. (r.end - 1) \subseteq Ids(input)
  BY WindowIs DEF RangeOK
<1>3. PICK x \in Ids(input) : lo = vectors[x][d]
  BY <1>1, <1>2 DEF Values, IdsOK
<1>4. PICK y \in Ids(input) : hi = vectors[y][d]
  BY <1>1, <1>2 DEF Values, IdsOK
<1>5. v[d] \in Int /\ lo <= v[d] /\ v[d] <= hi + 1 /\ q[d] \in Int
  BY CentroidInBox, CentroidType, QueryAssumption
<1>6. delta * delta \in Nat /\ delta \in Int /\ MaxProduct \in Nat
  BY <1>5, SquareIs, RoomAssumption, SentinelAssumption
<1>7. CASE delta >= 0
  <2> DEFINE u == q[d] - vectors[x][d] + 0
  <2>1. PICK e \in {-1, 0, 1} : e = 0
    OBVIOUS
  <2>2. (q[d] - vectors[x][d] + e) * (q[d] - vectors[x][d] + e) <= MaxProduct
    BY <1>6, DeltaFits
  <2>3. u = q[d] - vectors[x][d] + e /\ u \in Nat /\ delta \in Nat /\ delta <= u
    BY <1>1, <1>3, <1>5, <1>6, <1>7, <2>1
  <2> HIDE DEF u, delta
  <2>4. delta * delta <= u * u
    BY <2>3, SquaresOrder
  <2>5. u * u <= MaxProduct /\ u * u \in Nat
    BY <2>2, <2>3
  <2>6. delta * delta \in 0 .. MaxProduct
    BY <1>6, <2>4, <2>5
  <2> QED BY <1>5, <2>6 DEF delta
<1>8. CASE delta < 0
  <2> DEFINE u == - (q[d] - vectors[y][d] - 1)
             w == - delta
             z == q[d] - vectors[y][d] - 1
  <2>1. PICK e \in {-1, 0, 1} : e = -1
    OBVIOUS
  <2>2. (q[d] - vectors[y][d] + e) * (q[d] - vectors[y][d] + e) <= MaxProduct
    BY <1>6, DeltaFits
  <2>3. z = q[d] - vectors[y][d] + e /\ z \in Int /\ u = - z /\ u \in Nat /\ w \in Nat /\ w <= u
    BY <1>1, <1>4, <1>5, <1>6, <1>8, <2>1
  <2> HIDE DEF u, z
  <2>4. w * w = delta * delta /\ u * u = z * z
    BY <1>6, <2>3
  <2> HIDE DEF w, delta
  <2>5. w * w <= u * u
    BY <2>3, SquaresOrder
  <2>6. u * u <= MaxProduct /\ u * u \in Nat
    BY <2>2, <2>3, <2>4
  <2>7. delta * delta \in 0 .. MaxProduct
    BY <1>6, <2>4, <2>5, <2>6
  <2> QED BY <1>5, <2>7 DEF delta
<1> QED BY <1>6, <1>7, <1>8

-----------------------------------------------------------------------------
(***************************************************************************)
(* What the server holds after it has loaded a file that was saved.        *)
(***************************************************************************)
Ready == IndexInv /\ FileInv /\ LoadInv /\ loader = "loaded" /\ saver = "saved"

LEMMA ServedIndex ==
  ASSUME Ready
  PROVE  /\ stage = "done" /\ clusters \in Nat \ {0} /\ input \in Inputs /\ IdsOK
         /\ idx.clusters = clusters
         /\ idx.listOffsets = listOffsets /\ idx.blockOffsets = blockOffsets
         /\ idx.origIDs = rows /\ idx.labels = Index.labels
         /\ idx.centroids = Index.centroids /\ idx.centroidBlocks = centroidBlocks
         /\ idx.bboxMin = Index.bboxMin /\ idx.bboxMax = Index.bboxMax
         /\ \A i \in 0 .. (BlockValues - 1) : idx.blocks[i] = blocks[i]
<1>1. stage = "done" /\ LoadedOK(idx) /\ IndexInv
  BY DEF Ready, FileInv, LoadInv
<1>2. {"clusters", "listOffsets", "blockOffsets", "origIDs", "labels", "centroids",
       "centroidBlocks", "bboxMin", "bboxMax"} \subseteq AllButBlocks
  BY DEF AllButBlocks, Index
<1>3. \A part \in AllButBlocks : idx[part] = Index[part]
  BY <1>1 DEF LoadedOK
<1>4. /\ idx.clusters = Index.clusters
      /\ idx.listOffsets = Index.listOffsets /\ idx.blockOffsets = Index.blockOffsets
      /\ idx.origIDs = Index.origIDs /\ idx.labels = Index.labels
      /\ idx.centroids = Index.centroids /\ idx.centroidBlocks = Index.centroidBlocks
      /\ idx.bboxMin = Index.bboxMin /\ idx.bboxMax = Index.bboxMax
  BY <1>2, <1>3
<1>5. /\ Index.clusters = clusters /\ Index.listOffsets = listOffsets
      /\ Index.blockOffsets = blockOffsets /\ Index.origIDs = rows
      /\ Index.centroidBlocks = centroidBlocks
  BY DEF Index
<1>6. DOMAIN blocks = 0 .. (BlockValues - 1)
  BY <1>1, BlockValuesAre DEF Array
<1>7. \A i \in DOMAIN blocks : idx.blocks[i] = blocks[i]
  BY <1>1 DEF LoadedOK, Ready
<1>8. clusters \in Nat \ {0} /\ input \in Inputs /\ IdsOK
  BY <1>1 DEF IndexInv, BuildInv, TypeOK
<1> QED BY <1>1, <1>4, <1>5, <1>6, <1>7, <1>8

LEMMA FlatAt ==
  ASSUME NEW v, clusters \in Nat, NEW c \in 0 .. (clusters - 1), NEW d \in Dimensions
  PROVE  Flat(v)[c * Dim + d] = v[c][d]
<1> DEFINE i == c * Dim + d
<1>1. Dim \in Nat \ {0} /\ d \in 0 .. (Dim - 1) /\ c \in Int
  BY SizesAssumption DEF Dimensions
<1>2. i \in 0 .. (clusters * Dim - 1)
  BY <1>1, DigitsBelow
<1>3. Flat(v)[i] = v[i \div Dim][i % Dim]
  BY <1>2 DEF Flat
<1>4. /\ i \div Dim \in Int /\ i % Dim \in 0 .. (Dim - 1)
      /\ i = Dim * (i \div Dim) + (i % Dim)
  BY <1>1, <1>2, DivIs
<1>5. c * Dim + d = (i \div Dim) * Dim + (i % Dim)
  <2> DEFINE q == i \div Dim
             m == i % Dim
  <2>1. q \in Int /\ m \in Int /\ i = Dim * q + m
    BY <1>4
  <2> HIDE DEF q, m
  <2>2. Dim * q = q * Dim
    BY <1>1, <2>1
  <2>3. c * Dim + d = q * Dim + m
    BY <2>1, <2>2
  <2> QED BY <2>3 DEF q, m
<1> HIDE DEF i
<1>6. c = i \div Dim /\ d = i % Dim
  BY <1>1, <1>4, <1>5, DigitsUnique
<1> QED BY <1>3, <1>6 DEF i

LEMMA ServedVectors ==
  ASSUME Ready, NEW c \in 0 .. (clusters - 1), NEW d \in Dimensions
  PROVE  /\ VectorOf(idx.centroids, c)[d] = stats[c].centroid[d]
         /\ VectorOf(idx.bboxMin, c)[d] = bboxMin(ranges[c], d)
         /\ VectorOf(idx.bboxMax, c)[d] = bboxMax(ranges[c], d)
         /\ stats[c].centroid[d] = centroid(ranges[c], d)
<1>1. IndexInv /\ stage = "done" /\ clusters \in Nat /\ DOMAIN stats = 0 .. (clusters - 1)
  BY ServedIndex DEF Ready, IndexInv, LaidOut
<1>2. /\ stats[c].centroid[d] = centroid(ranges[c], d)
      /\ stats[c].bboxMin[d] = bboxMin(ranges[c], d)
      /\ stats[c].bboxMax[d] = bboxMax(ranges[c], d)
  BY <1>1, StatsAre
<1> DEFINE v == [e \in DOMAIN stats |-> stats[e].centroid]
           lo == [e \in DOMAIN stats |-> stats[e].bboxMin]
           hi == [e \in DOMAIN stats |-> stats[e].bboxMax]
<1>3. /\ idx.centroids = Flat(v) /\ idx.bboxMin = Flat(lo) /\ idx.bboxMax = Flat(hi)
  BY ServedIndex DEF Index
<1>4. v[c] = stats[c].centroid /\ lo[c] = stats[c].bboxMin /\ hi[c] = stats[c].bboxMax
  BY <1>1
<1> HIDE DEF v, lo, hi
<1>5. /\ Flat(v)[c * Dim + d] = v[c][d] /\ Flat(lo)[c * Dim + d] = lo[c][d]
      /\ Flat(hi)[c * Dim + d] = hi[c][d]
  BY <1>1, FlatAt
<1> QED BY <1>2, <1>3, <1>4, <1>5 DEF VectorOf

(***************************************************************************)
(* The kernel finds the distances in the blocks.                           *)
(***************************************************************************)
LEMMA RowDistanceIs ==
  ASSUME Ready, NEW q \in Queries, NEW c \in 0 .. (clusters - 1), NEW row \in RowsOf(c)
  PROVE  /\ RowDistance(q, c, row) = SquaredDistance(q, vectors[rows[row]])
         /\ RowDistance(q, c, row) \in 0 .. (MaxInt64 - 1)
<1> DEFINE x == rows[row]
           block == BlockOf(c, row)
           lane == LaneOf(c, row)
<1>1. IndexInv /\ stage = "done" /\ input \in Inputs
  BY ServedIndex DEF Ready
<1>2. x \in Ids(input) /\ lane \in 0 .. (blockSize - 1)
  BY <1>1, RowsOfIs, BlockOfIs DEF IndexInv, LaidOut, Lanes
<1>3. \A d \in Dimensions : Value(idx.blocks, block, lane, d) = vectors[x][d]
  <2> SUFFICES ASSUME NEW d \in Dimensions PROVE Value(idx.blocks, block, lane, d) = vectors[x][d]
    OBVIOUS
  <2>1. /\ Place(block, d, lane) \in 0 .. (BlockValues - 1)
        /\ blocks[Place(block, d, lane)] = vectors[x][d]
    BY <1>1, BlocksHold
  <2>2. idx.blocks[Place(block, d, lane)] = blocks[Place(block, d, lane)]
    BY <2>1, ServedIndex
  <2> QED BY <2>1, <2>2 DEF Value, Place
<1>4. RowDistance(q, c, row) = quantizedBlock8DistancesAVX2(q, idx.blocks, block)[lane]
  BY ServedIndex DEF RowDistance, FirstRow, FirstBlock, BlockOf, LaneOf
<1> HIDE DEF x, block, lane
<1>5. Fits(q, vectors[x])
  BY <1>1, <1>2, VectorFits
<1>6. quantizedBlock8DistancesAVX2(q, idx.blocks, block)[lane] = SquaredDistance(q, vectors[x])
  BY <1>2, <1>3, <1>5, LaneDistanceIs
<1>7. SquaredDistance(q, vectors[x]) \in 0 .. (MaxInt64 - 1)
  BY <1>5, DistanceIsSum
<1> QED BY <1>4, <1>6, <1>7 DEF x

LEMMA CentroidDistanceIs ==
  ASSUME Ready, NEW q \in Queries, NEW c \in 0 .. (clusters - 1)
  PROVE  /\ CentroidDistance(q, c) = SquaredDistance(q, VectorOf(idx.centroids, c))
         /\ CentroidDistance(q, c) \in Int
<1> DEFINE v == VectorOf(idx.centroids, c)
           block == c \div blockSize
           lane == c % blockSize
<1>1. IndexInv /\ stage = "done" /\ input \in Inputs /\ IdsOK /\ RangeOK(ranges[c])
  BY ServedIndex, RowsOfIs DEF Ready
<1>2. ASSUME NEW d \in Dimensions
      PROVE  /\ v[d] = centroid(ranges[c], d)
             /\ Value(idx.centroidBlocks, block, lane, d) = v[d]
             /\ lane \in Lanes
  <2>1. /\ centroidBlocks[Place(block, d, lane)] = stats[c].centroid[d]
        /\ lane \in Lanes
    BY <1>1, CentroidsHold
  <2>2. v[d] = stats[c].centroid[d] /\ stats[c].centroid[d] = centroid(ranges[c], d)
    BY ServedVectors
  <2>3. idx.centroidBlocks = centroidBlocks
    BY ServedIndex
  <2>4. Value(idx.centroidBlocks, block, lane, d) = v[d]
    BY <2>1, <2>2, <2>3 DEF Value, Place
  <2> QED BY <2>1, <2>2, <2>4
<1>3. CentroidDistance(q, c) = quantizedBlock8DistancesAVX2(q, idx.centroidBlocks, block)[lane]
  BY DEF CentroidDistance
<1>4. lane \in 0 .. (blockSize - 1)
  <2>1. PICK d \in Dimensions : TRUE
    <3>1. 0 \in 0 .. (Dim - 1)
      BY SizesAssumption
    <3> QED BY <3>1 DEF Dimensions
  <2> QED BY <1>2, <2>1 DEF Lanes
<1> HIDE DEF v, block, lane
<1>5. Fits(q, v)
  BY <1>1, <1>2, CentroidFits
<1>6. quantizedBlock8DistancesAVX2(q, idx.centroidBlocks, block)[lane] = SquaredDistance(q, v)
  BY <1>2, <1>4, <1>5, LaneDistanceIs
<1>7. SquaredDistance(q, v) \in 0 .. (MaxInt64 - 1)
  BY <1>5, DistanceIsSum
<1> QED BY <1>3, <1>6, <1>7 DEF v

(***************************************************************************)
(* The distance to a box is no more than that to any vector in it.         *)
(***************************************************************************)
LEMMA NearestInBox ==
  ASSUME NEW p \in Int, NEW l \in Int, NEW u \in Int, NEW v \in Int, l <= v, v <= u,
         NEW n, n = IF p < l THEN l ELSE IF p > u THEN u ELSE p
  PROVE  (p - n) * (p - n) \in Nat /\ (p - n) * (p - n) <= (p - v) * (p - v)
<1>1. n \in Int /\ p - n \in Int /\ p - v \in Int
  OBVIOUS
<1>2. (p - n) * (p - n) \in Nat /\ (p - v) * (p - v) \in Nat
  BY <1>1, SquareIs
<1>3. CASE p < l
  <2>1. n = l /\ l - p \in Nat /\ v - p \in Nat /\ l - p <= v - p
    BY <1>3
  <2>2. (l - p) * (l - p) <= (v - p) * (v - p)
    BY <2>1, SquaresOrder
  <2>3. (l - p) * (l - p) = (p - l) * (p - l) /\ (v - p) * (v - p) = (p - v) * (p - v)
    OBVIOUS
  <2> QED BY <1>2, <2>1, <2>2, <2>3
<1>4. CASE ~ (p < l) /\ p > u
  <2>1. n = u /\ p - u \in Nat /\ p - v \in Nat /\ p - u <= p - v
    BY <1>4
  <2>2. (p - u) * (p - u) <= (p - v) * (p - v)
    BY <2>1, SquaresOrder
  <2> QED BY <1>2, <2>1, <2>2
<1>5. CASE ~ (p < l) /\ ~ (p > u)
  <2>1. n = p /\ p - n = 0 /\ 0 * 0 = 0
    BY <1>5
  <2> QED BY <1>2, <2>1
<1> QED BY <1>3, <1>4, <1>5

BoxNearest(q, c) ==
  [d \in Dimensions |->
     IF q[d] < VectorOf(idx.bboxMin, c)[d] THEN VectorOf(idx.bboxMin, c)[d]
     ELSE IF q[d] > VectorOf(idx.bboxMax, c)[d] THEN VectorOf(idx.bboxMax, c)[d] ELSE q[d]]

BoxSquares(q, c) ==
  [d \in Dimensions |-> (q[d] - BoxNearest(q, c)[d]) * (q[d] - BoxNearest(q, c)[d])]

LEMMA BoxSquaresAre ==
  ASSUME Ready, NEW q \in Queries, NEW c \in 0 .. (clusters - 1), NEW d \in Dimensions
  PROVE  /\ BoxSquares(q, c)[d] \in 0 .. MaxProduct
         /\ \A row \in RowsOf(c) :
              BoxSquares(q, c)[d] <= (q[d] - vectors[rows[row]][d]) * (q[d] - vectors[rows[row]][d])
<1>1. /\ IndexInv /\ stage = "done" /\ input \in Inputs /\ IdsOK
      /\ RangeOK(ranges[c]) /\ ClusterMade(c)
      /\ RowsOf(c) = ranges[c].start .. (ranges[c].end - 1) /\ RowsOf(c) \subseteq Ids(input)
  BY ServedIndex, RowsOfIs DEF Ready
<1> DEFINE l == bboxMin(ranges[c], d)
           u == bboxMax(ranges[c], d)
           n == BoxNearest(q, c)[d]
<1>2. l \in Int /\ u \in Int /\ q[d] \in Int
  BY <1>1, BoxIs, QueryAssumption
<1>3. n = IF q[d] < l THEN l ELSE IF q[d] > u THEN u ELSE q[d]
  BY ServedVectors DEF BoxNearest
<1>4. ASSUME NEW row \in RowsOf(c)
      PROVE  /\ rows[row] \in Ids(input)
             /\ vectors[rows[row]][d] \in Int
             /\ l <= vectors[rows[row]][d] /\ vectors[rows[row]][d] <= u
  <2> DEFINE k == row - ranges[c].start
  <2>1. rows[row] = sortClusterByCentroidDist(ranges[c], k)
    BY <1>1 DEF ClusterMade
  <2>2. k \in 0 .. (ranges[c].end - ranges[c].start - 1)
    BY <1>1 DEF RangeOK
  <2> HIDE DEF k
  <2>3. rows[row] \in Window(ranges[c].start, ranges[c].end)
    BY <1>1, <2>1, <2>2, ClusterOrder
  <2>4. PICK i \in ranges[c].start .. (ranges[c].end - 1) : rows[row] = ids[i]
    BY <2>3 DEF Window
  <2>5. l <= vectors[ids[i]][d] /\ vectors[ids[i]][d] <= u
    BY <1>1, BoxIs
  <2>6. rows[row] \in Ids(input)
    BY <1>1 DEF IndexInv, LaidOut
  <2>7. vectors[rows[row]][d] \in Int
    BY <1>1, <2>6, InputIs
  <2> QED BY <2>4, <2>5, <2>6, <2>7
<1>5. BoxSquares(q, c)[d] = (q[d] - n) * (q[d] - n)
  BY DEF BoxSquares
<1> HIDE DEF l, u, n
<1>6. ASSUME NEW row \in RowsOf(c)
      PROVE  /\ BoxSquares(q, c)[d] \in Nat
             /\ BoxSquares(q, c)[d] <= (q[d] - vectors[rows[row]][d]) * (q[d] - vectors[rows[row]][d])
  <2> DEFINE v == vectors[rows[row]][d]
             p == q[d]
  <2>1. v \in Int /\ l <= v /\ v <= u /\ p \in Int
    BY <1>2, <1>4
  <2>2. n = IF p < l THEN l ELSE IF p > u THEN u ELSE p
    BY <1>3
  <2>3. BoxSquares(q, c)[d] = (p - n) * (p - n)
    BY <1>5
  <2> HIDE DEF v, p
  <2>4. (p - n) * (p - n) \in Nat /\ (p - n) * (p - n) <= (p - v) * (p - v)
    BY <1>2, <2>1, <2>2, NearestInBox
  <2> QED BY <2>3, <2>4 DEF v, p
<1>7. ranges[c].start \in RowsOf(c)
  BY <1>1 DEF RangeOK
<1>8. PICK row \in RowsOf(c) : TRUE
  BY <1>7
<1>9. (q[d] - vectors[rows[row]][d]) * (q[d] - vectors[rows[row]][d]) \in 0 .. MaxProduct /\ MaxProduct \in Nat
  BY <1>1, <1>4, VectorFits, RoomAssumption, SentinelAssumption DEF Fits
<1>10. BoxSquares(q, c)[d] \in 0 .. MaxProduct
  <2> DEFINE y == (q[d] - vectors[rows[row]][d]) * (q[d] - vectors[rows[row]][d])
             z == BoxSquares(q, c)[d]
  <2>1. y \in 0 .. MaxProduct /\ MaxProduct \in Nat /\ z \in Nat /\ z <= y
    BY <1>6, <1>9
  <2> HIDE DEF y, z
  <2>2. z \in 0 .. MaxProduct
    BY <2>1
  <2> QED BY <2>2 DEF z
<1> QED BY <1>6, <1>10

LEMMA BoxSumsAre ==
  ASSUME Ready, NEW q \in Queries, NEW c \in 0 .. (clusters - 1)
  PROVE  \E s : /\ SumsOf(s, BoxSquares(q, c), 0, Dim - 1)
                /\ SumOver(BoxSquares(q, c), 0, Dim - 1) = s[Dim - 1]
                /\ BoxSums(q, c) = [n \in 1 .. Dim |-> s[n - 1]]
<1> DEFINE f == BoxSquares(q, c)
           near == BoxNearest(q, c)
           lo == VectorOf(idx.bboxMin, c)
           hi == VectorOf(idx.bboxMax, c)
           nearest == [d \in Dimensions |->
                         IF q[d] < lo[d] THEN lo[d] ELSE IF q[d] > hi[d] THEN hi[d] ELSE q[d]]
           sum[d \in Dimensions] ==
             (q[d] - nearest[d]) * (q[d] - nearest[d]) + (IF d = 0 THEN 0 ELSE sum[d - 1])
           Eq(g) == g = [d \in Dimensions |->
                           (q[d] - near[d]) * (q[d] - near[d]) + (IF d = 0 THEN 0 ELSE g[d - 1])]
           total == CHOOSE g : Eq(g)
<1>1. BoxSums(q, c) = [n \in 1 .. Dim |-> total[n - 1]]
  BY DEF BoxSums, BoxNearest
<1>2. 0 \in Int /\ Dim - 1 \in Int /\ 0 - 1 <= Dim - 1 /\ Dim \in Nat \ {0} /\ Dimensions = 0 .. (Dim - 1)
  BY SizesAssumption DEF Dimensions
<1>3. \A d \in 0 .. (Dim - 1) : f[d] \in Int
  BY <1>2, BoxSquaresAre
<1>4. \A d \in Dimensions : f[d] = (q[d] - near[d]) * (q[d] - near[d])
  BY DEF BoxSquares
<1> HIDE DEF f, near
<1>5. PICK s : SumsOf(s, f, 0, Dim - 1) /\ SumOver(f, 0, Dim - 1) = s[Dim - 1]
  BY <1>2, <1>3, SumOverIs
<1>6. s[-1] = 0 /\ \A d \in Dimensions : s[d] = s[d - 1] + f[d] /\ s[d] \in Int
  <2>1. 0 - 1 = -1 /\ 0 .. (Dim - 1) \subseteq (0 - 1) .. (Dim - 1)
    BY <1>2
  <2> QED BY <1>2, <1>5, <2>1 DEF SumsOf
<1>7. \E g : Eq(g)
  <2> DEFINE t == [d \in Dimensions |-> s[d]]
  <2>1. ASSUME NEW d \in Dimensions
        PROVE  t[d] = (q[d] - near[d]) * (q[d] - near[d]) + (IF d = 0 THEN 0 ELSE t[d - 1])
    <3>1. d \in Int /\ f[d] \in Int /\ s[d] = s[d - 1] + f[d]
      BY <1>2, <1>3, <1>6
    <3>2. CASE d = 0
      <4>1. s[d] = 0 + f[d]
        BY <1>6, <3>1, <3>2
      <4> QED BY <1>4, <3>1, <3>2, <4>1
    <3>3. CASE d # 0
      <4>1. d - 1 \in Dimensions
        BY <1>2, <3>3
      <4>2. t[d - 1] = s[d - 1] /\ s[d - 1] \in Int
        BY <1>6, <4>1
      <4>3. s[d] = f[d] + s[d - 1]
        BY <3>1, <4>2
      <4> QED BY <1>4, <3>3, <4>2, <4>3
    <3> QED BY <3>2, <3>3
  <2>2. Eq(t)
    BY <2>1
  <2> HIDE DEF Eq, t
  <2> QED BY <2>2
<1>8. Eq(total)
  <2> HIDE DEF Eq
  <2> QED BY <1>7
<1> HIDE DEF total
<1>9. \A d \in Dimensions : total[d] = f[d] + (IF d = 0 THEN 0 ELSE total[d - 1])
  BY <1>4, <1>8
<1> DEFINE T == {d \in 0 .. (Dim - 1) : total[d] = s[d]}
<1>10. 0 \in T
  <2>1. 0 \in Dimensions /\ 0 - 1 = -1
    BY <1>2
  <2>2. total[0] = f[0] + 0 /\ s[0] = s[-1] + f[0] /\ f[0] \in Int
    BY <1>2, <1>3, <1>6, <1>9, <2>1
  <2> QED BY <1>2, <1>6, <2>1, <2>2
<1>11. ASSUME NEW d \in 0 .. ((Dim - 1) - 1), d \in T PROVE d + 1 \in T
  <2>1. d + 1 \in Dimensions /\ d \in Dimensions /\ (d + 1) - 1 = d /\ d + 1 # 0
    BY <1>2
  <2>2. total[d + 1] = f[d + 1] + total[d] /\ s[d + 1] = s[d] + f[d + 1]
        /\ f[d + 1] \in Int /\ s[d] \in Int
    BY <1>2, <1>3, <1>6, <1>9, <2>1
  <2> QED BY <1>2, <1>11, <2>1, <2>2
<1>12. 0 .. (Dim - 1) \subseteq T
  <2> HIDE DEF T
  <2>1. 0 <= Dim - 1
    BY <1>2
  <2> QED BY <1>2, <1>10, <1>11, <2>1, IntervalInduction
<1>13. \A n \in 1 .. Dim : total[n - 1] = s[n - 1]
  <2>1. \A n \in 1 .. Dim : n - 1 \in 0 .. (Dim - 1)
    BY <1>2
  <2> QED BY <1>12, <2>1
<1>14. BoxSums(q, c) = [n \in 1 .. Dim |-> s[n - 1]]
  BY <1>1, <1>13
<1> QED BY <1>5, <1>14 DEF f

LEMMA BoxDistanceIs ==
  ASSUME Ready, NEW q \in Queries, NEW c \in 0 .. (clusters - 1)
  PROVE  /\ P!Total(BoxSums(q, c)) \in Nat
         /\ \A row \in RowsOf(c) : P!Total(BoxSums(q, c)) <= RowDistance(q, c, row)
<1> DEFINE f == BoxSquares(q, c)
<1>1. PICK s : /\ SumsOf(s, f, 0, Dim - 1) /\ SumOver(f, 0, Dim - 1) = s[Dim - 1]
               /\ BoxSums(q, c) = [n \in 1 .. Dim |-> s[n - 1]]
  BY BoxSumsAre
<1>2. 0 \in Int /\ Dim - 1 \in Int /\ 0 - 1 <= Dim - 1 /\ Dim \in Nat \ {0}
      /\ Dimensions = 0 .. (Dim - 1) /\ MaxProduct \in Nat
  BY SizesAssumption, RoomAssumption, SentinelAssumption DEF Dimensions
<1>3. \A d \in 0 .. (Dim - 1) : f[d] \in 0 .. MaxProduct /\ f[d] \in Int
  BY <1>2, BoxSquaresAre
<1>4. P!Total(BoxSums(q, c)) = SumOver(f, 0, Dim - 1)
  <2>1. \A n \in 1 .. Dim : s[n - 1] \in Int
    <3>1. \A n \in 1 .. Dim : n - 1 \in (0 - 1) .. (Dim - 1)
      BY <1>2
    <3> QED BY <1>1, <3>1 DEF SumsOf
  <2>2. BoxSums(q, c) \in Seq(Int) /\ Len(BoxSums(q, c)) = Dim
    BY <1>1, <1>2, <2>1
  <2>3. BoxSums(q, c)[Dim] = s[Dim - 1]
    BY <1>1, <1>2
  <2> QED BY <1>1, <2>2, <2>3 DEF P!Total
<1>5. SumOver(f, 0, Dim - 1) \in 0 .. (Dim * MaxProduct)
  <2> HIDE DEF f
  <2> QED BY <1>2, <1>3, SumOverBounded
<1>6. ASSUME NEW row \in RowsOf(c)
      PROVE  SumOver(f, 0, Dim - 1) <= RowDistance(q, c, row)
  <2> DEFINE v == vectors[rows[row]]
             g == [d \in Dimensions |-> (q[d] - v[d]) * (q[d] - v[d])]
  <2>1. input \in Inputs /\ rows[row] \in Ids(input)
    BY ServedIndex, RowsOfIs DEF Ready, IndexInv, LaidOut
  <2>2. Fits(q, v)
    BY <2>1, VectorFits
  <2>3. RowDistance(q, c, row) = SumOver(g, 0, Dim - 1)
    <3>1. RowDistance(q, c, row) = SquaredDistance(q, v)
      BY RowDistanceIs
    <3>2. SquaredDistance(q, v) = SumOver(g, 0, Dim - 1)
      <4> HIDE DEF v
      <4> QED BY <2>2, DistanceIsSum
    <3> QED BY <3>1, <3>2
  <2>4. \A d \in 0 .. (Dim - 1) : f[d] \in Int /\ g[d] \in Int /\ f[d] <= g[d]
    BY <1>2, <1>3, <2>2, BoxSquaresAre DEF Fits
  <2> HIDE DEF f, g
  <2>5. SumOver(f, 0, Dim - 1) <= SumOver(g, 0, Dim - 1)
    BY <1>2, <2>4, SumOverMonotone
  <2> QED BY <2>3, <2>5
<1>7. \A a \in 0 .. (Dim * MaxProduct) : a \in Nat
  OBVIOUS
<1> QED BY <1>4, <1>5, <1>6, <1>7

-----------------------------------------------------------------------------
(***************************************************************************)
(* What a query sees of the served index is well-formed.                   *)
(***************************************************************************)
LEMMA RowIs ==
  ASSUME IndexInv, stage = "done", NEW c \in 0 .. (clusters - 1), NEW row \in RowsOf(c)
  PROVE  \E i \in RowsOf(c) : rows[row] = ids[i]
<1>1. /\ input \in Inputs /\ IdsOK /\ RangeOK(ranges[c]) /\ ClusterMade(c)
      /\ RowsOf(c) = ranges[c].start .. (ranges[c].end - 1)
  BY RowsOfIs DEF IndexInv, BuildInv, TypeOK
<1> DEFINE k == row - ranges[c].start
<1>2. rows[row] = sortClusterByCentroidDist(ranges[c], k)
  BY <1>1 DEF ClusterMade
<1>3. k \in 0 .. (ranges[c].end - ranges[c].start - 1)
  BY <1>1 DEF RangeOK
<1> HIDE DEF k
<1>4. rows[row] \in Window(ranges[c].start, ranges[c].end)
  BY <1>1, <1>2, <1>3, ClusterOrder
<1> QED BY <1>1, <1>4 DEF Window

LEMMA RowsDisjoint ==
  ASSUME IndexInv, stage = "done", NEW c \in 0 .. (clusters - 1), NEW e \in 0 .. (clusters - 1),
         NEW i \in RowsOf(c), i \in RowsOf(e)
  PROVE  c = e
<1>1. /\ c \in 0 .. clusters /\ c + 1 \in 0 .. clusters
      /\ e \in 0 .. clusters /\ e + 1 \in 0 .. clusters
      /\ listOffsets \in [0 .. clusters -> Nat]
      /\ \A f, g \in 0 .. clusters : f <= g => listOffsets[f] <= listOffsets[g]
  <2>1. clusters \in Nat /\ listOffsets \in [0 .. clusters -> Nat]
    BY DEF IndexInv, BuildInv, TypeOK, LaidOut
  <2>2. \A f, g \in 0 .. clusters : f <= g => listOffsets[f] <= listOffsets[g]
    BY OffsetsLieInOrder
  <2> QED BY <2>1, <2>2
<1>2. i \in listOffsets[c] .. (listOffsets[c + 1] - 1) /\ i \in listOffsets[e] .. (listOffsets[e + 1] - 1)
  BY DEF RowsOf
<1>3. /\ listOffsets[c] \in Nat /\ listOffsets[c + 1] \in Nat
      /\ listOffsets[e] \in Nat /\ listOffsets[e + 1] \in Nat
  BY <1>1
<1>4. ASSUME c + 1 <= e PROVE FALSE
  <2>1. listOffsets[c + 1] <= listOffsets[e]
    BY <1>1, <1>4
  <2> QED BY <1>2, <1>3, <2>1
<1>5. ASSUME e + 1 <= c PROVE FALSE
  <2>1. listOffsets[e + 1] <= listOffsets[c]
    BY <1>1, <1>5
  <2> QED BY <1>2, <1>3, <2>1
<1> QED BY <1>4, <1>5

LEMMA RowsInjective ==
  ASSUME IndexInv, stage = "done",
         NEW r \in Ids(input), NEW s \in Ids(input), rows[r] = rows[s]
  PROVE  r = s
<1>1. input \in Inputs /\ IdsOK /\ Ids(input) = 0 .. (input.nVectors - 1)
  BY DEF IndexInv, BuildInv, TypeOK, Ids
<1>2. PICK c \in 0 .. (clusters - 1) : r \in RowsOf(c)
  BY <1>1, RowsCovered
<1>3. PICK e \in 0 .. (clusters - 1) : s \in RowsOf(e)
  BY <1>1, RowsCovered
<1>4. PICK i \in RowsOf(c) : rows[r] = ids[i]
  BY <1>2, RowIs
<1>5. PICK j \in RowsOf(e) : rows[s] = ids[j]
  BY <1>3, RowIs
<1>6. i \in Ids(input) /\ j \in Ids(input)
  BY RowsOfIs
<1>7. i = j
  BY <1>1, <1>4, <1>5, <1>6 DEF IdsOK
<1>8. c = e
  BY <1>7, RowsDisjoint
<1>9. /\ RangeOK(ranges[c]) /\ ClusterMade(c)
      /\ RowsOf(c) = ranges[c].start .. (ranges[c].end - 1)
  BY RowsOfIs
<1> DEFINE k == r - ranges[c].start
           l == s - ranges[c].start
<1>10. /\ rows[r] = sortClusterByCentroidDist(ranges[c], k)
       /\ rows[s] = sortClusterByCentroidDist(ranges[c], l)
  BY <1>2, <1>3, <1>8, <1>9 DEF ClusterMade
<1>11. /\ k \in 0 .. (ranges[c].end - ranges[c].start - 1)
       /\ l \in 0 .. (ranges[c].end - ranges[c].start - 1)
       /\ r = k + ranges[c].start /\ s = l + ranges[c].start
  BY <1>2, <1>3, <1>8, <1>9 DEF RangeOK
<1> HIDE DEF k, l
<1> DEFINE r0 == ranges[c]
           place(m) == sortClusterByCentroidDist(r0, m)
<1>12. \A m, o \in 0 .. (r0.end - r0.start - 1) : place(m) = place(o) => m = o
  <2> HIDE DEF r0
  <2>1. RangeOK(r0)
    BY <1>9 DEF r0
  <2> QED BY <1>1, <2>1, ClusterOrder
<1>13. k = l
  <2>1. place(k) = place(l)
    BY <1>10
  <2> HIDE DEF place
  <2> QED BY <1>11, <1>12, <2>1
<1> QED BY <1>11, <1>13

LEMMA NearIs ==
  ASSUME NEW n \in Nat \ {0}, NEW far, \A c \in 0 .. (n - 1) : far[c] \in Int
  PROVE  /\ \A m \in 1 .. n : Nth(0 .. (n - 1), far, m - 1) \in 0 .. (n - 1)
         /\ \A l, m \in 1 .. n :
              Nth(0 .. (n - 1), far, l - 1) = Nth(0 .. (n - 1), far, m - 1) => l = m
<1> DEFINE S == 0 .. (n - 1)
<1>1. IsFiniteSet(S) /\ Cardinality(S) = n
  <2>1. 0 \in Int /\ n - 1 \in Int
    OBVIOUS
  <2>2. IsFiniteSet(0 .. (n - 1))
        /\ Cardinality(0 .. (n - 1)) = IF 0 > n - 1 THEN 0 ELSE (n - 1) - 0 + 1
    BY <2>1, FS_Interval
  <2> QED BY <2>2
<1>2. Keyed(S, far)
  BY <1>1 DEF Keyed
<1>3. \A m \in 1 .. n : m - 1 \in 0 .. (Cardinality(S) - 1)
  BY <1>1
<1> HIDE DEF S
<1>4. \A m \in 1 .. n : Nth(S, far, m - 1) \in S
  BY <1>2, <1>3, NthIs
<1>5. \A l, m \in 1 .. n : Nth(S, far, l - 1) = Nth(S, far, m - 1) => l - 1 = m - 1
  BY <1>2, <1>3, NthEnumerates
<1>6. \A l, m \in 1 .. n : l - 1 = m - 1 => l = m
  OBVIOUS
<1> QED BY <1>4, <1>5, <1>6 DEF S

LEMMA SeenWellFormed ==
  ASSUME Ready, NEW q \in Queries
  PROVE  View!WellFormed(Seen(q))
<1> DEFINE far == [c \in 0 .. (idx.clusters - 1) |-> CentroidDistance(q, c)]
           i == Seen(q)
           n == input.nVectors
<1>1. /\ IndexInv /\ stage = "done" /\ clusters \in Nat \ {0} /\ input \in Inputs
      /\ idx.clusters = clusters /\ idx.listOffsets = listOffsets /\ idx.origIDs = rows
      /\ idx.labels = Index.labels /\ n \in Nat \ {0} /\ n <= MaxUint32 /\ MaxUint32 \in Nat
      /\ Ids(input) = 0 .. (n - 1)
  BY ServedIndex, InputIs, RoomAssumption, SentinelAssumption DEF Ready, Ids
<1>2. DOMAIN idx.labels = 0 .. (n - 1)
  BY <1>1 DEF Index
<1>3. /\ i.clusters = clusters /\ i.listOffsets = listOffsets /\ i.origIDs = rows
      /\ i.dist = [row \in 0 .. (n - 1) |-> RowDistance(q, ClusterOf(row), row)]
      /\ i.labels = [row \in 0 .. (n - 1) |-> idx.labels[row] = 1]
      /\ i.bboxDist = [c \in 0 .. (clusters - 1) |-> P!Total(BoxSums(q, c))]
      /\ i.near = [m \in 1 .. clusters |-> Nth(0 .. (clusters - 1), far, m - 1)]
  BY <1>1, <1>2 DEF Seen
<1>4. /\ listOffsets \in [0 .. clusters -> Nat] /\ listOffsets[0] = 0 /\ listOffsets[clusters] = n
      /\ \A c, e \in 0 .. clusters : c <= e => listOffsets[c] <= listOffsets[e]
  BY <1>1, OffsetsLieInOrder DEF IndexInv, LaidOut
<1> HIDE DEF far, i, n
<1>5. /\ View!Row(i) = 0 .. (n - 1) /\ View!Cluster(i) = 0 .. (clusters - 1)
      /\ \A c \in 0 .. (clusters - 1) : View!RowsOf(i, c) = RowsOf(c)
  BY <1>3, <1>4 DEF View!Row, View!Cluster, View!RowsOf, RowsOf
<1>6. \A row \in 0 .. (n - 1) : \E c \in 0 .. (clusters - 1) : row \in RowsOf(c)
  BY <1>1, RowsCovered DEF n
<1>7. ASSUME NEW row \in 0 .. (n - 1)
      PROVE  /\ ClusterOf(row) \in 0 .. (clusters - 1) /\ row \in RowsOf(ClusterOf(row))
             /\ i.dist[row] \in 0 .. (MaxInt64 - 1)
  <2>1. ClusterOf(row) = CHOOSE c \in 0 .. (clusters - 1) : row \in RowsOf(c)
    BY <1>1 DEF ClusterOf, FirstRow, EndRow, RowsOf
  <2>2. ClusterOf(row) \in 0 .. (clusters - 1) /\ row \in RowsOf(ClusterOf(row))
    BY <1>6, <2>1
  <2>3. i.dist[row] = RowDistance(q, ClusterOf(row), row)
    BY <1>3
  <2> QED BY <2>2, <2>3, RowDistanceIs
<1>8. i.dist \in [0 .. (n - 1) -> 0 .. (MaxInt64 - 1)]
  BY <1>3, <1>7
<1>9. i.labels \in [0 .. (n - 1) -> BOOLEAN]
  BY <1>3
<1>10. /\ i.origIDs \in [0 .. (n - 1) -> 0 .. (MaxUint32 - 1)]
       /\ \A r, s \in 0 .. (n - 1) : i.origIDs[r] = i.origIDs[s] => r = s
  <2>1. rows \in [0 .. (n - 1) -> 0 .. (n - 1)]
    BY <1>1 DEF IndexInv, LaidOut
  <2>2. 0 .. (n - 1) \subseteq 0 .. (MaxUint32 - 1)
    BY <1>1
  <2>3. \A r, s \in 0 .. (n - 1) : rows[r] = rows[s] => r = s
    BY <1>1, RowsInjective
  <2> QED BY <1>3, <2>1, <2>2, <2>3
<1>11. i.bboxDist \in [0 .. (clusters - 1) -> Nat]
  BY <1>3, BoxDistanceIs
<1>12. ASSUME NEW c \in 0 .. (clusters - 1), NEW row \in RowsOf(c)
       PROVE  i.bboxDist[c] <= i.dist[row]
  <2>1. row \in 0 .. (n - 1)
    BY <1>1, RowsOfIs
  <2>2. ClusterOf(row) = c
    BY <1>1, <1>7, <2>1, RowsDisjoint
  <2>3. i.dist[row] = RowDistance(q, c, row) /\ i.bboxDist[c] = P!Total(BoxSums(q, c))
    BY <1>3, <2>1, <2>2
  <2> QED BY <2>3, BoxDistanceIs
<1>13. /\ i.near \in [1 .. clusters -> 0 .. (clusters - 1)]
       /\ \A l, m \in 1 .. clusters : i.near[l] = i.near[m] => l = m
  <2>1. \A c \in 0 .. (clusters - 1) : far[c] \in Int
    BY <1>1, CentroidDistanceIs DEF far
  <2>2. /\ \A m \in 1 .. clusters : Nth(0 .. (clusters - 1), far, m - 1) \in 0 .. (clusters - 1)
        /\ \A l, m \in 1 .. clusters :
             Nth(0 .. (clusters - 1), far, l - 1) = Nth(0 .. (clusters - 1), far, m - 1) => l = m
    BY <1>1, <2>1, NearIs
  <2> QED BY <1>3, <2>2
<1>14. View!WellFormed(i)
  <2>1. /\ i.clusters \in Nat \ {0} /\ i.listOffsets \in [0 .. i.clusters -> Nat]
        /\ i.listOffsets[0] = 0
        /\ \A c, e \in 0 .. i.clusters : c <= e => i.listOffsets[c] <= i.listOffsets[e]
    BY <1>1, <1>3, <1>4
  <2>2. \A r \in View!Row(i) : \E c \in View!Cluster(i) : r \in View!RowsOf(i, c)
    BY <1>5, <1>6
  <2>3. /\ i.dist \in [View!Row(i) -> 0 .. (MaxInt64 - 1)] /\ i.labels \in [View!Row(i) -> BOOLEAN]
        /\ i.origIDs \in [View!Row(i) -> 0 .. (MaxUint32 - 1)]
        /\ \A r, s \in View!Row(i) : i.origIDs[r] = i.origIDs[s] => r = s
    BY <1>5, <1>8, <1>9, <1>10
  <2>4. /\ i.bboxDist \in [View!Cluster(i) -> Nat]
        /\ \A c \in View!Cluster(i) : \A r \in View!RowsOf(i, c) : i.bboxDist[c] <= i.dist[r]
    BY <1>5, <1>11, <1>12
  <2>5. /\ i.near \in [1 .. i.clusters -> View!Cluster(i)]
        /\ \A m, l \in 1 .. i.clusters : i.near[m] = i.near[l] => m = l
    BY <1>3, <1>5, <1>13
  <2> QED BY <2>1, <2>2, <2>3, <2>4, <2>5 DEF View!WellFormed
<1> QED BY <1>14 DEF i

(***************************************************************************)
(* There are no more clusters than the indexer was asked for.              *)
(***************************************************************************)
LEMMA SpecClusters == Spec => [](clusters <= NClusters)
<1>1. Init => clusters <= NClusters
  <2> SUFFICES ASSUME BuildInit PROVE clusters <= NClusters
    BY DEF Init
  <2>1. input.nVectors \in Nat \ {0} /\ clusters = ClustersFor(input.nVectors)
    BY InputAssumption DEF BuildInit, Input
  <2> DEFINE n == input.nVectors
  <2> HIDE DEF n
  <2>2. n \in Nat \ {0} /\ NClusters \in Nat /\ clusters = ClustersFor(n)
    BY <2>1, ClustersAssumption DEF n
  <2>3. CASE NClusters > n
    <3>1. clusters = highestPowerOfTwoLE(n) /\ highestPowerOfTwoLE(n) \in 1 .. n
      BY <2>2, <2>3, highestPowerOfTwoIs DEF ClustersFor
    <3> QED BY <2>2, <2>3, <3>1
  <2>4. CASE ~ (NClusters > n)
    BY <2>2, <2>4 DEF ClustersFor
  <2> QED BY <2>3, <2>4
<1>2. clusters <= NClusters /\ [Next]_<<vars, fileVars, scanVars>> => (clusters <= NClusters)'
  <2>1. [Next]_<<vars, fileVars, scanVars>> => clusters' = clusters
    BY DEF Next, BuildNext, Leaf, Split, SplitEnds, MakeCluster, MakeBlocks, FileNext,
           Create, Save, SaveStops, Load, Ask, Scan, Stopped, vars, layout
  <2> QED BY <2>1
<1> QED BY <1>1, <1>2, PTL DEF Spec

(***************************************************************************)
(* What a query sees of an index that was built, saved and loaded is what  *)
(* IVFSearch is specified to search: the kernel finds every vector where   *)
(* its cluster and row say, no box is farther away than what lies in it,   *)
(* and all clusters fit into probeMask.  For every input whose coordinates *)
(* are quantized, whatever the dimension, the sizes and the numbers.       *)
(***************************************************************************)
THEOREM ServedIndexWellFormed == Spec => []LoadedWellFormed
<1>1. ASSUME IndexInv, FileInv, LoadInv, clusters <= NClusters PROVE LoadedWellFormed
  <2> SUFFICES ASSUME loader = "loaded", saver = "saved"
               PROVE  /\ idx.clusters <= MaskBits
                      /\ \A q \in Queries :
                           /\ View!WellFormed(Seen(q))
                           /\ \A c \in 0 .. (idx.clusters - 1) :
                                CentroidDistance(q, c) = SquaredDistance(q, VectorOf(idx.centroids, c))
    BY DEF LoadedWellFormed
  <2>1. Ready
    BY <1>1 DEF Ready
  <2>2. idx.clusters = clusters /\ clusters \in Nat
    BY <2>1, ServedIndex
  <2>3. idx.clusters <= MaskBits
    BY <1>1, <2>2, MaskAssumption, RoomAssumption, SentinelAssumption, ClustersAssumption
  <2> QED BY <2>1, <2>2, <2>3, SeenWellFormed, CentroidDistanceIs
<1> QED BY <1>1, SpecFileInv, SpecClusters, PTL

-----------------------------------------------------------------------------
(***************************************************************************)
(* The neighbours to be found among a set of entries with identifiers of   *)
(* their own: position i holds the entry that i - 1 others are closer than.*)
(***************************************************************************)
Distinct(C) ==
  /\ IsFiniteSet(C) /\ C \subseteq Entry
  /\ \A e \in C : e.d < MaxInt64
  /\ \A e, f \in C : e.id = f.id => e = f

Preceding(C, e) == {f \in C : Closer(f, e)}

NearestOf(C) ==
  [i \in Positions |-> IF i > Cardinality(C) THEN EmptySlot
                       ELSE CHOOSE e \in C : Cardinality(Preceding(C, e)) = i - 1]

LEMMA PrecedingUnique ==
  ASSUME NEW C, Distinct(C), NEW e \in C, NEW f \in C,
         Cardinality(Preceding(C, e)) = Cardinality(Preceding(C, f))
  PROVE  e = f
<1>1. ASSUME NEW x \in C, NEW y \in C, Closer(x, y)
      PROVE  Cardinality(Preceding(C, x)) # Cardinality(Preceding(C, y))
  <2>1. Preceding(C, x) \subseteq Preceding(C, y)
    BY <1>1, CloserIsOrder DEF Preceding, Distinct
  <2>2. x \in Preceding(C, y) /\ x \notin Preceding(C, x)
    BY <1>1, CloserIsOrder DEF Preceding, Distinct
  <2>3. IsFiniteSet(Preceding(C, y))
    BY FS_Subset DEF Preceding, Distinct
  <2> QED BY <2>1, <2>2, <2>3, FS_Subset
<1>2. e.d \in Nat /\ f.d \in Nat /\ e.id \in Nat /\ f.id \in Nat
  BY DEF Distinct, Entry
<1>3. Closer(e, f) \/ Closer(f, e) \/ e.id = f.id
  BY <1>2 DEF Closer
<1> QED BY <1>1, <1>3 DEF Distinct

LEMMA KeptIsNearest ==
  ASSUME NEW C, Distinct(C), NEW b \in Kepts, KeptSorted(b), NEW i \in Positions,
         \A j \in 1 .. i : b[j] \in C,
         \A j \in 1 .. i : \A k \in 1 .. i : j # k => b[j] # b[k],
         \A e \in C : Closer(e, b[i]) => \E n \in Positions : b[n] = e
  PROVE  b[i] = NearestOf(C)[i]
<1>0. i \in Nat \ {0} /\ i \in 1 .. i /\ i <= K /\ K \in Nat /\ \A j \in 1 .. i : j \in Positions
  BY KAssumption DEF Positions
<1> DEFINE f == [j \in 1 .. (i - 1) |-> b[j]]
           g == [j \in 1 .. i |-> b[j]]
<1>1. Preceding(C, b[i]) = {b[j] : j \in 1 .. (i - 1)}
  <2>1. ASSUME NEW j \in 1 .. (i - 1) PROVE b[j] \in Preceding(C, b[i])
    <3>1. j \in 1 .. i /\ j # i /\ j < i /\ j \in Positions
      BY <1>0
    <3>2. b[j] \in C /\ b[i] \in C /\ b[j] # b[i]
      BY <1>0, <3>1
    <3>3. ~ Closer(b[i], b[j])
      BY <3>1 DEF KeptSorted
    <3>4. b[j].id # b[i].id
      BY <3>2 DEF Distinct
    <3>5. b[j] \in Entry /\ b[i] \in Entry
      BY <3>2 DEF Distinct
    <3>6. Closer(b[j], b[i])
      BY <3>3, <3>4, <3>5 DEF Closer, Entry
    <3> QED BY <3>2, <3>6 DEF Preceding
  <2>2. ASSUME NEW e \in Preceding(C, b[i]) PROVE \E j \in 1 .. (i - 1) : b[j] = e
    <3>1. e \in C /\ Closer(e, b[i])
      BY DEF Preceding
    <3>2. PICK n \in Positions : b[n] = e
      BY <3>1
    <3>3. n \in Int /\ ~ (i < n) /\ i # n
      BY <3>1, <3>2, CloserIsOrder DEF KeptSorted, Positions, Kepts
    <3>4. n \in 1 .. (i - 1)
      BY <1>0, <3>3 DEF Positions
    <3> QED BY <3>2, <3>4
  <2> QED BY <2>1, <2>2
<1>2. Cardinality(Preceding(C, b[i])) = i - 1
  <2>1. f \in Bijection(1 .. (i - 1), Preceding(C, b[i]))
    <3>1. f \in [1 .. (i - 1) -> Preceding(C, b[i])]
      BY <1>1
    <3>2. \A j, k \in 1 .. (i - 1) : f[j] = f[k] => j = k
      BY <1>0
    <3>3. \A e \in Preceding(C, b[i]) : \E j \in 1 .. (i - 1) : f[j] = e
      BY <1>1
    <3> QED BY <3>1, <3>2, <3>3 DEF Bijection, Injection, Surjection, IsInjective
  <2>2. ExistsBijection(1 .. (i - 1), Preceding(C, b[i]))
    BY <2>1 DEF ExistsBijection
  <2> QED BY <1>0, <2>2, FS_CountingElements
<1>3. i <= Cardinality(C)
  <2>1. g \in Injection(1 .. i, C)
    BY DEF Injection, IsInjective
  <2>2. Cardinality(1 .. i) <= Cardinality(C)
    <3> HIDE DEF g
    <3> QED BY <2>1, FS_Injection DEF Distinct
  <2>3. Cardinality(1 .. i) = i
    <3>1. PICK one \in Nat : one = 1
      OBVIOUS
    <3>2. Cardinality(one .. i) = IF one > i THEN 0 ELSE i - one + 1
      BY <1>0, FS_Interval
    <3> QED BY <1>0, <3>1, <3>2
  <2> QED BY <2>2, <2>3
<1>4. Cardinality(C) \in Nat
  BY FS_CardinalityType DEF Distinct
<1>5. b[i] \in C /\ ~ (i > Cardinality(C))
  BY <1>0, <1>3, <1>4
<1>6. b[i] = CHOOSE e \in C : Cardinality(Preceding(C, e)) = i - 1
  BY <1>2, <1>5, PrecedingUnique
<1> QED BY <1>5, <1>6 DEF NearestOf

(***************************************************************************)
(* What the neighbours are once the entries C have been offered.           *)
(***************************************************************************)
Keeps(b, C) ==
  /\ b \in Kepts /\ KeptSorted(b)
  /\ \A n \in Positions : b[n] = EmptySlot \/ b[n] \in C
  /\ \A m, n \in Positions : m # n /\ b[m] = b[n] => b[m] = EmptySlot
  /\ \A e \in C : (\E n \in Positions : b[n] = e) \/ ~ Closer(e, b[K])

LEMMA KeepsNone == Keeps(newSearchState, {})
<1>1. newSearchState \in Kepts /\ \A n \in Positions : newSearchState[n] = EmptySlot
  BY EmptySlotType DEF newSearchState
<1>2. KeptSorted(newSearchState)
  BY <1>1, EmptySlotType, CloserIsOrder DEF KeptSorted
<1> QED BY <1>1, <1>2 DEF Keeps

LEMMA KeepsSkipped ==
  ASSUME NEW b, NEW C, Keeps(b, C), NEW D, \A e \in D : ~ Closer(e, b[K])
  PROVE  Keeps(b, C \union D)
BY DEF Keeps

LEMMA KeepsOffered ==
  ASSUME NEW b, NEW C, Keeps(b, C), C \subseteq Entry, NEW e \in Entry, e \notin C, e # EmptySlot
  PROVE  Keeps(Offer(b, e), C \union {e})
<1> DEFINE o == Offer(b, e)
<1>1. b \in Kepts /\ KeptSorted(b) /\ K \in Positions
  BY KAssumption DEF Keeps, Positions
<1>2. /\ o \in Kepts /\ KeptSorted(o) /\ ~ Closer(b[K], o[K])
      /\ (\E n \in Positions : o[n] = e) \/ ~ Closer(e, o[K])
      /\ \A n \in Positions : (\E m \in Positions : o[m] = b[n]) \/ ~ Closer(b[n], o[K])
      /\ \A n \in Positions : o[n] = e \/ \E m \in Positions : o[n] = b[m]
  BY <1>1, OfferFacts
<1>3. \A n \in Positions : b[n] # e
  BY DEF Keeps
<1>4. \A m, n \in Positions : m # n /\ o[m] = o[n] => o[m] = EmptySlot
  BY <1>1, <1>3, OfferDistinct DEF Keeps
<1> HIDE DEF o
<1>5. ASSUME NEW f \in C PROVE (\E n \in Positions : o[n] = f) \/ ~ Closer(f, o[K])
  <2>1. CASE \E n \in Positions : b[n] = f
    BY <1>2, <2>1
  <2>2. CASE ~ Closer(f, b[K])
    <3>1. f \in Entry /\ b[K] \in Entry /\ o[K] \in Entry
      BY <1>1, <1>2 DEF Kepts
    <3>2. ~ Closer(f, o[K])
      BY <1>2, <2>2, <3>1, CloserIsOrder
    <3> QED BY <3>2
  <2> QED BY <2>1, <2>2 DEF Keeps
<1>6. \A n \in Positions : o[n] = EmptySlot \/ o[n] \in C \union {e}
  BY <1>2 DEF Keeps
<1>7. Keeps(o, C \union {e})
  BY <1>2, <1>4, <1>5, <1>6 DEF Keeps
<1> QED BY <1>7 DEF o

LEMMA KeepsNearest ==
  ASSUME NEW C, Distinct(C), NEW b, Keeps(b, C)
  PROVE  b = NearestOf(C)
<1>0. K \in Nat \ {0} /\ Positions = 1 .. K /\ b \in Kepts /\ K \in Positions
  BY KAssumption DEF Positions, Keeps
<1>1. EmptySlot \notin C /\ \A e \in C : Closer(e, EmptySlot)
  BY SentinelAssumption DEF Distinct, EmptySlot, Closer, Entry
<1> SUFFICES ASSUME NEW i \in Positions PROVE b[i] = NearestOf(C)[i]
  BY <1>0 DEF NearestOf, Kepts
<1>2. CASE b[i] \in C
  <2>1. ASSUME NEW j \in 1 .. i PROVE b[j] \in C
    <3>1. j \in Positions /\ j <= i
      BY <1>0
    <3>2. CASE j = i
      BY <1>2, <3>2
    <3>3. CASE j # i
      <4>1. ~ Closer(b[i], b[j])
        BY <1>0, <3>1, <3>3 DEF Keeps, KeptSorted
      <4>2. b[j] # EmptySlot
        BY <1>1, <1>2, <4>1
      <4> QED BY <3>1, <4>2 DEF Keeps
    <3> QED BY <3>2, <3>3
  <2>2. ASSUME NEW j \in 1 .. i, NEW k \in 1 .. i, j # k PROVE b[j] # b[k]
    <3>1. j \in Positions /\ k \in Positions /\ b[j] # EmptySlot
      BY <1>0, <1>1, <2>1
    <3> QED BY <2>2, <3>1 DEF Keeps
  <2>3. ASSUME NEW e \in C, Closer(e, b[i]) PROVE \E n \in Positions : b[n] = e
    <3>1. ~ Closer(b[K], b[i])
      BY <1>0, CloserIsOrder DEF Keeps, KeptSorted, Kepts
    <3>2. Closer(e, b[K])
      BY <1>0, <2>3, <3>1, CloserIsOrder DEF Distinct, Kepts
    <3> QED BY <3>2 DEF Keeps
  <2> QED BY <1>0, <2>1, <2>2, <2>3, KeptIsNearest DEF Keeps
<1>3. CASE b[i] = EmptySlot
  <2>1. ASSUME NEW e \in C PROVE \E n \in 1 .. (i - 1) : b[n] = e
    <3>1. b[K] = EmptySlot
      <4>1. ~ Closer(b[K], EmptySlot)
        BY <1>0, <1>3, CloserIsOrder DEF Keeps, KeptSorted, Kepts
      <4> QED BY <1>0, <1>1, <4>1 DEF Keeps
    <3>2. PICK n \in Positions : b[n] = e
      BY <1>1, <3>1 DEF Keeps
    <3>3. Closer(b[n], b[i])
      BY <1>1, <1>3, <3>2
    <3>4. ~ (i < n) /\ i # n
      BY <1>1, <1>3, <3>2, <3>3 DEF Keeps, KeptSorted
    <3>5. n \in 1 .. (i - 1)
      BY <1>0, <3>4
    <3> QED BY <3>2, <3>5
  <2>2. Cardinality(C) <= i - 1
    <3> DEFINE D == {n \in 1 .. (i - 1) : b[n] \in C}
               f == [n \in D |-> b[n]]
    <3>1. f \in Surjection(D, C)
      BY <2>1 DEF Surjection
    <3>2. IsFiniteSet(1 .. (i - 1)) /\ Cardinality(1 .. (i - 1)) = i - 1
      <4>1. PICK one \in Nat : one = 1
        OBVIOUS
      <4>2. PICK last \in Nat : last = i - 1
        BY <1>0
      <4>3. /\ IsFiniteSet(one .. last)
            /\ Cardinality(one .. last) = IF one > last THEN 0 ELSE last - one + 1
        BY <4>1, FS_Interval
      <4> QED BY <4>1, <4>2, <4>3
    <3>3. IsFiniteSet(D) /\ Cardinality(D) <= i - 1
      BY <3>2, FS_Subset
    <3>4. Cardinality(C) <= Cardinality(D)
      <4> HIDE DEF f, D
      <4> QED BY <3>1, <3>3, FS_Surjection
    <3>5. Cardinality(C) \in Nat /\ Cardinality(D) \in Nat
      BY <3>3, FS_CardinalityType DEF Distinct
    <3> QED BY <1>0, <3>3, <3>4, <3>5
  <2>3. i > Cardinality(C)
    BY <1>0, <2>2, FS_CardinalityType DEF Distinct
  <2> QED BY <1>3, <2>3 DEF NearestOf
<1> QED BY <1>2, <1>3 DEF Keeps

(***************************************************************************)
(* A loop that offers one entry after the other.                           *)
(***************************************************************************)
Offers(after, b, entry, m) ==
  after = [n \in 0 .. m |-> IF n = 0 THEN b ELSE Offer(after[n - 1], entry[n])]

Offered(entry, m) == {entry[n] : n \in 1 .. m}

SortedKepts == {v \in Kepts : KeptSorted(v)}

LEMMA OffersExist ==
  ASSUME NEW m \in Nat, NEW b \in SortedKepts, NEW entry, \A n \in 1 .. m : entry[n] \in Entry
  PROVE  \E after : Offers(after, b, entry, m)
<1> DEFINE V == SortedKepts
           step == [n \in 1 .. m |-> [v \in V |-> Offer(v, entry[n])]]
<1>1. \A n \in 1 .. m : \A v \in V : step[n][v] \in V
  BY OfferFacts DEF SortedKepts
<1>2. PICK zero \in Int : zero = 0
  OBVIOUS
<1>3. Steps(step, zero, m, V)
  <2>1. (zero + 1) .. m = 1 .. m
    BY <1>2
  <2> QED BY <1>1, <2>1 DEF Steps
<1>4. b \in V
  OBVIOUS
<1> HIDE DEF V, step
<1>5. PICK g : Recursion(g, b, step, zero, m, V)
  <2>1. m \in Int /\ zero <= m
    BY <1>2
  <2> QED BY <1>3, <1>4, <2>1, RecursionExists
<1>6. g \in [0 .. m -> V] /\ g[0] = b /\ \A n \in 1 .. m : g[n] = step[n][g[n - 1]]
  BY <1>2, <1>5 DEF Recursion
<1>7. ASSUME NEW n \in 1 .. m PROVE g[n] = Offer(g[n - 1], entry[n])
  <2>1. n - 1 \in 0 .. m /\ g[n - 1] \in V
    BY <1>6
  <2>2. step[n][g[n - 1]] = Offer(g[n - 1], entry[n])
    BY <2>1 DEF step
  <2> QED BY <1>6, <2>2
<1>8. \A n \in 0 .. m : g[n] = IF n = 0 THEN b ELSE Offer(g[n - 1], entry[n])
  <2>1. \A n \in 0 .. m : n # 0 => n \in 1 .. m
    OBVIOUS
  <2> QED BY <1>6, <1>7, <2>1
<1>9. Offers(g, b, entry, m)
  BY <1>6, <1>8 DEF Offers
<1> QED BY <1>9

LEMMA KeepsAll ==
  ASSUME NEW m \in Nat, NEW b, NEW C, NEW entry, NEW after,
         Offers(after, b, entry, m), Keeps(b, C), C \subseteq Entry,
         \A n \in 1 .. m : entry[n] \in Entry /\ entry[n] \notin C /\ entry[n] # EmptySlot,
         \A n, k \in 1 .. m : entry[n] = entry[k] => n = k
  PROVE  Keeps(after[m], C \union Offered(entry, m))
<1> DEFINE D(k) == C \union {entry[n] : n \in 1 .. k}
           T == {k \in 0 .. m : Keeps(after[k], D(k))}
<1>1. 0 \in T
  <2>1. after[0] = b /\ D(0) = C
    BY DEF Offers
  <2> QED BY <2>1
<1>2. ASSUME NEW k \in 0 .. (m - 1), k \in T PROVE k + 1 \in T
  <2>1. k + 1 \in 1 .. m /\ k + 1 \in 0 .. m /\ k + 1 # 0 /\ (k + 1) - 1 = k
    OBVIOUS
  <2>2. after[k + 1] = Offer(after[k], entry[k + 1])
    BY <2>1 DEF Offers
  <2>3. D(k + 1) = D(k) \union {entry[k + 1]}
    <3>1. 1 .. (k + 1) = (1 .. k) \union {k + 1}
      OBVIOUS
    <3> QED BY <3>1
  <2>4. entry[k + 1] \notin D(k)
    <3>1. \A n \in 1 .. k : n \in 1 .. m /\ n # k + 1
      OBVIOUS
    <3> QED BY <2>1, <3>1
  <2>5. D(k) \subseteq Entry
    <3>1. \A n \in 1 .. k : n \in 1 .. m
      OBVIOUS
    <3> QED BY <3>1
  <2>6. Keeps(after[k], D(k)) /\ entry[k + 1] \in Entry /\ entry[k + 1] # EmptySlot
    BY <1>2, <2>1
  <2> HIDE DEF D
  <2>7. Keeps(after[k + 1], D(k + 1))
    BY <2>2, <2>3, <2>4, <2>5, <2>6, KeepsOffered
  <2> QED BY <2>1, <2>7
<1>3. m \in T
  <2> HIDE DEF T
  <2>1. PICK zero \in Int : zero = 0
    OBVIOUS
  <2>2. m \in Int /\ zero <= m
    BY <2>1
  <2>3. zero .. m \subseteq T
    BY <1>1, <1>2, <2>1, <2>2, IntervalInduction
  <2> QED BY <2>1, <2>3
<1> QED BY <1>3 DEF Offered

-----------------------------------------------------------------------------
(***************************************************************************)
(* The entry of a row of the index that is served.                         *)
(***************************************************************************)
EntryAt(row) ==
  [d |-> SquaredDistance(query, vectors[rows[row]]), id |-> rows[row],
   fraud |-> input.labels[rows[row]]]

EntriesAt(R) == {EntryAt(row) : row \in R}

KeepsRows(b, R) == R \subseteq Ids(input) /\ Keeps(b, EntriesAt(R))

LEMMA EntryAtIs ==
  ASSUME Ready, query \in Queries, NEW row \in Ids(input)
  PROVE  /\ EntryAt(row) \in Entry /\ EntryAt(row) # EmptySlot
         /\ EntryAt(row).d \in 0 .. (MaxInt64 - 1)
         /\ EntryOf(row, SquaredDistance(query, vectors[rows[row]])) = EntryAt(row)
         /\ \A r \in Ids(input) : EntryAt(r) = EntryAt(row) => r = row
<1>1. /\ IndexInv /\ stage = "done" /\ input \in Inputs /\ idx.origIDs = rows
      /\ idx.labels = Index.labels /\ Ids(input) = 0 .. (input.nVectors - 1)
      /\ Ids(input) \subseteq Nat
  BY ServedIndex, InputIs DEF Ready, Ids
<1>2. rows[row] \in Ids(input) /\ rows[row] \in Nat
  BY <1>1 DEF IndexInv, LaidOut
<1>3. input.labels[rows[row]] \in BOOLEAN
  BY <1>1, <1>2, InputAssumption DEF Input
<1>4. SquaredDistance(query, vectors[rows[row]]) \in 0 .. (MaxInt64 - 1)
  <2>1. PICK c \in 0 .. (clusters - 1) : row \in RowsOf(c)
    BY <1>1, RowsCovered
  <2> QED BY <2>1, RowDistanceIs
<1>5. (idx.labels[row] = 1) = input.labels[rows[row]]
  <2>1. idx.labels[row] = IF input.labels[rows[row]] THEN 1 ELSE 0
    BY <1>1 DEF Index
  <2> QED BY <1>3, <2>1
<1>6. EntryOf(row, SquaredDistance(query, vectors[rows[row]])) = EntryAt(row)
  BY <1>1, <1>5 DEF EntryOf, EntryAt
<1>7. EntryAt(row) \in Entry /\ EntryAt(row).d \in 0 .. (MaxInt64 - 1)
  BY <1>2, <1>3, <1>4 DEF EntryAt, Entry
<1>8. EntryAt(row) # EmptySlot
  BY <1>7, SentinelAssumption DEF EmptySlot
<1>9. ASSUME NEW r \in Ids(input), EntryAt(r) = EntryAt(row) PROVE r = row
  <2>1. rows[r] = rows[row]
    BY <1>9 DEF EntryAt
  <2> QED BY <1>1, <2>1, RowsInjective
<1> QED BY <1>6, <1>7, <1>8, <1>9

LEMMA LanesScanned ==
  ASSUME Ready, query \in Queries, NEW R, NEW b, KeepsRows(b, R),
         NEW c, NEW block, NEW dist, NEW lanes \in Nat, NEW first \in Int,
         first = RowBase(c, block), lanes = LanesOf(c, block, Cardinality(DOMAIN dist)),
         \A row \in first .. (first + lanes - 1) :
           /\ row \in Ids(input) /\ row \notin R
           /\ dist[row - first] = SquaredDistance(query, vectors[rows[row]])
  PROVE  KeepsRows(ScanLanes(b, c, block, dist), R \union (first .. (first + lanes - 1)))
<1> DEFINE entry == [n \in 1 .. lanes |-> EntryAt(first + n - 1)]
           Eq(g) == g = [n \in 0 .. lanes |->
                           IF n = 0 THEN b
                           ELSE Offer(g[n - 1], EntryOf(RowBase(c, block) + n - 1, dist[n - 1]))]
           after == CHOOSE g : Eq(g)
           S == first .. (first + lanes - 1)
<1>1. ScanLanes(b, c, block, dist) = after[lanes]
  BY DEF ScanLanes
<1>2. ASSUME NEW n \in 1 .. lanes
      PROVE  /\ first + n - 1 \in S /\ first + n - 1 \in Ids(input) /\ first + n - 1 \notin R
             /\ EntryOf(RowBase(c, block) + n - 1, dist[n - 1]) = entry[n]
  <2>1. first + n - 1 \in S /\ (first + n - 1) - first = n - 1
    OBVIOUS
  <2>2. /\ first + n - 1 \in Ids(input) /\ first + n - 1 \notin R
        /\ dist[n - 1] = SquaredDistance(query, vectors[rows[first + n - 1]])
    BY <2>1
  <2> QED BY <2>1, <2>2, EntryAtIs
<1>3. \A g : Eq(g) <=> Offers(g, b, entry, lanes)
  <2> SUFFICES ASSUME NEW g PROVE Eq(g) <=> Offers(g, b, entry, lanes)
    OBVIOUS
  <2>1. \A n \in 0 .. lanes : n # 0 => n \in 1 .. lanes
    OBVIOUS
  <2>2. \A n \in 0 .. lanes :
          n # 0 => EntryOf(RowBase(c, block) + n - 1, dist[n - 1]) = entry[n]
    BY <1>2, <2>1
  <2> HIDE DEF entry
  <2>3. [n \in 0 .. lanes |-> IF n = 0 THEN b
            ELSE Offer(g[n - 1], EntryOf(RowBase(c, block) + n - 1, dist[n - 1]))]
        = [n \in 0 .. lanes |-> IF n = 0 THEN b ELSE Offer(g[n - 1], entry[n])]
    BY <2>2
  <2> QED BY <2>3 DEF Offers
<1>4. \A n \in 1 .. lanes : /\ entry[n] \in Entry /\ entry[n] # EmptySlot
                            /\ entry[n] \notin EntriesAt(R)
  <2> SUFFICES ASSUME NEW n \in 1 .. lanes
               PROVE  /\ entry[n] \in Entry /\ entry[n] # EmptySlot
                      /\ entry[n] \notin EntriesAt(R)
    OBVIOUS
  <2>1. entry[n] = EntryAt(first + n - 1) /\ R \subseteq Ids(input)
    BY DEF KeepsRows
  <2> HIDE DEF entry
  <2> QED BY <1>2, <2>1, EntryAtIs DEF EntriesAt
<1>5. \A n, k \in 1 .. lanes : entry[n] = entry[k] => n = k
  <2> SUFFICES ASSUME NEW n \in 1 .. lanes, NEW k \in 1 .. lanes, entry[n] = entry[k]
               PROVE  n = k
    OBVIOUS
  <2>1. EntryAt(first + n - 1) = EntryAt(first + k - 1)
    OBVIOUS
  <2>2. first + n - 1 = first + k - 1
    BY <1>2, <2>1, EntryAtIs
  <2> QED BY <2>2
<1>6. EntriesAt(R) \subseteq Entry
  BY EntryAtIs DEF EntriesAt, KeepsRows
<1>7. EntriesAt(R \union S) = EntriesAt(R) \union Offered(entry, lanes)
  <2>1. \A row \in S : row - first + 1 \in 1 .. lanes /\ first + (row - first + 1) - 1 = row
    OBVIOUS
  <2>2. \A row \in S : \E n \in 1 .. lanes : entry[n] = EntryAt(row)
    BY <2>1
  <2>3. \A n \in 1 .. lanes : \E row \in S : entry[n] = EntryAt(row)
    BY <1>2
  <2> HIDE DEF entry, S
  <2> QED BY <2>2, <2>3 DEF EntriesAt, Offered
<1> HIDE DEF entry, S, Eq
<1>8. Offers(after, b, entry, lanes)
  <2>1. b \in SortedKepts
    BY DEF KeepsRows, Keeps, SortedKepts
  <2>2. \E g : Offers(g, b, entry, lanes)
    BY <1>4, <2>1, OffersExist
  <2>3. Eq(after)
    BY <1>3, <2>2
  <2> QED BY <1>3, <2>3
<1>9. Keeps(after[lanes], EntriesAt(R) \union Offered(entry, lanes))
  <2> HIDE DEF after
  <2>1. Keeps(b, EntriesAt(R))
    BY DEF KeepsRows
  <2>2. \A n \in 1 .. lanes : entry[n] \in Entry /\ entry[n] \notin EntriesAt(R) /\ entry[n] # EmptySlot
    BY <1>4
  <2> QED BY <1>5, <1>6, <1>8, <2>1, <2>2, KeepsAll
<1>10. R \union S \subseteq Ids(input)
  BY DEF KeepsRows, S
<1> QED BY <1>1, <1>7, <1>9, <1>10 DEF KeepsRows, S

(***************************************************************************)
(* Loops of which each round needs what the rounds before it have made     *)
(* true: V[n] is what may be there after n of them.                        *)
(***************************************************************************)
Rounds(step, V, m) == \A n \in 1 .. m : \A v \in V[n - 1] : step[n][v] \in V[n]

LEMMA RoundsKeep ==
  ASSUME NEW m \in Nat, NEW V, NEW g, g[0] \in V[0],
         \A n \in 1 .. m : g[n - 1] \in V[n - 1] => g[n] \in V[n]
  PROVE  \A n \in 0 .. m : g[n] \in V[n]
<1> DEFINE T == {n \in 0 .. m : g[n] \in V[n]}
<1>1. 0 \in T
  OBVIOUS
<1>2. ASSUME NEW k \in 0 .. (m - 1), k \in T PROVE k + 1 \in T
  <2>1. k + 1 \in 1 .. m /\ k + 1 \in 0 .. m /\ (k + 1) - 1 = k
    OBVIOUS
  <2>2. g[(k + 1) - 1] \in V[(k + 1) - 1] => g[k + 1] \in V[k + 1]
    BY <2>1
  <2> QED BY <1>2, <2>1, <2>2
<1>3. 0 .. m \subseteq T
  <2> HIDE DEF T
  <2>1. PICK zero \in Int : zero = 0
    OBVIOUS
  <2>2. m \in Int /\ zero <= m
    BY <2>1
  <2>3. zero .. m \subseteq T
    BY <1>1, <1>2, <2>1, <2>2, IntervalInduction
  <2> QED BY <2>1, <2>3
<1> QED BY <1>3

LEMMA RoundsExist ==
  ASSUME NEW m \in Nat, NEW V, NEW base \in V[0], NEW step, Rounds(step, V, m)
  PROVE  \E g : /\ g = [n \in 0 .. m |-> IF n = 0 THEN base ELSE step[n][g[n - 1]]]
                /\ \A n \in 0 .. m : g[n] \in V[n]
<1> DEFINE All == UNION {V[n] : n \in 0 .. m} \union {base}
           total == [n \in 1 .. m |->
                       [v \in All |-> IF v \in V[n - 1] THEN step[n][v] ELSE base]]
<1>1. ASSUME NEW n \in 1 .. m, NEW v \in All PROVE total[n][v] \in All
  <2>1. n - 1 \in 0 .. m /\ n \in 0 .. m
    OBVIOUS
  <2>2. v \in V[n - 1] => step[n][v] \in V[n]
    BY DEF Rounds
  <2> QED BY <2>1, <2>2
<1>2. PICK zero \in Int : zero = 0
  OBVIOUS
<1>3. Steps(total, zero, m, All)
  <2>1. (zero + 1) .. m = 1 .. m
    BY <1>2
  <2> HIDE DEF All, total
  <2> QED BY <1>1, <2>1 DEF Steps
<1>4. base \in All
  OBVIOUS
<1>5. PICK g : Recursion(g, base, total, zero, m, All)
  <2> HIDE DEF All, total
  <2>1. m \in Int /\ zero <= m
    BY <1>2
  <2> QED BY <1>3, <1>4, <2>1, RecursionExists
<1>6. g \in [0 .. m -> All] /\ g[0] = base /\ \A n \in 1 .. m : g[n] = total[n][g[n - 1]]
  <2> HIDE DEF All, total
  <2> QED BY <1>2, <1>5 DEF Recursion
<1>7. ASSUME NEW n \in 1 .. m, g[n - 1] \in V[n - 1]
      PROVE  g[n] = step[n][g[n - 1]] /\ g[n] \in V[n]
  <2>1. n - 1 \in 0 .. m /\ g[n - 1] \in All
    BY <1>6
  <2>2. total[n][g[n - 1]] = step[n][g[n - 1]]
    BY <1>7, <2>1
  <2>3. step[n][g[n - 1]] \in V[n]
    BY <1>7 DEF Rounds
  <2> HIDE DEF All, total
  <2> QED BY <1>6, <2>2, <2>3
<1> HIDE DEF All, total
<1>8. \A n \in 0 .. m : g[n] \in V[n]
  BY <1>6, <1>7, RoundsKeep
<1>9. \A n \in 0 .. m : g[n] = IF n = 0 THEN base ELSE step[n][g[n - 1]]
  <2>1. \A n \in 0 .. m : n # 0 => n \in 1 .. m /\ n - 1 \in 0 .. m
    OBVIOUS
  <2> QED BY <1>6, <1>7, <1>8, <2>1
<1>10. g = [n \in 0 .. m |-> IF n = 0 THEN base ELSE step[n][g[n - 1]]]
  BY <1>6, <1>9
<1> QED BY <1>8, <1>10

(***************************************************************************)
(* The rows of the first k blocks of a cluster, the last of which need not *)
(* be full.                                                                *)
(***************************************************************************)
Held(c, k) == IF k * blockSize < Size(c) THEN k * blockSize ELSE Size(c)

RowsUpto(c, k) == FirstRow(c) .. (FirstRow(c) + Held(c, k) - 1)

LEMMA MultiplesOrder ==
  ASSUME NEW m \in Nat, NEW a \in Nat, NEW b \in Nat, a <= b
  PROVE  a * m \in Nat /\ b * m \in Nat /\ a * m <= b * m
<1>1. PICK k \in Nat : b = a + k
  <2>1. b - a \in Nat /\ b = a + (b - a)
    OBVIOUS
  <2> QED BY <2>1
<1>2. b * m = a * m + k * m /\ k * m \in Nat /\ a * m \in Nat
  BY <1>1
<1> QED BY <1>2

LEMMA ClusterRows ==
  ASSUME Ready, NEW c \in 0 .. (clusters - 1)
  PROVE  /\ FirstRow(c) \in Nat /\ Size(c) \in Nat \ {0} /\ EndRow(c) = FirstRow(c) + Size(c)
         /\ RowsOf(c) = FirstRow(c) .. (FirstRow(c) + Size(c) - 1)
         /\ RowsOf(c) \subseteq Ids(input)
         /\ FirstBlock(c) \in Nat /\ Blocks(c) = blocksForRows(Size(c)) /\ Blocks(c) \in Nat
         /\ Held(c, 0) = 0 /\ Held(c, Blocks(c)) = Size(c)
         /\ \A k \in 0 .. (Blocks(c) - 1) : k * blockSize < Size(c)
<1>1. /\ IndexInv /\ stage = "done" /\ idx.listOffsets = listOffsets
      /\ idx.blockOffsets = blockOffsets /\ ClusterMade(c) /\ RangeOK(ranges[c])
      /\ RowsOf(c) = ranges[c].start .. (ranges[c].end - 1) /\ RowsOf(c) \subseteq Ids(input)
  BY ServedIndex, RowsOfIs DEF Ready
<1>2. /\ FirstRow(c) = ranges[c].start /\ EndRow(c) = ranges[c].end /\ FirstRow(c) \in Nat
      /\ Size(c) \in Nat \ {0} /\ EndRow(c) = FirstRow(c) + Size(c)
      /\ ranges[c].end - 1 = FirstRow(c) + Size(c) - 1
  BY <1>1 DEF FirstRow, EndRow, ClusterMade, RangeOK, Size
<1> DEFINE n == Size(c)
           q == blocksForRows(n)
<1> HIDE DEF n
<1>3. n \in Nat \ {0} /\ q \in Nat /\ n <= q * blockSize /\ blockSize \in Nat \ {0}
  BY <1>2, blocksForRowsIs, SizesAssumption DEF n
<1>4. FirstBlock(c) \in Nat /\ Blocks(c) = q
  <2>1. c \in 0 .. clusters /\ c + 1 \in 0 .. clusters
    BY <1>1 DEF IndexInv, BuildInv, TypeOK
  <2>2. blockOffsets[c] \in Nat /\ blockOffsets[c + 1] = blockOffsets[c] + q
    BY <1>1, <2>1 DEF IndexInv, LaidOut, ClusterMade, n
  <2> QED BY <1>1, <1>3, <2>2 DEF FirstBlock, Blocks
<1>5. ASSUME NEW k \in 0 .. (q - 1) PROVE k * blockSize < n
  <2>1. (q - 1) * blockSize < n
    <3> DEFINE m == n + blockSize - 1
    <3>1. m \in Nat /\ q = m \div blockSize
      BY <1>3 DEF blocksForRows
    <3> HIDE DEF q
    <3>2. m = blockSize * q + (m % blockSize) /\ m % blockSize \in 0 .. (blockSize - 1)
      <4> HIDE DEF m
      <4> QED BY <1>3, <3>1
    <3>3. (q - 1) * blockSize = blockSize * q - blockSize /\ blockSize * q \in Nat
      BY <1>3
    <3> QED BY <1>3, <3>2, <3>3
  <2>2. k * blockSize <= (q - 1) * blockSize /\ k * blockSize \in Nat /\ (q - 1) * blockSize \in Nat
    <3> HIDE DEF q
    <3>1. k \in Nat /\ q - 1 \in Nat /\ k <= q - 1
      BY <1>3
    <3>2. PICK last \in Nat : last = q - 1
      BY <3>1
    <3>3. k * blockSize <= last * blockSize /\ k * blockSize \in Nat /\ last * blockSize \in Nat
      BY <1>3, <3>1, <3>2, MultiplesOrder
    <3> QED BY <3>2, <3>3
  <2> HIDE DEF q
  <2> QED BY <1>3, <2>1, <2>2
<1> HIDE DEF q
<1>6. Held(c, 0) = 0 /\ Held(c, Blocks(c)) = n
  <2>1. 0 * blockSize = 0 /\ q * blockSize \in Nat
    BY <1>3
  <2> QED BY <1>3, <1>4, <2>1 DEF Held, n
<1> QED BY <1>1, <1>2, <1>3, <1>4, <1>5, <1>6 DEF n, q

LEMMA HeldNext ==
  ASSUME Ready, NEW c \in 0 .. (clusters - 1), NEW k \in Nat, NEW j \in Nat \ {0},
         k + j <= Blocks(c)
  PROVE  /\ RowBase(c, FirstBlock(c) + k) = FirstRow(c) + Held(c, k)
         /\ Held(c, k) = k * blockSize /\ Held(c, k) \in Nat
         /\ LanesOf(c, FirstBlock(c) + k, j * blockSize) = Held(c, k + j) - Held(c, k)
         /\ Held(c, k + j) - Held(c, k) \in 0 .. (j * blockSize)
         /\ Held(c, k + j) <= Size(c) /\ Held(c, k + j) \in Nat
<1>1. /\ FirstRow(c) \in Nat /\ Size(c) \in Nat \ {0} /\ EndRow(c) = FirstRow(c) + Size(c)
      /\ FirstBlock(c) \in Nat /\ Blocks(c) \in Nat /\ blockSize \in Nat \ {0}
      /\ \A i \in 0 .. (Blocks(c) - 1) : i * blockSize < Size(c)
  BY ClusterRows, SizesAssumption
<1>2. k * blockSize < Size(c) /\ k * blockSize \in Nat
  BY <1>1
<1>3. (k + j) * blockSize = k * blockSize + j * blockSize /\ j * blockSize \in Nat
  BY <1>1
<1>4. (FirstBlock(c) + k) - FirstBlock(c) = k
  BY <1>1
<1>5. Held(c, k) = k * blockSize /\ RowBase(c, FirstBlock(c) + k) = FirstRow(c) + k * blockSize
  BY <1>1, <1>2, <1>4 DEF RowBase, Held
<1>6. EndRow(c) - (FirstRow(c) + k * blockSize) = Size(c) - k * blockSize
  BY <1>1, <1>2
<1>7. LanesOf(c, FirstBlock(c) + k, j * blockSize)
        = IF Size(c) - k * blockSize < j * blockSize THEN Size(c) - k * blockSize ELSE j * blockSize
  BY <1>5, <1>6 DEF LanesOf
<1>8. Held(c, k + j) = IF (k + j) * blockSize < Size(c) THEN (k + j) * blockSize ELSE Size(c)
  BY DEF Held
<1> QED BY <1>1, <1>2, <1>3, <1>5, <1>7, <1>8

LEMMA GroupScanned ==
  ASSUME Ready, query \in Queries, NEW c \in 0 .. (clusters - 1),
         NEW R, R \intersect RowsOf(c) = {}, NEW k \in Nat, NEW j \in Nat \ {0}, k + j <= Blocks(c),
         NEW b, KeepsRows(b, R \union RowsUpto(c, k)),
         NEW dist, DOMAIN dist = 0 .. (j * blockSize - 1),
         \A l \in 0 .. (j * blockSize - 1) :
           dist[l] = quantizedBlock8DistancesAVX2(query, idx.blocks, FirstBlock(c) + k + l \div blockSize)
                       [l % blockSize]
  PROVE  KeepsRows(ScanLanes(b, c, FirstBlock(c) + k, dist), R \union RowsUpto(c, k + j))
<1> DEFINE s == blockSize
           w == j * s
           first == FirstRow(c) + Held(c, k)
           lanes == Held(c, k + j) - Held(c, k)
<1>1. /\ FirstRow(c) \in Nat /\ Size(c) \in Nat /\ FirstBlock(c) \in Nat /\ s \in Nat \ {0}
      /\ RowsOf(c) = FirstRow(c) .. (FirstRow(c) + Size(c) - 1) /\ RowsOf(c) \subseteq Ids(input)
      /\ w \in Nat
  BY ClusterRows, SizesAssumption
<1>2. /\ first = RowBase(c, FirstBlock(c) + k) /\ Held(c, k) = k * s /\ Held(c, k) \in Nat
      /\ LanesOf(c, FirstBlock(c) + k, w) = lanes /\ lanes \in 0 .. w
      /\ Held(c, k + j) <= Size(c) /\ Held(c, k + j) \in Nat
  BY HeldNext
<1> HIDE DEF w, s
<1>3. Cardinality(DOMAIN dist) = w
  <2>1. PICK zero \in Int, last \in Int : zero = 0 /\ last = w - 1
    BY <1>1
  <2>2. Cardinality(zero .. last) = IF zero > last THEN 0 ELSE last - zero + 1
    BY FS_Interval
  <2>3. DOMAIN dist = zero .. last
    BY <2>1 DEF w, s
  <2> QED BY <1>1, <2>1, <2>2, <2>3
<1>4. ASSUME NEW row \in first .. (first + lanes - 1)
      PROVE  /\ row \in RowsOf(c) /\ row \notin R \union RowsUpto(c, k)
             /\ dist[row - first] = SquaredDistance(query, vectors[rows[row]])
  <2> DEFINE l == row - first
             rel == row - FirstRow(c)
  <2>1. l \in 0 .. (w - 1) /\ l \in Nat /\ rel \in Nat /\ rel = k * s + l
    <3>1. PICK f \in Nat, h \in Nat, g \in Nat :
            f = FirstRow(c) /\ h = Held(c, k) /\ g = Held(c, k + j)
      BY <1>1, <1>2
    <3>2. row \in (f + h) .. (f + h + (g - h) - 1) /\ g - h \in 0 .. w /\ h = k * s
          /\ l = row - (f + h) /\ rel = row - f
      BY <1>2, <3>1
    <3>3. w \in Nat
      BY <1>1
    <3> HIDE DEF l, rel
    <3>4. row \in Int /\ f + h <= row /\ row <= f + h + (g - h) - 1 /\ g - h <= w
      BY <3>2, <3>3
    <3>5. l \in 0 .. (w - 1) /\ l \in Nat /\ rel \in Nat /\ rel = h + l
      <4>1. l = row - (f + h) /\ rel = row - f
        BY <3>2
      <4> QED BY <3>3, <3>4, <4>1
    <3> QED BY <3>2, <3>5
  <2>2. row \in RowsOf(c)
    BY <1>1, <1>2
  <2>3. row \notin RowsUpto(c, k)
    BY <1>1, <1>2 DEF RowsUpto
  <2>4. RowDistance(query, c, row)
          = quantizedBlock8DistancesAVX2(query, idx.blocks, FirstBlock(c) + rel \div s)[rel % s]
    BY DEF RowDistance, s
  <2> HIDE DEF l, rel
  <2>5. rel \div s = k + l \div s /\ rel % s = l % s
    <3>1. /\ l \div s \in Nat /\ l % s \in 0 .. (s - 1) /\ l = s * (l \div s) + (l % s)
          /\ rel \div s \in Nat /\ rel % s \in 0 .. (s - 1) /\ rel = s * (rel \div s) + (rel % s)
      BY <1>1, <2>1
    <3> DEFINE a == l \div s
               m == l % s
               e == rel \div s
               n == rel % s
    <3>2. a \in Nat /\ m \in 0 .. (s - 1) /\ e \in Nat /\ n \in 0 .. (s - 1)
      BY <3>1
    <3>3. l = s * a + m /\ rel = s * e + n
      BY <3>1
    <3> HIDE DEF a, m, e, n
    <3>4. (k + a) * s = k * s + s * a /\ e * s = s * e /\ k * s \in Nat /\ s * a \in Nat /\ s * e \in Nat
      BY <1>1, <3>2
    <3>5. e * s + n = (k + a) * s + m
      <4>1. PICK u \in Nat, x \in Nat, y \in Nat : u = k * s /\ x = s * a /\ y = s * e
        BY <3>4
      <4>2. l = x + m /\ rel = y + n /\ rel = u + l /\ e * s = y /\ (k + a) * s = u + x
        BY <2>1, <3>3, <3>4, <4>1
      <4>3. y + n = u + x + m
        BY <3>2, <4>1, <4>2
      <4> QED BY <3>2, <4>1, <4>2, <4>3
    <3>6. e = k + a /\ n = m
      <4>1. PICK f \in Nat : f = k + a
        BY <3>2
      <4>2. e * s + n = f * s + m
        BY <3>5, <4>1
      <4>3. e = f /\ n = m
        BY <1>1, <3>2, <4>1, <4>2, DigitsUnique
      <4> QED BY <4>1, <4>3
    <3> QED BY <3>6 DEF a, m, e, n
  <2>6. dist[l] = quantizedBlock8DistancesAVX2(query, idx.blocks, FirstBlock(c) + k + l \div s)[l % s]
    BY <2>1 DEF w, s
  <2>7. FirstBlock(c) + (k + l \div s) = FirstBlock(c) + k + l \div s
    <3>1. l \div s \in Nat
      BY <1>1, <2>1
    <3> QED BY <1>1, <3>1
  <2>8. RowDistance(query, c, row) = SquaredDistance(query, vectors[rows[row]])
    BY <2>2, RowDistanceIs
  <2>9. dist[l] = SquaredDistance(query, vectors[rows[row]])
    BY <2>4, <2>5, <2>6, <2>7, <2>8
  <2>10. row \notin R
    BY <2>2
  <2> QED BY <2>2, <2>3, <2>9, <2>10 DEF l
<1>5. R \union RowsUpto(c, k + j) = (R \union RowsUpto(c, k)) \union (first .. (first + lanes - 1))
  <2>1. PICK f \in Nat, h \in Nat, g \in Nat :
          f = FirstRow(c) /\ h = Held(c, k) /\ g = Held(c, k + j)
    BY <1>1, <1>2
  <2>2. h <= g
    <3>1. g - h \in 0 .. w
      BY <1>2, <2>1
    <3> QED BY <1>1, <3>1
  <2>3. f .. (f + g - 1) = (f .. (f + h - 1)) \union ((f + h) .. (f + h + (g - h) - 1))
    <3>1. f + h + (g - h) - 1 = f + g - 1
      OBVIOUS
    <3>2. \A row \in Int : row \in f .. (f + g - 1) <=>
                             row \in f .. (f + h - 1) \/ row \in (f + h) .. (f + g - 1)
      BY <2>2
    <3> QED BY <3>1, <3>2
  <2> QED BY <2>1, <2>3 DEF RowsUpto
<1> DEFINE block == FirstBlock(c) + k
           Q == R \union RowsUpto(c, k)
<1>6. /\ first \in Int /\ lanes \in Nat /\ first = RowBase(c, block)
      /\ lanes = LanesOf(c, block, Cardinality(DOMAIN dist)) /\ KeepsRows(b, Q)
      /\ \A row \in first .. (first + lanes - 1) :
           /\ row \in Ids(input) /\ row \notin Q
           /\ dist[row - first] = SquaredDistance(query, vectors[rows[row]])
  <2>1. first \in Int /\ lanes \in Nat
    <3>1. \A n \in 0 .. w : n \in Nat
      OBVIOUS
    <3> QED BY <1>1, <1>2, <3>1
  <2>2. first = RowBase(c, block) /\ lanes = LanesOf(c, block, Cardinality(DOMAIN dist))
    <3> HIDE DEF first, lanes
    <3> QED BY <1>2, <1>3
  <2>3. \A row \in first .. (first + lanes - 1) :
          /\ row \in Ids(input) /\ row \notin Q
          /\ dist[row - first] = SquaredDistance(query, vectors[rows[row]])
    <3> HIDE DEF first, lanes
    <3> QED BY <1>1, <1>4
  <2> QED BY <2>1, <2>2, <2>3
<1> HIDE DEF first, lanes, block, Q
<1>7. KeepsRows(ScanLanes(b, c, block, dist), Q \union (first .. (first + lanes - 1)))
  BY <1>6, LanesScanned
<1> QED BY <1>5, <1>7 DEF Q, block

LEMMA WideScanned ==
  ASSUME Ready, query \in Queries, NEW c \in 0 .. (clusters - 1),
         NEW R, R \intersect RowsOf(c) = {}, NEW k \in Nat, k + 4 <= Blocks(c),
         NEW b, KeepsRows(b, R \union RowsUpto(c, k)), NEW block, block = FirstBlock(c) + k
  PROVE  KeepsRows(ScanLanes(b, c, block, quantizedBlock32DistancesAVX2(query, idx.blocks, block)),
                   R \union RowsUpto(c, k + 4))
<1> DEFINE dist == quantizedBlock32DistancesAVX2(query, idx.blocks, block)
<1>1. PICK four \in Nat \ {0} : four = 4
  OBVIOUS
<1>2. /\ DOMAIN dist = 0 .. (four * blockSize - 1)
      /\ \A l \in 0 .. (four * blockSize - 1) :
           dist[l] = quantizedBlock8DistancesAVX2(query, idx.blocks, FirstBlock(c) + k + l \div blockSize)
                       [l % blockSize]
  BY <1>1 DEF quantizedBlock32DistancesAVX2
<1> HIDE DEF dist
<1>3. KeepsRows(ScanLanes(b, c, FirstBlock(c) + k, dist), R \union RowsUpto(c, k + four))
  BY <1>1, <1>2, GroupScanned
<1> QED BY <1>1, <1>3 DEF dist

LEMMA SingleScanned ==
  ASSUME Ready, query \in Queries, NEW c \in 0 .. (clusters - 1),
         NEW R, R \intersect RowsOf(c) = {}, NEW k \in Nat, k + 1 <= Blocks(c),
         NEW b, KeepsRows(b, R \union RowsUpto(c, k)), NEW block, block = FirstBlock(c) + k
  PROVE  KeepsRows(ScanLanes(b, c, block, quantizedBlock8DistancesAVX2(query, idx.blocks, block)),
                   R \union RowsUpto(c, k + 1))
<1> DEFINE dist == quantizedBlock8DistancesAVX2(query, idx.blocks, block)
<1>1. PICK one \in Nat \ {0} : one = 1
  OBVIOUS
<1>2. blockSize \in Nat \ {0} /\ block \in Int /\ one * blockSize = blockSize
  BY <1>1, ClusterRows, SizesAssumption
<1>3. DOMAIN dist = 0 .. (blockSize - 1)
  BY DEF quantizedBlock8DistancesAVX2
<1>4. ASSUME NEW l \in 0 .. (blockSize - 1)
      PROVE  dist[l] = quantizedBlock8DistancesAVX2(query, idx.blocks, block + l \div blockSize)
                         [l % blockSize]
  <2>1. l \div blockSize = 0 /\ l % blockSize = l
    <3>1. 0 * blockSize = 0 /\ 0 * blockSize + l = l
      BY <1>2
    <3>2. l \div blockSize \in Nat /\ l % blockSize \in 0 .. (blockSize - 1)
          /\ l = blockSize * (l \div blockSize) + (l % blockSize)
      BY <1>2
    <3>3. PICK a \in Nat, m \in 0 .. (blockSize - 1), zero \in Int :
            a = l \div blockSize /\ m = l % blockSize /\ zero = 0
      BY <3>2
    <3>4. a * blockSize + m = zero * blockSize + l
      <4>1. l = blockSize * a + m /\ zero * blockSize = 0
        BY <1>2, <3>2, <3>3
      <4>2. blockSize * a = a * blockSize
        BY <1>2, <3>3
      <4> QED BY <1>2, <3>3, <4>1, <4>2
    <3>5. a = zero /\ m = l
      BY <1>2, <3>3, <3>4, DigitsUnique
    <3> QED BY <3>3, <3>5
  <2>2. block + l \div blockSize = block
    BY <1>2, <2>1
  <2> HIDE DEF dist
  <2> QED BY <2>1, <2>2 DEF dist
<1> HIDE DEF dist
<1>5. /\ DOMAIN dist = 0 .. (one * blockSize - 1)
      /\ \A l \in 0 .. (one * blockSize - 1) :
           dist[l] = quantizedBlock8DistancesAVX2(query, idx.blocks, FirstBlock(c) + k + l \div blockSize)
                       [l % blockSize]
  BY <1>2, <1>3, <1>4
<1>6. KeepsRows(ScanLanes(b, c, FirstBlock(c) + k, dist), R \union RowsUpto(c, k + one))
  BY <1>1, <1>5, GroupScanned
<1> QED BY <1>1, <1>6 DEF dist

(***************************************************************************)
(* scanBlocksAVX2 has offered every row of the cluster, and no other.      *)
(***************************************************************************)
LEMMA AVX2Scanned ==
  ASSUME Ready, query \in Queries, NEW c \in 0 .. (clusters - 1),
         NEW R, R \intersect RowsOf(c) = {}, NEW b, KeepsRows(b, R)
  PROVE  KeepsRows(scanBlocksAVX2(b, c), R \union RowsOf(c))
<1> DEFINE groups == Blocks(c) \div 4
           left == Blocks(c) % 4
           Wide(g) == g = [n \in 0 .. groups |->
             IF n = 0 THEN b
             ELSE LET block == FirstBlock(c) + 4 * (n - 1)
                  IN  ScanLanes(g[n - 1], c, block,
                                quantizedBlock32DistancesAVX2(query, idx.blocks, block))]
           wide == CHOOSE g : Wide(g)
           Single(g) == g = [n \in 0 .. left |->
             IF n = 0 THEN wide[groups]
             ELSE LET block == FirstBlock(c) + 4 * groups + n - 1
                  IN  ScanLanes(g[n - 1], c, block,
                                quantizedBlock8DistancesAVX2(query, idx.blocks, block))]
           single == CHOOSE g : Single(g)
           V == [n \in 0 .. groups |-> {v \in Kepts : KeepsRows(v, R \union RowsUpto(c, 4 * n))}]
           U == [n \in 0 .. left |->
                   {v \in Kepts : KeepsRows(v, R \union RowsUpto(c, 4 * groups + n))}]
<1>1. scanBlocksAVX2(b, c) = single[left]
  BY DEF scanBlocksAVX2
<1>2. /\ FirstBlock(c) \in Nat /\ Blocks(c) \in Nat /\ FirstRow(c) \in Nat /\ Size(c) \in Nat
      /\ Held(c, 0) = 0 /\ Held(c, Blocks(c)) = Size(c)
      /\ RowsOf(c) = FirstRow(c) .. (FirstRow(c) + Size(c) - 1)
  BY ClusterRows
<1>3. groups \in Nat /\ left \in 0 .. 3 /\ Blocks(c) = 4 * groups + left
  <2>1. PICK m \in Nat : m = Blocks(c)
    BY <1>2
  <2>2. m \div 4 \in Nat /\ m % 4 \in 0 .. 3 /\ m = 4 * (m \div 4) + (m % 4)
    OBVIOUS
  <2> QED BY <2>1, <2>2
<1>4. RowsUpto(c, Blocks(c)) = RowsOf(c) /\ RowsUpto(c, 0) = {}
  BY <1>2 DEF RowsUpto
<1>5. \A v, S : KeepsRows(v, S) => v \in Kepts
  BY DEF KeepsRows, Keeps
<1> HIDE DEF groups, left
<1>6. ASSUME NEW n \in 1 .. groups, NEW v \in V[n - 1]
      PROVE  LET block == FirstBlock(c) + 4 * (n - 1)
             IN  ScanLanes(v, c, block, quantizedBlock32DistancesAVX2(query, idx.blocks, block))
                   \in V[n]
  <2> DEFINE k == 4 * (n - 1)
             block == FirstBlock(c) + k
  <2>1. n - 1 \in 0 .. groups /\ n \in 0 .. groups /\ k \in Nat /\ k + 4 = 4 * n /\ k + 4 <= Blocks(c)
    BY <1>2, <1>3
  <2>2. KeepsRows(v, R \union RowsUpto(c, k))
    BY <2>1
  <2> HIDE DEF k, block
  <2>3. KeepsRows(ScanLanes(v, c, block, quantizedBlock32DistancesAVX2(query, idx.blocks, block)),
                  R \union RowsUpto(c, k + 4))
    BY <2>1, <2>2, WideScanned DEF block
  <2> QED BY <1>5, <2>1, <2>3 DEF block, k
<1>7. ASSUME NEW n \in 1 .. left, NEW v \in U[n - 1]
      PROVE  LET block == FirstBlock(c) + 4 * groups + n - 1
             IN  ScanLanes(v, c, block, quantizedBlock8DistancesAVX2(query, idx.blocks, block))
                   \in U[n]
  <2> DEFINE k == 4 * groups + (n - 1)
             block == FirstBlock(c) + 4 * groups + n - 1
  <2>1. /\ n - 1 \in 0 .. left /\ n \in 0 .. left /\ k \in Nat /\ k + 1 = 4 * groups + n
        /\ k + 1 <= Blocks(c) /\ block = FirstBlock(c) + k
    BY <1>2, <1>3
  <2>2. KeepsRows(v, R \union RowsUpto(c, k))
    BY <2>1
  <2> HIDE DEF k, block
  <2>3. KeepsRows(ScanLanes(v, c, block, quantizedBlock8DistancesAVX2(query, idx.blocks, block)),
                  R \union RowsUpto(c, k + 1))
    BY <2>1, <2>2, SingleScanned
  <2> QED BY <1>5, <2>1, <2>3 DEF block, k
<1>8. b \in V[0]
  <2>1. 0 \in 0 .. groups /\ 4 * 0 = 0 /\ R \union RowsUpto(c, 0) = R
    BY <1>3, <1>4
  <2> QED BY <1>5, <2>1
<1>9. Wide(wide)
  <2> DEFINE step == [n \in 1 .. groups |-> [v \in Kepts |->
                        LET block == FirstBlock(c) + 4 * (n - 1)
                        IN  ScanLanes(v, c, block,
                                      quantizedBlock32DistancesAVX2(query, idx.blocks, block))]]
  <2>1. \A n \in 0 .. groups : V[n] \subseteq Kepts
    OBVIOUS
  <2>2. Rounds(step, V, groups)
    <3> SUFFICES ASSUME NEW n \in 1 .. groups, NEW v \in V[n - 1] PROVE step[n][v] \in V[n]
      BY DEF Rounds
    <3>1. n - 1 \in 0 .. groups
      BY <1>3
    <3>2. v \in Kepts
      BY <2>1, <3>1
    <3> QED BY <1>6, <3>2
  <2> HIDE DEF V, step
  <2>3. PICK g : /\ g = [n \in 0 .. groups |-> IF n = 0 THEN b ELSE step[n][g[n - 1]]]
                 /\ \A n \in 0 .. groups : g[n] \in V[n]
    BY <1>3, <1>8, <2>2, RoundsExist
  <2>4. ASSUME NEW n \in 0 .. groups, n # 0
        PROVE  step[n][g[n - 1]]
                 = LET block == FirstBlock(c) + 4 * (n - 1)
                   IN  ScanLanes(g[n - 1], c, block,
                                 quantizedBlock32DistancesAVX2(query, idx.blocks, block))
    <3>1. n \in 1 .. groups /\ n - 1 \in 0 .. groups
      BY <1>3, <2>4
    <3>2. g[n - 1] \in Kepts
      BY <2>1, <2>3, <3>1
    <3> QED BY <3>1, <3>2 DEF step
  <2>5. Wide(g)
    BY <2>3, <2>4
  <2> HIDE DEF Wide
  <2> QED BY <2>5
<1>10. wide[groups] \in V[groups]
  <2>1. wide[0] = b
    <3>1. 0 \in 0 .. groups
      BY <1>3
    <3> HIDE DEF wide
    <3> QED BY <1>9, <3>1
  <2>2. ASSUME NEW n \in 1 .. groups, wide[n - 1] \in V[n - 1] PROVE wide[n] \in V[n]
    <3>1. n \in 0 .. groups /\ n # 0
      BY <1>3
    <3>2. wide[n] = LET block == FirstBlock(c) + 4 * (n - 1)
                    IN  ScanLanes(wide[n - 1], c, block,
                                  quantizedBlock32DistancesAVX2(query, idx.blocks, block))
      BY <1>9, <3>1
    <3> HIDE DEF V, wide
    <3> QED BY <1>6, <2>2, <3>2
  <2> HIDE DEF V, wide
  <2>3. \A n \in 0 .. groups : wide[n] \in V[n]
    BY <1>3, <1>8, <2>1, <2>2, RoundsKeep
  <2> QED BY <1>3, <2>3
<1>11. wide[groups] \in U[0]
  <2>1. groups \in 0 .. groups /\ 0 \in 0 .. left /\ 4 * groups + 0 = 4 * groups
    BY <1>3
  <2> HIDE DEF wide
  <2> QED BY <1>10, <2>1
<1> HIDE DEF wide, Wide
<1>12. Single(single)
  <2> DEFINE step == [n \in 1 .. left |-> [v \in Kepts |->
                        LET block == FirstBlock(c) + 4 * groups + n - 1
                        IN  ScanLanes(v, c, block,
                                      quantizedBlock8DistancesAVX2(query, idx.blocks, block))]]
  <2>1. \A n \in 0 .. left : U[n] \subseteq Kepts
    OBVIOUS
  <2>2. Rounds(step, U, left)
    <3> SUFFICES ASSUME NEW n \in 1 .. left, NEW v \in U[n - 1] PROVE step[n][v] \in U[n]
      BY DEF Rounds
    <3>1. n - 1 \in 0 .. left
      BY <1>3
    <3>2. v \in Kepts
      BY <2>1, <3>1
    <3> QED BY <1>7, <3>2
  <2> HIDE DEF U, step
  <2>3. PICK g : /\ g = [n \in 0 .. left |-> IF n = 0 THEN wide[groups] ELSE step[n][g[n - 1]]]
                 /\ \A n \in 0 .. left : g[n] \in U[n]
    <3>1. left \in Nat
      BY <1>3
    <3> QED BY <1>11, <2>2, <3>1, RoundsExist
  <2>4. ASSUME NEW n \in 0 .. left, n # 0
        PROVE  step[n][g[n - 1]]
                 = LET block == FirstBlock(c) + 4 * groups + n - 1
                   IN  ScanLanes(g[n - 1], c, block,
                                 quantizedBlock8DistancesAVX2(query, idx.blocks, block))
    <3>1. n \in 1 .. left /\ n - 1 \in 0 .. left
      BY <1>3, <2>4
    <3>2. g[n - 1] \in Kepts
      BY <2>1, <2>3, <3>1
    <3> QED BY <3>1, <3>2 DEF step
  <2>5. Single(g)
    BY <2>3, <2>4
  <2> HIDE DEF Single
  <2> QED BY <2>5
<1>13. single[left] \in U[left]
  <2>1. single[0] = wide[groups]
    <3>1. 0 \in 0 .. left
      BY <1>3
    <3> HIDE DEF single
    <3> QED BY <1>12, <3>1
  <2>2. ASSUME NEW n \in 1 .. left, single[n - 1] \in U[n - 1] PROVE single[n] \in U[n]
    <3>1. n \in 0 .. left /\ n # 0
      BY <1>3
    <3>2. single[n] = LET block == FirstBlock(c) + 4 * groups + n - 1
                      IN  ScanLanes(single[n - 1], c, block,
                                    quantizedBlock8DistancesAVX2(query, idx.blocks, block))
      BY <1>12, <3>1
    <3> HIDE DEF U, single
    <3> QED BY <1>7, <2>2, <3>2
  <2> HIDE DEF U, single
  <2>3. left \in Nat /\ single[0] \in U[0]
    BY <1>3, <1>11, <2>1
  <2>4. \A n \in 0 .. left : single[n] \in U[n]
    BY <2>2, <2>3, RoundsKeep
  <2> QED BY <1>3, <2>4
<1>14. left \in 0 .. left /\ 4 * groups + left = Blocks(c)
  BY <1>3
<1> HIDE DEF single
<1>15. KeepsRows(single[left], R \union RowsUpto(c, Blocks(c)))
  BY <1>13, <1>14
<1> QED BY <1>1, <1>4, <1>15

-----------------------------------------------------------------------------
(***************************************************************************)
(* Sums that stop early.                                                   *)
(***************************************************************************)
LEMMA SumsGrow ==
  ASSUME NEW m \in Nat \ {0}, NEW s, NEW f, SumsOf(s, f, 0, m - 1),
         \A i \in 0 .. (m - 1) : f[i] \in Nat,
         NEW p, p = [n \in 1 .. m |-> s[n - 1]]
  PROVE  P!PartialSum(p) /\ Len(p) = m
<1>1. /\ s \in [(0 - 1) .. (m - 1) -> Int] /\ s[-1] = 0
      /\ \A i \in 0 .. (m - 1) : s[i] = s[i - 1] + f[i]
  <2>1. 0 - 1 = -1
    OBVIOUS
  <2> QED BY <2>1 DEF SumsOf
<1> DEFINE T == {i \in 0 .. (m - 1) : s[i] \in Nat /\ \A k \in 0 .. i : s[k] <= s[i]}
<1>2. PICK zero \in Int : zero = 0
  OBVIOUS
<1>3. zero \in T
  <2>1. 0 \in 0 .. (m - 1) /\ 0 - 1 = -1
    OBVIOUS
  <2>2. s[0] = s[-1] + f[0] /\ f[0] \in Nat
    BY <1>1, <2>1
  <2>3. s[0] \in Nat
    BY <1>1, <2>2
  <2>4. \A k \in 0 .. 0 : s[k] <= s[0]
    BY <2>3
  <2> QED BY <1>2, <2>1, <2>3, <2>4
<1>4. ASSUME NEW i \in zero .. ((m - 1) - 1), i \in T PROVE i + 1 \in T
  <2>1. i + 1 \in 0 .. (m - 1) /\ (i + 1) - 1 = i
    BY <1>2
  <2>2. s[i + 1] = s[i] + f[i + 1] /\ f[i + 1] \in Nat /\ s[i] \in Nat
    BY <1>1, <1>4, <2>1
  <2>3. \A k \in 0 .. (i + 1) : k = i + 1 \/ k \in 0 .. i
    BY <1>2
  <2>4. \A k \in 0 .. i : k \in 0 .. (m - 1) /\ s[k] \in Int
    BY <1>1, <1>2
  <2>5. \A k \in 0 .. (i + 1) : s[k] <= s[i + 1]
    BY <1>4, <2>2, <2>3, <2>4
  <2> QED BY <2>1, <2>2, <2>5
<1>5. 0 .. (m - 1) \subseteq T
  <2> HIDE DEF T
  <2>1. m - 1 \in Int /\ zero <= m - 1
    BY <1>2
  <2>2. PICK last \in Int : last = m - 1
    BY <2>1
  <2>3. zero .. last \subseteq T
    BY <1>3, <1>4, <2>1, <2>2, IntervalInduction
  <2> QED BY <1>2, <2>2, <2>3
<1>6. \A n \in 1 .. m : p[n] = s[n - 1] /\ n - 1 \in 0 .. (m - 1)
  OBVIOUS
<1>7. \A n \in 1 .. m : p[n] \in Nat
  BY <1>5, <1>6
<1>8. p \in Seq(Nat) /\ Len(p) = m
  BY <1>7
<1>9. ASSUME NEW k \in 1 .. m, NEW n \in 1 .. m, k <= n PROVE p[k] <= p[n]
  <2>1. k - 1 \in 0 .. (n - 1) /\ n - 1 \in T
    BY <1>5, <1>6, <1>9
  <2> QED BY <1>6, <2>1
<1> QED BY <1>8, <1>9 DEF P!PartialSum

LEMMA FirstIs ==
  ASSUME NEW S, S \subseteq Nat, S # {}
  PROVE  P!First(S) \in S
<1>1. PICK n \in S : \A m \in S : n <= m
  BY LeastNatural
<1> QED BY <1>1 DEF P!First

LEMMA bboxDistAbove ==
  ASSUME NEW s, P!PartialSum(s), NEW cutoff \in Nat, P!bboxDist(s, cutoff) > cutoff
  PROVE  P!Total(s) > cutoff
<1> DEFINE over == {n \in 1 .. Len(s) : s[n] > cutoff}
<1>1. s \in Seq(Nat) /\ Len(s) \in Nat \ {0} /\ \A m, n \in 1 .. Len(s) : m <= n => s[m] <= s[n]
  BY DEF P!PartialSum
<1>2. CASE over = {}
  BY <1>2 DEF P!bboxDist
<1>3. CASE over # {}
  <2>1. over \subseteq Nat
    OBVIOUS
  <2>2. P!First(over) \in over
    <3> HIDE DEF over
    <3> QED BY <1>3, <2>1, FirstIs
  <2>3. Len(s) \in 1 .. Len(s) /\ s[P!First(over)] <= s[Len(s)] /\ s[P!First(over)] > cutoff
    BY <1>1, <2>2
  <2>4. s[P!First(over)] \in Nat /\ s[Len(s)] \in Nat
    BY <1>1, <2>2, <2>3
  <2> HIDE DEF over
  <2> QED BY <2>3, <2>4 DEF P!Total
<1> QED BY <1>2, <1>3

LEMMA blockLaneDistIs ==
  ASSUME NEW s, P!PartialSum(s), NEW cutoff \in Nat
  PROVE  /\ P!blockLaneDist(s, cutoff) \in Nat
         /\ P!Total(s) < cutoff => P!blockLaneDist(s, cutoff) = P!Total(s)
         /\ P!Total(s) >= cutoff => /\ P!blockLaneDist(s, cutoff) >= cutoff
                                    /\ P!blockLaneDist(s, cutoff) <= P!Total(s)
<1> DEFINE reached == {n \in 1 .. Len(s) : s[n] >= cutoff}
<1>1. s \in Seq(Nat) /\ Len(s) \in Nat \ {0} /\ \A m, n \in 1 .. Len(s) : m <= n => s[m] <= s[n]
  BY DEF P!PartialSum
<1>2. Len(s) \in 1 .. Len(s) /\ P!Total(s) = s[Len(s)] /\ s[Len(s)] \in Nat
  BY <1>1 DEF P!Total
<1>3. CASE reached = {}
  <2>1. P!blockLaneDist(s, cutoff) = P!Total(s)
    BY <1>3 DEF P!blockLaneDist
  <2>2. ~ (s[Len(s)] >= cutoff)
    BY <1>2, <1>3
  <2> QED BY <1>2, <2>1, <2>2
<1>4. CASE reached # {}
  <2>1. reached \subseteq Nat
    OBVIOUS
  <2>2. P!First(reached) \in reached
    <3> HIDE DEF reached
    <3> QED BY <1>4, <2>1, FirstIs
  <2>3. P!blockLaneDist(s, cutoff) = s[P!First(reached)]
    BY <1>4 DEF P!blockLaneDist
  <2>4. /\ s[P!First(reached)] <= s[Len(s)] /\ s[P!First(reached)] >= cutoff
        /\ s[P!First(reached)] \in Nat
    BY <1>1, <1>2, <2>2
  <2> HIDE DEF reached
  <2> QED BY <1>2, <2>3, <2>4
<1> QED BY <1>3, <1>4

(***************************************************************************)
(* A cluster that is skipped for its box has no row that would be kept.    *)
(***************************************************************************)
LEMMA SkippedFar ==
  ASSUME Ready, query \in Queries, NEW c \in 0 .. (clusters - 1), NEW b \in Kepts,
         P!bboxDist(BoxSums(query, c), b[K].d) > b[K].d, NEW row \in RowsOf(c)
  PROVE  EntryAt(row).d > b[K].d /\ ~ Closer(EntryAt(row), b[K])
<1>1. Dim \in Nat \ {0} /\ Dimensions = 0 .. (Dim - 1) /\ MaxProduct \in Nat
  BY SizesAssumption, RoomAssumption DEF Dimensions
<1>2. PICK s : /\ SumsOf(s, BoxSquares(query, c), 0, Dim - 1)
               /\ BoxSums(query, c) = [n \in 1 .. Dim |-> s[n - 1]]
  BY BoxSumsAre
<1>3. \A d \in 0 .. (Dim - 1) : BoxSquares(query, c)[d] \in Nat
  BY <1>1, BoxSquaresAre
<1>4. P!PartialSum(BoxSums(query, c))
  BY <1>1, <1>2, <1>3, SumsGrow
<1>5. b[K].d \in Nat
  BY KAssumption DEF Kepts, Entry, Positions
<1>6. P!Total(BoxSums(query, c)) > b[K].d
  BY <1>4, <1>5, bboxDistAbove
<1>7. P!Total(BoxSums(query, c)) \in Nat /\ P!Total(BoxSums(query, c)) <= RowDistance(query, c, row)
  BY BoxDistanceIs
<1>8. RowDistance(query, c, row) = EntryAt(row).d /\ RowDistance(query, c, row) \in Int
  BY RowDistanceIs DEF EntryAt
<1>9. EntryAt(row).d > b[K].d
  BY <1>5, <1>6, <1>7, <1>8
<1> QED BY <1>5, <1>8, <1>9 DEF Closer

LEMMA AVX2ClusterScanned ==
  ASSUME Ready, query \in Queries, kernel = "avx2", NEW c \in 0 .. (clusters - 1),
         NEW R, R \intersect RowsOf(c) = {}, NEW b, KeepsRows(b, R)
  PROVE  KeepsRows(scanCluster(b, c), R \union RowsOf(c))
<1>1. CASE P!bboxDist(BoxSums(query, c), b[K].d) > b[K].d
  <2>1. scanCluster(b, c) = b
    BY <1>1 DEF scanCluster
  <2>2. b \in Kepts
    BY DEF KeepsRows, Keeps
  <2>3. \A row \in RowsOf(c) : ~ Closer(EntryAt(row), b[K])
    BY <1>1, <2>2, SkippedFar
  <2>4. \A e \in EntriesAt(RowsOf(c)) : ~ Closer(e, b[K])
    BY <2>3 DEF EntriesAt
  <2>5. Keeps(b, EntriesAt(R) \union EntriesAt(RowsOf(c)))
    BY <2>4, KeepsSkipped DEF KeepsRows
  <2>6. EntriesAt(R \union RowsOf(c)) = EntriesAt(R) \union EntriesAt(RowsOf(c))
    BY DEF EntriesAt
  <2>7. R \union RowsOf(c) \subseteq Ids(input)
    BY ClusterRows DEF KeepsRows
  <2> QED BY <2>1, <2>5, <2>6, <2>7 DEF KeepsRows
<1>2. CASE ~ (P!bboxDist(BoxSums(query, c), b[K].d) > b[K].d)
  <2>1. scanCluster(b, c) = scanBlocksAVX2(b, c)
    BY <1>2 DEF scanCluster
  <2> QED BY <2>1, AVX2Scanned
<1> QED BY <1>1, <1>2

-----------------------------------------------------------------------------
(***************************************************************************)
(* The candidates are the entries of the rows of the settled clusters.     *)
(***************************************************************************)
Settled == UNION {RowsOf(c) : c \in settled}

LEMMA MembersAre ==
  ASSUME Ready, NEW c \in 0 .. (clusters - 1)
  PROVE  Members(c) = {rows[row] : row \in RowsOf(c)}
<1>1. /\ IndexInv /\ stage = "done" /\ input \in Inputs /\ IdsOK /\ RangeOK(ranges[c])
      /\ ClusterMade(c) /\ RowsOf(c) = ranges[c].start .. (ranges[c].end - 1)
  BY ServedIndex, RowsOfIs DEF Ready
<1> DEFINE r == ranges[c]
           n == r.end - r.start
           place(k) == sortClusterByCentroidDist(r, k)
           W == Window(r.start, r.end)
<1>2. Members(c) = W
  BY DEF Members, Window
<1>3. \A row \in RowsOf(c) : rows[row] = place(row - r.start)
  BY <1>1 DEF ClusterMade
<1>4. r.start \in Nat /\ r.end \in Nat /\ RowsOf(c) = r.start .. (r.end - 1)
  BY <1>1 DEF RangeOK
<1>5. /\ \A k \in 0 .. (n - 1) : place(k) \in W
      /\ \A x \in W : \E k \in 0 .. (n - 1) : place(k) = x
  <2> HIDE DEF r
  <2>1. RangeOK(r)
    BY <1>1 DEF r
  <2> QED BY <1>1, <2>1, ClusterOrder
<1> HIDE DEF place, W, r
<1>6. ASSUME NEW row \in RowsOf(c) PROVE rows[row] \in W
  <2>1. row - r.start \in 0 .. (n - 1)
    BY <1>4
  <2> QED BY <1>3, <1>5, <2>1
<1>7. ASSUME NEW x \in W PROVE \E row \in RowsOf(c) : rows[row] = x
  <2>1. PICK k \in 0 .. (n - 1) : place(k) = x
    BY <1>5
  <2>2. r.start + k \in RowsOf(c) /\ (r.start + k) - r.start = k
    BY <1>4
  <2>3. rows[r.start + k] = place((r.start + k) - r.start)
    BY <1>3, <2>2
  <2>4. rows[r.start + k] = x
    BY <2>1, <2>2, <2>3
  <2> QED BY <2>2, <2>4
<1> QED BY <1>2, <1>6, <1>7

LEMMA CandidatesAre ==
  ASSUME Ready, settled \subseteq 0 .. (clusters - 1)
  PROVE  Candidates = EntriesAt(Settled) /\ Settled \subseteq Ids(input)
<1>1. \A c \in settled : Members(c) = {rows[row] : row \in RowsOf(c)} /\ RowsOf(c) \subseteq Ids(input)
  BY MembersAre, ClusterRows
<1>2. UNION {Members(c) : c \in settled} = {rows[row] : row \in Settled}
  BY <1>1 DEF Settled
<1>3. Settled \subseteq Ids(input)
  BY <1>1 DEF Settled
<1>4. Candidates = {[d |-> SquaredDistance(query, vectors[x]), id |-> x, fraud |-> input.labels[x]]
                    : x \in {rows[row] : row \in Settled}}
  BY <1>2 DEF Candidates
<1> QED BY <1>3, <1>4 DEF EntriesAt, EntryAt

LEMMA EntriesDistinct ==
  ASSUME Ready, query \in Queries, NEW R, R \subseteq Ids(input)
  PROVE  Distinct(EntriesAt(R))
<1>1. IsFiniteSet(EntriesAt(R))
  <2> DEFINE f == [row \in R |-> EntryAt(row)]
  <2>1. f \in Surjection(R, EntriesAt(R))
    BY DEF Surjection, EntriesAt
  <2>2. IsFiniteSet(Ids(input))
    <3>1. PICK zero \in Int, last \in Int : zero = 0 /\ last = input.nVectors - 1
      <4>1. input.nVectors \in Nat
        BY ServedIndex, InputIs
      <4> QED BY <4>1
    <3>2. IsFiniteSet(zero .. last)
      BY FS_Interval
    <3> QED BY <3>1, <3>2 DEF Ids
  <2>3. IsFiniteSet(R)
    BY <2>2, FS_Subset
  <2> HIDE DEF f
  <2> QED BY <2>1, <2>3, FS_Surjection
<1>2. \A e \in EntriesAt(R) : e \in Entry /\ e.d < MaxInt64
  <2> SUFFICES ASSUME NEW row \in R PROVE EntryAt(row) \in Entry /\ EntryAt(row).d < MaxInt64
    BY DEF EntriesAt
  <2>1. EntryAt(row) \in Entry /\ EntryAt(row).d \in 0 .. (MaxInt64 - 1)
    BY EntryAtIs
  <2> QED BY <2>1, SentinelAssumption
<1>3. \A e, f \in EntriesAt(R) : e.id = f.id => e = f
  BY DEF EntriesAt, EntryAt
<1> QED BY <1>1, <1>2, <1>3 DEF Distinct

LEMMA NearestAre ==
  ASSUME Ready, settled \subseteq 0 .. (clusters - 1)
  PROVE  Nearest = NearestOf(EntriesAt(Settled))
<1>1. Candidates = EntriesAt(Settled)
  BY CandidatesAre
<1>2. Nearest = NearestOf(Candidates)
  BY DEF Nearest, NearestOf, Positions, Preceding
<1> QED BY <1>1, <1>2

-----------------------------------------------------------------------------
(***************************************************************************)
(* Without AVX2: what the neighbours are when a distance may have stopped  *)
(* at the last of them.  Nearer entries are exact, and there are as many   *)
(* as positions that are not farther than the last.                        *)
(***************************************************************************)
Within(C, d) == {e \in C : e.d <= d}

KeepsDistances(b, C) ==
  /\ b \in Kepts /\ KeptSorted(b) /\ b[K].d <= MaxInt64
  /\ \A n \in Positions : b[n].d < b[K].d => b[n] \in C
  /\ \A m, n \in Positions : m # n /\ b[m].d < b[K].d => b[m] # b[n]
  /\ \A e \in C : e.d < b[K].d => \E n \in Positions : b[n] = e
  /\ b[K].d = MaxInt64 \/ K <= Cardinality(Within(C, b[K].d))

LEMMA KeptInOrder ==
  ASSUME NEW b \in Kepts, KeptSorted(b)
  PROVE  \A m, n \in Positions : b[m].d \in Nat /\ (m <= n => b[m].d <= b[n].d)
BY DEF Kepts, Entry, KeptSorted, Closer, Positions

LEMMA WithinGrows ==
  ASSUME NEW C, IsFiniteSet(C), NEW D, C \subseteq D, IsFiniteSet(D), NEW d,
         K <= Cardinality(Within(C, d))
  PROVE  K <= Cardinality(Within(D, d))
<1>1. Within(C, d) \subseteq Within(D, d) /\ Within(D, d) \subseteq D /\ Within(C, d) \subseteq C
  BY DEF Within
<1>2. IsFiniteSet(Within(D, d)) /\ IsFiniteSet(Within(C, d))
  BY <1>1, FS_Subset
<1>3. /\ Cardinality(Within(C, d)) <= Cardinality(Within(D, d))
      /\ Cardinality(Within(C, d)) \in Nat /\ Cardinality(Within(D, d)) \in Nat
  BY <1>1, <1>2, FS_Subset, FS_CardinalityType
<1> QED BY <1>3, KAssumption

LEMMA DistancesNone == KeepsDistances(newSearchState, {})
<1>1. /\ newSearchState \in Kepts /\ \A n \in Positions : newSearchState[n] = EmptySlot
      /\ K \in Positions
  BY EmptySlotType, KAssumption DEF newSearchState, Positions
<1>2. KeptSorted(newSearchState)
  BY <1>1, EmptySlotType, CloserIsOrder DEF KeptSorted
<1>3. EmptySlot.d = MaxInt64 /\ MaxInt64 \in Nat
  BY SentinelAssumption DEF EmptySlot
<1> QED BY <1>1, <1>2, <1>3 DEF KeepsDistances

(***************************************************************************)
(* Rows as far as the last neighbour, or farther, need not be offered.     *)
(***************************************************************************)
LEMMA DistancesSkipped ==
  ASSUME NEW b, NEW C, KeepsDistances(b, C), IsFiniteSet(C),
         NEW D, IsFiniteSet(D), C \subseteq D, \A e \in D : e \in C \/ ~ (e.d < b[K].d)
  PROVE  KeepsDistances(b, D)
<1>1. b[K].d = MaxInt64 \/ K <= Cardinality(Within(D, b[K].d))
  BY WithinGrows DEF KeepsDistances
<1> QED BY <1>1 DEF KeepsDistances

(***************************************************************************)
(* A row that stopped at the last neighbour takes the place of one at the  *)
(* same distance.                                                          *)
(***************************************************************************)
LEMMA DistancesStopped ==
  ASSUME NEW b, NEW C, KeepsDistances(b, C), NEW e \in Entry, e.d = b[K].d, Closer(e, b[K])
  PROVE  KeepsDistances(Offer(b, e), C)
<1>1. /\ b \in Kepts /\ KeptSorted(b) /\ K \in Positions /\ K \in Nat \ {0} /\ Positions = 1 .. K
      /\ \A m, n \in Positions : b[m].d \in Nat /\ (m <= n => b[m].d <= b[n].d)
  BY KAssumption, KeptInOrder DEF KeepsDistances, Positions
<1> DEFINE o == Offer(b, e)
           d == b[K].d
<1>2. PICK p \in Positions :
        /\ Closer(e, b[p])
        /\ \A j \in 1 .. (p - 1) : ~ Closer(e, b[j])
        /\ o = [i \in Positions |-> IF i < p THEN b[i]
                                    ELSE IF i = p THEN e
                                    ELSE b[i - 1]]
  BY <1>1, InsertAt DEF Offer
<1>3. o \in Kepts /\ KeptSorted(o)
  BY <1>1, OfferFacts
<1>4. b[p].d = d
  BY <1>1, <1>2 DEF Closer
<1>5. \A n \in Positions : n >= p => b[n].d = d
  BY <1>1, <1>4
<1> HIDE DEF o
<1>6. /\ \A n \in Positions : n < p => o[n] = b[n]
      /\ o[p] = e
      /\ \A n \in Positions : n > p => o[n] = b[n - 1] /\ n - 1 \in Positions /\ n - 1 >= p
  <2>1. p \in Int /\ \A n \in Positions : n \in Int /\ (n > p => n - 1 \in Positions /\ n - 1 >= p)
    BY <1>1
  <2>2. \A n \in Positions : o[n] = IF n < p THEN b[n] ELSE IF n = p THEN e ELSE b[n - 1]
    BY <1>2
  <2> QED BY <2>1, <2>2
<1>7. \A n \in Positions : n >= p => o[n].d = d
  <2>1. \A n \in Positions : n >= p => n = p \/ n > p
    BY <1>1
  <2> QED BY <1>5, <1>6, <2>1
<1>8. o[K].d = d
  BY <1>1, <1>7
<1>9. \A n \in Positions : o[n].d < d => n < p /\ o[n] = b[n]
  <2>1. \A n \in Positions : n < p \/ n >= p
    BY <1>1
  <2>2. ~ (d < d)
    BY <1>1
  <2> QED BY <1>6, <1>7, <2>1, <2>2
<1>10. \A n \in Positions : b[n].d < d => n < p /\ o[n] = b[n]
  <2>1. \A n \in Positions : n < p \/ n >= p
    BY <1>1
  <2>2. ~ (d < d)
    BY <1>1
  <2> QED BY <1>5, <1>6, <2>1, <2>2
<1> HIDE DEF d
<1>11. /\ d <= MaxInt64 /\ \A n \in Positions : b[n].d < d => b[n] \in C
       /\ \A m, n \in Positions : m # n /\ b[m].d < d => b[m] # b[n]
       /\ \A f \in C : f.d < d => \E n \in Positions : b[n] = f
       /\ d = MaxInt64 \/ K <= Cardinality(Within(C, d))
  BY DEF KeepsDistances, d
<1>12. \A m, n \in Positions : m # n /\ o[m].d < d => o[m] # o[n]
  <2> SUFFICES ASSUME NEW m \in Positions, NEW n \in Positions, m # n, o[m].d < d, o[m] = o[n]
               PROVE  FALSE
    OBVIOUS
  <2>1. o[n].d < d
    OBVIOUS
  <2>2. o[m] = b[m] /\ o[n] = b[n]
    BY <1>9, <2>1
  <2> QED BY <1>11, <2>2
<1>13. KeepsDistances(o, C)
  BY <1>3, <1>8, <1>9, <1>10, <1>11, <1>12 DEF KeepsDistances
<1> QED BY <1>13 DEF o

(***************************************************************************)
(* A row nearer than the last neighbour comes at its own distance.         *)
(***************************************************************************)
LEMMA DistancesOffered ==
  ASSUME NEW b, NEW C, KeepsDistances(b, C), IsFiniteSet(C), C \subseteq Entry,
         NEW e \in Entry, e \notin C, e.d < b[K].d
  PROVE  KeepsDistances(Offer(b, e), C \union {e})
<1>1. /\ b \in Kepts /\ KeptSorted(b) /\ K \in Positions /\ K \in Nat \ {0} /\ Positions = 1 .. K
      /\ \A m, n \in Positions : b[m].d \in Nat /\ (m <= n => b[m].d <= b[n].d)
  BY KAssumption, KeptInOrder DEF KeepsDistances, Positions
<1> DEFINE o == Offer(b, e)
           d == b[K].d
           D == C \union {e}
<1>2. Closer(e, b[K])
  BY DEF Closer
<1>3. PICK p \in Positions :
        o = [i \in Positions |-> IF i < p THEN b[i] ELSE IF i = p THEN e ELSE b[i - 1]]
  BY <1>1, <1>2, InsertAt DEF Offer
<1>4. /\ o \in Kepts /\ KeptSorted(o) /\ ~ Closer(b[K], o[K])
      /\ \A n \in Positions : (\E m \in Positions : o[m] = b[n]) \/ ~ Closer(b[n], o[K])
  BY <1>1, OfferFacts
<1>5. \A m, n \in Positions : o[m].d \in Nat /\ (m <= n => o[m].d <= o[n].d)
  BY <1>4, KeptInOrder
<1> HIDE DEF o
<1>6. /\ \A n \in Positions : n < p => o[n] = b[n]
      /\ o[p] = e
      /\ \A n \in Positions : n > p => o[n] = b[n - 1] /\ n - 1 \in Positions
  <2>1. p \in Int /\ \A n \in Positions : n \in Int /\ (n > p => n - 1 \in Positions)
    BY <1>1
  <2>2. \A n \in Positions : o[n] = IF n < p THEN b[n] ELSE IF n = p THEN e ELSE b[n - 1]
    BY <1>3
  <2> QED BY <2>1, <2>2
<1>7. o[K].d <= d /\ o[K].d \in Nat /\ d \in Nat
  BY <1>1, <1>4, <1>5 DEF Closer
<1>8. /\ d <= MaxInt64 /\ \A n \in Positions : b[n].d < d => b[n] \in C
      /\ \A m, n \in Positions : m # n /\ b[m].d < d => b[m] # b[n]
      /\ \A f \in C : f.d < d => \E n \in Positions : b[n] = f
      /\ d = MaxInt64 \/ K <= Cardinality(Within(C, d))
  BY DEF KeepsDistances
<1>9. IsFiniteSet(D) /\ D \subseteq Entry /\ e.d \in Nat
  BY FS_AddElement DEF Entry
<1> HIDE DEF d
<1>10. ASSUME NEW n \in Positions, o[n].d < d PROVE o[n] \in D
  <2>1. n < p \/ n = p \/ n > p
    BY <1>1
  <2> QED BY <1>6, <1>8, <1>10, <2>1
<1>11. ASSUME NEW m \in Positions, NEW n \in Positions, m # n, o[m].d < d PROVE o[m] # o[n]
  <2> SUFFICES ASSUME o[m] = o[n] PROVE FALSE
    OBVIOUS
  <2>1. o[n].d < d
    BY <1>11
  <2>2. m \in Int /\ n \in Int /\ p \in Int
    BY <1>1
  <2>3. ASSUME NEW i \in Positions, i # p, o[i] = e PROVE FALSE
    <3>1. i < p \/ i > p
      BY <1>1, <2>3
    <3>2. PICK j \in Positions : o[i] = b[j]
      BY <1>6, <3>1
    <3>3. b[j].d < d /\ b[j] \in C
      BY <1>8, <2>3, <3>2 DEF d
    <3> QED BY <2>3, <3>2, <3>3
  <2>4. m # p /\ n # p
    BY <1>6, <1>11, <2>3
  <2>5. m < p \/ m > p
    BY <2>2, <2>4
  <2>6. n < p \/ n > p
    BY <2>2, <2>4
  <2>7. PICK i \in Positions : o[m] = b[i] /\ i = IF m < p THEN m ELSE m - 1
    BY <1>6, <2>2, <2>5
  <2>8. PICK j \in Positions : o[n] = b[j] /\ j = IF n < p THEN n ELSE n - 1
    BY <1>6, <2>2, <2>6
  <2>9. i # j
    BY <1>11, <2>2, <2>5, <2>6, <2>7, <2>8
  <2>10. b[i].d < d /\ b[i] = b[j]
    BY <1>11, <2>7, <2>8
  <2> QED BY <1>8, <2>9, <2>10
<1>12. ASSUME NEW f \in D, f.d < o[K].d PROVE \E n \in Positions : o[n] = f
  <2>1. CASE f = e
    BY <1>6, <2>1
  <2>2. CASE f \in C
    <3>1. f.d < d
      <4>1. f.d \in Nat
        BY <1>9 DEF Entry
      <4> QED BY <1>7, <1>12, <4>1
    <3>2. PICK n \in Positions : b[n] = f
      BY <1>8, <2>2, <3>1
    <3>3. Closer(b[n], o[K])
      BY <1>12, <3>2 DEF Closer
    <3> QED BY <1>4, <3>2, <3>3
  <2> QED BY <2>1, <2>2
<1>13. o[K].d = MaxInt64 \/ K <= Cardinality(Within(D, o[K].d))
  <2>1. CASE o[K].d = d
    BY <1>8, <1>9, <2>1, WithinGrows
  <2>2. CASE o[K].d < d
    <3> DEFINE f == [n \in Positions |-> o[n]]
               W == Within(D, o[K].d)
    <3>1. \A n \in Positions : o[n].d <= o[K].d /\ o[n].d < d
      BY <1>1, <1>5, <1>7, <2>2
    <3>2. f \in Injection(Positions, W)
      <4>1. \A n \in Positions : f[n] \in W
        BY <1>10, <3>1 DEF Within
      <4>2. \A m, n \in Positions : f[m] = f[n] => m = n
        BY <1>11, <3>1
      <4> QED BY <4>1, <4>2 DEF Injection, IsInjective
    <3>3. IsFiniteSet(W)
      BY <1>9, FS_Subset DEF Within
    <3>4. Cardinality(Positions) <= Cardinality(W)
      <4> HIDE DEF f, W
      <4> QED BY <3>2, <3>3, FS_Injection
    <3>5. Cardinality(Positions) = K
      <4>1. PICK one \in Nat : one = 1
        OBVIOUS
      <4>2. Cardinality(one .. K) = IF one > K THEN 0 ELSE K - one + 1
        BY <1>1, FS_Interval
      <4> QED BY <1>1, <4>1, <4>2
    <3> QED BY <3>4, <3>5
  <2> QED BY <1>7, <2>1, <2>2
<1>14. o[K].d <= MaxInt64
  BY <1>7, <1>8, SentinelAssumption
<1>15. /\ \A n \in Positions : o[n].d < o[K].d => o[n] \in D
       /\ \A m, n \in Positions : m # n /\ o[m].d < o[K].d => o[m] # o[n]
  <2>1. \A n \in Positions : o[n].d < o[K].d => o[n].d < d
    BY <1>5, <1>7
  <2> QED BY <1>10, <1>11, <2>1
<1>16. KeepsDistances(o, D)
  BY <1>4, <1>12, <1>13, <1>14, <1>15 DEF KeepsDistances
<1> QED BY <1>16 DEF o


(***************************************************************************)
(* Every position up to the number of entries is the rank of one of them.  *)
(***************************************************************************)
LEMMA EveryRank ==
  ASSUME NEW C, Distinct(C), NEW i \in Nat \ {0}, i <= Cardinality(C)
  PROVE  \E e \in C : Cardinality(Preceding(C, e)) = i - 1
<1>0. IsFiniteSet(C) /\ Cardinality(C) \in Nat
  BY FS_CardinalityType DEF Distinct
<1> DEFINE last == Cardinality(C) - 1
           f == [e \in C |-> Cardinality(Preceding(C, e))]
<1>1. ASSUME NEW e \in C PROVE f[e] \in 0 .. last
  <2>1. /\ Preceding(C, e) \subseteq C /\ e \notin Preceding(C, e)
    BY CloserIsOrder DEF Preceding, Distinct
  <2>2. /\ IsFiniteSet(Preceding(C, e)) /\ Cardinality(Preceding(C, e)) < Cardinality(C)
        /\ Cardinality(Preceding(C, e)) \in Nat
    BY <1>0, <2>1, FS_Subset, FS_CardinalityType
  <2> QED BY <1>0, <2>2
<1>2. f \in Injection(C, 0 .. last)
  <2>1. \A e, g \in C : f[e] = f[g] => e = g
    BY PrecedingUnique
  <2> QED BY <1>1, <2>1 DEF Injection, IsInjective
<1>3. IsFiniteSet(0 .. last) /\ Cardinality(0 .. last) = Cardinality(C)
  <2>1. PICK zero \in Int : zero = 0
    OBVIOUS
  <2>2. PICK n \in Int : n = last
    BY <1>0
  <2>3. /\ IsFiniteSet(zero .. n)
        /\ Cardinality(zero .. n) = IF zero > n THEN 0 ELSE n - zero + 1
    BY <2>1, <2>2, FS_Interval
  <2> QED BY <1>0, <2>1, <2>2, <2>3
<1>4. f \in Surjection(C, 0 .. last)
  <2> HIDE DEF f, last
  <2> QED BY <1>0, <1>2, <1>3, FS_Injection
<1>5. i - 1 \in 0 .. last
  BY <1>0
<1> QED BY <1>4, <1>5 DEF Surjection

LEMMA DistancesNearest ==
  ASSUME NEW C, Distinct(C), NEW b, KeepsDistances(b, C), NEW i \in Positions
  PROVE  /\ b[i].d = NearestOf(C)[i].d
         /\ b[i].d < b[K].d => b[i] = NearestOf(C)[i]
<1>0. /\ b \in Kepts /\ KeptSorted(b) /\ K \in Positions /\ K \in Nat \ {0} /\ Positions = 1 .. K
      /\ i \in Nat \ {0} /\ i <= K
      /\ \A m, n \in Positions : b[m].d \in Nat /\ (m <= n => b[m].d <= b[n].d)
  BY KAssumption, KeptInOrder DEF KeepsDistances, Positions
<1> DEFINE d == b[K].d
<1>1. CASE b[i].d < d
  <2>1. ASSUME NEW j \in 1 .. i PROVE j \in Positions /\ b[j].d < d
    BY <1>0, <1>1
  <2>2. \A j \in 1 .. i : b[j] \in C
    BY <2>1 DEF KeepsDistances
  <2>3. \A j \in 1 .. i : \A k \in 1 .. i : j # k => b[j] # b[k]
    BY <2>1 DEF KeepsDistances
  <2>4. ASSUME NEW e \in C, Closer(e, b[i]) PROVE \E n \in Positions : b[n] = e
    <3>1. e.d < d
      BY <1>0, <1>1, <2>4 DEF Closer, Distinct, Entry
    <3> QED BY <3>1 DEF KeepsDistances
  <2>5. b[i] = NearestOf(C)[i]
    BY <1>0, <2>2, <2>3, <2>4, KeptIsNearest
  <2> QED BY <2>5
<1>2. CASE b[i].d = d
  <2> DEFINE L == {e \in C : e.d < d}
  <2>1. IsFiniteSet(L) /\ Cardinality(L) \in Nat /\ IsFiniteSet(C) /\ Cardinality(C) \in Nat
    BY FS_Subset, FS_CardinalityType DEF Distinct
  <2>2. Cardinality(L) < i
    <3> DEFINE N == {n \in 1 .. (i - 1) : b[n] \in L}
               f == [n \in N |-> b[n]]
    <3>1. ASSUME NEW e \in L PROVE \E n \in N : b[n] = e
      <4>1. PICK n \in Positions : b[n] = e
        BY DEF KeepsDistances
      <4>2. b[n].d < b[i].d
        BY <1>2, <4>1
      <4>3. n \in Int /\ n >= 1 /\ n < i
        BY <1>0, <4>2
      <4> QED BY <1>0, <4>1, <4>3
    <3>2. f \in Surjection(N, L)
      BY <3>1 DEF Surjection
    <3>3. IsFiniteSet(1 .. (i - 1)) /\ Cardinality(1 .. (i - 1)) = i - 1
      <4>1. PICK one \in Nat : one = 1
        OBVIOUS
      <4>2. PICK last \in Nat : last = i - 1
        BY <1>0
      <4>3. /\ IsFiniteSet(one .. last)
            /\ Cardinality(one .. last) = IF one > last THEN 0 ELSE last - one + 1
        BY <4>1, FS_Interval
      <4> QED BY <4>1, <4>2, <4>3
    <3>4. IsFiniteSet(N) /\ Cardinality(N) <= i - 1 /\ Cardinality(N) \in Nat
      BY <3>3, FS_Subset, FS_CardinalityType
    <3>5. Cardinality(L) <= Cardinality(N)
      <4> HIDE DEF f, N, L
      <4> QED BY <3>2, <3>4, FS_Surjection
    <3> QED BY <1>0, <2>1, <3>4, <3>5
  <2>3. CASE d = MaxInt64
    <3>1. L = C
      BY <2>3 DEF Distinct
    <3>2. NearestOf(C)[i] = EmptySlot
      BY <1>0, <2>1, <2>2, <3>1 DEF NearestOf
    <3> QED BY <1>0, <1>2, <2>3, <3>2 DEF EmptySlot
  <2>4. CASE d # MaxInt64
    <3>1. K <= Cardinality(Within(C, d))
      BY <2>4 DEF KeepsDistances
    <3>2. IsFiniteSet(Within(C, d)) /\ Cardinality(Within(C, d)) <= Cardinality(C)
          /\ Cardinality(Within(C, d)) \in Nat
      <4>1. Within(C, d) \subseteq C
        BY DEF Within
      <4> QED BY <2>1, <4>1, FS_Subset, FS_CardinalityType
    <3>3. i <= Cardinality(C) /\ i <= Cardinality(Within(C, d))
      BY <1>0, <2>1, <3>1, <3>2
    <3>4. PICK e \in C : Cardinality(Preceding(C, e)) = i - 1
      BY <1>0, <3>3, EveryRank
    <3>5. NearestOf(C)[i] = e
      <4>1. ~ (i > Cardinality(C))
        BY <1>0, <2>1, <3>3
      <4>2. e = CHOOSE x \in C : Cardinality(Preceding(C, x)) = i - 1
        BY <3>4, PrecedingUnique
      <4> QED BY <4>1, <4>2 DEF NearestOf
    <3>6. e.d \in Nat /\ d \in Nat
      BY <1>0 DEF Distinct, Entry
    <3>7. ~ (e.d < d)
      <4> SUFFICES ASSUME e.d < d PROVE FALSE
        OBVIOUS
      <4>1. Preceding(C, e) \subseteq L
        BY <3>6, <1>0 DEF Preceding, Closer, Distinct, Entry
      <4>2. e \in L /\ e \notin Preceding(C, e)
        BY CloserIsOrder DEF Preceding, Distinct
      <4>3. Cardinality(Preceding(C, e)) < Cardinality(L)
        <5>1. L # Preceding(C, e)
          BY <4>2
        <5> HIDE DEF L
        <5>2. /\ Cardinality(Preceding(C, e)) <= Cardinality(L)
              /\ Cardinality(Preceding(C, e)) # Cardinality(L)
              /\ IsFiniteSet(Preceding(C, e))
          BY <2>1, <4>1, <5>1, FS_Subset
        <5>3. Cardinality(Preceding(C, e)) \in Nat
          BY <5>2, FS_CardinalityType
        <5> QED BY <2>1, <5>2, <5>3
      <4> QED BY <1>0, <2>1, <2>2, <3>4, <4>3
    <3>8. ~ (e.d > d)
      <4> SUFFICES ASSUME e.d > d PROVE FALSE
        OBVIOUS
      <4>1. Within(C, d) \subseteq Preceding(C, e)
        BY <3>6 DEF Preceding, Closer, Distinct, Entry, Within
      <4>2. IsFiniteSet(Preceding(C, e))
        BY <2>1, FS_Subset DEF Preceding
      <4>3. Cardinality(Within(C, d)) <= Cardinality(Preceding(C, e))
        BY <4>1, <4>2, FS_Subset
      <4> QED BY <1>0, <3>2, <3>3, <3>4, <4>3
    <3> QED BY <1>0, <1>2, <3>5, <3>6, <3>7, <3>8
  <2> QED BY <2>3, <2>4
<1>3. b[i].d < d \/ b[i].d = d
  BY <1>0
<1> QED BY <1>1, <1>2, <1>3


-----------------------------------------------------------------------------
(***************************************************************************)
(* Sums taken in another order.                                            *)
(***************************************************************************)
LEMMA SumOverChanged ==
  ASSUME NEW first \in Int, NEW last \in Int, NEW j \in first .. last,
         NEW f, NEW g, \A i \in first .. last : f[i] \in Int /\ g[i] \in Int /\ (i # j => g[i] = f[i])
  PROVE  SumOver(g, first, last) = SumOver(f, first, last) + (g[j] - f[j])
<1>0. first - 1 <= last /\ j \in Int
  OBVIOUS
<1>1. PICK s : SumsOf(s, f, first, last) /\ SumOver(f, first, last) = s[last]
  BY <1>0, SumOverIs
<1>2. PICK t : SumsOf(t, g, first, last) /\ SumOver(g, first, last) = t[last]
  BY <1>0, SumOverIs
<1> DEFINE lo == first - 1
           delta == g[j] - f[j]
           T == {i \in lo .. last : t[i] = IF i < j THEN s[i] ELSE s[i] + delta}
<1>3. lo \in T /\ lo \in Int /\ lo + 1 = first
  <2>1. s[lo] = 0 /\ t[lo] = 0 /\ lo < j /\ lo \in lo .. last
    BY <1>1, <1>2 DEF SumsOf
  <2> QED BY <2>1
<1>4. delta \in Int /\ delta = g[j] - f[j] /\ g[j] \in Int /\ f[j] \in Int
  OBVIOUS
<1>5. ASSUME NEW i \in lo .. (last - 1), i \in T PROVE i + 1 \in T
  <2>1. i + 1 \in first .. last /\ (i + 1) - 1 = i /\ i + 1 \in lo .. last
    OBVIOUS
  <2>2. s[i + 1] = s[i] + f[i + 1] /\ t[i + 1] = t[i] + g[i + 1]
    BY <1>1, <1>2, <2>1 DEF SumsOf
  <2>3. /\ s[i] \in Int /\ t[i] \in Int /\ f[i + 1] \in Int /\ g[i + 1] \in Int
        /\ i + 1 # j => g[i + 1] = f[i + 1]
    BY <1>1, <1>2, <2>1 DEF SumsOf
  <2>4. t[i] = IF i < j THEN s[i] ELSE s[i] + delta
    BY <1>5
  <2>5. i + 1 = j => f[i + 1] = f[j] /\ g[i + 1] = g[j]
    OBVIOUS
  <2> HIDE DEF delta
  <2>6. t[i + 1] = IF i + 1 < j THEN s[i + 1] ELSE s[i + 1] + delta
    BY <1>0, <1>4, <2>2, <2>3, <2>4, <2>5
  <2> QED BY <2>1, <2>6
<1>6. lo .. last \subseteq T
  <2> HIDE DEF T
  <2> QED BY <1>3, <1>5, IntervalInduction
<1>7. last \in lo .. last /\ ~ (last < j)
  BY <1>0
<1>8. t[last] = s[last] + delta
  BY <1>6, <1>7
<1> QED BY <1>1, <1>2, <1>8

LEMMA SumOverPermuted ==
  ASSUME NEW m \in Nat \ {0}, NEW f, \A i \in 0 .. (m - 1) : f[i] \in Int,
         NEW order, \A k \in 0 .. (m - 1) : order[k] \in 0 .. (m - 1),
         \A j, k \in 0 .. (m - 1) : order[j] = order[k] => j = k,
         NEW turn, \A i \in 0 .. (m - 1) : turn[i] \in 0 .. (m - 1) /\ order[turn[i]] = i,
         NEW g, \A k \in 0 .. (m - 1) : g[k] = f[order[k]]
  PROVE  SumOver(g, 0, m - 1) = SumOver(f, 0, m - 1)
<1>1. PICK zero \in Int : zero = 0
  OBVIOUS
<1>2. PICK last \in Int : last = m - 1
  OBVIOUS
<1>3. /\ zero - 1 <= last /\ last + 1 = m /\ zero .. last = 0 .. (m - 1)
      /\ \A k \in zero .. last : f[k] \in Int /\ g[k] \in Int
  BY <1>1, <1>2
<1>4. PICK s : SumsOf(s, g, zero, last) /\ SumOver(g, zero, last) = s[last]
  BY <1>3, SumOverIs
<1> DEFINE h(k) == [i \in 0 .. (m - 1) |-> IF turn[i] < k THEN f[i] ELSE 0]
           T == {k \in 0 .. m : SumOver(h(k), zero, last) = s[k - 1]}
<1>5. \A k \in 0 .. m : \A i \in zero .. last : h(k)[i] \in Int
  BY <1>3
<1>6. 0 \in T
  <2>1. \A i \in 0 .. (m - 1) : h(0)[i] \in 0 .. 0
    BY <1>1, <1>2, <1>3
  <2> HIDE DEF h
  <2>2. SumOver(h(0), 0, m - 1) \in 0 .. (m * 0)
    BY <2>1, SumOverBounded, <1>1
  <2>3. m * 0 = 0
    OBVIOUS
  <2>4. SumOver(h(0), zero, last) = 0
    BY <1>1, <1>2, <2>2, <2>3
  <2>5. s[0 - 1] = 0
    BY <1>1, <1>4 DEF SumsOf
  <2> QED BY <2>4, <2>5
<1>7. ASSUME NEW k \in 0 .. (m - 1), k \in T PROVE k + 1 \in T
  <2> DEFINE j == order[k]
             a == h(k)
             b == h(k + 1)
  <2>1. j \in 0 .. (m - 1) /\ turn[j] = k
    OBVIOUS
  <2>2. ASSUME NEW i \in 0 .. (m - 1), i # j PROVE b[i] = a[i]
    <3>1. turn[i] # k /\ turn[i] \in Int
      BY <2>2
    <3> QED BY <3>1
  <2>3. a[j] = 0 /\ b[j] = f[j] /\ f[j] \in Int
    BY <2>1
  <2>4. \A i \in zero .. last : a[i] \in Int /\ b[i] \in Int /\ (i # j => b[i] = a[i])
    BY <1>3, <1>5, <2>2
  <2>5. j \in zero .. last
    BY <1>3, <2>1
  <2>6. SumOver(a, zero, last) = s[k - 1]
    BY <1>7
  <2>7. s[k] = s[k - 1] + g[k] /\ s[k - 1] \in Int /\ g[k] = f[j] /\ (k + 1) - 1 = k
    <3>1. k \in zero .. last /\ k - 1 \in (zero - 1) .. last
      BY <1>1, <1>2, <1>3
    <3> QED BY <1>4, <3>1 DEF SumsOf
  <2> HIDE DEF a, b, j
  <2>8. SumOver(b, zero, last) = SumOver(a, zero, last) + (b[j] - a[j])
    BY <2>4, <2>5, SumOverChanged
  <2>9. SumOver(b, zero, last) = s[(k + 1) - 1]
    BY <2>3, <2>6, <2>7, <2>8
  <2>10. k + 1 \in 0 .. m
    OBVIOUS
  <2> QED BY <2>9, <2>10 DEF b
<1>8. m \in T
  <2>1. m \in Int
    OBVIOUS
  <2> HIDE DEF T
  <2>2. zero .. m \subseteq T
    BY <1>1, <1>6, <1>7, <2>1, IntervalInduction
  <2> QED BY <1>1, <2>2
<1>9. SumOver(h(m), zero, last) = s[last]
  <2>1. m - 1 = last
    BY <1>2
  <2> QED BY <1>8, <2>1
<1> DEFINE all == h(m)
<1>10. \A i \in zero .. last : f[i] \in Int /\ all[i] = f[i]
  <2>1. \A i \in 0 .. (m - 1) : turn[i] < m
    OBVIOUS
  <2> QED BY <1>3, <2>1
<1>11. SumOver(f, zero, last) = SumOver(all, zero, last)
  <2> HIDE DEF all, T, h
  <2> QED BY <1>3, <1>10, SumOverSame
<1>12. SumOver(g, 0, m - 1) = SumOver(g, zero, last) /\ SumOver(f, 0, m - 1) = SumOver(f, zero, last)
  BY <1>1, <1>2
<1> QED BY <1>4, <1>9, <1>11, <1>12


(***************************************************************************)
(* blockLaneDist takes every dimension once.                               *)
(***************************************************************************)
LEMMA DimensionsKeyed == Keyed(Dimensions, Turn) /\ Cardinality(Dimensions) = Dim
<1>1. Dim \in Nat \ {0} /\ Dim <= 14 /\ Dimensions = 0 .. (Dim - 1)
  BY SizesAssumption, OrderAssumption DEF Dimensions
<1>2. ASSUME NEW d \in Dimensions PROVE Turn[d] \in Int
  <2>1. /\ dimOrder[1] = 5 /\ dimOrder[2] = 6 /\ dimOrder[3] = 2 /\ dimOrder[4] = 0
        /\ dimOrder[5] = 7 /\ dimOrder[6] = 8 /\ dimOrder[7] = 12 /\ dimOrder[8] = 1
        /\ dimOrder[9] = 3 /\ dimOrder[10] = 4 /\ dimOrder[11] = 9 /\ dimOrder[12] = 10
        /\ dimOrder[13] = 11 /\ dimOrder[14] = 13
    BY DEF dimOrder
  <2>2. d \in {0, 1, 2, 3, 4, 5, 6, 7, 8, 9, 10, 11, 12, 13}
    BY <1>1
  <2>3. \E n \in 1 .. 14 : dimOrder[n] = d
    BY <2>1, <2>2
  <2>4. Turn[d] \in 1 .. 14
    BY <2>3 DEF Turn
  <2> QED BY <2>4
<1>3. IsFiniteSet(Dimensions) /\ Cardinality(Dimensions) = Dim
  <2>1. PICK zero \in Int : zero = 0
    OBVIOUS
  <2>2. PICK last \in Int : last = Dim - 1
    BY <1>1
  <2>3. /\ IsFiniteSet(zero .. last)
        /\ Cardinality(zero .. last) = IF zero > last THEN 0 ELSE last - zero + 1
    BY <2>1, <2>2, FS_Interval
  <2> QED BY <1>1, <2>1, <2>2, <2>3
<1> QED BY <1>1, <1>2, <1>3 DEF Keyed

Squares(q, v) == [d \in Dimensions |-> (q[d] - v[d]) * (q[d] - v[d])]

SquaresInOrder(q, v) == [i \in Dimensions |-> Squares(q, v)[DimensionAt(i + 1)]]

LEMMA SquaresInOrderAre ==
  ASSUME NEW q, NEW v, Fits(q, v)
  PROVE  /\ \A i \in 0 .. (Dim - 1) : /\ DimensionAt(i + 1) \in Dimensions
                                      /\ SquaresInOrder(q, v)[i] \in Nat
         /\ SumOver(SquaresInOrder(q, v), 0, Dim - 1) = SquaredDistance(q, v)
<1> DEFINE f == Squares(q, v)
           g == SquaresInOrder(q, v)
           order == [k \in Dimensions |-> Nth(Dimensions, Turn, k)]
           turn == [d \in Dimensions |-> Rank(Dimensions, Turn, d)]
<1>1. /\ Dim \in Nat \ {0} /\ Dimensions = 0 .. (Dim - 1) /\ Keyed(Dimensions, Turn)
      /\ Cardinality(Dimensions) = Dim
  BY SizesAssumption, DimensionsKeyed DEF Dimensions
<1>2. \A d \in 0 .. (Dim - 1) : f[d] \in Nat /\ f[d] \in Int
  BY <1>1 DEF Squares, Fits
<1>3. \A k \in 0 .. (Dim - 1) : order[k] \in 0 .. (Dim - 1)
  BY <1>1, NthIs
<1>4. \A j, k \in 0 .. (Dim - 1) : order[j] = order[k] => j = k
  BY <1>1, NthEnumerates
<1>5. \A i \in 0 .. (Dim - 1) : turn[i] \in 0 .. (Dim - 1) /\ order[turn[i]] = i
  BY <1>1, NthEnumerates
<1>6. \A k \in 0 .. (Dim - 1) : DimensionAt(k + 1) = order[k]
  <2>1. \A k \in 0 .. (Dim - 1) : (k + 1) - 1 = k
    OBVIOUS
  <2> QED BY <1>1, <2>1 DEF DimensionAt
<1>7. \A k \in 0 .. (Dim - 1) : g[k] = f[order[k]]
  BY <1>1, <1>6 DEF SquaresInOrder
<1>8. SquaredDistance(q, v) = SumOver(f, 0, Dim - 1)
  BY DistanceIsSum DEF Squares
<1> HIDE DEF f, g, order, turn
<1>9. SumOver(g, 0, Dim - 1) = SumOver(f, 0, Dim - 1)
  BY <1>1, <1>2, <1>3, <1>4, <1>5, <1>7, SumOverPermuted
<1>10. \A i \in 0 .. (Dim - 1) : DimensionAt(i + 1) \in Dimensions /\ g[i] \in Nat
  BY <1>1, <1>2, <1>3, <1>6, <1>7
<1> QED BY <1>8, <1>9, <1>10 DEF g

LEMMA SumsAre ==
  ASSUME NEW q, NEW v, Fits(q, v)
  PROVE  /\ P!PartialSum(Sums(q, v))
         /\ P!Total(Sums(q, v)) = SquaredDistance(q, v)
<1> DEFINE f == SquaresInOrder(q, v)
           Eq(g) == g = [n \in 1 .. Dim |->
                           LET d == DimensionAt(n)
                           IN  (q[d] - v[d]) * (q[d] - v[d]) + (IF n = 1 THEN 0 ELSE g[n - 1])]
           total == CHOOSE g : Eq(g)
<1>1. Sums(q, v) = [n \in 1 .. Dim |-> total[n]]
  BY DEF Sums
<1>2. 0 \in Int /\ Dim - 1 \in Int /\ 0 - 1 <= Dim - 1 /\ Dim \in Nat \ {0} /\ Dimensions = 0 .. (Dim - 1)
  BY SizesAssumption DEF Dimensions
<1>3. /\ \A i \in 0 .. (Dim - 1) : DimensionAt(i + 1) \in Dimensions /\ f[i] \in Nat /\ f[i] \in Int
      /\ SumOver(f, 0, Dim - 1) = SquaredDistance(q, v)
  BY SquaresInOrderAre
<1>4. ASSUME NEW n \in 1 .. Dim
      PROVE  /\ n - 1 \in 0 .. (Dim - 1)
             /\ f[n - 1] = (q[DimensionAt(n)] - v[DimensionAt(n)]) * (q[DimensionAt(n)] - v[DimensionAt(n)])
  <2>1. n - 1 \in 0 .. (Dim - 1) /\ (n - 1) + 1 = n
    BY <1>2
  <2>2. f[n - 1] = Squares(q, v)[DimensionAt(n)] /\ DimensionAt(n) \in Dimensions
    BY <1>2, <1>3, <2>1 DEF SquaresInOrder
  <2> QED BY <2>1, <2>2 DEF Squares
<1> HIDE DEF f
<1>5. PICK s : SumsOf(s, f, 0, Dim - 1) /\ SumOver(f, 0, Dim - 1) = s[Dim - 1]
  BY <1>2, <1>3, SumOverIs
<1>6. s[-1] = 0 /\ \A d \in 0 .. (Dim - 1) : s[d] = s[d - 1] + f[d] /\ s[d] \in Int
  <2>1. 0 - 1 = -1 /\ 0 .. (Dim - 1) \subseteq (0 - 1) .. (Dim - 1)
    BY <1>2
  <2> QED BY <1>2, <1>5, <2>1 DEF SumsOf
<1>7. \A g : Eq(g) <=> g = [n \in 1 .. Dim |-> f[n - 1] + (IF n = 1 THEN 0 ELSE g[n - 1])]
  <2> SUFFICES ASSUME NEW g
               PROVE  Eq(g) <=> g = [n \in 1 .. Dim |-> f[n - 1] + (IF n = 1 THEN 0 ELSE g[n - 1])]
    OBVIOUS
  <2>1. [n \in 1 .. Dim |-> LET d == DimensionAt(n)
                            IN  (q[d] - v[d]) * (q[d] - v[d]) + (IF n = 1 THEN 0 ELSE g[n - 1])]
        = [n \in 1 .. Dim |-> f[n - 1] + (IF n = 1 THEN 0 ELSE g[n - 1])]
    BY <1>4
  <2> QED BY <2>1
<1> HIDE DEF Eq
<1> DEFINE t == [n \in 1 .. Dim |-> s[n - 1]]
<1>8. Eq(t)
  <2>1. ASSUME NEW n \in 1 .. Dim
        PROVE  t[n] = f[n - 1] + (IF n = 1 THEN 0 ELSE t[n - 1])
    <3>1. n - 1 \in 0 .. (Dim - 1) /\ f[n - 1] \in Int /\ s[n - 1] = s[(n - 1) - 1] + f[n - 1]
      <4>1. PICK i \in 0 .. (Dim - 1) : i = n - 1
        BY <1>2
      <4>2. f[i] \in Int /\ s[i] = s[i - 1] + f[i]
        BY <1>3, <1>6
      <4> HIDE DEF t
      <4> QED BY <4>1, <4>2
    <3>2. CASE n = 1
      <4>1. (n - 1) - 1 = -1
        BY <3>2
      <4>2. s[n - 1] = 0 + f[n - 1]
        BY <1>6, <3>1, <4>1
      <4> QED BY <3>1, <3>2, <4>2
    <3>3. CASE n # 1
      <4>1. n - 1 \in 1 .. Dim /\ (n - 1) - 1 \in 0 .. (Dim - 1)
        BY <1>2, <3>3
      <4>2. t[n - 1] = s[(n - 1) - 1] /\ s[(n - 1) - 1] \in Int
        BY <1>6, <4>1
      <4>3. s[n - 1] = f[n - 1] + s[(n - 1) - 1]
        BY <3>1, <4>2
      <4> QED BY <3>3, <4>2, <4>3
    <3> QED BY <3>2, <3>3
  <2>2. t = [n \in 1 .. Dim |-> f[n - 1] + (IF n = 1 THEN 0 ELSE t[n - 1])]
    BY <2>1
  <2> HIDE DEF t
  <2> QED BY <1>7, <2>2
<1>9. Eq(total)
  <2> HIDE DEF t
  <2> QED BY <1>8
<1> HIDE DEF total
<1>10. total = [n \in 1 .. Dim |-> f[n - 1] + (IF n = 1 THEN 0 ELSE total[n - 1])]
  BY <1>7, <1>9
<1>11. \A n \in 1 .. Dim : total[n] = f[n - 1] + (IF n = 1 THEN 0 ELSE total[n - 1])
  BY <1>10
<1> DEFINE T == {n \in 1 .. Dim : total[n] = s[n - 1]}
<1>12. 1 \in T
  <2>1. 1 \in 1 .. Dim /\ 1 - 1 = 0 /\ 0 - 1 = -1 /\ 0 \in 0 .. (Dim - 1)
    BY <1>2
  <2>2. total[1] = f[0] + 0 /\ s[0] = s[-1] + f[0] /\ f[0] \in Int
    BY <1>3, <1>6, <1>11, <2>1
  <2> QED BY <1>6, <2>1, <2>2
<1>13. ASSUME NEW n \in 1 .. (Dim - 1), n \in T PROVE n + 1 \in T
  <2>1. /\ n + 1 \in 1 .. Dim /\ (n + 1) - 1 = n /\ n + 1 # 1
        /\ n \in 0 .. (Dim - 1) /\ n - 1 \in 0 .. (Dim - 1)
    BY <1>2
  <2>2. total[n + 1] = f[n] + total[n] /\ s[n] = s[n - 1] + f[n]
        /\ f[n] \in Int /\ s[n - 1] \in Int
    BY <1>3, <1>6, <1>11, <2>1
  <2> QED BY <1>13, <2>1, <2>2
<1>14. 1 .. Dim \subseteq T
  <2> HIDE DEF T
  <2>1. PICK one \in Int : one = 1
    OBVIOUS
  <2>2. Dim \in Int
    BY <1>2
  <2>3. one .. Dim \subseteq T
    BY <1>12, <1>13, <2>1, <2>2, IntervalInduction
  <2> QED BY <2>1, <2>3
<1>15. Sums(q, v) = [n \in 1 .. Dim |-> s[n - 1]]
  BY <1>1, <1>14
<1>16. P!PartialSum(Sums(q, v)) /\ Len(Sums(q, v)) = Dim
  BY <1>2, <1>3, <1>5, <1>15, SumsGrow
<1>17. P!Total(Sums(q, v)) = s[Dim - 1]
  BY <1>2, <1>15, <1>16 DEF P!Total
<1> QED BY <1>3, <1>5, <1>16, <1>17


-----------------------------------------------------------------------------
(***************************************************************************)
(* scanBlocksScalar.                                                       *)
(***************************************************************************)
RowVector(c, row) ==
  LaneVector(FirstBlock(c) + (row - FirstRow(c)) \div blockSize, (row - FirstRow(c)) % blockSize)

LEMMA RowSumsAre ==
  ASSUME Ready, query \in Queries, NEW c \in 0 .. (clusters - 1), NEW row \in RowsOf(c)
  PROVE  /\ P!PartialSum(Sums(query, RowVector(c, row)))
         /\ P!Total(Sums(query, RowVector(c, row))) = SquaredDistance(query, vectors[rows[row]])
<1> DEFINE x == rows[row]
           block == BlockOf(c, row)
           lane == LaneOf(c, row)
<1>1. IndexInv /\ stage = "done" /\ input \in Inputs
  BY ServedIndex DEF Ready
<1>2. x \in Ids(input) /\ lane \in 0 .. (blockSize - 1)
  BY <1>1, RowsOfIs, BlockOfIs DEF IndexInv, LaidOut, Lanes
<1>3. \A d \in Dimensions : Value(idx.blocks, block, lane, d) = vectors[x][d]
  <2> SUFFICES ASSUME NEW d \in Dimensions PROVE Value(idx.blocks, block, lane, d) = vectors[x][d]
    OBVIOUS
  <2>1. /\ Place(block, d, lane) \in 0 .. (BlockValues - 1)
        /\ blocks[Place(block, d, lane)] = vectors[x][d]
    BY <1>1, BlocksHold
  <2>2. idx.blocks[Place(block, d, lane)] = blocks[Place(block, d, lane)]
    BY <2>1, ServedIndex
  <2> QED BY <2>1, <2>2 DEF Value, Place
<1>4. RowVector(c, row) = LaneVector(block, lane)
  BY ServedIndex DEF RowVector, FirstRow, FirstBlock, BlockOf, LaneOf
<1> DEFINE v == RowVector(c, row)
           w == vectors[x]
<1>5. \A d \in Dimensions : v[d] = w[d]
  BY <1>3, <1>4 DEF LaneVector
<1>6. Fits(query, w)
  BY <1>1, <1>2, VectorFits
<1> HIDE DEF v, w
<1>7. Fits(query, v)
  BY <1>5, <1>6 DEF Fits
<1>8. SquaredDistance(query, v) = SquaredDistance(query, w)
  <2>1. [d \in Dimensions |-> (query[d] - v[d]) * (query[d] - v[d])]
        = [d \in Dimensions |-> (query[d] - w[d]) * (query[d] - w[d])]
    BY <1>5
  <2> DEFINE f == [d \in Dimensions |-> (query[d] - v[d]) * (query[d] - v[d])]
             g == [d \in Dimensions |-> (query[d] - w[d]) * (query[d] - w[d])]
  <2>2. SquaredDistance(query, v) = SumOver(f, 0, Dim - 1)
    BY <1>7, DistanceIsSum
  <2>3. SquaredDistance(query, w) = SumOver(g, 0, Dim - 1)
    BY <1>6, DistanceIsSum
  <2>4. f = g
    BY <2>1
  <2> HIDE DEF f, g
  <2> QED BY <2>2, <2>3, <2>4
<1>9. P!PartialSum(Sums(query, v)) /\ P!Total(Sums(query, v)) = SquaredDistance(query, v)
  BY <1>7, SumsAre
<1> QED BY <1>8, <1>9 DEF v, w

KeepsRowDistances(b, R) == R \subseteq Ids(input) /\ KeepsDistances(b, EntriesAt(R))

LEMMA RowScanned ==
  ASSUME Ready, query \in Queries, NEW c \in 0 .. (clusters - 1), NEW row \in RowsOf(c),
         NEW R, row \notin R, NEW b, KeepsRowDistances(b, R),
         NEW x, x = P!blockLaneDist(Sums(query, RowVector(c, row)), b[K].d)
  PROVE  KeepsRowDistances(Offer(b, EntryOf(row, x)), R \union {row})
<1>1. /\ row \in Ids(input) /\ R \subseteq Ids(input) /\ R \union {row} \subseteq Ids(input)
      /\ KeepsDistances(b, EntriesAt(R))
  BY ClusterRows DEF KeepsRowDistances
<1> DEFINE t == SquaredDistance(query, vectors[rows[row]])
           C == EntriesAt(R)
           e == EntryOf(row, x)
           last == b[K].d
<1>2. b \in Kepts /\ KeptSorted(b) /\ K \in Positions /\ last \in Nat
  <2>1. b \in Kepts /\ KeptSorted(b) /\ K \in Positions
    BY <1>1, KAssumption DEF KeepsDistances, Positions
  <2> QED BY <2>1, KeptInOrder
<1>3. /\ EntryAt(row) \in Entry /\ EntryOf(row, t) = EntryAt(row) /\ EntryAt(row).d = t
      /\ t \in Nat /\ EntryAt(row) \notin C
  <2>1. EntryAt(row) \notin C
    BY <1>1, EntryAtIs DEF EntriesAt
  <2>2. EntryAt(row).d = t
    BY DEF EntryAt
  <2> QED BY <1>1, <2>1, <2>2, EntryAtIs DEF Entry
<1>4. EntriesAt(R \union {row}) = C \union {EntryAt(row)}
  BY DEF EntriesAt
<1>5. IsFiniteSet(C) /\ C \subseteq Entry /\ IsFiniteSet(C \union {EntryAt(row)})
  BY <1>1, <1>4, EntriesDistinct DEF Distinct
<1>6. /\ x \in Nat
      /\ t < last => x = t
      /\ t >= last => x >= last /\ x <= t
  BY <1>2, RowSumsAre, blockLaneDistIs
<1>7. e \in Entry /\ e.d = x
  <2>1. e.id = EntryAt(row).id /\ e.fraud = EntryAt(row).fraud /\ e.d = x
    BY <1>3 DEF EntryOf
  <2>2. e = [d |-> x, id |-> EntryAt(row).id, fraud |-> EntryAt(row).fraud]
    BY <2>1 DEF EntryOf
  <2> QED BY <1>3, <1>6, <2>1, <2>2 DEF Entry
<1> DEFINE o == Offer(b, e)
<1>8. KeepsDistances(o, C \union {EntryAt(row)})
  <2>1. CASE t < last
    <3>1. e = EntryAt(row)
      BY <1>3, <1>6, <2>1
    <3> HIDE DEF e, C, t
    <3> QED BY <1>1, <1>3, <1>5, <2>1, <3>1, DistancesOffered DEF C
  <2>2. CASE ~ (t < last) /\ Closer(e, b[K])
    <3>1. e.d = last
      BY <1>2, <1>3, <1>6, <1>7, <2>2 DEF Closer
    <3>2. KeepsDistances(o, C)
      <4> HIDE DEF e
      <4> QED BY <1>1, <1>7, <2>2, <3>1, DistancesStopped
    <3>3. o[K].d <= last /\ o[K].d \in Nat
      <4>1. o \in Kepts /\ ~ Closer(b[K], o[K])
        <5> HIDE DEF e
        <5> QED BY <1>2, <1>7, OfferFacts
      <4>2. o[K].d \in Nat
        BY <1>2, <4>1 DEF Kepts, Entry
      <4> QED BY <1>2, <4>1, <4>2 DEF Closer
    <3>4. ~ (EntryAt(row).d < o[K].d)
      BY <1>2, <1>3, <2>2, <3>3
    <3> HIDE DEF o, C
    <3> DEFINE D == C \union {EntryAt(row)}
    <3>5. \A f \in D : f \in C \/ ~ (f.d < o[K].d)
      BY <3>4
    <3>6. IsFiniteSet(D) /\ C \subseteq D
      BY <1>5
    <3> HIDE DEF D
    <3>7. KeepsDistances(o, D)
      BY <1>5, <3>2, <3>5, <3>6, DistancesSkipped
    <3> QED BY <3>7 DEF D
  <2>3. CASE ~ (t < last) /\ ~ Closer(e, b[K])
    <3>1. o = b
      BY <2>3 DEF Offer
    <3>2. ~ (EntryAt(row).d < b[K].d)
      BY <1>3, <2>3
    <3> HIDE DEF o
    <3> DEFINE D == C \union {EntryAt(row)}
    <3>3. \A f \in D : f \in C \/ ~ (f.d < b[K].d)
      BY <3>2
    <3>4. IsFiniteSet(D) /\ C \subseteq D
      BY <1>5
    <3> HIDE DEF D, C
    <3>5. KeepsDistances(b, D)
      BY <1>1, <1>5, <3>3, <3>4, DistancesSkipped DEF C
    <3> QED BY <3>1, <3>5 DEF D
  <2> QED BY <2>1, <2>2, <2>3
<1> QED BY <1>1, <1>4, <1>8 DEF KeepsRowDistances


LEMMA ScalarScanned ==
  ASSUME Ready, query \in Queries, NEW c \in 0 .. (clusters - 1),
         NEW R, R \intersect RowsOf(c) = {}, NEW b, KeepsRowDistances(b, R)
  PROVE  KeepsRowDistances(scanBlocksScalar(b, c), R \union RowsOf(c))
<1> DEFINE first == FirstRow(c)
           m == Size(c)
           V == [n \in 0 .. m |-> {v \in Kepts : KeepsRowDistances(v, R \union (first .. (first + n - 1)))}]
           Row(v, n) == Offer(v, EntryOf(first + (n - 1),
                          P!blockLaneDist(Sums(query, LaneVector(FirstBlock(c) + (n - 1) \div blockSize,
                                                                 (n - 1) % blockSize)), v[K].d)))
           step == [n \in 1 .. m |-> [v \in Kepts |-> Row(v, n)]]
           Eq(g) == g = [n \in 0 .. (EndRow(c) - FirstRow(c)) |->
                           IF n = 0 THEN b ELSE Row(g[n - 1], n)]
           after == CHOOSE g : Eq(g)
<1>1. scanBlocksScalar(b, c) = after[EndRow(c) - FirstRow(c)]
  BY DEF scanBlocksScalar
<1>2. /\ first \in Nat /\ m \in Nat /\ EndRow(c) - FirstRow(c) = m
      /\ RowsOf(c) = first .. (first + m - 1)
  BY ClusterRows
<1>3. ASSUME NEW n \in 1 .. m, NEW v \in V[n - 1] PROVE Row(v, n) \in V[n]
  <2> DEFINE row == first + (n - 1)
             S == R \union (first .. (first + (n - 1) - 1))
  <2>1. n - 1 \in 0 .. m /\ n \in 0 .. m
    BY <1>2
  <2>2. KeepsRowDistances(v, S)
    BY <2>1
  <2>3. row \in RowsOf(c) /\ row - FirstRow(c) = n - 1 /\ row \notin first .. (first + (n - 1) - 1)
    BY <1>2
  <2>4. row \notin S
    BY <2>3
  <2>5. LaneVector(FirstBlock(c) + (n - 1) \div blockSize, (n - 1) % blockSize) = RowVector(c, row)
    BY <2>3 DEF RowVector
  <2>6. S \union {row} = R \union (first .. (first + n - 1))
    <3>1. first .. (first + n - 1) = (first .. (first + (n - 1) - 1)) \union {row}
      BY <1>2
    <3> QED BY <3>1
  <2> HIDE DEF S, row, V, first
  <2>7. KeepsRowDistances(Row(v, n), S \union {row})
    BY <2>2, <2>3, <2>4, <2>5, RowScanned DEF row
  <2>8. Row(v, n) \in Kepts
    BY <2>7 DEF KeepsRowDistances, KeepsDistances
  <2> QED BY <2>1, <2>6, <2>7, <2>8 DEF V
<1>4. b \in V[0]
  <2>1. 0 \in 0 .. m /\ first .. (first + 0 - 1) = {}
    BY <1>2
  <2>2. R \union (first .. (first + 0 - 1)) = R
    BY <2>1
  <2> QED BY <2>1, <2>2 DEF KeepsRowDistances, KeepsDistances
<1>5. ASSUME NEW n \in 1 .. m, NEW v \in V[n - 1] PROVE step[n][v] = Row(v, n)
  <2>1. n - 1 \in 0 .. m
    BY <1>2
  <2>2. v \in Kepts
    BY <2>1
  <2> HIDE DEF V, Row
  <2> QED BY <2>2
<1> HIDE DEF V, Row, step, first, m, Eq
<1>6. Rounds(step, V, m)
  BY <1>3, <1>5 DEF Rounds
<1>7. PICK g : /\ g = [n \in 0 .. m |-> IF n = 0 THEN b ELSE step[n][g[n - 1]]]
               /\ \A n \in 0 .. m : g[n] \in V[n]
  BY <1>2, <1>4, <1>6, RoundsExist
<1>8. Eq(g)
  <2>1. ASSUME NEW n \in 0 .. m PROVE g[n] = IF n = 0 THEN b ELSE Row(g[n - 1], n)
    <3>1. n # 0 => n \in 1 .. m /\ n - 1 \in 0 .. m
      BY <1>2
    <3>2. n # 0 => g[n] = step[n][g[n - 1]] /\ g[n - 1] \in V[n - 1]
      BY <1>7, <3>1
    <3> QED BY <1>5, <1>7, <3>1, <3>2
  <2>2. g = [n \in 0 .. m |-> IF n = 0 THEN b ELSE Row(g[n - 1], n)]
    BY <1>7, <2>1
  <2> QED BY <1>2, <2>2 DEF Eq
<1>9. Eq(after)
  BY <1>8
<1> HIDE DEF after
<1>10. after = [n \in 0 .. m |-> IF n = 0 THEN b ELSE Row(after[n - 1], n)]
  BY <1>2, <1>9 DEF Eq
<1>11. \A n \in 0 .. m : after[n] \in V[n]
  <2>1. after[0] \in V[0]
    BY <1>2, <1>4, <1>10
  <2>2. ASSUME NEW n \in 1 .. m, after[n - 1] \in V[n - 1] PROVE after[n] \in V[n]
    <3>1. after[n] = Row(after[n - 1], n)
      BY <1>2, <1>10
    <3> QED BY <1>3, <2>2, <3>1
  <2> QED BY <1>2, <2>1, <2>2, RoundsKeep
<1>12. KeepsRowDistances(after[m], R \union (first .. (first + m - 1)))
  BY <1>2, <1>11 DEF V
<1> QED BY <1>1, <1>2, <1>12

LEMMA ScalarClusterScanned ==
  ASSUME Ready, query \in Queries, kernel = "scalar", NEW c \in 0 .. (clusters - 1),
         NEW R, R \intersect RowsOf(c) = {}, NEW b, KeepsRowDistances(b, R)
  PROVE  KeepsRowDistances(scanCluster(b, c), R \union RowsOf(c))
<1>1. CASE P!bboxDist(BoxSums(query, c), b[K].d) > b[K].d
  <2> DEFINE C == EntriesAt(R)
             D == EntriesAt(R \union RowsOf(c))
  <2>1. scanCluster(b, c) = b
    BY <1>1 DEF scanCluster
  <2>2. b \in Kepts /\ KeepsDistances(b, C) /\ b[K].d \in Nat /\ R \union RowsOf(c) \subseteq Ids(input)
    <3>1. b \in Kepts /\ KeepsDistances(b, C) /\ KeptSorted(b) /\ K \in Positions
      BY KAssumption DEF KeepsRowDistances, KeepsDistances, Positions
    <3> QED BY <3>1, KeptInOrder, ClusterRows DEF KeepsRowDistances
  <2>3. \A row \in RowsOf(c) : ~ (EntryAt(row).d < b[K].d)
    <3> SUFFICES ASSUME NEW row \in RowsOf(c) PROVE ~ (EntryAt(row).d < b[K].d)
      OBVIOUS
    <3>1. EntryAt(row).d > b[K].d
      BY <1>1, <2>2, SkippedFar
    <3>2. EntryAt(row).d \in Nat
      BY <2>2, EntryAtIs
    <3> QED BY <2>2, <3>1, <3>2
  <2>4. IsFiniteSet(C) /\ IsFiniteSet(D) /\ C \subseteq D
    <3>1. IsFiniteSet(C) /\ IsFiniteSet(D)
      BY <2>2, EntriesDistinct DEF Distinct, KeepsRowDistances
    <3> QED BY <3>1 DEF EntriesAt
  <2>5. \A e \in D : e \in C \/ ~ (e.d < b[K].d)
    BY <2>3 DEF EntriesAt
  <2> HIDE DEF C, D
  <2>6. KeepsDistances(b, D)
    BY <2>2, <2>4, <2>5, DistancesSkipped
  <2> QED BY <2>1, <2>2, <2>6 DEF KeepsRowDistances, D
<1>2. CASE ~ (P!bboxDist(BoxSums(query, c), b[K].d) > b[K].d)
  <2>1. scanCluster(b, c) = scanBlocksScalar(b, c)
    BY <1>2 DEF scanCluster
  <2> QED BY <2>1, ScalarScanned
<1> QED BY <1>1, <1>2

-----------------------------------------------------------------------------
(***************************************************************************)
(* The scans.                                                              *)
(***************************************************************************)
ScanInv ==
  /\ query = NoQuery => settled = {} /\ best = newSearchState
  /\ kernel \in {"none", "avx2", "scalar"} /\ (kernel = "none" => query = NoQuery)
  /\ kernel # "none" =>
       /\ loader = "loaded" /\ saver = "saved" /\ query \in Queries
       /\ settled \subseteq 0 .. (clusters - 1)
  /\ kernel = "avx2" => KeepsRows(best, Settled)
  /\ kernel = "scalar" => KeepsRowDistances(best, Settled)

LEMMA EntriesSame ==
  ASSUME UNCHANGED <<input, rows, query, best, settled, listOffsets>>
  PROVE  /\ KeepsRows(best, Settled)' = KeepsRows(best, Settled)
         /\ KeepsRowDistances(best, Settled)' = KeepsRowDistances(best, Settled)
<1>1. \A x : SquaredDistance(query, vectors[rows[x]])' = SquaredDistance(query, vectors[rows[x]])
  BY DEF SquaredDistance, vectors
<1>2. Settled' = Settled
  BY DEF Settled, RowsOf
<1>3. EntriesAt(Settled)' = EntriesAt(Settled)
  BY <1>1, <1>2 DEF EntriesAt, EntryAt
<1> QED BY <1>2, <1>3 DEF KeepsRows, Keeps, KeepsRowDistances, KeepsDistances, Ids

LEMMA SettledNext ==
  ASSUME Ready, query \in Queries, settled \subseteq 0 .. (clusters - 1),
         NEW c \in 0 .. (clusters - 1), c \notin settled
  PROVE  Settled \intersect RowsOf(c) = {}
<1>1. IndexInv /\ stage = "done"
  BY ServedIndex DEF Ready
<1> SUFFICES ASSUME NEW e \in settled, NEW row \in RowsOf(e), row \in RowsOf(c) PROVE FALSE
  BY DEF Settled
<1> QED BY <1>1, RowsDisjoint

LEMMA BuildOver ==
  ASSUME IndexInv, FileInv, saver = "saved", loader = "loaded"
  PROVE  ~ BuildNext /\ ~ FileNext
<1>1. stage = "done" /\ todo = <<>>
  <2>1. stage = "done"
    BY DEF FileInv
  <2>2. clusters - 1 \in 0 .. (clusters - 1)
    BY DEF IndexInv, BuildInv, TypeOK
  <2> QED BY <2>1, <2>2, RowsOfIs
<1>2. ~ BuildNext
  BY <1>1 DEF BuildNext, Leaf, Split, SplitEnds, MakeCluster, MakeBlocks
<1>3. ~ FileNext
  BY DEF FileNext, Create, Save, SaveStops, Load
<1> QED BY <1>2, <1>3

LEMMA NextScanInv ==
  ASSUME IndexInv, FileInv, LoadInv, ScanInv, [Next]_<<vars, fileVars, scanVars>>
  PROVE  ScanInv'
<1>1. CASE Ask
  <2>1. /\ loader = "loaded" /\ saver = "saved" /\ query = NoQuery /\ query' \in Queries
        /\ kernel' \in {"avx2", "scalar"}
        /\ UNCHANGED <<vars, fileVars, settled, best>>
    BY <1>1 DEF Ask
  <2>2. loader' = loader /\ saver' = saver /\ clusters' = clusters /\ settled' = settled /\ best' = best
    BY <2>1 DEF vars, fileVars
  <2>3. settled' = {} /\ best' = newSearchState
    BY <2>1, <2>2 DEF ScanInv
  <2>4. KeepsRows(best, Settled)' /\ KeepsRowDistances(best, Settled)'
    <3>1. Settled' = {} /\ EntriesAt(Settled)' = {}
      BY <2>3 DEF Settled, EntriesAt
    <3>2. KeepsRows(best, Settled)'
      BY <2>3, <3>1, KeepsNone DEF KeepsRows, Keeps
    <3>3. KeepsRowDistances(best, Settled)'
      BY <2>3, <3>1, DistancesNone DEF KeepsRowDistances, KeepsDistances
    <3> QED BY <3>2, <3>3
  <2> QED BY <2>1, <2>2, <2>3, <2>4 DEF ScanInv
<1>2. CASE Scan
  <2>1. PICK c \in 0 .. (idx.clusters - 1) :
          /\ query # NoQuery /\ c \notin settled /\ settled' = settled \union {c}
          /\ best' = scanCluster(best, c)
          /\ UNCHANGED <<vars, fileVars, query, kernel>>
    BY <1>2 DEF Scan
  <2>2. /\ loader' = loader /\ saver' = saver /\ clusters' = clusters /\ query' = query
        /\ kernel' = kernel /\ listOffsets' = listOffsets /\ input' = input /\ rows' = rows
    BY <2>1 DEF vars, fileVars, layout
  <2>3. /\ kernel # "none" /\ loader = "loaded" /\ saver = "saved" /\ query \in Queries
        /\ settled \subseteq 0 .. (clusters - 1)
    BY <2>1 DEF ScanInv
  <2>4. Ready /\ idx.clusters = clusters
    <3>1. Ready
      BY <2>3 DEF Ready
    <3> QED BY <3>1, ServedIndex
  <2>5. c \in 0 .. (clusters - 1)
    BY <2>1, <2>4
  <2>6. Settled' = Settled \union RowsOf(c)
    BY <2>1, <2>2 DEF Settled, RowsOf
  <2>7. Settled \intersect RowsOf(c) = {}
    BY <2>1, <2>3, <2>4, <2>5, SettledNext
  <2>8. EntriesAt(Settled)' = EntriesAt(Settled \union RowsOf(c))
    <3>1. \A x : SquaredDistance(query, vectors[rows[x]])' = SquaredDistance(query, vectors[rows[x]])
      BY <2>2 DEF SquaredDistance, vectors
    <3> QED BY <2>2, <2>6, <3>1 DEF EntriesAt, EntryAt
  <2>9. ASSUME kernel = "avx2" PROVE KeepsRows(best, Settled)'
    <3>1. KeepsRows(best, Settled)
      BY <2>9 DEF ScanInv
    <3>2. KeepsRows(best', Settled \union RowsOf(c))
      BY <2>1, <2>3, <2>4, <2>5, <2>7, <2>9, <3>1, AVX2ClusterScanned
    <3> QED BY <2>2, <2>6, <2>8, <3>2 DEF KeepsRows, Keeps, Ids
  <2>10. ASSUME kernel = "scalar" PROVE KeepsRowDistances(best, Settled)'
    <3>1. KeepsRowDistances(best, Settled)
      BY <2>10 DEF ScanInv
    <3>2. KeepsRowDistances(best', Settled \union RowsOf(c))
      BY <2>1, <2>3, <2>4, <2>5, <2>7, <2>10, <3>1, ScalarClusterScanned
    <3> QED BY <2>2, <2>6, <2>8, <3>2 DEF KeepsRowDistances, KeepsDistances, Ids
  <2> QED BY <2>1, <2>2, <2>3, <2>5, <2>9, <2>10 DEF ScanInv
<1>3. CASE Stopped \/ UNCHANGED <<vars, fileVars, scanVars>>
  <2>1. UNCHANGED <<vars, fileVars, scanVars>>
    BY <1>3 DEF Stopped
  <2>2. /\ UNCHANGED <<input, rows, query, best, settled, listOffsets, kernel, loader, saver, clusters>>
    BY <2>1 DEF vars, fileVars, scanVars, layout
  <2>3. /\ KeepsRows(best, Settled)' = KeepsRows(best, Settled)
        /\ KeepsRowDistances(best, Settled)' = KeepsRowDistances(best, Settled)
    BY <2>2, EntriesSame
  <2> QED BY <2>2, <2>3 DEF ScanInv
<1>4. CASE (BuildNext /\ UNCHANGED <<fileVars, scanVars>>) \/ (FileNext /\ UNCHANGED scanVars)
  <2>1. UNCHANGED <<query, kernel, settled, best>>
    BY <1>4 DEF scanVars
  <2>2. kernel = "none"
    BY <1>4, BuildOver DEF ScanInv
  <2> QED BY <2>1, <2>2 DEF ScanInv
<1> QED BY <1>1, <1>2, <1>3, <1>4 DEF Next

LEMMA SpecScanInv == Spec => [](IndexInv /\ FileInv /\ LoadInv /\ ScanInv)
<1>1. Init => ScanInv
  BY DEF Init, ScanInit, ScanInv
<1>2. IndexInv /\ FileInv /\ LoadInv /\ ScanInv /\ [Next]_<<vars, fileVars, scanVars>> => ScanInv'
  BY NextScanInv
<1> QED BY <1>1, <1>2, SpecFileInv, PTL DEF Spec

(***************************************************************************)
(* With AVX2 the neighbours are the K nearest of the vectors that Build    *)
(* was given in the clusters settled so far, in their order and with their *)
(* labels, however the clusters are divided into blocks, whatever lanes of *)
(* the last block are not used, in whatever order the clusters come, and   *)
(* though clusters are skipped for their boxes.                            *)
(***************************************************************************)
THEOREM ScansKeepNearest == Spec => []ScanKeepsNearest
<1>1. ASSUME IndexInv, FileInv, LoadInv, ScanInv PROVE ScanKeepsNearest
  <2> SUFFICES ASSUME kernel = "avx2" PROVE best = Nearest
    BY DEF ScanKeepsNearest
  <2>1. Ready /\ query \in Queries /\ settled \subseteq 0 .. (clusters - 1) /\ KeepsRows(best, Settled)
    BY <1>1 DEF Ready, ScanInv
  <2>2. Distinct(EntriesAt(Settled)) /\ Keeps(best, EntriesAt(Settled))
    BY <2>1, EntriesDistinct DEF KeepsRows
  <2>3. best = NearestOf(EntriesAt(Settled))
    BY <2>2, KeepsNearest
  <2> QED BY <2>1, <2>3, NearestAre
<1> QED BY <1>1, SpecScanInv, PTL

(***************************************************************************)
(* Without AVX2, where the distance of a row stops at the last neighbour:  *)
(* the distances are still those of the K nearest, in whatever order the   *)
(* clusters come, and so are the neighbours that are nearer than the last. *)
(***************************************************************************)
THEOREM ScansKeepDistances == Spec => []ScalarKeepsDistances
<1>1. ASSUME IndexInv, FileInv, LoadInv, ScanInv PROVE ScalarKeepsDistances
  <2> SUFFICES ASSUME kernel = "scalar", NEW i \in 1 .. K
               PROVE  /\ best[i].d = Nearest[i].d
                      /\ best[i].d < best[K].d => best[i] = Nearest[i]
    BY DEF ScalarKeepsDistances
  <2>1. /\ Ready /\ query \in Queries /\ settled \subseteq 0 .. (clusters - 1)
        /\ KeepsRowDistances(best, Settled)
    BY <1>1 DEF Ready, ScanInv
  <2>2. Distinct(EntriesAt(Settled)) /\ KeepsDistances(best, EntriesAt(Settled))
    BY <2>1, EntriesDistinct DEF KeepsRowDistances
  <2>3. /\ best[i].d = NearestOf(EntriesAt(Settled))[i].d
        /\ best[i].d < best[K].d => best[i] = NearestOf(EntriesAt(Settled))[i]
    BY <2>2, DistancesNearest DEF Positions
  <2> QED BY <2>1, <2>3, NearestAre
<1> QED BY <1>1, SpecScanInv, PTL
=============================================================================
