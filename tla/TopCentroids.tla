---------------------------- MODULE TopCentroids ----------------------------
(***************************************************************************)
(* topCentroids of internal/ivf/search.go: the nprobe clusters whose       *)
(* centroids are nearest to a query, kept in a sorted array while the loop *)
(* goes over all the clusters.                                             *)
(*                                                                         *)
(* With AVX2 the distances of a full block of centroids are computed       *)
(* exactly; without it, and for the clusters behind the last full block,   *)
(* quantizedDistance is given the worst distance kept as its cutoff.       *)
(* Build makes a power of two of clusters, 8192 for the real data, so with *)
(* AVX2 there are none behind the last block unless there are less than    *)
(* eight.  The arrays bestDist and bestID are one sequence here.           *)
(***************************************************************************)
EXTENDS PartialSums

CONSTANTS
  Centroids,     \* what a query may see: the partial sums of each cluster
  Probes,        \* values of nprobe after the clamps
  blockSize,     \* 8
  useIVFAVX2,
  MaxInt64

ASSUME CentroidAssumption ==
  \A s \in Centroids :
    /\ s \in Seq(Seq(Nat))
    /\ \A c \in DOMAIN s : PartialSum(s[c]) /\ Total(s[c]) < MaxInt64
ASSUME TopAssumption ==
  /\ Probes \subseteq Nat \ {0} /\ blockSize \in Nat \ {0}
  /\ useIVFAVX2 \in BOOLEAN /\ MaxInt64 \in Nat

VARIABLES
  sums,      \* the partial sums of cluster c are sums[c + 1]; never changes
  nprobe,    \* never changes
  c,         \* the cluster the loop is at
  best       \* the nearest so far, in order: [d, id]

vars == <<sums, nprobe, c, best>>

clusters == Len(sums)

(***************************************************************************)
(* insertCentroid moves back those that are farther, from the last one on. *)
(* Among equals the one with the smaller number, which came first, stays   *)
(* in front.                                                               *)
(***************************************************************************)
Last(S) == CHOOSE n \in S : \A m \in S : m <= n

InsertAfter(b, n, e) ==
  [i \in 1 .. (Len(b) + 1) |-> IF i <= n THEN b[i] ELSE IF i = n + 1 THEN e ELSE b[i - 1]]

\* Wrong: moves back its equals.
insertCentroidFront(b, e) ==
  InsertAfter(b, Last({0} \union {i \in 1 .. Len(b) : b[i].d < e.d}), e)

insertCentroid(b, e) ==
  InsertAfter(b, Last({0} \union {i \in 1 .. Len(b) : b[i].d <= e.d}), e)

\* bestDist[nprobe - 1]
Worst == IF Len(best) < nprobe THEN MaxInt64 ELSE best[nprobe].d

InBlock == useIVFAVX2 /\ (c \div blockSize + 1) * blockSize <= clusters

Distance ==
  IF InBlock THEN Total(sums[c + 1]) ELSE quantizedDistance(sums[c + 1], Worst)

Init ==
  /\ sums \in Centroids
  /\ nprobe \in {n \in Probes : n <= clusters}
  /\ c = 0 /\ best = <<>>

Consider ==
  /\ c < clusters
  /\ best' = IF Len(best) < nprobe
               THEN insertCentroid(best, [d |-> Distance, id |-> c])
             ELSE IF Distance < Worst
               THEN insertCentroid(SubSeq(best, 1, nprobe - 1), [d |-> Distance, id |-> c])
             ELSE best
  /\ c' = c + 1
  /\ UNCHANGED <<sums, nprobe>>

Ended == c = clusters /\ UNCHANGED vars

Next == Consider \/ Ended

Spec == Init /\ [][Next]_vars

-----------------------------------------------------------------------------
(***************************************************************************)
(* The stable order of the clusters by distance: IVFSearch takes its       *)
(* prefixes for what topCentroids returns.                                 *)
(***************************************************************************)
Nearer(a, b) ==
  \/ Total(sums[a + 1]) < Total(sums[b + 1])
  \/ Total(sums[a + 1]) = Total(sums[b + 1]) /\ a < b

(***************************************************************************)
(* What is kept are the nearest of the clusters seen so far, in their      *)
(* stable order, whatever the order in which they come; so a search with   *)
(* more probes goes through the same clusters first (search.go:25-36).     *)
(***************************************************************************)
TopSoFar ==
  /\ Len(best) = IF c < nprobe THEN c ELSE nprobe
  /\ \A m \in DOMAIN best :
       LET id == best[m].id
       IN  /\ id < c
           /\ {a \in 0 .. (c - 1) : Nearer(a, id)} = {best[n].id : n \in 1 .. (m - 1)}

(***************************************************************************)
(* No cluster that has been left out is nearer than one that is kept,      *)
(* ties aside.  The early sums of quantizedDistance break it               *)
(* (quantize.go:28-30, search.go:32).                                      *)
(***************************************************************************)
NoneNearerLeftOut ==
  LET kept == {best[m].id : m \in DOMAIN best}
  IN  \A a \in (0 .. (c - 1)) \ kept : \A id \in kept :
        Total(sums[id + 1]) <= Total(sums[a + 1])

(***************************************************************************)
(* The tests of scanCluster and repairIVF against a cutoff come out the    *)
(* same for the early sum of bboxDist as for the whole one (scan.go:62,    *)
(* repair.go:15).  Each sequence of sums is tried against each bound.      *)
(***************************************************************************)
BoxTestIsExact ==
  \A n \in 1 .. clusters : \A cutoff \in 0 .. MaxInt64 :
    bboxDist(sums[n], cutoff) > cutoff <=> Total(sums[n]) > cutoff
=============================================================================
