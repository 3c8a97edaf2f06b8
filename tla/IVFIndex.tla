------------------------------ MODULE IVFIndex ------------------------------
(***************************************************************************)
(* An index as one query sees it: a record with the row ranges of the      *)
(* clusters, the distance, label and original identifier of each row, the  *)
(* distance to each cluster's bounding box, and the clusters in the order  *)
(* of their centroids.  IVFSearch searches one, IVFBuild makes one.        *)
(***************************************************************************)
EXTENDS Neighbours

Cluster(i) == 0 .. (i.clusters - 1)
Row(i)     == 0 .. (i.listOffsets[i.clusters] - 1)
RowsOf(i, c) == i.listOffsets[c] .. (i.listOffsets[c + 1] - 1)

(***************************************************************************)
(* What Build guarantees of an index, and geometry of the query.           *)
(***************************************************************************)
WellFormed(i) ==
  /\ i.clusters \in Nat \ {0}
  /\ i.listOffsets \in [0 .. i.clusters -> Nat]
  /\ i.listOffsets[0] = 0
  /\ \A c, e \in 0 .. i.clusters : c <= e => i.listOffsets[c] <= i.listOffsets[e]
  /\ \A r \in Row(i) : \E c \in Cluster(i) : r \in RowsOf(i, c)
  /\ i.dist \in [Row(i) -> 0 .. (MaxInt64 - 1)]
  /\ i.labels \in [Row(i) -> BOOLEAN]
  /\ i.origIDs \in [Row(i) -> 0 .. (MaxUint32 - 1)]
  /\ \A r, s \in Row(i) : i.origIDs[r] = i.origIDs[s] => r = s
  /\ i.bboxDist \in [Cluster(i) -> Nat]
  /\ \A c \in Cluster(i) : \A r \in RowsOf(i, c) : i.bboxDist[c] <= i.dist[r]
  /\ i.near \in [1 .. i.clusters -> Cluster(i)]
  /\ \A m, n \in 1 .. i.clusters : i.near[m] = i.near[n] => m = n
=============================================================================
