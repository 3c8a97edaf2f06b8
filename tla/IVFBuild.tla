------------------------------ MODULE IVFBuild ------------------------------
(***************************************************************************)
(* Build of internal/ivf/build.go: it cuts the quantized vectors into      *)
(* clusters of nearly equal size and lays them out as an index.            *)
(*                                                                         *)
(*   "split"        balancedSplit.  Its recursion is a stack of calls that *)
(*                  are still to be made; a step is one call               *)
(*   "materialize"  materializeIVF.  A step is one iteration of its loop,  *)
(*                  the last one makes the blocks                          *)
(*                                                                         *)
(* Indexes of ids, rows, clusters and dimensions begin with 0, as in the   *)
(* code.  pos and blockPos are the last offsets that were written.         *)
(* Variances are compared as exact fractions.  A Build of no vectors       *)
(* returns an error before all this.                                       *)
(***************************************************************************)
EXTENDS Integers, Sequences, FiniteSets

CONSTANTS
  Dim,         \* 14
  NClusters,   \* 8192
  blockSize,   \* lanes of a block; 8
  Inputs       \* the vectors to index, with their labels

(***************************************************************************)
(* A power of two: it has no odd divisor but 1.                            *)
(***************************************************************************)
PowerOfTwo(p) == \A q \in 2 .. p : (\E k \in 1 .. p : k * q = p) => q % 2 = 0

Dimensions == 0 .. (Dim - 1)
Ids(in)    == 0 .. (in.nVectors - 1)

Input(in) ==
  /\ in.nVectors \in Nat \ {0}
  /\ in.vectors \in [Ids(in) -> [Dimensions -> Int]]
  /\ in.labels \in [Ids(in) -> BOOLEAN]

ASSUME SizesAssumption == Dim \in Nat \ {0} /\ blockSize \in Nat \ {0}
ASSUME ClustersAssumption == NClusters \in Nat \ {0} /\ PowerOfTwo(NClusters)
ASSUME InputAssumption == \A in \in Inputs : Input(in)

VARIABLES
  input,
  stage,       \* "split", "materialize" or "done"
  clusters,    \* how many there are to be
  ids,         \* balancedSplit's array of identifiers
  todo,        \* the calls of balancedSplit to be made, the next one first
  ranges,      \* the positions of ids each cluster was given
  next,        \* the cluster materializeIVF makes next
  stats,       \* centroid, bboxMin, bboxMax of each cluster
  listOffsets, blockOffsets,
  rows,        \* the identifier in each row: orderedVecs, orderedLabs, origIDs
  blocks, centroidBlocks

vars == <<input, stage, clusters, ids, todo, ranges, next, stats, listOffsets,
          blockOffsets, rows, blocks, centroidBlocks>>

layout == <<next, stats, listOffsets, blockOffsets, rows, blocks, centroidBlocks>>

vectors == input.vectors

(***************************************************************************)
(* Sums over a range, and the k-th identifier (from 0) of a set in the     *)
(* order of a key, ties by identifier: sort.Slice with such a comparison.  *)
(***************************************************************************)
SumOver(f, first, last) ==
  LET sum[i \in (first - 1) .. last] == IF i < first THEN 0 ELSE sum[i - 1] + f[i]
  IN  sum[last]

Before(key, a, b) == key[a] < key[b] \/ (key[a] = key[b] /\ a < b)

Nth(S, key, k) == CHOOSE x \in S : Cardinality({y \in S : Before(key, y, x)}) = k

(***************************************************************************)
(* highestPowerOfTwoLE.                                                    *)
(***************************************************************************)
highestPowerOfTwoLE(v) ==
  CHOOSE p \in 1 .. v : PowerOfTwo(p) /\ 2 * p > v

ClustersFor(n) == IF NClusters > n THEN highestPowerOfTwoLE(n) ELSE NClusters

-----------------------------------------------------------------------------
NoRange == [start |-> 0, end |-> 0]
NoStats == [centroid |-> [d \in Dimensions |-> 0],
            bboxMin |-> [d \in Dimensions |-> 0], bboxMax |-> [d \in Dimensions |-> 0]]

Call(start, end, base, count) ==
  [start |-> start, end |-> end, clusterBase |-> base, clusterCount |-> count]

BuildInit ==
  /\ input \in Inputs
  /\ stage = "split"
  /\ clusters = ClustersFor(input.nVectors)
  /\ ids = [i \in Ids(input) |-> i]
  /\ todo = <<Call(0, input.nVectors, 0, clusters)>>
  /\ ranges = [c \in 0 .. (clusters - 1) |-> NoRange]
  /\ next = 0 /\ stats = [c \in 0 .. (clusters - 1) |-> NoStats]
  /\ listOffsets = [c \in 0 .. clusters |-> 0]
  /\ blockOffsets = [c \in 0 .. clusters |-> 0]
  /\ rows = [r \in Ids(input) |-> 0]
  /\ blocks = <<>> /\ centroidBlocks = <<>>

(***************************************************************************)
(* maxVarianceDimension: the first dimension of the largest variance.  The *)
(* variances are those of the code times the square of the count.          *)
(***************************************************************************)
Variance(start, end, d) ==
  LET value[i \in start .. (end - 1)]  == vectors[ids[i]][d]
      square[i \in start .. (end - 1)] == value[i] * value[i]
      sum   == SumOver(value, start, end - 1)
  IN  (end - start) * SumOver(square, start, end - 1) - sum * sum

maxVarianceDimension(start, end) ==
  CHOOSE d \in Dimensions :
    /\ \A e \in Dimensions : Variance(start, end, e) <= Variance(start, end, d)
    /\ \A e \in 0 .. (d - 1) : Variance(start, end, e) < Variance(start, end, d)

(***************************************************************************)
(* balancedSplit: one call.  A single cluster takes the whole range;       *)
(* otherwise the range is sorted and halved, and the clusters with it.     *)
(***************************************************************************)
Sorted(start, end) ==
  LET window == {ids[i] : i \in start .. (end - 1)}
      dim    == maxVarianceDimension(start, end)
      key    == [x \in Ids(input) |-> vectors[x][dim]]
  IN  [i \in Ids(input) |->
         IF i \in start .. (end - 1) THEN Nth(window, key, i - start) ELSE ids[i]]

Leaf ==
  /\ todo # <<>>
  /\ LET call == Head(todo)
     IN  /\ call.clusterCount = 1
         /\ ranges' = [ranges EXCEPT ![call.clusterBase] = [start |-> call.start, end |-> call.end]]
  /\ todo' = Tail(todo)
  /\ UNCHANGED <<input, stage, clusters, ids, layout>>

\* Wrong: the first part has as many vectors as it has clusters; the second
\* part begins one later.
HalvesByCount(call) ==
  LET mid  == call.start + call.clusterCount \div 2
      half == call.clusterCount \div 2
  IN  <<Call(call.start, mid, call.clusterBase, half),
        Call(mid, call.end, call.clusterBase + half, half)>>

HalvesWithGap(call) ==
  LET mid  == call.start + (call.end - call.start) \div 2
      half == call.clusterCount \div 2
  IN  <<Call(call.start, mid, call.clusterBase, half),
        Call(mid + 1, call.end, call.clusterBase + half, half)>>

Halves(call) ==
  LET mid  == call.start + (call.end - call.start) \div 2
      half == call.clusterCount \div 2
  IN  <<Call(call.start, mid, call.clusterBase, half),
        Call(mid, call.end, call.clusterBase + half, half)>>

Split ==
  /\ todo # <<>>
  /\ LET call == Head(todo)
     IN  /\ call.clusterCount # 1
         /\ ids' = Sorted(call.start, call.end)
         /\ todo' = Halves(call) \o Tail(todo)
  /\ UNCHANGED <<input, stage, clusters, ranges, layout>>

SplitEnds ==
  /\ stage = "split" /\ todo = <<>>
  /\ stage' = "materialize"
  /\ UNCHANGED <<input, clusters, ids, todo, ranges, layout>>

(***************************************************************************)
(* computeClusterStats: the box, and the mean rounded by adding half of    *)
(* the count; a division truncates towards zero.                           *)
(***************************************************************************)
Quotient(a, b) == IF a >= 0 THEN a \div b ELSE - ((- a) \div b)

Greatest(S) == CHOOSE v \in S : \A w \in S : w <= v
Least(S)    == CHOOSE v \in S : \A w \in S : v <= w

Values(r, d) == {vectors[ids[i]][d] : i \in r.start .. (r.end - 1)}

SumOf(r, d) ==
  LET value[i \in r.start .. (r.end - 1)] == vectors[ids[i]][d]
  IN  SumOver(value, r.start, r.end - 1)

\* Wrong: truncates; tests a value against one side of the box only.
centroidTruncated(r, d) == Quotient(SumOf(r, d), r.end - r.start)

bboxMaxFirst(r, d) ==
  IF r.end - r.start = 1 THEN -32768
  ELSE Greatest({vectors[ids[i]][d] : i \in (r.start + 1) .. (r.end - 1)})

centroid(r, d) ==
  IF r.end = r.start THEN 0
  ELSE Quotient(SumOf(r, d) + (r.end - r.start) \div 2, r.end - r.start)

bboxMin(r, d) == IF r.end = r.start THEN 32767 ELSE Least(Values(r, d))
bboxMax(r, d) == IF r.end = r.start THEN -32768 ELSE Greatest(Values(r, d))

computeClusterStats(r) ==
  [centroid |-> [d \in Dimensions |-> centroid(r, d)],
   bboxMin  |-> [d \in Dimensions |-> bboxMin(r, d)],
   bboxMax  |-> [d \in Dimensions |-> bboxMax(r, d)]]

(***************************************************************************)
(* sortClusterByCentroidDist: the k-th identifier of the cluster.          *)
(***************************************************************************)
SquaredDistance(v, w) ==
  LET square[d \in Dimensions] == (v[d] - w[d]) * (v[d] - w[d])
  IN  SumOver(square, 0, Dim - 1)

sortClusterByCentroidDist(r, k) ==
  LET window == {ids[i] : i \in r.start .. (r.end - 1)}
      mean   == [d \in Dimensions |-> centroid(r, d)]
      key    == [x \in Ids(input) |-> SquaredDistance(vectors[x], mean)]
  IN  Nth(window, key, k)

blocksForRows(n) == IF n <= 0 THEN 0 ELSE (n + blockSize - 1) \div blockSize

MakeCluster ==
  /\ stage = "materialize" /\ next < clusters
  /\ LET r    == ranges[next]
         pos  == listOffsets[next]
         size == r.end - r.start
     IN  /\ stats' = [stats EXCEPT ![next] = computeClusterStats(r)]
         /\ rows' = [row \in Ids(input) |->
                       IF row \in pos .. (pos + size - 1)
                         THEN sortClusterByCentroidDist(r, row - pos) ELSE rows[row]]
         /\ listOffsets' = [listOffsets EXCEPT ![next + 1] = pos + size]
         /\ blockOffsets' =
              [blockOffsets EXCEPT ![next + 1] = blockOffsets[next] + blocksForRows(size)]
  /\ next' = next + 1
  /\ UNCHANGED <<input, stage, clusters, ids, todo, ranges, blocks, centroidBlocks>>

(***************************************************************************)
(* buildIVFBlocks and buildCentroidBlocks: blocks of blockSize lanes, each *)
(* block one dimension after the other.  Lanes that are left over are 0.   *)
(***************************************************************************)
blockStride == Dim * blockSize

At(block, rel, d) ==
  (block + rel \div blockSize) * blockStride + d * blockSize + (rel % blockSize)

Written(count, writes) ==
  [n \in 0 .. (count * blockStride - 1) |->
     IF \E w \in writes : w.at = n THEN (CHOOSE w \in writes : w.at = n).value ELSE 0]

RowsOf(c) == listOffsets[c] .. (listOffsets[c + 1] - 1)

buildIVFBlocks ==
  Written(blockOffsets[clusters],
    UNION {{[at |-> At(blockOffsets[c], row - listOffsets[c], d),
             value |-> vectors[rows[row]][d]] : row \in RowsOf(c), d \in Dimensions}
           : c \in 0 .. (clusters - 1)})

buildCentroidBlocks ==
  Written(blocksForRows(clusters),
    {[at |-> At(0, c, d), value |-> stats[c].centroid[d]] : c \in 0 .. (clusters - 1), d \in Dimensions})

MakeBlocks ==
  /\ stage = "materialize" /\ next = clusters
  /\ stage' = "done"
  /\ blocks' = buildIVFBlocks /\ centroidBlocks' = buildCentroidBlocks
  /\ UNCHANGED <<input, clusters, ids, todo, ranges, next, stats, listOffsets, blockOffsets, rows>>

BuildNext == Leaf \/ Split \/ SplitEnds \/ MakeCluster \/ MakeBlocks

-----------------------------------------------------------------------------
(***************************************************************************)
(* The ranges that clusters were given, and those of the calls to come,    *)
(* lie end to end, in the order of the clusters, from the first vector to  *)
(* the last: none is lost between the halves of any call.  And none is     *)
(* empty, whose centroid and box would be those of no vectors: halving     *)
(* keeps a call's vectors as many as its clusters only because the         *)
(* clusters are a power of two.                                            *)
(***************************************************************************)
Given   == IF todo = <<>> THEN clusters ELSE todo[1].clusterBase
GivenTo == IF todo = <<>> THEN input.nVectors ELSE todo[1].start

Partitioned ==
  /\ \A i \in 1 .. (Len(todo) - 1) :
       /\ todo[i + 1].start = todo[i].end
       /\ todo[i + 1].clusterBase = todo[i].clusterBase + todo[i].clusterCount
  /\ todo # <<>> =>
       /\ todo[Len(todo)].end = input.nVectors
       /\ todo[Len(todo)].clusterBase + todo[Len(todo)].clusterCount = clusters
  /\ \A c \in 0 .. (Given - 1) :
       /\ ranges[c].start = (IF c = 0 THEN 0 ELSE ranges[c - 1].end)
       /\ c = Given - 1 => ranges[c].end = GivenTo
  /\ Given = 0 => GivenTo = 0
  /\ \A i \in 1 .. Len(todo) : todo[i].clusterCount <= todo[i].end - todo[i].start
  /\ \A c \in 0 .. (Given - 1) : ranges[c].start < ranges[c].end

(***************************************************************************)
(* The sizes of any two clusters differ by at most one, although every     *)
(* halving may round down.                                                 *)
(***************************************************************************)
Size(c) == ranges[c].end - ranges[c].start

BalancedSizes ==
  stage # "split" => \A c, e \in 0 .. (clusters - 1) : Size(c) <= Size(e) + 1

(***************************************************************************)
(* The centroid is within half a unit of the mean; but where the sum is    *)
(* negative it may lie above it by more, by less than one and a half: the  *)
(* division truncates, which is up there, after half of the count was      *)
(* added (build.go:77).                                                    *)
(***************************************************************************)
CentroidNearMean ==
  \A c \in 0 .. (next - 1) : \A d \in Dimensions :
    LET sum   == SumOf(ranges[c], d)
        error == Size(c) * stats[c].centroid[d] - sum
    IN  /\ - Size(c) <= 2 * error
        /\ 2 * error <= Size(c) \/ (sum < 0 /\ 2 * error < 3 * Size(c))
=============================================================================
