---------------------------- MODULE ClusterScan -----------------------------
(***************************************************************************)
(* The scans of internal/ivf/scan.go over the index that was built, saved  *)
(* and loaded: from the bytes of the blocks to the neighbours.  One query  *)
(* is asked, of a file that was saved whole, and every cluster is settled  *)
(* once, in any order: scanCluster scans it, or skips it for its box.      *)
(*                                                                         *)
(* kernel is "avx2", the assembly of dist_amd64.s, on machines that have   *)
(* it, and else "scalar".  IVFSearch models which clusters are scanned,    *)
(* and takes the distances of the rows for given.                          *)
(***************************************************************************)
EXTENDS IndexFile, Neighbours

CONSTANTS
  Queries,                  \* quantized query vectors
  NoQuery,
  MaxProduct,               \* the largest product VPMULLD can hold; 2^31 - 1
  MaskBits                  \* clusters that probeMask has room for; 64 * 128

P == INSTANCE PartialSums

ASSUME QueryAssumption == Queries \subseteq [Dimensions -> Int]
ASSUME OrderAssumption == Dim <= 14
ASSUME MaskAssumption == NClusters <= MaskBits

(***************************************************************************)
(* Coordinates lie within 10000 of 0, so that no square has more than 31   *)
(* bits: neither that of a difference to a vector nor that to a centroid,  *)
(* which rounding may put one next to its box.  The sums have room in 64   *)
(* bits, and the file counts the vectors in 32.                            *)
(***************************************************************************)
ASSUME ProductAssumption ==
  \A q \in Queries : \A in \in Inputs : \A x \in Ids(in) : \A d \in Dimensions :
    \A delta \in (q[d] - in.vectors[x][d] - 1) .. (q[d] - in.vectors[x][d] + 1) :
      delta * delta <= MaxProduct
ASSUME RoomAssumption ==
  /\ MaxProduct \in Nat /\ MaskBits \in Nat
  /\ Dim * MaxProduct < MaxInt64
  /\ \A in \in Inputs : in.nVectors <= MaxUint32

VARIABLES query, kernel, settled, best

scanVars == <<query, kernel, settled, best>>

ScanInit ==
  /\ query = NoQuery /\ kernel = "none" /\ settled = {}
  /\ best = newSearchState

Ask ==
  /\ loader = "loaded" /\ saver = "saved" /\ query = NoQuery
  /\ query' \in Queries /\ kernel' \in {"avx2", "scalar"}
  /\ UNCHANGED <<vars, fileVars, settled, best>>

-----------------------------------------------------------------------------
(***************************************************************************)
(* The square a lane of VPMULLD holds, in its 32 bits, and the partial     *)
(* sums of the squares in the order in which blockLaneDist takes the       *)
(* dimensions.  One lane of a block is one vector.                         *)
(***************************************************************************)
dimOrder == <<5, 6, 2, 0, 7, 8, 12, 1, 3, 4, 9, 10, 11, 13>>

Turn == [d \in Dimensions |-> CHOOSE n \in 1 .. 14 : dimOrder[n] = d]

DimensionAt(n) == Nth(Dimensions, Turn, n - 1)

Low(product) ==
  ((product + MaxProduct + 1) % (2 * (MaxProduct + 1))) - (MaxProduct + 1)

Value(blks, block, lane, d) == blks[block * blockStride + d * blockSize + lane]

Sums(q, v) ==
  LET sum[n \in 1 .. Dim] ==
        LET d == DimensionAt(n)
        IN  (q[d] - v[d]) * (q[d] - v[d]) + (IF n = 1 THEN 0 ELSE sum[n - 1])
  IN  [n \in 1 .. Dim |-> sum[n]]

quantizedBlock8DistancesAVX2(q, blks, block) ==
  [lane \in 0 .. (blockSize - 1) |->
     LET square[d \in Dimensions] ==
           LET delta == q[d] - Value(blks, block, lane, d) IN Low(delta * delta)
     IN  SumOver(square, 0, Dim - 1)]

\* Wrong: the same block four times.
Block32Same(q, blks, block) ==
  [lane \in 0 .. (4 * blockSize - 1) |->
     quantizedBlock8DistancesAVX2(q, blks, block)[lane % blockSize]]

quantizedBlock32DistancesAVX2(q, blks, block) ==
  [lane \in 0 .. (4 * blockSize - 1) |->
     quantizedBlock8DistancesAVX2(q, blks, block + lane \div blockSize)[lane % blockSize]]

(***************************************************************************)
(* The rows of a cluster and of one of its blocks.                         *)
(***************************************************************************)
FirstRow(c)       == idx.listOffsets[c]
EndRow(c)         == idx.listOffsets[c + 1]
FirstBlock(c)     == idx.blockOffsets[c]
Blocks(c)         == idx.blockOffsets[c + 1] - idx.blockOffsets[c]
RowBase(c, block) == FirstRow(c) + (block - FirstBlock(c)) * blockSize

LanesOf(c, block, width) ==
  LET rem == EndRow(c) - RowBase(c, block) IN IF rem < width THEN rem ELSE width

EntryOf(row, d) == [d |-> d, id |-> idx.origIDs[row], fraud |-> idx.labels[row] = 1]

(***************************************************************************)
(* scanBlocksAVX2: four blocks at a time while there are four, then one at *)
(* a time.  The distances of all lanes are there before the first of them  *)
(* is offered.                                                             *)
(***************************************************************************)
ScanLanes(b, c, block, dist) ==
  LET lanes == LanesOf(c, block, Cardinality(DOMAIN dist))
      after[n \in 0 .. lanes] ==
        IF n = 0 THEN b
        ELSE Offer(after[n - 1], EntryOf(RowBase(c, block) + n - 1, dist[n - 1]))
  IN  after[lanes]

scanBlocksAVX2(b, c) ==
  LET groups == Blocks(c) \div 4
      wide[n \in 0 .. groups] ==
        IF n = 0 THEN b
        ELSE LET block == FirstBlock(c) + 4 * (n - 1)
             IN  ScanLanes(wide[n - 1], c, block,
                           quantizedBlock32DistancesAVX2(query, idx.blocks, block))
      single[n \in 0 .. (Blocks(c) % 4)] ==
        IF n = 0 THEN wide[groups]
        ELSE LET block == FirstBlock(c) + 4 * groups + n - 1
             IN  ScanLanes(single[n - 1], c, block,
                           quantizedBlock8DistancesAVX2(query, idx.blocks, block))
  IN  single[Blocks(c) % 4]

(***************************************************************************)
(* scanBlocksScalar: row by row; the distance of a row stops against the   *)
(* worst one kept so far.                                                  *)
(***************************************************************************)
LaneVector(block, lane) == [d \in Dimensions |-> Value(idx.blocks, block, lane, d)]

scanBlocksScalar(b, c) ==
  LET after[n \in 0 .. (EndRow(c) - FirstRow(c))] ==
        IF n = 0 THEN b
        ELSE LET rel  == n - 1
                 sums == Sums(query, LaneVector(FirstBlock(c) + rel \div blockSize,
                                                rel % blockSize))
             IN  Offer(after[n - 1],
                         EntryOf(FirstRow(c) + rel, P!blockLaneDist(sums, after[n - 1][K].d)))
  IN  after[EndRow(c) - FirstRow(c)]

(***************************************************************************)
(* bboxDist and scanCluster.                                               *)
(***************************************************************************)
VectorOf(a, c) == [d \in Dimensions |-> a[c * Dim + d]]

BoxSums(q, c) ==
  LET lo == VectorOf(idx.bboxMin, c)
      hi == VectorOf(idx.bboxMax, c)
      nearest == [d \in Dimensions |->
                    IF q[d] < lo[d] THEN lo[d] ELSE IF q[d] > hi[d] THEN hi[d] ELSE q[d]]
      sum[d \in Dimensions] ==
        (q[d] - nearest[d]) * (q[d] - nearest[d]) + (IF d = 0 THEN 0 ELSE sum[d - 1])
  IN  [n \in 1 .. Dim |-> sum[n - 1]]

scanCluster(b, c) ==
  IF P!bboxDist(BoxSums(query, c), b[K].d) > b[K].d THEN b
  ELSE IF kernel = "avx2" THEN scanBlocksAVX2(b, c) ELSE scanBlocksScalar(b, c)

Scan ==
  /\ query # NoQuery
  /\ \E c \in 0 .. (idx.clusters - 1) :
       /\ c \notin settled
       /\ settled' = settled \union {c}
       /\ best' = scanCluster(best, c)
  /\ UNCHANGED <<vars, fileVars, query, kernel>>

Stopped ==
  /\ loader \in {"refused", "panicked"} \/ (loader = "loaded" /\ saver = "stopped")
     \/ (query # NoQuery /\ settled = 0 .. (idx.clusters - 1))
  /\ UNCHANGED <<vars, fileVars, scanVars>>

Init == BuildInit /\ FileInit /\ ScanInit

Next ==
  \/ BuildNext /\ UNCHANGED <<fileVars, scanVars>>
  \/ FileNext /\ UNCHANGED scanVars
  \/ Ask \/ Scan \/ Stopped

Spec == Init /\ [][Next]_<<vars, fileVars, scanVars>>

-----------------------------------------------------------------------------
(***************************************************************************)
(* What there is to be found: the vectors that Build was given and put     *)
(* into the clusters settled so far, with their distances.                 *)
(***************************************************************************)
Members(c) == {ids[i] : i \in ranges[c].start .. (ranges[c].end - 1)}

Candidates ==
  {[d |-> SquaredDistance(query, vectors[x]), id |-> x, fraud |-> input.labels[x]]
   : x \in UNION {Members(c) : c \in settled}}

Nearest ==
  [i \in 1 .. K |->
     IF i > Cardinality(Candidates) THEN EmptySlot
     ELSE CHOOSE e \in Candidates :
            Cardinality({f \in Candidates : Closer(f, e)}) = i - 1]

(***************************************************************************)
(* With AVX2, the neighbours are the K nearest of the vectors that Build   *)
(* was given in these clusters, by distance and then by position in the    *)
(* input, with their labels: through blocks, rows and lanes, the file, the *)
(* groups of four blocks and those left over, and whatever clusters were   *)
(* skipped for their boxes.                                                *)
(***************************************************************************)
ScanKeepsNearest == kernel = "avx2" => best = Nearest

(***************************************************************************)
(* Without AVX2 a farther row may come out at the distance of the last     *)
(* neighbour, where blockLaneDist stopped, and take its place on the tie   *)
(* (scan.go:174): the distances kept are still those of the K nearest,     *)
(* and so are all neighbours that are nearer than the last one.            *)
(***************************************************************************)
ScalarKeepsDistances ==
  kernel = "scalar" =>
    \A i \in 1 .. K :
      /\ best[i].d = Nearest[i].d
      /\ best[i].d < best[K].d => best[i] = Nearest[i]

(***************************************************************************)
(* What a query sees of the loaded index, as IVFSearch has it, each row at *)
(* the distance the kernel computes from the blocks: it is what IVFSearch  *)
(* is specified to search.  Its clusters fit into probeMask, and the two   *)
(* forms the centroids are saved in are the same.                          *)
(***************************************************************************)
RowDistance(q, c, row) ==
  LET rel == row - FirstRow(c)
  IN  quantizedBlock8DistancesAVX2(q, idx.blocks, FirstBlock(c) + rel \div blockSize)
        [rel % blockSize]

ClusterOf(row) == CHOOSE c \in 0 .. (idx.clusters - 1) : row \in FirstRow(c) .. (EndRow(c) - 1)

CentroidDistance(q, c) ==
  quantizedBlock8DistancesAVX2(q, idx.centroidBlocks, c \div blockSize)[c % blockSize]

Seen(q) ==
  LET far == [c \in 0 .. (idx.clusters - 1) |-> CentroidDistance(q, c)]
  IN  [clusters |-> idx.clusters, listOffsets |-> idx.listOffsets,
       dist     |-> [row \in DOMAIN idx.labels |-> RowDistance(q, ClusterOf(row), row)],
       labels   |-> [row \in DOMAIN idx.labels |-> idx.labels[row] = 1],
       origIDs  |-> idx.origIDs,
       bboxDist |-> [c \in 0 .. (idx.clusters - 1) |-> P!Total(BoxSums(q, c))],
       near     |-> [m \in 1 .. idx.clusters |-> Nth(0 .. (idx.clusters - 1), far, m - 1)]]

View == INSTANCE IVFIndex

LoadedWellFormed ==
  loader = "loaded" /\ saver = "saved" /\ query = NoQuery =>
    /\ idx.clusters <= MaskBits
    /\ \A q \in Queries :
         /\ View!WellFormed(Seen(q))
         /\ \A c \in 0 .. (idx.clusters - 1) :
              CentroidDistance(q, c) = SquaredDistance(q, VectorOf(idx.centroids, c))
=============================================================================
