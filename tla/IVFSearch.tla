----------------------------- MODULE IVFSearch ------------------------------
(***************************************************************************)
(* One call of Index.searchIVF (internal/ivf/index.go): the search of an   *)
(* inverted-file index for the K nearest reference transactions of a       *)
(* query, in up to four passes over the clusters:                          *)
(*                                                                         *)
(*   "probe"      probeIVF, the NProbe clusters of the nearest centroids   *)
(*   "ambiguous"  expandProbes to AmbiguousNProbe, on an unclear count     *)
(*   "repair"     repairIVF, every cluster whose box could hold better     *)
(*   "approval",  expandProbes to MaxIVFProbe, when a rule of RepairRules  *)
(*   "denial"     doubts the side the count is on                          *)
(*                                                                         *)
(* A step is one iteration of a loop over clusters, or one row of the scan *)
(* of a cluster.  The index and the query are chosen in Init and never     *)
(* change.  Of the index the search sees, for this query, the row ranges   *)
(* of the clusters, the distance, label and original identifier of each    *)
(* row, the distance to each cluster's bounding box and the order of the   *)
(* clusters by centroid distance: see IVFIndex.  bboxDist may stop early   *)
(* with a partial sum, but only once it is over the bound it is compared   *)
(* with.                                                                   *)
(*                                                                         *)
(* Left out: probes and probeCount (written, never read) and the test that *)
(* the index has bounding boxes (builder and loader always make them).     *)
(***************************************************************************)
EXTENDS IVFIndex, RepairRules

CONSTANTS
  DenyAt,            \* frauds from which the answer is a denial; 3
  NProbe,            \* ivfMeta.nprobe; 8
  AmbiguousNProbe,   \* ivfMeta.ambiguousNprobe; 24
  MaxIVFProbe,       \* maxIVFProbe; 128
  Repair,            \* ivfMeta.repair; TRUE
  Instances,         \* the pairs of an index and the geometry of a query
  Queries            \* the query vectors, as the rules see them

ASSUME DenyAtAssumption == DenyAt \in 0 .. K
ASSUME ProbeAssumption ==
  NProbe \in Nat /\ AmbiguousNProbe \in Nat /\ MaxIVFProbe \in Nat \ {0}
ASSUME RepairAssumption == Repair \in BOOLEAN
ASSUME InstanceAssumption == \A i \in Instances : WellFormed(i)
ASSUME QueryAssumption == Queries \subseteq Query

VARIABLES
  ix, q,          \* the index with the geometry of the query, and the query
  stage,          \* the pass under way, or "done"
  next, count,    \* the loop of the pass: iteration and number of iterations
  row, rowEnd,    \* the loop of scanBlocksAVX2; none is running when row >= rowEnd
  best,           \* bestDist, bestID, bestFraud
  probeMask,      \* the clusters addProbe has marked
  cutoff,         \* repairIVF's copy of the worst kept distance
  passed,         \* the passes that have ended (history)
  result          \* what searchIVF returned, -1 until it does

vars == <<ix, q, stage, next, count, row, rowEnd, best, probeMask, cutoff, passed, result>>

Expansions == {"ambiguous", "approval", "denial"}
Stages == {"probe", "repair", "done"} \union Expansions

EntryOf(i, r) == [d |-> i.dist[r], id |-> i.origIDs[r], fraud |-> i.labels[r]]

(***************************************************************************)
(* topCentroids(q, nprobe): how many of the nearest clusters it returns.   *)
(* It returns a prefix of near, the stable order by centroid distance.     *)
(***************************************************************************)
Smaller(a, b) == IF a < b THEN a ELSE b

\* Wrong: one too few.
topCentroidsOneShort(i, nprobe) == Smaller(Smaller(nprobe, i.clusters), MaxIVFProbe) - 1

topCentroids(i, nprobe) == Smaller(Smaller(nprobe, i.clusters), MaxIVFProbe)

-----------------------------------------------------------------------------
Init ==
  /\ ix \in Instances /\ q \in Queries
  /\ stage = "probe" /\ next = 1 /\ count = topCentroids(ix, NProbe)
  /\ row = 0 /\ rowEnd = 0
  /\ best = newSearchState /\ probeMask = {}
  /\ cutoff = 0 /\ passed = {} /\ result = -1

Iterating == row >= rowEnd /\ next <= count
LoopEnded == row >= rowEnd /\ next > count

\* Wrong: skips a cluster whose box is exactly as far as the worst neighbour.
scanClusterStrict(c) ==
  IF ix.bboxDist[c] >= best[K].d
    THEN UNCHANGED <<row, rowEnd>>
    ELSE row' = ix.listOffsets[c] /\ rowEnd' = ix.listOffsets[c + 1]

(***************************************************************************)
(* scanCluster: nothing when the box of c is beyond the worst neighbour.   *)
(***************************************************************************)
scanCluster(c) ==
  IF ix.bboxDist[c] > best[K].d
    THEN UNCHANGED <<row, rowEnd>>
    ELSE row' = ix.listOffsets[c] /\ rowEnd' = ix.listOffsets[c + 1]

addProbe(c) == probeMask' = probeMask \union {c}

(***************************************************************************)
(* scanBlocksAVX2, one lane.                                               *)
(***************************************************************************)
ScanRow ==
  /\ row < rowEnd
  /\ best' = Offer(best, EntryOf(ix, row))
  /\ row' = row + 1
  /\ UNCHANGED <<ix, q, stage, next, count, rowEnd, probeMask, cutoff, passed, result>>

(***************************************************************************)
(* The loop of probeIVF.                                                   *)
(***************************************************************************)
ProbeStep ==
  /\ stage = "probe" /\ Iterating
  /\ addProbe(ix.near[next]) /\ scanCluster(ix.near[next])
  /\ next' = next + 1
  /\ UNCHANGED <<ix, q, stage, count, best, cutoff, passed, result>>

\* Wrong: without the hasProbe guard.
ExpandStepUnguarded ==
  /\ stage \in Expansions /\ Iterating
  /\ addProbe(ix.near[next]) /\ scanCluster(ix.near[next])
  /\ next' = next + 1
  /\ UNCHANGED <<ix, q, stage, count, best, cutoff, passed, result>>

\* Wrong: a cluster that is skipped does not advance the loop.
ExpandStepStuck ==
  /\ stage \in Expansions /\ Iterating
  /\ IF ix.near[next] \in probeMask
       THEN UNCHANGED <<next, probeMask, row, rowEnd>>
       ELSE addProbe(ix.near[next]) /\ scanCluster(ix.near[next]) /\ next' = next + 1
  /\ UNCHANGED <<ix, q, stage, count, best, cutoff, passed, result>>

(***************************************************************************)
(* The loop of expandProbes.                                               *)
(***************************************************************************)
ExpandStep ==
  /\ stage \in Expansions /\ Iterating
  /\ IF ix.near[next] \in probeMask
       THEN UNCHANGED <<probeMask, row, rowEnd>>
       ELSE addProbe(ix.near[next]) /\ scanCluster(ix.near[next])
  /\ next' = next + 1
  /\ UNCHANGED <<ix, q, stage, count, best, cutoff, passed, result>>

\* Wrong: skips a cluster whose box is exactly at the cutoff.
RepairStepStrict ==
  /\ stage = "repair" /\ Iterating
  /\ IF next - 1 \in probeMask \/ ix.bboxDist[next - 1] >= cutoff
       THEN UNCHANGED <<row, rowEnd>>
       ELSE scanCluster(next - 1)
  /\ next' = next + 1
  /\ UNCHANGED <<ix, q, stage, count, best, probeMask, cutoff, passed, result>>

(***************************************************************************)
(* The loop of repairIVF.  Iteration next is cluster next - 1.  A cluster  *)
(* scanned here is not marked in probeMask.                                *)
(***************************************************************************)
RepairStep ==
  /\ stage = "repair" /\ Iterating
  /\ IF next - 1 \in probeMask \/ ix.bboxDist[next - 1] > cutoff
       THEN UNCHANGED <<row, rowEnd>>
       ELSE scanCluster(next - 1)
  /\ next' = next + 1
  /\ UNCHANGED <<ix, q, stage, count, best, probeMask, cutoff, passed, result>>

-----------------------------------------------------------------------------
Start(pass, n) ==
  stage' = pass /\ next' = 1 /\ count' = n /\ UNCHANGED result

Return(frauds) ==
  stage' = "done" /\ result' = frauds /\ UNCHANGED <<next, count>>

\* Wrong: the last pass is no wider than the second.
DecideNarrow(frauds) ==
  /\ UNCHANGED cutoff
  /\ IF Repair /\ frauds < DenyAt /\ needsApprovalRepair(q)
       THEN Start("approval", topCentroids(ix, AmbiguousNProbe))
     ELSE IF Repair /\ frauds >= DenyAt /\ needsDenialRepair(q)
       THEN Start("denial", topCentroids(ix, AmbiguousNProbe))
     ELSE Return(frauds)

(***************************************************************************)
(* The end of searchIVF, once the count no longer is ambiguous.            *)
(***************************************************************************)
Decide(frauds) ==
  /\ UNCHANGED cutoff
  /\ IF Repair /\ frauds < DenyAt /\ needsApprovalRepair(q)
       THEN Start("approval", topCentroids(ix, MaxIVFProbe))
     ELSE IF Repair /\ frauds >= DenyAt /\ needsDenialRepair(q)
       THEN Start("denial", topCentroids(ix, MaxIVFProbe))
     ELSE Return(frauds)

\* Wrong: takes the distance of the nearest neighbour.
repairIVFNearest ==
  IF best[K].d = MaxInt64
    THEN Decide(countFrauds(best))
    ELSE Start("repair", ix.clusters) /\ cutoff' = best[1].d

\* Wrong: every pass begins with no neighbours.
EndPassForgets ==
  /\ LoopEnded
  /\ passed' = passed \union {stage} /\ best' = newSearchState
  /\ UNCHANGED <<ix, q, row, rowEnd, probeMask>>

(***************************************************************************)
(* repairIVF up to its loop: it does nothing while a slot is empty.        *)
(***************************************************************************)
repairIVF ==
  IF best[K].d = MaxInt64
    THEN Decide(countFrauds(best))
    ELSE Start("repair", ix.clusters) /\ cutoff' = best[K].d

EndPass ==
  /\ LoopEnded
  /\ passed' = passed \union {stage}
  /\ UNCHANGED <<ix, q, row, rowEnd, best, probeMask>>

(***************************************************************************)
(* searchIVF after probeIVF, and after each of the later passes.           *)
(***************************************************************************)
AfterProbe ==
  /\ stage = "probe" /\ EndPass
  /\ IF ~ isAmbiguous(q, countFrauds(best), K)
       THEN Decide(countFrauds(best))
     ELSE IF AmbiguousNProbe > NProbe
       THEN Start("ambiguous", topCentroids(ix, AmbiguousNProbe)) /\ UNCHANGED cutoff
     ELSE IF Repair
       THEN repairIVF
     ELSE Decide(countFrauds(best))

AfterAmbiguous ==
  /\ stage = "ambiguous" /\ EndPass
  /\ IF Repair THEN repairIVF ELSE Decide(countFrauds(best))

AfterRepair ==
  /\ stage = "repair" /\ EndPass
  /\ Decide(countFrauds(best))

AfterApproval ==
  /\ stage = "approval" /\ EndPass /\ UNCHANGED cutoff
  /\ Return(IF countFrauds(best) < DenyAt /\ needsKnownLateDenialRepair(q)
              THEN DenyAt ELSE countFrauds(best))

AfterDenial ==
  /\ stage = "denial" /\ EndPass /\ UNCHANGED cutoff
  /\ Return(countFrauds(best))

Returned == stage = "done" /\ UNCHANGED vars

Next ==
  \/ ScanRow \/ ProbeStep \/ ExpandStep \/ RepairStep
  \/ AfterProbe \/ AfterAmbiguous \/ AfterRepair \/ AfterApproval \/ AfterDenial
  \/ Returned

Spec == Init /\ [][Next]_vars

(***************************************************************************)
(* A search is a sequential function: it runs until it returns.            *)
(***************************************************************************)
FairSpec == Spec /\ WF_vars(Next)

-----------------------------------------------------------------------------
(***************************************************************************)
(* The state of a search is well typed; in particular searchIVF returns an *)
(* index of the six answers of the server (server.Responses).              *)
(***************************************************************************)
TypeOK ==
  /\ ix \in Instances /\ q \in Queries
  /\ stage \in Stages
  /\ count \in 0 .. ix.clusters /\ next \in 1 .. (count + 1)
  /\ row \in Nat /\ rowEnd \in 0 .. ix.listOffsets[ix.clusters]
  /\ best \in [Positions -> Entry]
  /\ probeMask \subseteq Cluster(ix)
  /\ cutoff \in Nat
  /\ passed \subseteq Stages
  /\ result \in -1 .. K

Kept(r) == \E n \in Positions : best[n] = EntryOf(ix, r)

(***************************************************************************)
(* A cluster the search will not look at again, or is scanning now.        *)
(***************************************************************************)
Settled(c) ==
  \/ c \in probeMask
  \/ "repair" \in passed
  \/ stage = "repair" /\ c < next - 1

(***************************************************************************)
(* The five best are ordered by distance, then identifier (insert), so the *)
(* last slot is the bound that scans, boxes and the repair cutoff use.     *)
(***************************************************************************)
BestSorted ==
  \A m, n \in Positions : m < n => ~ Closer(best[n], best[m])

(***************************************************************************)
(* No row of a cluster that has been scanned, or skipped because of its    *)
(* bounding box, is lost: it is kept, or still to come in the scan under   *)
(* way, or no closer than the worst neighbour kept.  Boxes are compared    *)
(* with bounds that move while the passes go on (scan.go:62, repair.go:7). *)
(***************************************************************************)
NothingMissed ==
  \A c \in Cluster(ix) : Settled(c) =>
    \A r \in RowsOf(ix, c) :
      \/ r \in row .. (rowEnd - 1)
      \/ Kept(r)
      \/ ~ Closer(EntryOf(ix, r), best[K])

(***************************************************************************)
(* The cutoff that repairIVF copies once, before its loop, never becomes   *)
(* tighter than the worst neighbour kept: a stale copy may only cost time. *)
(***************************************************************************)
CutoffIsSafe ==
  stage = "repair" => best[K].d <= cutoff

(***************************************************************************)
(* What each pass knows of its loop and of how it was reached.             *)
(***************************************************************************)
PassShape ==
  /\ stage \in Expansions \union {"probe"} =>
       \A n \in 1 .. (next - 1) : ix.near[n] \in probeMask
  /\ stage = "probe" =>
       passed = {} /\ probeMask = {ix.near[n] : n \in 1 .. (next - 1)}
  /\ stage \in {"ambiguous", "repair"} => "repair" \notin passed
  /\ stage = "repair" => count = ix.clusters
  /\ stage \in {"approval", "denial"} => count = topCentroids(ix, MaxIVFProbe)
  /\ stage = "approval" => Repair /\ needsApprovalRepair(q)
  /\ stage = "denial" => Repair /\ needsDenialRepair(q)
  /\ stage = "done" => row >= rowEnd

(***************************************************************************)
(* The inductive invariant that the search loses nothing.                  *)
(***************************************************************************)
SearchInv == TypeOK /\ PassShape /\ BestSorted /\ NothingMissed /\ CutoffIsSafe

(***************************************************************************)
(* A pass of expandProbes after a repair scans clusters the repair has     *)
(* scanned already, which probeMask does not show.                         *)
(***************************************************************************)
Rescans == "repair" \in passed /\ stage \in {"approval", "denial"}

Rescanned == "repair" \in passed /\ passed \intersect {"approval", "denial"} # {}

(***************************************************************************)
(* The neighbours are distinct rows of the index.                          *)
(***************************************************************************)
DistinctNeighbours ==
  \A m, n \in Positions :
    m # n /\ best[m] = best[n] => best[m] = EmptySlot

(***************************************************************************)
(* As long as no pass follows a repair, no row is kept, and its label      *)
(* counted, twice (the hasProbe guard of expandProbes, index.go:105).      *)
(***************************************************************************)
DistinctUntilRescan ==
  Rescans \/ Rescanned \/ DistinctNeighbours

(***************************************************************************)
(* Why it holds: every neighbour kept is a row of a settled cluster that   *)
(* the scan under way will not come to, and a scan is of a settled cluster *)
(* that was not settled when it began.                                     *)
(***************************************************************************)
ScannedOnce ==
  Rescans \/ Rescanned \/
  /\ DistinctNeighbours
  /\ \A n \in Positions :
       \/ best[n] = EmptySlot
       \/ \E c \in Cluster(ix) : /\ Settled(c)
                               /\ \E r \in RowsOf(ix, c) :
                                    r \notin row .. (rowEnd - 1) /\ best[n] = EntryOf(ix, r)
  /\ row < rowEnd =>
       \E c \in Cluster(ix) : Settled(c) /\ row .. (rowEnd - 1) \subseteq RowsOf(ix, c)

(***************************************************************************)
(* The fraud rows among the K nearest of a set of rows.                    *)
(***************************************************************************)
FraudsNearest(rows) ==
  LET closer(r) == {s \in rows : Closer(EntryOf(ix, s), EntryOf(ix, r))}
  IN  Cardinality({r \in rows : ix.labels[r] /\ Cardinality(closer(r)) < K})

ScannedRows ==
  IF "repair" \in passed THEN Row(ix)
  ELSE UNION {RowsOf(ix, c) : c \in probeMask}

(***************************************************************************)
(* The answer of a search is the number of frauds among the K nearest rows *)
(* of the clusters it has been through, and of the whole index once it has *)
(* repaired: leaving clusters out by their boxes changes no answer.  A     *)
(* known late denial is the one answer that is not a count (index.go:75);  *)
(* a pass after a repair is excepted, see DistinctNeighbours.              *)
(***************************************************************************)
AnswerIsExact ==
  stage = "done" =>
    \/ result = FraudsNearest(ScannedRows)
    \/ needsKnownLateDenialRepair(q) /\ "approval" \in passed /\ result = DenyAt
    \/ Rescanned

(***************************************************************************)
(* When the NProbe nearest clusters hold K rows or are all there is, the   *)
(* first pass ends with K neighbours or the whole index seen, so repairIVF *)
(* does not return early (repair.go:8) while clusters are left unseen.     *)
(***************************************************************************)
FirstPassFills ==
  "probe" \in passed => best[K].d < MaxInt64 \/ probeMask = Cluster(ix)

(***************************************************************************)
(* An approval that a rule doubts, and a denial that a rule doubts, is     *)
(* returned only after the MaxIVFProbe nearest clusters have been searched *)
(* (index.go:72-84): no path through the passes gets round it.             *)
(***************************************************************************)
DoubtfulAnswersAreSearched ==
  /\ stage = "done" /\ Repair
  /\ \/ result < DenyAt /\ needsApprovalRepair(q)
     \/ result >= DenyAt /\ needsDenialRepair(q)
  => \A n \in 1 .. topCentroids(ix, MaxIVFProbe) : Settled(ix.near[n])

(***************************************************************************)
(* A query of the known late denials is denied whatever the neighbours     *)
(* are: the override sits in the approval branch, which every such query   *)
(* with an approval count enters (index.go:72-77, repair.go:71-75).        *)
(***************************************************************************)
LateDenialsAreDenied ==
  stage = "done" /\ Repair /\ needsKnownLateDenialRepair(q) => result >= DenyAt

(***************************************************************************)
(* A search never gets worse: from pass to pass the worst neighbour only   *)
(* comes closer, so a box once skipped stays useless.                      *)
(***************************************************************************)
WorstOnlyImproves == [][~ Closer(best[K], best'[K])]_vars

(***************************************************************************)
(* Every search returns.                                                   *)
(***************************************************************************)
SearchReturns == <>(stage = "done")

(***************************************************************************)
(* The rows the search has looked at: those of settled clusters up to the  *)
(* scan under way.  A row in a box that was passed over counts as looked   *)
(* at, for nothing would have come of it.                                  *)
(***************************************************************************)
SeenRows ==
  IF "repair" \in passed THEN Row(ix)
  ELSE {r \in Row(ix) \ (row .. (rowEnd - 1)) :
          \E c \in Cluster(ix) : Settled(c) /\ r \in RowsOf(ix, c)}

Promise == INSTANCE KNearest WITH
  rows    <- {EntryOf(ix, r) : r \in Row(ix)},
  seen    <- {EntryOf(ix, r) : r \in SeenRows},
  nearest <- {best[n] : n \in Positions} \ {EmptySlot},
  answer  <- result,
  lapsed  <- Rescans \/ Rescanned

(***************************************************************************)
(* The search implements KNearest: at every moment of every pass, boxes    *)
(* passed over and ties included, the neighbours kept are the K nearest of *)
(* what has been looked at (scan.go:44-66, repair.go:6-19, index.go:92).   *)
(***************************************************************************)
KeepsNearest == Promise!Spec
=============================================================================
