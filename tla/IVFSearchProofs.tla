-------------------------- MODULE IVFSearchProofs ---------------------------
(***************************************************************************)
(* Proofs about IVFSearch for every index, query, number of neighbours and *)
(* number of probes: that nothing is lost and nothing counted twice, that  *)
(* the answer of a search is the exact count, and that a search implements *)
(* KNearest.                                                               *)
(***************************************************************************)
EXTENDS IVFSearch, SearchLemmas

-----------------------------------------------------------------------------
(***************************************************************************)
(* Facts about the index and the query, which never change.                *)
(***************************************************************************)
LEMMA ClusterFacts ==
  ASSUME NEW i \in Instances, NEW c \in Cluster(i)
  PROVE  /\ i.listOffsets[c] \in Nat
         /\ i.listOffsets[c + 1] \in 0 .. i.listOffsets[i.clusters]
         /\ RowsOf(i, c) \subseteq Row(i)
         /\ i.bboxDist[c] \in Nat
         /\ \A r \in RowsOf(i, c) : i.bboxDist[c] <= i.dist[r]
<1>1. WellFormed(i)
  BY InstanceAssumption
<1>2. /\ i.clusters \in Nat \ {0} /\ c \in 0 .. i.clusters /\ c + 1 \in 0 .. i.clusters
      /\ i.clusters \in 0 .. i.clusters
  BY <1>1 DEF WellFormed, Cluster
<1>3. /\ i.listOffsets[c] \in Nat /\ i.listOffsets[c + 1] \in Nat
      /\ i.listOffsets[i.clusters] \in Nat
  BY <1>1, <1>2 DEF WellFormed
<1>4. i.listOffsets[c + 1] <= i.listOffsets[i.clusters]
  BY <1>1, <1>2 DEF WellFormed
<1>5. i.bboxDist[c] \in Nat /\ \A r \in RowsOf(i, c) : i.bboxDist[c] <= i.dist[r]
  BY <1>1 DEF WellFormed
<1>6. QED
  BY <1>3, <1>4, <1>5 DEF RowsOf, Row

LEMMA RowFacts ==
  ASSUME NEW i \in Instances
  PROVE  /\ i.clusters \in Nat \ {0}
         /\ i.listOffsets[i.clusters] \in Nat
         /\ \A r \in Row(i) : EntryOf(i, r) \in Entry /\ EntryOf(i, r).d < MaxInt64
         /\ \A r \in Row(i) : \E c \in Cluster(i) : r \in RowsOf(i, c)
         /\ \A n \in 1 .. i.clusters : i.near[n] \in Cluster(i)
<1>1. WellFormed(i)
  BY InstanceAssumption
<1>2. i.clusters \in Nat \ {0} /\ i.listOffsets[i.clusters] \in Nat
  BY <1>1 DEF WellFormed
<1>3. ASSUME NEW r \in Row(i)
      PROVE  EntryOf(i, r) \in Entry /\ EntryOf(i, r).d < MaxInt64
  <2>1. /\ i.dist[r] \in 0 .. (MaxInt64 - 1) /\ i.origIDs[r] \in 0 .. (MaxUint32 - 1)
        /\ i.labels[r] \in BOOLEAN
    BY <1>1 DEF WellFormed
  <2>2. i.dist[r] \in Nat /\ i.dist[r] < MaxInt64 /\ i.origIDs[r] \in Nat
    BY <2>1, SentinelAssumption
  <2> QED BY <2>1, <2>2 DEF EntryOf, Entry
<1>4. QED
  BY <1>1, <1>2, <1>3 DEF WellFormed

LEMMA TopCentroidsType ==
  ASSUME NEW i \in Instances, NEW n \in Nat
  PROVE  topCentroids(i, n) \in 0 .. i.clusters
BY RowFacts, ProbeAssumption DEF topCentroids, Smaller

(***************************************************************************)
(* A row of a cluster whose box is beyond the worst neighbour is no closer *)
(* than that neighbour.                                                    *)
(***************************************************************************)
LEMMA BoxExcludes ==
  ASSUME NEW i \in Instances, NEW c \in Cluster(i), NEW w \in Entry,
         i.bboxDist[c] > w.d, NEW r \in RowsOf(i, c)
  PROVE  ~ Closer(EntryOf(i, r), w)
<1>1. i.bboxDist[c] \in Nat /\ i.bboxDist[c] <= i.dist[r] /\ r \in Row(i)
  BY ClusterFacts
<1>2. EntryOf(i, r) \in Entry
  BY <1>1, RowFacts
<1>3. i.dist[r] \in Nat /\ w.d \in Nat
  BY <1>2 DEF Entry, EntryOf
<1>4. QED
  BY <1>1, <1>3 DEF Closer, EntryOf

LEMMA InitType == Init => TypeOK
<1> SUFFICES ASSUME Init PROVE TypeOK
  OBVIOUS
<1>1. count \in 0 .. ix.clusters
  BY TopCentroidsType, ProbeAssumption DEF Init
<1>2. next \in 1 .. (count + 1)
  BY <1>1, RowFacts DEF Init
<1>3. best \in [Positions -> Entry]
  BY EmptySlotType DEF Init, Kepts
<1>4. rowEnd \in 0 .. ix.listOffsets[ix.clusters]
  BY RowFacts DEF Init
<1>5. QED
  BY <1>1, <1>2, <1>3, <1>4, KAssumption DEF Init, TypeOK, Stages

(***************************************************************************)
(* What the branches at the end of a pass may do to the loop and result.   *)
(***************************************************************************)
LEMMA DecideType ==
  ASSUME TypeOK, NEW f \in 0 .. K, Decide(f)
  PROVE  /\ stage' \in Stages /\ count' \in 0 .. ix.clusters
         /\ next' \in 1 .. (count' + 1) /\ cutoff' \in Nat /\ result' \in -1 .. K
<1>1. topCentroids(ix, MaxIVFProbe) \in 0 .. ix.clusters
  BY TopCentroidsType, ProbeAssumption DEF TypeOK
<1>2. ix.clusters \in Nat
  BY RowFacts DEF TypeOK
<1>3. QED
  BY <1>1, <1>2, KAssumption DEF Decide, Start, Return, TypeOK, Stages, Expansions

LEMMA RepairType ==
  ASSUME TypeOK, repairIVF
  PROVE  /\ stage' \in Stages /\ count' \in 0 .. ix.clusters
         /\ next' \in 1 .. (count' + 1) /\ cutoff' \in Nat /\ result' \in -1 .. K
<1>1. ix.clusters \in Nat /\ best[K].d \in Nat
  BY RowFacts, KAssumption DEF TypeOK, Entry, Positions
<1>2. CASE Decide(countFrauds(best))
  BY <1>2, CountType, DecideType
<1>3. CASE Start("repair", ix.clusters) /\ cutoff' = best[K].d
  BY <1>1, <1>3 DEF Start, TypeOK, Stages
<1>4. QED
  BY <1>2, <1>3 DEF repairIVF

LEMMA NextType == TypeOK /\ [Next]_vars => TypeOK'
<1> SUFFICES ASSUME TypeOK, [Next]_vars PROVE TypeOK'
  OBVIOUS
<1> USE DEF TypeOK
<1>0. /\ ix.clusters \in Nat /\ ix.listOffsets[ix.clusters] \in Nat
      /\ count \in Nat /\ next \in Nat /\ rowEnd \in Nat
  BY RowFacts
<1>1. CASE ScanRow
  <2>1. row \in Row(ix)
    BY <1>0, <1>1 DEF ScanRow, Row
  <2>2. best' \in [Positions -> Entry]
    <3>1. CASE Closer(EntryOf(ix, row), best[K])
      <4>1. EntryOf(ix, row) \in Entry
        BY <2>1, RowFacts
      <4>2. Insert(best, EntryOf(ix, row)) \in [Positions -> Entry]
        BY <4>1, KAssumption DEF Insert, Positions
      <4> QED BY <1>1, <3>1, <4>2 DEF ScanRow, Offer
    <3>2. CASE ~ Closer(EntryOf(ix, row), best[K])
      BY <1>1, <3>2 DEF ScanRow, Offer
    <3> QED BY <3>1, <3>2
  <2> QED BY <1>1, <2>2 DEF ScanRow
<1>2. ASSUME NEW c \in Cluster(ix), scanCluster(c)
      PROVE  row' \in Nat /\ rowEnd' \in 0 .. ix.listOffsets[ix.clusters]
  BY <1>2, ClusterFacts DEF scanCluster
<1>3. next <= count => ix.near[next] \in Cluster(ix) /\ next - 1 \in Cluster(ix)
  <2>1. next <= count => next \in 1 .. ix.clusters
    BY <1>0
  <2> QED BY <1>0, <2>1, RowFacts DEF Cluster
<1>4. next <= count => next + 1 \in 1 .. (count + 1)
  BY <1>0
<1>5. CASE ProbeStep
  BY <1>2, <1>3, <1>4, <1>5 DEF ProbeStep, Iterating, addProbe
<1>6. CASE ExpandStep
  <2>1. probeMask' \subseteq Cluster(ix)
    BY <1>3, <1>6 DEF ExpandStep, Iterating, addProbe
  <2>2. row' \in Nat /\ rowEnd' \in 0 .. ix.listOffsets[ix.clusters]
    BY <1>2, <1>3, <1>6 DEF ExpandStep, Iterating
  <2> QED BY <1>4, <1>6, <2>1, <2>2 DEF ExpandStep, Iterating
<1>7. CASE RepairStep
  <2>1. row' \in Nat /\ rowEnd' \in 0 .. ix.listOffsets[ix.clusters]
    BY <1>2, <1>3, <1>7 DEF RepairStep, Iterating
  <2> QED BY <1>4, <1>7, <2>1 DEF RepairStep, Iterating
<1>8. ASSUME EndPass,
             /\ stage' \in Stages /\ count' \in 0 .. ix.clusters
             /\ next' \in 1 .. (count' + 1) /\ cutoff' \in Nat /\ result' \in -1 .. K
      PROVE  TypeOK'
  BY <1>8 DEF EndPass
<1>9. countFrauds(best) \in 0 .. K
  BY CountType
<1>10. CASE AfterProbe
  <2>1. CASE Decide(countFrauds(best))
    BY <1>8, <1>9, <1>10, <2>1, DecideType DEF AfterProbe
  <2>2. CASE repairIVF
    BY <1>8, <1>10, <2>2, RepairType DEF AfterProbe
  <2>3. CASE Start("ambiguous", topCentroids(ix, AmbiguousNProbe)) /\ UNCHANGED cutoff
    <3>1. topCentroids(ix, AmbiguousNProbe) \in 0 .. ix.clusters
      BY TopCentroidsType, ProbeAssumption
    <3> QED BY <1>0, <1>8, <1>10, <2>3, <3>1 DEF AfterProbe, Start, Stages, Expansions
  <2> QED BY <1>10, <2>1, <2>2, <2>3 DEF AfterProbe
<1>11. CASE AfterAmbiguous
  <2>1. CASE Decide(countFrauds(best))
    BY <1>8, <1>9, <1>11, <2>1, DecideType DEF AfterAmbiguous
  <2>2. CASE repairIVF
    BY <1>8, <1>11, <2>2, RepairType DEF AfterAmbiguous
  <2> QED BY <1>11, <2>1, <2>2 DEF AfterAmbiguous
<1>12. CASE AfterRepair
  BY <1>8, <1>9, <1>12, DecideType DEF AfterRepair
<1>13. CASE AfterApproval
  BY <1>8, <1>9, <1>13, DenyAtAssumption, KAssumption DEF AfterApproval, Return, Stages
<1>14. CASE AfterDenial
  BY <1>8, <1>9, <1>14, KAssumption DEF AfterDenial, Return, Stages
<1>15. CASE UNCHANGED vars
  BY <1>15 DEF vars
<1>16. QED
  BY <1>1, <1>5, <1>6, <1>7, <1>10, <1>11, <1>12, <1>13, <1>14, <1>15
  DEF Next, Returned

(***************************************************************************)
(* The state of a search is well typed, and searchIVF returns one of the   *)
(* counts 0..K, for which the server has an answer.                        *)
(***************************************************************************)
THEOREM TypeCorrect == Spec => []TypeOK
BY InitType, NextType, PTL DEF Spec

-----------------------------------------------------------------------------
LEMMA InitSafe == Init => SearchInv
<1> SUFFICES ASSUME Init PROVE SearchInv
  OBVIOUS
<1>1. TypeOK
  BY InitType
<1>2. PassShape
  BY DEF Init, PassShape, Expansions
<1>3. BestSorted
  BY SentinelAssumption DEF Init, BestSorted, newSearchState, EmptySlot, Closer, Positions
<1>4. NothingMissed
  BY DEF Init, NothingMissed, Settled
<1>5. CutoffIsSafe
  BY DEF Init, CutoffIsSafe
<1>6. QED
  BY <1>1, <1>2, <1>3, <1>4, <1>5 DEF SearchInv

(***************************************************************************)
(* The end of a pass: whatever starts next, what was settled stays so.     *)
(***************************************************************************)
LEMMA DecideShape ==
  ASSUME TypeOK, EndPass, NEW f, Decide(f)
  PROVE  PassShape' /\ CutoffIsSafe'
<1>1. row' >= rowEnd'
  BY DEF EndPass, LoopEnded
<1>2. QED
  BY <1>1 DEF Decide, Start, Return, EndPass, PassShape, CutoffIsSafe, Expansions

LEMMA EndPassShape ==
  ASSUME TypeOK, EndPass, stage \in {"probe", "ambiguous"}, PassShape,
         Decide(countFrauds(best)) \/ repairIVF
  PROVE  PassShape' /\ CutoffIsSafe'
<1>1. CASE Decide(countFrauds(best))
  BY <1>1, DecideShape
<1>2. CASE Start("repair", ix.clusters) /\ cutoff' = best[K].d
  <2>1. best'[K].d <= cutoff'
    BY <1>2, KAssumption DEF EndPass, TypeOK, Entry, Positions
  <2>2. PassShape'
    BY <1>2 DEF Start, EndPass, PassShape, Expansions
  <2> QED BY <2>1, <2>2 DEF CutoffIsSafe
<1>3. QED
  BY <1>1, <1>2 DEF repairIVF

LEMMA EndPassMisses ==
  ASSUME TypeOK, EndPass, NothingMissed, PassShape, next' = 1 \/ stage' = "done"
  PROVE  NothingMissed'
<1>1. row >= rowEnd /\ next > count /\ row \in Nat /\ rowEnd \in Nat
  BY RowFacts DEF EndPass, LoopEnded, TypeOK
<1>2. ASSUME NEW c \in Cluster(ix), Settled(c)' PROVE Settled(c)
  <2>1. c \in Nat /\ c < ix.clusters
    BY RowFacts DEF Cluster, TypeOK
  <2>2. CASE stage = "repair"
    <3>1. next > ix.clusters
      BY <1>1, <2>2 DEF PassShape
    <3> QED BY <2>1, <2>2, <3>1, RowFacts DEF Settled, TypeOK
  <2>3. CASE stage # "repair"
    BY <1>2, <2>1, <2>3 DEF Settled, EndPass
  <2> QED BY <2>2, <2>3
<1>3. QED
  BY <1>2 DEF NothingMissed, EndPass, Kept

(***************************************************************************)
(* One row of a scan.                                                      *)
(***************************************************************************)
LEMMA ScanRowSafe == SearchInv /\ ScanRow => SearchInv'
<1> SUFFICES ASSUME SearchInv, ScanRow PROVE SearchInv'
  OBVIOUS
<1> DEFINE e == EntryOf(ix, row)
<1>1. TypeOK' /\ TypeOK
  BY NextType DEF SearchInv, Next
<1>2. row \in Row(ix) /\ e \in Entry
  BY <1>1, RowFacts DEF ScanRow, Row, TypeOK
<1>3. /\ best \in Kepts /\ KeptSorted(best) /\ best' \in Kepts
      /\ best[K] \in Entry /\ best'[K] \in Entry
  <2>1. best \in Kepts /\ best' \in Kepts
    BY <1>1 DEF Kepts, TypeOK
  <2>2. KeptSorted(best)
    BY DEF SearchInv, BestSorted, KeptSorted
  <2> QED BY <2>1, <2>2, KAssumption DEF Kepts, Positions
<1>4. /\ KeptSorted(best')
      /\ ~ Closer(best[K], best'[K])
      /\ (\E n \in Positions : best'[n] = e) \/ ~ Closer(e, best'[K])
      /\ \A n \in Positions :
           (\E m \in Positions : best'[m] = best[n]) \/ ~ Closer(best[n], best'[K])
  <2>1. best' = Offer(best, e)
    BY DEF ScanRow
  <2> QED BY <1>2, <1>3, <2>1, OfferFacts
<1>5. PassShape'
  BY <1>1, RowFacts DEF SearchInv, PassShape, ScanRow, TypeOK
<1>6. BestSorted'
  BY <1>4 DEF BestSorted, KeptSorted
<1>7. CutoffIsSafe'
  BY <1>3, <1>4 DEF SearchInv, CutoffIsSafe, ScanRow, Closer, Entry, TypeOK
<1>8. NothingMissed'
  <2> SUFFICES ASSUME NEW c \in Cluster(ix), Settled(c)', NEW r \in RowsOf(ix, c)
               PROVE  \/ r \in row' .. (rowEnd' - 1)
                      \/ Kept(r)'
                      \/ ~ Closer(EntryOf(ix, r), best'[K])
    BY DEF NothingMissed, ScanRow
  <2>1. \/ r \in row .. (rowEnd - 1)
        \/ Kept(r)
        \/ ~ Closer(EntryOf(ix, r), best[K])
    BY DEF SearchInv, NothingMissed, Settled, ScanRow
  <2>2. EntryOf(ix, r) \in Entry
    BY <1>1, ClusterFacts, RowFacts DEF TypeOK
  <2>3. CASE r \in row .. (rowEnd - 1)
    <3>1. CASE r = row
      BY <1>4, <3>1 DEF Kept, ScanRow
    <3>2. CASE r # row
      BY <1>1, <2>3, <3>2, RowFacts DEF ScanRow, TypeOK
    <3> QED BY <3>1, <3>2
  <2>4. CASE Kept(r)
    BY <1>4, <2>4 DEF Kept, ScanRow
  <2>5. CASE ~ Closer(EntryOf(ix, r), best[K])
    BY <1>3, <1>4, <2>2, <2>5, CloserIsOrder
  <2> QED BY <2>1, <2>3, <2>4, <2>5
<1>9. QED
  BY <1>1, <1>5, <1>6, <1>7, <1>8 DEF SearchInv

(***************************************************************************)
(* The start of a cluster: skipped because of its box, or to be scanned.   *)
(***************************************************************************)
LEMMA ClusterCovered ==
  ASSUME TypeOK, NEW c \in Cluster(ix), scanCluster(c), ix' = ix, best' = best,
         NEW r \in RowsOf(ix, c)
  PROVE  r \in row' .. (rowEnd' - 1) \/ ~ Closer(EntryOf(ix, r), best'[K])
<1>1. best[K] \in Entry
  BY KAssumption DEF TypeOK, Positions
<1>2. CASE ix.bboxDist[c] > best[K].d
  BY <1>1, <1>2, BoxExcludes DEF TypeOK
<1>3. CASE ~ (ix.bboxDist[c] > best[K].d)
  BY <1>3 DEF scanCluster, RowsOf
<1>4. QED
  BY <1>2, <1>3

(***************************************************************************)
(* An iteration of a loop over clusters, when it leaves row and rowEnd     *)
(* alone or starts a scan, keeps what the earlier ones established.        *)
(***************************************************************************)
LEMMA EarlierCovered ==
  ASSUME TypeOK, NothingMissed, row >= rowEnd, ix' = ix, best' = best,
         NEW c \in Cluster(ix), Settled(c), NEW r \in RowsOf(ix, c)
  PROVE  Kept(r)' \/ ~ Closer(EntryOf(ix, r), best'[K])
<1>1. r \notin row .. (rowEnd - 1)
  BY RowFacts DEF TypeOK
<1>2. QED
  BY <1>1 DEF NothingMissed, Kept

LEMMA ProbeStepSafe == SearchInv /\ ProbeStep => SearchInv'
<1> SUFFICES ASSUME SearchInv, ProbeStep PROVE SearchInv'
  OBVIOUS
<1>1. TypeOK' /\ TypeOK
  BY NextType DEF SearchInv, Next
<1>2. /\ next \in 1 .. ix.clusters /\ ix.near[next] \in Cluster(ix) /\ next \in Nat
      /\ 1 .. (next' - 1) = 1 .. (next - 1) \union {next}
  BY <1>1, RowFacts DEF ProbeStep, Iterating, TypeOK
<1>3. probeMask' = probeMask \union {ix.near[next]} /\ stage' = stage /\ ix' = ix
  BY DEF ProbeStep, addProbe
<1>4. PassShape'
  <2>1. \A n \in 1 .. (next' - 1) : ix'.near[n] \in probeMask'
    BY <1>2, <1>3 DEF SearchInv, PassShape, ProbeStep
  <2>2. probeMask' = {ix'.near[n] : n \in 1 .. (next' - 1)}
    BY <1>2, <1>3 DEF SearchInv, PassShape, ProbeStep
  <2> QED BY <2>1, <2>2 DEF SearchInv, PassShape, ProbeStep
<1>5. BestSorted' /\ CutoffIsSafe'
  BY DEF SearchInv, BestSorted, CutoffIsSafe, ProbeStep
<1>6. NothingMissed'
  <2> SUFFICES ASSUME NEW c \in Cluster(ix), Settled(c)', NEW r \in RowsOf(ix, c)
               PROVE  \/ r \in row' .. (rowEnd' - 1)
                      \/ Kept(r)'
                      \/ ~ Closer(EntryOf(ix, r), best'[K])
    BY <1>3 DEF NothingMissed
  <2>1. CASE c = ix.near[next]
    BY <1>1, <2>1, ClusterCovered DEF ProbeStep
  <2>2. CASE c # ix.near[next]
    <3>1. Settled(c)
      BY <1>3, <2>2 DEF Settled, ProbeStep
    <3> QED BY <1>1, <3>1, EarlierCovered DEF SearchInv, ProbeStep, Iterating
  <2> QED BY <2>1, <2>2
<1>7. QED
  BY <1>1, <1>4, <1>5, <1>6 DEF SearchInv

LEMMA ExpandStepSafe == SearchInv /\ ExpandStep => SearchInv'
<1> SUFFICES ASSUME SearchInv, ExpandStep PROVE SearchInv'
  OBVIOUS
<1>1. TypeOK' /\ TypeOK
  BY NextType DEF SearchInv, Next
<1>2. /\ next \in 1 .. ix.clusters /\ ix.near[next] \in Cluster(ix) /\ next \in Nat
      /\ 1 .. (next' - 1) = 1 .. (next - 1) \union {next}
  BY <1>1, RowFacts DEF ExpandStep, Iterating, TypeOK
<1>3. probeMask' = probeMask \union {ix.near[next]} /\ stage' = stage /\ ix' = ix
  BY DEF ExpandStep, addProbe
<1>4. PassShape'
  <2>1. \A n \in 1 .. (next' - 1) : ix'.near[n] \in probeMask'
    BY <1>2, <1>3 DEF SearchInv, PassShape, ExpandStep
  <2>2. stage' # "probe" /\ stage' # "done"
    BY <1>3 DEF ExpandStep, Expansions
  <2> QED BY <1>3, <2>1, <2>2 DEF SearchInv, PassShape, ExpandStep
<1>5. BestSorted' /\ CutoffIsSafe'
  BY DEF SearchInv, BestSorted, CutoffIsSafe, ExpandStep
<1>6. NothingMissed'
  <2> SUFFICES ASSUME NEW c \in Cluster(ix), Settled(c)', NEW r \in RowsOf(ix, c)
               PROVE  \/ r \in row' .. (rowEnd' - 1)
                      \/ Kept(r)'
                      \/ ~ Closer(EntryOf(ix, r), best'[K])
    BY <1>3 DEF NothingMissed
  <2>1. CASE Settled(c)
    BY <1>1, <2>1, EarlierCovered DEF SearchInv, ExpandStep, Iterating
  <2>2. CASE ~ Settled(c)
    <3>1. c = ix.near[next] /\ c \notin probeMask
      BY <1>3, <2>2 DEF Settled, ExpandStep, Expansions
    <3> QED BY <1>1, <3>1, ClusterCovered DEF ExpandStep
  <2> QED BY <2>1, <2>2
<1>7. QED
  BY <1>1, <1>4, <1>5, <1>6 DEF SearchInv

LEMMA RepairStepSafe == SearchInv /\ RepairStep => SearchInv'
<1> SUFFICES ASSUME SearchInv, RepairStep PROVE SearchInv'
  OBVIOUS
<1>1. TypeOK' /\ TypeOK
  BY NextType DEF SearchInv, Next
<1>2. next \in 1 .. ix.clusters /\ next \in Nat /\ next - 1 \in Cluster(ix)
  BY <1>1, RowFacts DEF RepairStep, Iterating, TypeOK, Cluster
<1>3. stage' = stage /\ ix' = ix /\ best' = best /\ next' = next + 1
  BY DEF RepairStep
<1>4. PassShape'
  BY DEF SearchInv, PassShape, RepairStep, Expansions
<1>5. BestSorted' /\ CutoffIsSafe'
  BY DEF SearchInv, BestSorted, CutoffIsSafe, RepairStep
<1>6. NothingMissed'
  <2> SUFFICES ASSUME NEW c \in Cluster(ix), Settled(c)', NEW r \in RowsOf(ix, c)
               PROVE  \/ r \in row' .. (rowEnd' - 1)
                      \/ Kept(r)'
                      \/ ~ Closer(EntryOf(ix, r), best'[K])
    BY <1>3 DEF NothingMissed
  <2>0. c \in Nat
    BY <1>1, RowFacts DEF Cluster, TypeOK
  <2>1. CASE Settled(c)
    BY <1>1, <1>3, <2>1, EarlierCovered DEF SearchInv, RepairStep, Iterating
  <2>2. CASE ~ Settled(c)
    <3>1. c = next - 1 /\ c \notin probeMask
      BY <1>2, <1>3, <2>0, <2>2 DEF Settled, RepairStep
    <3>2. CASE ix.bboxDist[c] > cutoff
      <4>1. best[K] \in Entry /\ best[K].d <= cutoff
        BY <1>1, KAssumption DEF SearchInv, CutoffIsSafe, RepairStep, TypeOK, Positions
      <4>2. best[K].d \in Nat /\ cutoff \in Nat /\ ix.bboxDist[c] \in Nat
        BY <1>1, <4>1, ClusterFacts DEF Entry, TypeOK
      <4>3. ix.bboxDist[c] > best[K].d
        BY <3>2, <4>1, <4>2
      <4> QED BY <1>1, <1>3, <4>1, <4>3, BoxExcludes DEF TypeOK
    <3>3. CASE ~ (ix.bboxDist[c] > cutoff)
      BY <1>1, <1>3, <3>1, <3>3, ClusterCovered DEF RepairStep
    <3> QED BY <3>2, <3>3
  <2> QED BY <2>1, <2>2
<1>7. QED
  BY <1>1, <1>4, <1>5, <1>6 DEF SearchInv

(***************************************************************************)
(* The ends of the passes change neither the neighbours nor the mask.      *)
(***************************************************************************)
LEMMA AfterPassSafe ==
  ASSUME SearchInv,
         AfterProbe \/ AfterAmbiguous \/ AfterRepair \/ AfterApproval \/ AfterDenial
  PROVE  SearchInv'
<1>1. TypeOK' /\ TypeOK /\ EndPass
  BY NextType
  DEF SearchInv, Next, AfterProbe, AfterAmbiguous, AfterRepair, AfterApproval, AfterDenial
<1>2. PassShape' /\ CutoffIsSafe'
  <2>1. CASE AfterProbe \/ AfterAmbiguous
    <3>1. CASE Decide(countFrauds(best)) \/ repairIVF
      BY <1>1, <2>1, <3>1, EndPassShape DEF SearchInv, AfterProbe, AfterAmbiguous
    <3>2. CASE /\ AfterProbe /\ UNCHANGED cutoff
               /\ Start("ambiguous", topCentroids(ix, AmbiguousNProbe))
      BY <1>1, <3>2
      DEF SearchInv, AfterProbe, Start, EndPass, PassShape, CutoffIsSafe, Expansions
    <3> QED BY <2>1, <3>1, <3>2 DEF AfterProbe, AfterAmbiguous
  <2>2. CASE AfterRepair
    BY <1>1, <2>2, DecideShape DEF AfterRepair
  <2>3. CASE AfterApproval \/ AfterDenial
    <3>1. row' >= rowEnd'
      BY <1>1 DEF EndPass, LoopEnded
    <3> QED BY <2>3, <3>1
            DEF AfterApproval, AfterDenial, Return, PassShape, CutoffIsSafe, Expansions
  <2> QED BY <2>1, <2>2, <2>3
<1>3. next' = 1 \/ stage' = "done"
  BY DEF AfterProbe, AfterAmbiguous, AfterRepair, AfterApproval, AfterDenial,
         Decide, repairIVF, Start, Return
<1>4. NothingMissed'
  BY <1>1, <1>3, EndPassMisses DEF SearchInv
<1>5. BestSorted'
  BY <1>1 DEF EndPass, SearchInv, BestSorted
<1>6. QED
  BY <1>1, <1>2, <1>4, <1>5 DEF SearchInv

LEMMA NextSafe == SearchInv /\ [Next]_vars => SearchInv'
<1> SUFFICES ASSUME SearchInv, [Next]_vars PROVE SearchInv'
  OBVIOUS
<1>1. CASE ScanRow
  BY <1>1, ScanRowSafe
<1>2. CASE ProbeStep
  BY <1>2, ProbeStepSafe
<1>3. CASE ExpandStep
  BY <1>3, ExpandStepSafe
<1>4. CASE RepairStep
  BY <1>4, RepairStepSafe
<1>5. CASE AfterProbe \/ AfterAmbiguous \/ AfterRepair \/ AfterApproval \/ AfterDenial
  BY <1>5, AfterPassSafe
<1>6. CASE UNCHANGED vars
  <2>1. TypeOK'
    BY <1>6, NextType DEF SearchInv
  <2> QED BY <1>6, <2>1
          DEF SearchInv, vars, PassShape, BestSorted, NothingMissed, CutoffIsSafe, Settled, Kept
<1>7. QED
  BY <1>1, <1>2, <1>3, <1>4, <1>5, <1>6 DEF Next, Returned

(***************************************************************************)
(* A search loses nothing: whatever it has scanned, or left out because of *)
(* a bounding box, is kept or no closer than the worst neighbour.  Boxes   *)
(* are compared with the worst neighbour in scanCluster and with a copy of *)
(* it in repairIVF.                                                        *)
(***************************************************************************)
THEOREM SearchSafe == Spec => []SearchInv
BY InitSafe, NextSafe, PTL DEF Spec

THEOREM NothingIsMissed == Spec => [](NothingMissed /\ BestSorted)
<1>1. SearchInv => NothingMissed /\ BestSorted
  BY DEF SearchInv
<1>2. QED
  BY <1>1, SearchSafe, PTL

(***************************************************************************)
(* The copy of the worst distance that repairIVF makes before its loop is  *)
(* never tighter than the worst neighbour, while the scans in the loop     *)
(* move that on: no box is left out that could hold a closer row.          *)
(***************************************************************************)
THEOREM CutoffSafe == Spec => []CutoffIsSafe
<1>1. SearchInv => CutoffIsSafe
  BY DEF SearchInv
<1>2. QED
  BY <1>1, SearchSafe, PTL

(***************************************************************************)
(* After a repair every row of the index, in whatever cluster, is kept or  *)
(* no closer than the worst neighbour when the search returns.             *)
(***************************************************************************)
RepairedIsComplete ==
  stage = "done" /\ "repair" \in passed =>
    \A r \in Row(ix) : Kept(r) \/ ~ Closer(EntryOf(ix, r), best[K])

THEOREM RepairIsComplete == Spec => []RepairedIsComplete
<1>1. SearchInv => RepairedIsComplete
  <2> SUFFICES ASSUME SearchInv, stage = "done", "repair" \in passed, NEW r \in Row(ix)
               PROVE  Kept(r) \/ ~ Closer(EntryOf(ix, r), best[K])
    BY DEF RepairedIsComplete
  <2>1. PICK c \in Cluster(ix) : r \in RowsOf(ix, c)
    BY RowFacts DEF SearchInv, TypeOK
  <2>2. r \notin row .. (rowEnd - 1)
    BY RowFacts DEF SearchInv, PassShape, TypeOK
  <2> QED BY <2>1, <2>2 DEF SearchInv, NothingMissed, Settled
<1>2. QED
  BY <1>1, SearchSafe, PTL

(***************************************************************************)
(* The worst neighbour only comes closer: only a scanned row changes the   *)
(* neighbours, and insert never lets in one that is farther.               *)
(***************************************************************************)
THEOREM WorstImproves == Spec => WorstOnlyImproves
<1>1. SearchInv /\ [Next]_vars => [~ Closer(best[K], best'[K])]_vars
  <2> SUFFICES ASSUME SearchInv, Next
               PROVE  ~ Closer(best[K], best'[K])
    OBVIOUS
  <2>0. best \in Kepts /\ KeptSorted(best) /\ best[K] \in Entry
    BY KAssumption DEF SearchInv, TypeOK, Kepts, Positions, BestSorted, KeptSorted
  <2>1. CASE ScanRow
    <3>1. row \in Row(ix)
      BY <2>1, RowFacts DEF ScanRow, Row, SearchInv, TypeOK
    <3>2. EntryOf(ix, row) \in Entry
      BY <3>1, RowFacts DEF SearchInv, TypeOK
    <3> QED BY <2>0, <2>1, <3>2, OfferFacts DEF ScanRow
  <2>2. CASE best' = best
    BY <2>0, <2>2, CloserIsOrder
  <2>3. ScanRow \/ best' = best
    BY DEF Next, ProbeStep, ExpandStep, RepairStep, AfterProbe, AfterAmbiguous,
           AfterRepair, AfterApproval, AfterDenial, EndPass, Returned, vars
  <2> QED BY <2>1, <2>2, <2>3
<1>2. QED
  BY <1>1, SearchSafe, PTL DEF Spec, WorstOnlyImproves

-----------------------------------------------------------------------------
(***************************************************************************)
(* The rules of repair.go against each other.                              *)
(***************************************************************************)
LEMMA LateDenialIsDoubted ==
  ASSUME NEW p \in Query, needsKnownLateDenialRepair(p)
  PROVE  needsApprovalRepair(p) /\ ~ needsDenialRepair(p)
BY DEF needsKnownLateDenialRepair, needsApprovalRepair, needsDenialRepair,
       FirstTransaction, quantScale, Query, Dimensions

(***************************************************************************)
(* Known late denials are denied, whichever passes the search takes.       *)
(***************************************************************************)
THEOREM LateDenialsDenied == Spec => []LateDenialsAreDenied
<1>1. Init => LateDenialsAreDenied
  BY DEF Init, LateDenialsAreDenied
<1>2. SearchInv /\ LateDenialsAreDenied /\ [Next]_vars => LateDenialsAreDenied'
  <2> SUFFICES ASSUME SearchInv, LateDenialsAreDenied, [Next]_vars, stage' = "done",
                      Repair, needsKnownLateDenialRepair(q')
               PROVE  result' >= DenyAt
    BY DEF LateDenialsAreDenied
  <2>1. q' = q
    BY DEF Next, ScanRow, ProbeStep, ExpandStep, RepairStep, AfterProbe, AfterAmbiguous,
           AfterRepair, AfterApproval, AfterDenial, EndPass, Returned, vars
  <2>2. needsApprovalRepair(q) /\ ~ needsDenialRepair(q)
    BY <2>1, LateDenialIsDoubted, QueryAssumption DEF SearchInv, TypeOK
  <2>3. countFrauds(best) \in 0 .. K /\ DenyAt \in 0 .. K /\ K \in Nat
    BY CountType, DenyAtAssumption, KAssumption
  <2>4. CASE Decide(countFrauds(best))
    BY <2>2, <2>3, <2>4 DEF Decide, Start, Return
  <2>5. CASE stage' = stage /\ result' = result
    BY <2>1, <2>5 DEF LateDenialsAreDenied
  <2>6. CASE AfterApproval
    BY <2>1, <2>3, <2>6 DEF AfterApproval, Return
  <2>7. CASE AfterDenial
    BY <2>2, <2>7 DEF AfterDenial, SearchInv, PassShape
  <2>8. ~ Start("repair", ix.clusters) /\ ~ Start("ambiguous", topCentroids(ix, AmbiguousNProbe))
    BY DEF Start
  <2>9. CASE AfterProbe \/ AfterAmbiguous \/ AfterRepair
    BY <2>4, <2>8, <2>9 DEF AfterProbe, AfterAmbiguous, AfterRepair, repairIVF
  <2>10. CASE ScanRow \/ ProbeStep \/ ExpandStep \/ RepairStep \/ UNCHANGED vars
    BY <2>5, <2>10 DEF ScanRow, ProbeStep, ExpandStep, RepairStep, vars
  <2> QED BY <2>6, <2>7, <2>9, <2>10 DEF Next, Returned
<1>3. QED
  BY <1>1, <1>2, SearchSafe, PTL DEF Spec

(***************************************************************************)
(* A doubtful answer is returned only after the MaxIVFProbe nearest        *)
(* clusters have been searched.                                            *)
(***************************************************************************)
THEOREM DoubtfulAnswersSearched == Spec => []DoubtfulAnswersAreSearched
<1>1. Init => DoubtfulAnswersAreSearched
  BY DEF Init, DoubtfulAnswersAreSearched
<1>2. SearchInv /\ DoubtfulAnswersAreSearched /\ [Next]_vars => DoubtfulAnswersAreSearched'
  <2> SUFFICES ASSUME SearchInv, DoubtfulAnswersAreSearched, [Next]_vars, stage' = "done",
                      Repair,
                      \/ result' < DenyAt /\ needsApprovalRepair(q')
                      \/ result' >= DenyAt /\ needsDenialRepair(q'),
                      NEW n \in 1 .. topCentroids(ix', MaxIVFProbe)
               PROVE  Settled(ix.near[n])'
    BY DEF DoubtfulAnswersAreSearched
  <2>1. q' = q /\ ix' = ix
    BY DEF Next, ScanRow, ProbeStep, ExpandStep, RepairStep, AfterProbe, AfterAmbiguous,
           AfterRepair, AfterApproval, AfterDenial, EndPass, Returned, vars
  <2>4. CASE Decide(countFrauds(best))
    BY <2>1, <2>4 DEF Decide, Start, Return
  <2>5. CASE stage' = stage
    <3>1. UNCHANGED vars
      BY <2>5, RowFacts
      DEF Next, ScanRow, ProbeStep, ExpandStep, RepairStep, AfterProbe, AfterAmbiguous,
          AfterRepair, AfterApproval, AfterDenial, EndPass, Returned, Expansions,
          SearchInv, PassShape, TypeOK
    <3>2. Settled(ix.near[n])
      BY <3>1 DEF vars, DoubtfulAnswersAreSearched
    <3> QED BY <3>1, <3>2 DEF vars, Settled
  <2>6. CASE AfterApproval \/ AfterDenial
    <3>1. topCentroids(ix, MaxIVFProbe) = count /\ count < next /\ next \in Nat /\ count \in Nat
      BY <2>6, RowFacts
      DEF AfterApproval, AfterDenial, EndPass, LoopEnded, SearchInv, PassShape, TypeOK
    <3>2. n \in 1 .. (next - 1)
      BY <2>1, <3>1
    <3>3. ix.near[n] \in probeMask
      BY <2>6, <3>2 DEF AfterApproval, AfterDenial, SearchInv, PassShape, Expansions
    <3> QED BY <2>1, <2>6, <3>3 DEF AfterApproval, AfterDenial, EndPass, Settled
  <2>8. ~ Start("repair", ix.clusters) /\ ~ Start("ambiguous", topCentroids(ix, AmbiguousNProbe))
    BY DEF Start
  <2>9. CASE AfterProbe \/ AfterAmbiguous \/ AfterRepair
    BY <2>4, <2>8, <2>9 DEF AfterProbe, AfterAmbiguous, AfterRepair, repairIVF
  <2>10. CASE ScanRow \/ ProbeStep \/ ExpandStep \/ RepairStep \/ UNCHANGED vars
    BY <2>5, <2>10 DEF ScanRow, ProbeStep, ExpandStep, RepairStep, vars
  <2> QED BY <2>6, <2>9, <2>10 DEF Next, Returned
<1>3. QED
  BY <1>1, <1>2, SearchSafe, PTL DEF Spec

-----------------------------------------------------------------------------
(***************************************************************************)
(* Clusters have no row in common, and rows no entry.                      *)
(***************************************************************************)
LEMMA ClustersDisjoint ==
  ASSUME NEW i \in Instances, NEW c \in Cluster(i), NEW e \in Cluster(i), c # e,
         NEW r \in RowsOf(i, c)
  PROVE  r \notin RowsOf(i, e)
<1>1. ASSUME NEW a \in Cluster(i), NEW b \in Cluster(i), a < b
      PROVE  i.listOffsets[a + 1] <= i.listOffsets[b]
  <2>1. i.clusters \in Nat /\ a + 1 \in 0 .. i.clusters /\ b \in 0 .. i.clusters /\ a + 1 <= b
    BY <1>1, RowFacts DEF Cluster
  <2> QED BY <2>1, InstanceAssumption DEF WellFormed
<1>2. c \in Nat /\ e \in Nat
  BY RowFacts DEF Cluster
<1>3. /\ i.listOffsets[c] \in Nat /\ i.listOffsets[c + 1] \in Nat
      /\ i.listOffsets[e] \in Nat /\ i.listOffsets[e + 1] \in Nat
  BY ClusterFacts, RowFacts
<1>4. CASE c < e
  BY <1>1, <1>3, <1>4 DEF RowsOf
<1>5. CASE e < c
  BY <1>1, <1>3, <1>5 DEF RowsOf
<1>6. QED
  BY <1>2, <1>4, <1>5

LEMMA EntriesDiffer ==
  ASSUME NEW i \in Instances, NEW r \in Row(i), NEW s \in Row(i),
         EntryOf(i, r) = EntryOf(i, s)
  PROVE  r = s
BY InstanceAssumption DEF WellFormed, EntryOf

LEMMA RowNotEmpty ==
  ASSUME NEW i \in Instances, NEW r \in Row(i)
  PROVE  EntryOf(i, r) # EmptySlot
BY RowFacts, SentinelAssumption DEF EmptySlot

(***************************************************************************)
(* The part of ScannedOnce that is not excepted.                           *)
(***************************************************************************)
OnceKept ==
  \A n \in Positions :
    \/ best[n] = EmptySlot
    \/ \E c \in Cluster(ix) : /\ Settled(c)
                            /\ \E r \in RowsOf(ix, c) :
                                 r \notin row .. (rowEnd - 1) /\ best[n] = EntryOf(ix, r)

OnceScanning ==
  row < rowEnd =>
    \E c \in Cluster(ix) : Settled(c) /\ row .. (rowEnd - 1) \subseteq RowsOf(ix, c)

Once == DistinctNeighbours /\ OnceKept /\ OnceScanning

LEMMA ScanRowOnce ==
  ASSUME SearchInv, ScanRow, Once
  PROVE  Once'
<1> DEFINE e == EntryOf(ix, row)
<1>0. TypeOK /\ row < rowEnd /\ row \in Nat /\ rowEnd \in Nat
  BY RowFacts DEF SearchInv, TypeOK, ScanRow
<1>1. row \in Row(ix) /\ e \in Entry /\ best \in Kepts /\ KeptSorted(best)
  BY <1>0, RowFacts DEF Row, SearchInv, TypeOK, Kepts, BestSorted, KeptSorted
<1>2. PICK c \in Cluster(ix) : Settled(c) /\ row .. (rowEnd - 1) \subseteq RowsOf(ix, c)
  BY <1>0 DEF Once, OnceScanning
<1>3. \A n \in Positions : best[n] # e
  <2> SUFFICES ASSUME NEW n \in Positions, best[n] = e PROVE FALSE
    OBVIOUS
  <2>1. PICK d \in Cluster(ix) : \E r \in RowsOf(ix, d) :
           r \notin row .. (rowEnd - 1) /\ best[n] = EntryOf(ix, r)
    BY <1>0, <1>1, RowNotEmpty DEF Once, OnceKept, TypeOK
  <2>2. PICK r \in RowsOf(ix, d) : r \notin row .. (rowEnd - 1) /\ best[n] = EntryOf(ix, r)
    BY <2>1
  <2>3. r = row
    BY <1>0, <1>1, <2>2, ClusterFacts, EntriesDiffer DEF TypeOK
  <2> QED BY <1>0, <2>2, <2>3
<1>4. /\ best' = Offer(best, e) /\ row' = row + 1 /\ rowEnd' = rowEnd /\ ix' = ix
      /\ \A d : Settled(d)' <=> Settled(d)
  BY DEF ScanRow, Settled
<1>5. DistinctNeighbours'
  BY <1>1, <1>3, <1>4, OfferDistinct DEF Once, DistinctNeighbours
<1>6. OnceKept'
  <2> SUFFICES ASSUME NEW n \in Positions, best'[n] # EmptySlot
               PROVE  \E d \in Cluster(ix) :
                        /\ Settled(d)
                        /\ \E r \in RowsOf(ix, d) :
                             r \notin row' .. (rowEnd' - 1) /\ best'[n] = EntryOf(ix, r)
    BY <1>4 DEF OnceKept
  <2>1. best'[n] = e \/ \E m \in Positions : best'[n] = best[m]
    BY <1>1, <1>4, OfferFacts
  <2>2. CASE best'[n] = e
    <3>1. row \in RowsOf(ix, c) /\ row \notin row' .. (rowEnd' - 1)
      BY <1>0, <1>2, <1>4
    <3> QED BY <1>2, <2>2, <3>1
  <2>3. ASSUME NEW m \in Positions, best'[n] = best[m]
        PROVE  \E d \in Cluster(ix) :
                 /\ Settled(d)
                 /\ \E r \in RowsOf(ix, d) :
                      r \notin row' .. (rowEnd' - 1) /\ best'[n] = EntryOf(ix, r)
    <3>1. row' .. (rowEnd' - 1) \subseteq row .. (rowEnd - 1)
      BY <1>0, <1>4
    <3> QED BY <2>3, <3>1 DEF Once, OnceKept
  <2> QED BY <2>1, <2>2, <2>3
<1>7. OnceScanning'
  <2>1. row' .. (rowEnd' - 1) \subseteq row .. (rowEnd - 1)
    BY <1>0, <1>4
  <2> QED BY <1>2, <1>4, <2>1 DEF OnceScanning
<1>8. QED
  BY <1>5, <1>6, <1>7 DEF Once

(***************************************************************************)
(* A loop over clusters that starts the scan of a cluster not yet settled. *)
(***************************************************************************)
LEMMA ClusterOnce ==
  ASSUME SearchInv, Once, row >= rowEnd, ix' = ix, best' = best,
         \A d \in Cluster(ix) : Settled(d) => Settled(d)',
         \/ row' = row /\ rowEnd' = rowEnd
         \/ \E c \in Cluster(ix) : scanCluster(c) /\ ~ Settled(c) /\ Settled(c)'
  PROVE  Once'
<1>0. TypeOK /\ row \in Nat /\ rowEnd \in Nat /\ row .. (rowEnd - 1) = {}
  BY RowFacts DEF SearchInv, TypeOK
<1>1. DistinctNeighbours'
  BY DEF Once, DistinctNeighbours
<1>2. CASE row' = row /\ rowEnd' = rowEnd
  BY <1>0, <1>1, <1>2 DEF Once, OnceKept, OnceScanning
<1>3. ASSUME NEW c \in Cluster(ix), scanCluster(c), ~ Settled(c), Settled(c)',
             ~ (row' = row /\ rowEnd' = rowEnd)
      PROVE  Once'
  <2>1. row' .. (rowEnd' - 1) = RowsOf(ix, c)
    BY <1>3 DEF scanCluster, RowsOf
  <2>2. OnceScanning'
    BY <1>3, <2>1 DEF OnceScanning
  <2>3. OnceKept'
    <3> SUFFICES ASSUME NEW n \in Positions, best[n] # EmptySlot
                 PROVE  \E d \in Cluster(ix) :
                          /\ Settled(d)'
                          /\ \E r \in RowsOf(ix, d) :
                               r \notin row' .. (rowEnd' - 1) /\ best[n] = EntryOf(ix, r)
      BY DEF OnceKept
    <3>1. PICK d \in Cluster(ix) :
             Settled(d) /\ \E r \in RowsOf(ix, d) : best[n] = EntryOf(ix, r)
      BY DEF Once, OnceKept
    <3>2. PICK r \in RowsOf(ix, d) : best[n] = EntryOf(ix, r)
      BY <3>1
    <3>3. d # c
      BY <1>3, <3>1
    <3>4. r \notin row' .. (rowEnd' - 1)
      BY <1>0, <2>1, <3>3, ClustersDisjoint DEF TypeOK
    <3> QED BY <3>1, <3>2, <3>4
  <2> QED BY <1>1, <2>2, <2>3 DEF Once
<1>4. QED
  BY <1>2, <1>3

LEMMA ProbeStepOnce == SearchInv /\ Once /\ ProbeStep => Once'
<1> SUFFICES ASSUME SearchInv, Once, ProbeStep PROVE Once'
  OBVIOUS
<1>0. PICK c \in Cluster(ix) : c = ix.near[next]
  BY RowFacts DEF SearchInv, TypeOK, ProbeStep, Iterating
<1>1. /\ next \in 1 .. ix.clusters /\ TypeOK
      /\ next \notin 1 .. (next - 1) /\ 1 .. (next - 1) \subseteq 1 .. ix.clusters
  BY RowFacts DEF SearchInv, TypeOK, ProbeStep, Iterating
<1>2. c \notin probeMask
  <2>1. \A m, n \in 1 .. ix.clusters : ix.near[m] = ix.near[n] => m = n
    BY <1>1, InstanceAssumption DEF TypeOK, WellFormed
  <2>2. probeMask = {ix.near[n] : n \in 1 .. (next - 1)}
    BY DEF SearchInv, PassShape, ProbeStep
  <2> QED BY <1>0, <1>1, <2>1, <2>2
<1>3. ~ Settled(c) /\ Settled(c)'
  BY <1>0, <1>2 DEF Settled, SearchInv, PassShape, ProbeStep, addProbe
<1>4. \A d \in Cluster(ix) : Settled(d) => Settled(d)'
  BY DEF Settled, ProbeStep, addProbe
<1>5. QED
  BY <1>0, <1>3, <1>4, ClusterOnce DEF ProbeStep, Iterating

LEMMA ExpandStepOnce == SearchInv /\ Once /\ ~ Rescans /\ ExpandStep => Once'
<1> SUFFICES ASSUME SearchInv, Once, ~ Rescans, ExpandStep PROVE Once'
  OBVIOUS
<1>1. PICK c \in Cluster(ix) : c = ix.near[next]
  BY RowFacts DEF SearchInv, TypeOK, ExpandStep, Iterating
<1>2. "repair" \notin passed /\ stage # "repair"
  BY DEF Rescans, SearchInv, PassShape, ExpandStep, Expansions
<1>3. \A d \in Cluster(ix) : Settled(d) => Settled(d)'
  BY DEF Settled, ExpandStep, addProbe, Expansions
<1>4. CASE c \in probeMask
  BY <1>1, <1>3, <1>4, ClusterOnce DEF ExpandStep, Iterating
<1>5. CASE c \notin probeMask
  <2>1. ~ Settled(c) /\ Settled(c)'
    BY <1>1, <1>2, <1>5 DEF Settled, ExpandStep, addProbe
  <2> QED BY <1>1, <1>3, <1>5, <2>1, ClusterOnce DEF ExpandStep, Iterating
<1>6. QED
  BY <1>4, <1>5

LEMMA RepairStepOnce == SearchInv /\ Once /\ RepairStep => Once'
<1> SUFFICES ASSUME SearchInv, Once, RepairStep PROVE Once'
  OBVIOUS
<1>0. next \in Nat
  BY RowFacts DEF SearchInv, TypeOK
<1>1. PICK c \in Cluster(ix) : c = next - 1
  BY RowFacts DEF SearchInv, TypeOK, RepairStep, Iterating, Cluster
<1>2. \A d \in Cluster(ix) : d \in Nat
  BY RowFacts DEF Cluster, SearchInv, TypeOK
<1>3. \A d \in Cluster(ix) : Settled(d) => Settled(d)'
  BY <1>0, <1>2 DEF Settled, RepairStep
<1>4. CASE c \in probeMask \/ ix.bboxDist[c] > cutoff
  BY <1>1, <1>3, <1>4, ClusterOnce DEF RepairStep, Iterating
<1>5. CASE ~ (c \in probeMask \/ ix.bboxDist[c] > cutoff)
  <2>1. ~ Settled(c) /\ Settled(c)'
    BY <1>0, <1>1, <1>5 DEF Settled, SearchInv, PassShape, RepairStep
  <2> QED BY <1>1, <1>3, <1>5, <2>1, ClusterOnce DEF RepairStep, Iterating
<1>6. QED
  BY <1>4, <1>5

LEMMA EndPassOnce ==
  ASSUME SearchInv, Once, EndPass, next' = 1 \/ stage' = "done"
  PROVE  Once'
<1>1. \A d \in Cluster(ix) : Settled(d) => Settled(d)'
  BY DEF Settled, EndPass
<1>2. QED
  BY <1>1, ClusterOnce DEF EndPass, LoopEnded

(***************************************************************************)
(* As long as no pass of expandProbes follows a repair, no cluster is      *)
(* scanned twice and every neighbour is a row of a cluster scanned.        *)
(***************************************************************************)
THEOREM ScansOnce == Spec => []ScannedOnce
<1>0. ScannedOnce <=> Rescans \/ Rescanned \/ Once
  BY DEF ScannedOnce, Once, OnceKept, OnceScanning
<1>1. Init => ScannedOnce
  <2>1. Init => Once
    BY DEF Init, Once, DistinctNeighbours, OnceKept, OnceScanning, newSearchState
  <2> QED BY <1>0, <2>1
<1>2. SearchInv /\ ScannedOnce /\ [Next]_vars => ScannedOnce'
  <2> SUFFICES ASSUME SearchInv, Rescans \/ Rescanned \/ Once, [Next]_vars
               PROVE  (Rescans \/ Rescanned)' \/ Once'
    <3>1. ScannedOnce' <=> Rescans' \/ Rescanned' \/ Once'
      BY DEF ScannedOnce, Once, OnceKept, OnceScanning
    <3> QED BY <1>0, <3>1
  <2>1. CASE Rescans \/ Rescanned
    BY <2>1 DEF Rescans, Rescanned, Next, ScanRow, ProbeStep, ExpandStep, RepairStep,
                AfterProbe, AfterAmbiguous, AfterRepair, AfterApproval, AfterDenial,
                EndPass, Returned, vars
  <2>2. CASE ~ Rescans /\ ~ Rescanned
    <3>1. Once
      BY <2>2
    <3>2. CASE AfterProbe \/ AfterAmbiguous \/ AfterRepair \/ AfterApproval \/ AfterDenial
      <4>1. EndPass /\ (next' = 1 \/ stage' = "done")
        BY <3>2 DEF AfterProbe, AfterAmbiguous, AfterRepair, AfterApproval, AfterDenial,
                    Decide, repairIVF, Start, Return
      <4> QED BY <3>1, <4>1, EndPassOnce
    <3>3. CASE UNCHANGED vars
      BY <3>1, <3>3
      DEF vars, Once, OnceKept, OnceScanning, DistinctNeighbours, Settled
    <3> QED BY <2>2, <3>1, <3>2, <3>3, ScanRowOnce, ProbeStepOnce, ExpandStepOnce,
               RepairStepOnce DEF Next, Returned
  <2> QED BY <2>1, <2>2
<1>3. QED
  BY <1>1, <1>2, SearchSafe, PTL DEF Spec

(***************************************************************************)
(* And so no row of the index is among the neighbours twice.               *)
(***************************************************************************)
THEOREM NoRowTwice == Spec => []DistinctUntilRescan
<1>1. ScannedOnce => DistinctUntilRescan
  BY DEF ScannedOnce, DistinctUntilRescan
<1>2. QED
  BY <1>1, ScansOnce, PTL

-----------------------------------------------------------------------------
(***************************************************************************)
(* The first pass finds K neighbours when its clusters hold K rows: none   *)
(* of them is missed, and K rows do not fit in fewer than K slots.         *)
(***************************************************************************)
FirstClusters(i) == {i.near[n] : n \in 1 .. topCentroids(i, NProbe)}
FirstRows(i)     == UNION {RowsOf(i, c) : c \in FirstClusters(i)}

EnoughAtFirst(i) ==
  \/ FirstClusters(i) = Cluster(i)
  \/ \E f \in [Positions -> FirstRows(i)] : \A m, n \in Positions : f[m] = f[n] => m = n

\* The loop of probeIVF goes over FirstClusters, and then they are all marked.
FirstLoop ==
  /\ stage = "probe" => count = topCentroids(ix, NProbe)
  /\ FirstPassFills

LEMMA FirstPassEnds ==
  ASSUME SearchInv, stage = "probe", LoopEnded, count = topCentroids(ix, NProbe),
         EnoughAtFirst(ix)
  PROVE  best[K].d < MaxInt64 \/ probeMask = Cluster(ix)
<1>1. /\ ix \in Instances /\ best \in [Positions -> Entry] /\ count \in Nat
      /\ next = count + 1 /\ row .. (rowEnd - 1) = {} /\ K \in Positions /\ K \in Nat
      /\ MaxInt64 \in Nat
  <2>1. ix \in Instances /\ best \in [Positions -> Entry] /\ count \in 0 .. ix.clusters
        /\ next \in 1 .. (count + 1) /\ row \in Nat /\ rowEnd \in 0 .. ix.listOffsets[ix.clusters]
    BY DEF SearchInv, TypeOK
  <2>2. ix.clusters \in Nat /\ ix.listOffsets[ix.clusters] \in Nat
    BY <2>1, RowFacts
  <2> QED BY <2>1, <2>2, KAssumption, SentinelAssumption DEF LoopEnded, Positions
<1>2. probeMask = FirstClusters(ix)
  BY <1>1 DEF SearchInv, PassShape, FirstClusters
<1>3. SUFFICES ASSUME ~ (best[K].d < MaxInt64),
                      NEW f \in [Positions -> FirstRows(ix)],
                      \A m, n \in Positions : f[m] = f[n] => m = n
               PROVE  FALSE
  BY <1>2 DEF EnoughAtFirst
<1>4. ASSUME NEW n \in Positions
      PROVE  \E m \in 1 .. (K - 1) : best[m] = EntryOf(ix, f[n])
  <2>1. PICK c \in FirstClusters(ix) : f[n] \in RowsOf(ix, c)
    BY DEF FirstRows
  <2>2. c \in Cluster(ix) /\ Settled(c)
    BY <1>2, <2>1 DEF SearchInv, TypeOK, Settled
  <2>3. f[n] \in Row(ix) /\ EntryOf(ix, f[n]) \in Entry /\ EntryOf(ix, f[n]).d < MaxInt64
    BY <1>1, <2>1, <2>2, ClusterFacts, RowFacts
  <2>4. Closer(EntryOf(ix, f[n]), best[K])
    <3>1. best[K].d \in Nat /\ EntryOf(ix, f[n]).d \in Nat
      BY <1>1, <2>3 DEF Entry
    <3> QED BY <1>1, <1>3, <2>3, <3>1 DEF Closer
  <2>5. Kept(f[n])
    BY <1>1, <2>1, <2>2, <2>4 DEF SearchInv, NothingMissed
  <2>6. PICK m \in Positions : best[m] = EntryOf(ix, f[n])
    BY <2>5 DEF Kept
  <2>7. m # K
    BY <1>3, <2>3, <2>6
  <2>8. m \in 1 .. (K - 1)
    BY <1>1, <2>7 DEF Positions
  <2> QED BY <2>6, <2>8
<1> DEFINE place == [n \in Positions |-> CHOOSE m \in 1 .. (K - 1) : best[m] = EntryOf(ix, f[n])]
<1>5. place \in [Positions -> 1 .. (K - 1)]
      /\ \A n \in Positions : best[place[n]] = EntryOf(ix, f[n])
  BY <1>4
<1> HIDE DEF place
<1> DEFINE T == 1 .. (K - 1)
<1>6. /\ IsFiniteSet(Positions) /\ IsFiniteSet(T)
      /\ Cardinality(T) < Cardinality(Positions)
  <2>1. IsFiniteSet(1 .. K) /\ Cardinality(1 .. K) = K
    BY KAssumption, FS_Interval
  <2>2. K - 1 \in Int /\ (1 > K - 1 <=> K = 1)
    BY KAssumption
  <2>3. IsFiniteSet(T) /\ Cardinality(T) = IF 1 > K - 1 THEN 0 ELSE (K - 1) - 1 + 1
    BY <2>2, FS_Interval
  <2>4. Cardinality(T) = K - 1
    BY <2>2, <2>3, KAssumption
  <2> QED BY <2>1, <2>3, <2>4, KAssumption DEF Positions
<1>7. PICK m, n \in Positions : m # n /\ place[m] = place[n]
  <2>1. place \in [Positions -> T]
    BY <1>5
  <2> HIDE DEF T
  <2> QED BY <1>6, <2>1, FS_PigeonHole, Zenon
<1>8. EntryOf(ix, f[m]) = EntryOf(ix, f[n])
  BY <1>5, <1>7
<1>9. f[m] \in Row(ix) /\ f[n] \in Row(ix)
  <2>1. FirstClusters(ix) \subseteq Cluster(ix)
    BY <1>2 DEF SearchInv, TypeOK
  <2>2. FirstRows(ix) \subseteq Row(ix)
    BY <1>1, <2>1, ClusterFacts DEF FirstRows
  <2> QED BY <2>2
<1>10. f[m] = f[n]
  <2>1. ix.origIDs[f[m]] = ix.origIDs[f[n]]
    BY <1>8 DEF EntryOf
  <2> QED BY <1>1, <1>9, <2>1, InstanceAssumption DEF WellFormed
<1> QED BY <1>3, <1>7, <1>10

LEMMA FirstStep ==
  ASSUME \A i \in Instances : EnoughAtFirst(i), SearchInv, FirstLoop, [Next]_vars,
         [~ Closer(best[K], best'[K])]_vars, TypeOK'
  PROVE  FirstLoop'
<1>1. ix' = ix /\ ix \in Instances
  BY DEF Next, ScanRow, ProbeStep, ExpandStep, RepairStep, AfterProbe, AfterAmbiguous,
         AfterRepair, AfterApproval, AfterDenial, EndPass, Returned, vars, SearchInv, TypeOK
<1>2. best'[K].d <= best[K].d
  <2>1. best[K].d \in Nat /\ best'[K].d \in Nat
    BY KAssumption DEF SearchInv, TypeOK, Positions, Entry
  <2>2. CASE UNCHANGED vars
    BY <2>1, <2>2 DEF vars
  <2>3. CASE ~ Closer(best[K], best'[K])
    BY <2>1, <2>3 DEF Closer
  <2> QED BY <2>2, <2>3
<1>3. probeMask \subseteq probeMask' /\ probeMask' \subseteq Cluster(ix)
  <2>1. probeMask' \subseteq Cluster(ix)
    BY <1>1 DEF TypeOK
  <2> QED BY <2>1
       DEF Next, ScanRow, ProbeStep, ExpandStep, RepairStep, AfterProbe, AfterAmbiguous,
           AfterRepair, AfterApproval, AfterDenial, EndPass, Returned, vars, addProbe
<1>4. stage' = "probe" => stage = "probe" /\ count' = count
  BY DEF Next, ScanRow, ProbeStep, ExpandStep, RepairStep, AfterProbe, AfterAmbiguous,
         AfterRepair, AfterApproval, AfterDenial, EndPass, Returned, vars, Decide, repairIVF,
         Start, Return, Expansions
<1>5. CASE "probe" \in passed
  <2>1. best[K].d < MaxInt64 \/ probeMask = Cluster(ix)
    BY <1>5 DEF FirstLoop, FirstPassFills
  <2>2. best[K].d \in Nat /\ best'[K].d \in Nat
    BY KAssumption DEF SearchInv, TypeOK, Positions, Entry
  <2> QED BY <1>1, <1>2, <1>3, <1>4, <2>1, <2>2, SentinelAssumption DEF FirstLoop, FirstPassFills
<1>6. CASE AfterProbe
  <2>1. stage = "probe" /\ LoopEnded /\ best' = best /\ probeMask' = probeMask
    BY <1>6 DEF AfterProbe, EndPass
  <2>2. best[K].d < MaxInt64 \/ probeMask = Cluster(ix)
    BY <1>1, <2>1, FirstPassEnds DEF FirstLoop
  <2> QED BY <1>1, <1>4, <2>1, <2>2 DEF FirstLoop, FirstPassFills
<1>7. CASE "probe" \notin passed /\ ~ AfterProbe
  <2>1. "probe" \notin passed'
    BY <1>7 DEF Next, ScanRow, ProbeStep, ExpandStep, RepairStep, AfterAmbiguous,
                AfterRepair, AfterApproval, AfterDenial, EndPass, Returned, vars, Expansions
  <2> QED BY <1>1, <1>4, <2>1 DEF FirstLoop, FirstPassFills
<1> QED BY <1>5, <1>6, <1>7

(***************************************************************************)
(* Hence repairIVF never gives up for want of neighbours while there are   *)
(* clusters left to see, in any index whose nearest clusters hold K rows.  *)
(***************************************************************************)
THEOREM FirstPassSuffices ==
  ASSUME \A i \in Instances : EnoughAtFirst(i)
  PROVE  Spec => []FirstPassFills
<1>1. Init => FirstLoop
  BY DEF Init, FirstLoop, FirstPassFills
<1>2. SearchInv /\ TypeOK' /\ FirstLoop /\ [Next]_vars /\ [~ Closer(best[K], best'[K])]_vars
        => FirstLoop'
  BY FirstStep
<1>3. FirstLoop => FirstPassFills
  BY DEF FirstLoop
<1>4. QED
  BY <1>1, <1>2, <1>3, SearchSafe, TypeCorrect, WorstImproves, PTL DEF Spec, WorstOnlyImproves

-----------------------------------------------------------------------------
(***************************************************************************)
(* The answer of a search is the exact count: the frauds among the K       *)
(* nearest of the rows the search has been through, AnswerIsExact.         *)
(***************************************************************************)
(***************************************************************************)
(* U is a set of rows of which none is lost and from which all neighbours  *)
(* come.                                                                   *)
(***************************************************************************)
Covers(U) ==
  /\ U \subseteq Row(ix)
  /\ \A r \in U : Kept(r) \/ ~ Closer(EntryOf(ix, r), best[K])
  /\ \A n \in Positions : best[n] = EmptySlot \/ \E r \in U : best[n] = EntryOf(ix, r)

CloserRows(U, r) == {s \in U : Closer(EntryOf(ix, s), EntryOf(ix, r))}

LEMMA RowsFinite ==
  ASSUME TypeOK, NEW U, Covers(U), NEW r
  PROVE  IsFiniteSet(CloserRows(U, r)) /\ Cardinality(CloserRows(U, r)) \in Nat
<1>1. ix.listOffsets[ix.clusters] \in Nat
  BY RowFacts DEF TypeOK
<1>2. IsFiniteSet(Row(ix))
  <2>1. 0 \in Int /\ ix.listOffsets[ix.clusters] - 1 \in Int
    BY <1>1
  <2> QED BY <2>1, FS_Interval DEF Row
<1>3. CloserRows(U, r) \in SUBSET Row(ix)
  BY DEF Covers, CloserRows
<1>4. IsFiniteSet(CloserRows(U, r))
  BY <1>2, <1>3, FS_Subset
<1>5. QED
  BY <1>4, FS_CardinalityType

(***************************************************************************)
(* Fewer than K rows are closer than a row that is kept: they are kept     *)
(* before it.                                                              *)
(***************************************************************************)
LEMMA KeptIsNear ==
  ASSUME TypeOK, BestSorted, NEW U, Covers(U), NEW r \in U, Kept(r)
  PROVE  Cardinality(CloserRows(U, r)) < K
<1>1. PICK n \in Positions : best[n] = EntryOf(ix, r)
  BY DEF Kept
<1> DEFINE S == CloserRows(U, r)
           T == 1 .. (n - 1)
           f == [s \in S |-> CHOOSE m \in Positions : best[m] = EntryOf(ix, s)]
<1>2. /\ K \in Positions /\ K \in Nat /\ n \in Nat /\ n <= K /\ n >= 1
      /\ \A m \in Positions : best[m] \in Entry /\ m \in Nat /\ m >= 1
  BY KAssumption DEF TypeOK, Positions
<1>3. \A s \in U : s \in Row(ix) /\ EntryOf(ix, s) \in Entry
  BY RowFacts DEF Covers, TypeOK
<1>4. ASSUME NEW s \in S
      PROVE  f[s] \in T /\ best[f[s]] = EntryOf(ix, s)
  <2>1. s \in U /\ Closer(EntryOf(ix, s), best[n])
    BY <1>1 DEF CloserRows
  <2>2. ~ Closer(best[K], best[n])
    BY <1>2, CloserIsOrder DEF BestSorted
  <2>3. Closer(EntryOf(ix, s), best[K])
    BY <1>2, <1>3, <2>1, <2>2, CloserIsOrder
  <2>4. Kept(s)
    BY <2>1, <2>3 DEF Covers
  <2>5. PICK m \in Positions : m = f[s] /\ best[m] = EntryOf(ix, s)
    BY <2>4 DEF Kept
  <2> HIDE DEF f
  <2>6. m < n
    <3>1. m # n
      BY <1>1, <1>3, <2>1, <2>5, CloserIsOrder
    <3>2. ~ (n < m)
      BY <1>1, <1>2, <1>3, <2>1, <2>5, CloserIsOrder DEF BestSorted
    <3> QED BY <1>2, <3>1, <3>2
  <2> QED BY <1>2, <2>5, <2>6
<1>5. f \in Injection(S, T)
  <2>1. f \in [S -> T]
    BY <1>4
  <2>2. ASSUME NEW s \in S, NEW t \in S, f[s] = f[t]
        PROVE  s = t
    <3>1. EntryOf(ix, s) = EntryOf(ix, t)
      BY <1>4, <2>2
    <3> QED BY <1>3, <3>1, EntriesDiffer DEF CloserRows, TypeOK
  <2> HIDE DEF f
  <2> QED BY <2>1, <2>2 DEF Injection, IsInjective
<1>6. IsFiniteSet(T) /\ Cardinality(T) = n - 1
  <2>1. 1 \in Int /\ n - 1 \in Int
    BY <1>2
  <2> QED BY <1>2, <2>1, FS_Interval
<1>7. Cardinality(S) <= n - 1
  BY <1>5, <1>6, FS_Injection
<1>8. QED
  BY <1>2, <1>7, RowsFinite

(***************************************************************************)
(* At least K rows are closer than a row that is not kept: the neighbours. *)
(***************************************************************************)
LEMMA LostIsFar ==
  ASSUME TypeOK, BestSorted, DistinctNeighbours, NEW U, Covers(U), NEW r \in U, ~ Kept(r)
  PROVE  ~ (Cardinality(CloserRows(U, r)) < K)
<1> DEFINE T == CloserRows(U, r)
           g == [n \in Positions |-> CHOOSE s \in U : best[n] = EntryOf(ix, s)]
<1>1. /\ K \in Positions /\ K \in Nat
      /\ \A m \in Positions : best[m] \in Entry /\ m <= K /\ m \in Nat
  BY KAssumption DEF TypeOK, Positions
<1>2. \A s \in U : s \in Row(ix) /\ EntryOf(ix, s) \in Entry /\ EntryOf(ix, s).d < MaxInt64
  BY RowFacts DEF Covers, TypeOK
<1>3. ~ Closer(EntryOf(ix, r), best[K])
  BY DEF Covers
<1>4. ASSUME NEW n \in Positions
      PROVE  ~ Closer(EntryOf(ix, r), best[n])
  <2>1. ~ Closer(best[K], best[n])
    BY <1>1, CloserIsOrder DEF BestSorted
  <2> QED BY <1>1, <1>2, <1>3, <2>1, CloserIsOrder
<1>5. ASSUME NEW n \in Positions
      PROVE  g[n] \in T /\ best[n] = EntryOf(ix, g[n]) /\ best[n] # EmptySlot
  <2>1. best[n] # EmptySlot
    BY <1>2, <1>4 DEF EmptySlot, Closer
  <2>2. g[n] \in U /\ best[n] = EntryOf(ix, g[n])
    BY <2>1 DEF Covers
  <2>3. g[n] # r
    BY <2>2 DEF Kept
  <2>4. Closer(best[n], EntryOf(ix, r))
    <3>1. PICK s \in U : s = g[n] /\ best[n] = EntryOf(ix, s) /\ s # r
      BY <2>2, <2>3
    <3>2. ix.origIDs[s] # ix.origIDs[r]
      BY <1>2, <3>1, InstanceAssumption DEF TypeOK, WellFormed
    <3>3. best[n].id # EntryOf(ix, r).id
      BY <3>1, <3>2 DEF EntryOf
    <3>4. best[n] \in Entry /\ EntryOf(ix, r) \in Entry /\ ~ Closer(EntryOf(ix, r), best[n])
      BY <1>1, <1>2, <1>4
    <3> QED BY <3>3, <3>4 DEF Closer, Entry
  <2> QED BY <2>1, <2>2, <2>4 DEF CloserRows
<1>6. g \in Injection(Positions, T)
  <2>1. g \in [Positions -> T]
    BY <1>5
  <2>2. ASSUME NEW m \in Positions, NEW n \in Positions, g[m] = g[n]
        PROVE  m = n
    BY <1>5, <2>2 DEF DistinctNeighbours
  <2> HIDE DEF g
  <2> QED BY <2>1, <2>2 DEF Injection, IsInjective
<1>7. IsFiniteSet(T) /\ Cardinality(T) \in Nat
  BY RowsFinite
<1>8. Cardinality(Positions) = K
  BY KAssumption, FS_Interval DEF Positions
<1>9. K <= Cardinality(T)
  BY <1>6, <1>7, <1>8, FS_Injection
<1>10. QED
  BY <1>1, <1>7, <1>9

(***************************************************************************)
(* So the count of the kept frauds is the count of the near ones.          *)
(***************************************************************************)
LEMMA CountIsExact ==
  ASSUME TypeOK, BestSorted, DistinctNeighbours, NEW U, Covers(U)
  PROVE  countFrauds(best) = FraudsNearest(U)
<1> DEFINE S == {n \in Positions : best[n].d # MaxInt64 /\ best[n].fraud}
           F == {r \in U : ix.labels[r] /\ Cardinality(CloserRows(U, r)) < K}
           h == [n \in S |-> CHOOSE r \in U : best[n] = EntryOf(ix, r)]
<1>1. F = {r \in U : ix.labels[r] /\ Kept(r)}
  BY KeptIsNear, LostIsFar
<1>2. \A r \in U : r \in Row(ix) /\ EntryOf(ix, r).d < MaxInt64 /\ EntryOf(ix, r).d \in Nat
  BY RowFacts DEF Covers, TypeOK, Entry
<1>3. ASSUME NEW n \in S
      PROVE  h[n] \in F /\ best[n] = EntryOf(ix, h[n])
  <2>1. best[n] # EmptySlot
    BY DEF EmptySlot
  <2>2. h[n] \in U /\ best[n] = EntryOf(ix, h[n])
    BY <2>1 DEF Covers
  <2>3. ix.labels[h[n]]
    <3> DEFINE r == h[n]
    <3>1. EntryOf(ix, r).fraud = ix.labels[r]
      BY DEF EntryOf
    <3>2. best[n].fraud
      OBVIOUS
    <3> HIDE DEF r
    <3> QED BY <2>2, <3>1, <3>2, Zenon DEF r
  <2>4. Kept(h[n])
    BY <2>2 DEF Kept
  <2> QED BY <1>1, <2>2, <2>3, <2>4, Zenon
<1>4. h \in Injection(S, F)
  <2>1. h \in [S -> F]
    BY <1>3
  <2>2. ASSUME NEW m \in S, NEW n \in S, h[m] = h[n]
        PROVE  m = n
    <3>1. best[m] = best[n]
      BY <1>3, <2>2, Zenon
    <3>2. best[m] # EmptySlot
      BY DEF EmptySlot
    <3> QED BY <3>1, <3>2 DEF DistinctNeighbours
  <2> HIDE DEF h
  <2> QED BY <2>1, <2>2 DEF Injection, IsInjective
<1>5. ASSUME NEW r \in F PROVE \E n \in S : h[n] = r
  <2>1. PICK n \in Positions : best[n] = EntryOf(ix, r)
    BY <1>1 DEF Kept
  <2>2. n \in S
    BY <1>1, <1>2, <2>1, SentinelAssumption DEF EntryOf
  <2>3. h[n] = r
    BY <1>2, <1>3, <2>1, <2>2, EntriesDiffer DEF TypeOK
  <2> QED BY <2>2, <2>3
<1>6. ExistsBijection(S, F)
  <2>1. h \in Surjection(S, F)
    <3>1. h \in [S -> F]
      BY <1>3
    <3> HIDE DEF h
    <3> QED BY <1>5, <3>1 DEF Surjection
  <2>2. h \in Bijection(S, F)
    BY <1>4, <2>1 DEF Bijection
  <2> HIDE DEF h
  <2> QED BY <2>2 DEF ExistsBijection
<1>7. IsFiniteSet(S)
  <2>1. IsFiniteSet(Positions) /\ S \in SUBSET Positions
    BY KAssumption, FS_Interval DEF Positions
  <2> QED BY <2>1, FS_Subset
<1>8. Cardinality(F) = Cardinality(S)
  BY <1>6, <1>7, FS_Bijection
<1>9. FraudsNearest(U) = Cardinality(F)
  BY DEF FraudsNearest, CloserRows
<1>10. QED
  BY <1>8, <1>9 DEF countFrauds

-----------------------------------------------------------------------------
(***************************************************************************)
(* At the end of a pass the rows searched are covered.                     *)
(***************************************************************************)
LEMMA EndPassCovers ==
  ASSUME SearchInv, Once, EndPass, NEW U, U = ScannedRows'
  PROVE  Covers(U)
<1>1. /\ TypeOK /\ row .. (rowEnd - 1) = {} /\ next \in Nat /\ ix.clusters \in Nat
      /\ passed' = passed \union {stage} /\ ix' = ix /\ probeMask' = probeMask
  BY RowFacts DEF SearchInv, TypeOK, EndPass, LoopEnded
<1>2. U = IF "repair" \in passed' THEN Row(ix) ELSE UNION {RowsOf(ix, c) : c \in probeMask}
  BY <1>1 DEF ScannedRows
<1>3. probeMask \subseteq Cluster(ix) /\ \A c \in Cluster(ix) : RowsOf(ix, c) \subseteq Row(ix)
  BY <1>1, ClusterFacts DEF TypeOK
<1>4. U \subseteq Row(ix)
  BY <1>2, <1>3
<1>5. "repair" \in passed' => \A c \in Cluster(ix) : Settled(c)
  <2>1. stage = "repair" => next > ix.clusters
    BY <1>1 DEF SearchInv, PassShape, EndPass, LoopEnded
  <2>2. \A c \in Cluster(ix) : c \in Nat /\ c < ix.clusters
    BY <1>1 DEF Cluster
  <2> QED BY <1>1, <2>1, <2>2 DEF Settled
<1>6. ASSUME NEW r \in U PROVE Kept(r) \/ ~ Closer(EntryOf(ix, r), best[K])
  <2>1. PICK c \in Cluster(ix) : Settled(c) /\ r \in RowsOf(ix, c)
    <3>1. CASE "repair" \in passed'
      BY <1>1, <1>4, <1>5, <3>1, RowFacts DEF TypeOK
    <3>2. CASE "repair" \notin passed'
      BY <1>2, <1>3, <3>2 DEF Settled
    <3> QED BY <3>1, <3>2
  <2> QED BY <1>1, <2>1 DEF SearchInv, NothingMissed
<1>7. ASSUME NEW n \in Positions
      PROVE  best[n] = EmptySlot \/ \E r \in U : best[n] = EntryOf(ix, r)
  <2>1. SUFFICES ASSUME best[n] # EmptySlot
                 PROVE  \E r \in U : best[n] = EntryOf(ix, r)
    OBVIOUS
  <2>2. PICK c \in Cluster(ix) :
           Settled(c) /\ \E r \in RowsOf(ix, c) : best[n] = EntryOf(ix, r)
    BY <2>1 DEF Once, OnceKept
  <2>3. RowsOf(ix, c) \subseteq U
    BY <1>1, <1>2, <1>3, <2>2 DEF Settled
  <2> QED BY <2>2, <2>3
<1>8. QED
  BY <1>4, <1>6, <1>7 DEF Covers

(***************************************************************************)
(* The answer of every search is exact for the rows it has been through:   *)
(* the clusters probed, or the whole index after a repair.  Two answers    *)
(* are excepted by AnswerIsExact: the known late denials, and those of a   *)
(* pass that follows a repair.                                             *)
(***************************************************************************)
THEOREM AnswersExact == Spec => []AnswerIsExact
<1>1. Init => AnswerIsExact
  BY DEF Init, AnswerIsExact
<1>2. SearchInv /\ ScannedOnce /\ AnswerIsExact /\ [Next]_vars => AnswerIsExact'
  <2> SUFFICES ASSUME SearchInv, ScannedOnce, AnswerIsExact, [Next]_vars, stage' = "done"
               PROVE  \/ result' = FraudsNearest(ScannedRows)'
                      \/ needsKnownLateDenialRepair(q)' /\ "approval" \in passed' /\ result' = DenyAt
                      \/ Rescanned'
    BY DEF AnswerIsExact
  <2>1. CASE UNCHANGED vars
    BY <2>1 DEF AnswerIsExact, vars, FraudsNearest, ScannedRows, Rescanned
  <2>2. ASSUME EndPass, ~ Rescanned', result' = countFrauds(best)
        PROVE  result' = FraudsNearest(ScannedRows)'
    <3>1. Once
      <4>1. ~ Rescans /\ ~ Rescanned
        BY <2>2 DEF Rescans, Rescanned, EndPass
      <4> QED BY <4>1 DEF ScannedOnce, Once, OnceKept, OnceScanning
    <3>2. PICK U : U = ScannedRows'
      OBVIOUS
    <3>3. countFrauds(best) = FraudsNearest(U)
      BY <2>2, <3>1, <3>2, EndPassCovers, CountIsExact DEF SearchInv, Once
    <3>4. FraudsNearest(ScannedRows)' = FraudsNearest(U)
      BY <2>2, <3>2 DEF FraudsNearest, EndPass
    <3> QED BY <2>2, <3>3, <3>4
  <2>3. CASE AfterApproval
    <3>1. EndPass /\ q' = q /\ "approval" \in passed'
      BY <2>3 DEF AfterApproval, EndPass
    <3>2. \/ result' = countFrauds(best)
          \/ needsKnownLateDenialRepair(q) /\ result' = DenyAt
      BY <2>3 DEF AfterApproval, Return
    <3> QED BY <2>2, <3>1, <3>2
  <2>4. CASE AfterDenial
    BY <2>2, <2>4 DEF AfterDenial, Return
  <2>5. CASE AfterProbe \/ AfterAmbiguous \/ AfterRepair
    <3>1. EndPass
      BY <2>5 DEF AfterProbe, AfterAmbiguous, AfterRepair
    <3>2. ~ Start("repair", ix.clusters) /\ ~ Start("ambiguous", topCentroids(ix, AmbiguousNProbe))
      BY DEF Start
    <3>3. Decide(countFrauds(best))
      BY <2>5, <3>2 DEF AfterProbe, AfterAmbiguous, AfterRepair, repairIVF
    <3>4. result' = countFrauds(best)
      BY <3>3 DEF Decide, Start, Return
    <3> QED BY <2>2, <3>1, <3>4
  <2>6. CASE ScanRow \/ ProbeStep \/ ExpandStep \/ RepairStep
    <3>1. stage # "done"
      BY <2>6, RowFacts DEF ScanRow, ProbeStep, ExpandStep, RepairStep, Expansions,
                            SearchInv, PassShape, TypeOK
    <3> QED BY <2>6, <3>1 DEF ScanRow, ProbeStep, ExpandStep, RepairStep
  <2> QED BY <2>1, <2>3, <2>4, <2>5, <2>6 DEF Next, Returned
<1>3. QED
  BY <1>1, <1>2, SearchSafe, ScansOnce, PTL DEF Spec

-----------------------------------------------------------------------------
(***************************************************************************)
(* A search implements KNearest, KeepsNearest: whatever the index, the     *)
(* query and the numbers of probes, the neighbours kept are always the K   *)
(* nearest of the rows looked at.                                          *)
(***************************************************************************)
Entries(U) == {EntryOf(ix, r) : r \in U}
KeptEntries == {best[n] : n \in Positions} \ {EmptySlot}
Lapsed == Rescans \/ Rescanned

LEMMA SeenCovers ==
  ASSUME SearchInv, Once, ~ Lapsed
  PROVE  Covers(SeenRows)
<1>1. TypeOK /\ ix \in Instances /\ row \in Nat /\ rowEnd \in Nat
  BY RowFacts DEF SearchInv, TypeOK
<1>2. "repair" \in passed => row .. (rowEnd - 1) = {}
  <2>1. "repair" \in passed => stage = "done"
    BY <1>1 DEF SearchInv, PassShape, Lapsed, Rescans, TypeOK, Stages, Expansions
  <2> QED BY <1>1, <2>1 DEF SearchInv, PassShape
<1>3. \A c \in Cluster(ix) : RowsOf(ix, c) \subseteq Row(ix)
  BY <1>1, ClusterFacts
<1>4. SeenRows \subseteq Row(ix)
  BY DEF SeenRows
<1>5. ASSUME NEW r \in SeenRows
      PROVE  r \notin row .. (rowEnd - 1)
             /\ \E c \in Cluster(ix) : Settled(c) /\ r \in RowsOf(ix, c)
  BY <1>1, <1>2, <1>4, RowFacts DEF SeenRows, Settled
<1>6. ASSUME NEW r \in SeenRows PROVE Kept(r) \/ ~ Closer(EntryOf(ix, r), best[K])
  BY <1>5 DEF SearchInv, NothingMissed
<1>7. ASSUME NEW n \in Positions, best[n] # EmptySlot
      PROVE  \E r \in SeenRows : best[n] = EntryOf(ix, r)
  <2>1. PICK c \in Cluster(ix) :
          Settled(c) /\ \E r \in RowsOf(ix, c) :
                           r \notin row .. (rowEnd - 1) /\ best[n] = EntryOf(ix, r)
    BY <1>7 DEF Once, OnceKept
  <2>2. PICK r \in RowsOf(ix, c) : r \notin row .. (rowEnd - 1) /\ best[n] = EntryOf(ix, r)
    BY <2>1
  <2>3. r \in SeenRows
    BY <1>3, <2>1, <2>2 DEF SeenRows
  <2> QED BY <2>2, <2>3
<1>8. QED
  BY <1>4, <1>6, <1>7 DEF Covers

(***************************************************************************)
(* As many entries are closer as there are rows closer.                    *)
(***************************************************************************)
LEMMA CloserEntries ==
  ASSUME TypeOK, NEW U, Covers(U), NEW r \in U
  PROVE  Cardinality({f \in Entries(U) : Closer(f, EntryOf(ix, r))})
           = Cardinality(CloserRows(U, r))
<1> DEFINE S == CloserRows(U, r)
           F == {f \in Entries(U) : Closer(f, EntryOf(ix, r))}
           h == [s \in S |-> EntryOf(ix, s)]
<1>1. \A s \in S : s \in U /\ s \in Row(ix) /\ EntryOf(ix, s) \in F
  BY DEF CloserRows, Covers, Entries
<1>2. h \in [S -> F]
  BY <1>1
<1>3. ASSUME NEW s \in S, NEW t \in S, h[s] = h[t] PROVE s = t
  BY <1>1, <1>3, EntriesDiffer DEF TypeOK
<1>4. ASSUME NEW f \in F PROVE \E s \in S : h[s] = f
  BY DEF Entries, CloserRows
<1>5. h \in Bijection(S, F)
  <2> HIDE DEF h, S, F
  <2> QED BY <1>2, <1>3, <1>4 DEF Bijection, Injection, IsInjective, Surjection
<1>6. IsFiniteSet(S)
  BY RowsFinite
<1> HIDE DEF h, S, F
<1>7. Cardinality(F) = Cardinality(S)
  BY <1>5, <1>6, FS_Bijection DEF ExistsBijection
<1>8. QED
  BY <1>7 DEF S, F

(***************************************************************************)
(* What is kept of a covered set are its K nearest.                        *)
(***************************************************************************)
LEMMA NearestAreKept ==
  ASSUME TypeOK, BestSorted, DistinctNeighbours, NEW U, Covers(U)
  PROVE  KeptEntries = {e \in Entries(U) : Cardinality({f \in Entries(U) : Closer(f, e)}) < K}
<1>1. ASSUME NEW r \in U
      PROVE  Cardinality({f \in Entries(U) : Closer(f, EntryOf(ix, r))}) < K <=> Kept(r)
  <2>1. Cardinality(CloserRows(U, r)) < K <=> Kept(r)
    BY KeptIsNear, LostIsFar
  <2> QED BY <2>1, CloserEntries
<1>2. ASSUME NEW r \in U PROVE EntryOf(ix, r) \in KeptEntries <=> Kept(r)
  BY RowNotEmpty DEF Covers, TypeOK, KeptEntries, Kept
<1>3. KeptEntries \subseteq Entries(U)
  BY DEF Covers, KeptEntries, Entries
<1>4. \A e \in Entries(U) : e \in KeptEntries <=> Cardinality({f \in Entries(U) : Closer(f, e)}) < K
  BY <1>1, <1>2 DEF Entries
<1>5. QED
  BY <1>3, <1>4

(***************************************************************************)
(* countFrauds counts the frauds among what is kept.                       *)
(***************************************************************************)
LEMMA FraudsAreKept ==
  ASSUME TypeOK, DistinctNeighbours, NEW U, Covers(U)
  PROVE  countFrauds(best) = Cardinality({e \in KeptEntries : e.fraud})
<1> DEFINE S == {n \in Positions : best[n].d # MaxInt64 /\ best[n].fraud}
           F == {e \in KeptEntries : e.fraud}
           h == [n \in S |-> best[n]]
<1>1. ASSUME NEW n \in S PROVE best[n] \in F
  BY DEF EmptySlot, KeptEntries
<1>2. ASSUME NEW m \in S, NEW n \in S, h[m] = h[n] PROVE m = n
  <2>1. best[m] # EmptySlot
    BY DEF EmptySlot
  <2> QED BY <1>2, <2>1 DEF DistinctNeighbours
<1>3. ASSUME NEW e \in F PROVE \E n \in S : h[n] = e
  <2>1. PICK n \in Positions : e = best[n] /\ best[n] # EmptySlot /\ best[n].fraud
    BY DEF KeptEntries
  <2>2. PICK r \in U : best[n] = EntryOf(ix, r)
    BY <2>1 DEF Covers
  <2>3. best[n].d < MaxInt64 /\ best[n].d \in Nat
    BY <2>2, RowFacts DEF Covers, TypeOK, Entry
  <2>4. n \in S
    BY <2>1, <2>3, SentinelAssumption
  <2> QED BY <2>1, <2>4
<1>4. h \in [S -> F]
  BY <1>1
<1>5. h \in Bijection(S, F)
  <2> HIDE DEF h, S, F
  <2> QED BY <1>2, <1>3, <1>4 DEF Bijection, Injection, IsInjective, Surjection
<1>6. IsFiniteSet(S)
  <2>1. IsFiniteSet(Positions) /\ S \in SUBSET Positions
    BY KAssumption, FS_Interval DEF Positions
  <2> QED BY <2>1, FS_Subset
<1>7. Cardinality(F) = Cardinality(S)
  <2> HIDE DEF h, S, F
  <2> QED BY <1>5, <1>6, FS_Bijection DEF ExistsBijection
<1>8. QED
  BY <1>7 DEF countFrauds

-----------------------------------------------------------------------------
(***************************************************************************)
(* The rows looked at only become more: settled clusters stay settled, and *)
(* a scan is of a cluster that was not.                                    *)
(***************************************************************************)
LEMMA SettledStays ==
  ASSUME SearchInv, Next, NEW c \in Cluster(ix), Settled(c)
  PROVE  Settled(c)'
<1>1. TypeOK /\ ix.clusters \in Nat \ {0} /\ c \in Nat /\ c < ix.clusters /\ next \in Nat
  BY RowFacts DEF SearchInv, TypeOK, Cluster
<1>2. CASE ScanRow \/ Returned
  BY <1>2 DEF ScanRow, Returned, vars, Settled
<1>3. CASE ProbeStep \/ ExpandStep
  BY <1>3 DEF ProbeStep, ExpandStep, addProbe, Expansions, Settled
<1>4. CASE RepairStep
  BY <1>1, <1>4 DEF RepairStep, Settled
<1>5. CASE EndPass
  BY <1>5 DEF EndPass, Settled
<1>6. QED
  BY <1>2, <1>3, <1>4, <1>5
  DEF Next, AfterProbe, AfterAmbiguous, AfterRepair, AfterApproval, AfterDenial

LEMMA ScansAreNew ==
  ASSUME SearchInv, ~ Lapsed, NEW d \in Cluster(ix), ~ Settled(d), row >= rowEnd,
         scanCluster(d) \/ UNCHANGED <<row, rowEnd>>, UNCHANGED ix,
         NEW c \in Cluster(ix), Settled(c), NEW r \in RowsOf(ix, c)
  PROVE  r \notin row' .. (rowEnd' - 1)
<1>1. TypeOK /\ ix \in Instances /\ row \in Nat /\ rowEnd \in Nat
  BY RowFacts DEF SearchInv, TypeOK
<1>2. CASE UNCHANGED <<row, rowEnd>>
  BY <1>1, <1>2
<1>3. CASE row' = ix.listOffsets[d] /\ rowEnd' = ix.listOffsets[d + 1]
  <2>1. row' .. (rowEnd' - 1) = RowsOf(ix, d)
    BY <1>3 DEF RowsOf
  <2>2. r \notin RowsOf(ix, d)
    BY <1>1, ClustersDisjoint
  <2> QED BY <2>1, <2>2
<1>4. QED
  BY <1>2, <1>3 DEF scanCluster

LEMMA SeenGrows ==
  ASSUME SearchInv, ~ Lapsed, Next, ~ Lapsed'
  PROVE  SeenRows \subseteq SeenRows'
<1>1. TypeOK /\ ix \in Instances /\ row \in Nat /\ rowEnd \in Nat /\ next \in Nat
  BY RowFacts DEF SearchInv, TypeOK
<1>2. ix' = ix /\ Row(ix)' = Row(ix) /\ SeenRows \subseteq Row(ix)
  BY DEF Next, ScanRow, ProbeStep, ExpandStep, RepairStep, AfterProbe, AfterAmbiguous,
         AfterRepair, AfterApproval, AfterDenial, EndPass, Returned, vars, Row, SeenRows
<1>3. CASE "repair" \in passed'
  BY <1>2, <1>3 DEF SeenRows
<1>4. CASE "repair" \notin passed'
  <2>1. "repair" \notin passed
    BY <1>4 DEF Next, ScanRow, ProbeStep, ExpandStep, RepairStep, AfterProbe, AfterAmbiguous,
                AfterRepair, AfterApproval, AfterDenial, EndPass, Returned, vars
  <2>2. SUFFICES ASSUME NEW r \in Row(ix), r \notin row .. (rowEnd - 1),
                        NEW c \in Cluster(ix), Settled(c), r \in RowsOf(ix, c)
                 PROVE  r \notin row' .. (rowEnd' - 1)
    <3>1. \A c \in Cluster(ix) : Settled(c) => Settled(c)'
      BY SettledStays
    <3>2. \A c \in Cluster(ix) : RowsOf(ix, c)' = RowsOf(ix, c) /\ Cluster(ix)' = Cluster(ix)
      BY <1>2 DEF RowsOf, Cluster
    <3> QED BY <1>2, <1>4, <2>1, <3>1, <3>2 DEF SeenRows
  <2>3. CASE UNCHANGED <<row, rowEnd>>
    BY <2>2, <2>3
  <2>4. CASE ScanRow
    BY <1>1, <2>2, <2>4 DEF ScanRow
  <2>5. CASE ProbeStep
    <3>1. ix.near[next] \in Cluster(ix) /\ ~ Settled(ix.near[next])
      <4>1. next \in 1 .. ix.clusters
        BY <1>1, <2>5, RowFacts DEF TypeOK, ProbeStep, Iterating
      <4>2. \A n \in 1 .. (next - 1) : ix.near[n] # ix.near[next]
        BY <1>1, <4>1, InstanceAssumption DEF WellFormed
      <4>3. probeMask = {ix.near[n] : n \in 1 .. (next - 1)}
        BY <2>5 DEF SearchInv, PassShape, ProbeStep
      <4> QED BY <1>1, <2>1, <2>5, <4>1, <4>2, <4>3, RowFacts DEF Settled, ProbeStep
    <3> QED BY <1>2, <2>2, <2>5, <3>1, ScansAreNew DEF ProbeStep, Iterating
  <2>6. CASE ExpandStep
    <3>1. CASE ix.near[next] \in probeMask
      BY <2>2, <2>6, <3>1 DEF ExpandStep
    <3>2. CASE ix.near[next] \notin probeMask
      <4>1. next \in 1 .. ix.clusters
        BY <1>1, <2>6, RowFacts DEF TypeOK, ExpandStep, Iterating
      <4>2. ix.near[next] \in Cluster(ix) /\ ~ Settled(ix.near[next])
        BY <1>1, <2>1, <2>6, <3>2, <4>1, RowFacts DEF Settled, ExpandStep, Expansions
      <4> QED BY <1>2, <2>2, <2>6, <3>2, <4>2, ScansAreNew DEF ExpandStep, Iterating
    <3> QED BY <3>1, <3>2
  <2>7. CASE RepairStep
    <3>1. CASE next - 1 \in probeMask \/ ix.bboxDist[next - 1] > cutoff
      BY <2>2, <2>7, <3>1 DEF RepairStep
    <3>2. CASE next - 1 \notin probeMask /\ ~ (ix.bboxDist[next - 1] > cutoff)
      <4>1. count = ix.clusters /\ next \in 1 .. ix.clusters
        BY <1>1, <2>7, RowFacts DEF TypeOK, RepairStep, Iterating, SearchInv, PassShape
      <4>2. next - 1 \in Cluster(ix) /\ ~ Settled(next - 1)
        BY <1>1, <2>1, <2>7, <3>2, <4>1, RowFacts DEF Settled, Cluster, RepairStep
      <4> QED BY <1>2, <2>2, <2>7, <3>2, <4>2, ScansAreNew DEF RepairStep, Iterating
    <3> QED BY <3>1, <3>2
  <2> QED BY <2>3, <2>4, <2>5, <2>6, <2>7
          DEF Next, AfterProbe, AfterAmbiguous, AfterRepair, AfterApproval, AfterDenial,
              EndPass, Returned, vars
<1>5. QED
  BY <1>3, <1>4

-----------------------------------------------------------------------------
(***************************************************************************)
(* There is no answer before the end.                                      *)
(***************************************************************************)
AnswerLast == stage # "done" => result = -1

\* No step before the last gives an answer.
LEMMA AnswersLast == Spec => []AnswerLast
<1>1. Init => AnswerLast
  BY DEF Init, AnswerLast
<1>2. AnswerLast /\ [Next]_vars => AnswerLast'
  BY DEF AnswerLast, Next, ScanRow, ProbeStep, ExpandStep, RepairStep, AfterProbe,
         AfterAmbiguous, AfterRepair, AfterApproval, AfterDenial, Decide, repairIVF,
         Start, Return, Returned, vars
<1>3. QED
  BY <1>1, <1>2, PTL DEF Spec

(***************************************************************************)
(* A step that answers looks at nothing more, and counts the frauds kept.  *)
(***************************************************************************)
LEMMA AnswerCounts ==
  ASSUME SearchInv, AnswerLast, Next, result' # result
  PROVE  /\ result = -1 /\ stage # "done" /\ EndPass /\ stage' = "done"
         /\ result' \in {countFrauds(best), DenyAt}
<1>1. stage # "done" => result = -1
  BY DEF AnswerLast
<1>2. AfterProbe \/ AfterAmbiguous \/ AfterRepair \/ AfterApproval \/ AfterDenial
  BY DEF Next, ScanRow, ProbeStep, ExpandStep, RepairStep, Returned, vars
<1>3. stage # "done" /\ EndPass
  BY <1>2 DEF AfterProbe, AfterAmbiguous, AfterRepair, AfterApproval, AfterDenial
<1>4. stage' = "done" /\ result' \in {countFrauds(best), DenyAt}
  BY <1>2 DEF AfterProbe, AfterAmbiguous, AfterRepair, AfterApproval, AfterDenial,
              Decide, repairIVF, Start, Return
<1>5. QED
  BY <1>1, <1>3, <1>4

\* The last step sees no row that was not seen before.
LEMMA AnswerSees ==
  ASSUME SearchInv, EndPass, stage' = "done", stage # "done", ~ Lapsed'
  PROVE  SeenRows' = SeenRows
<1>1. TypeOK /\ ix \in Instances /\ row \in Nat /\ rowEnd \in Nat /\ next \in Nat
      /\ ix.clusters \in Nat \ {0}
  BY RowFacts DEF SearchInv, TypeOK
<1>2. row .. (rowEnd - 1) = {} /\ ix' = ix /\ row' = row /\ rowEnd' = rowEnd
      /\ probeMask' = probeMask /\ passed' = passed \union {stage}
  BY <1>1 DEF EndPass, LoopEnded
<1>3. \A c \in Cluster(ix) : c \in Nat /\ c < ix.clusters
  BY <1>1 DEF Cluster
<1>4. stage = "repair" => next > ix.clusters
  BY <1>1 DEF SearchInv, PassShape, EndPass, LoopEnded
<1>5. \A c \in Cluster(ix) : Settled(c)' <=> Settled(c)
  BY <1>1, <1>2, <1>3, <1>4 DEF Settled
<1>6. CASE "repair" \in passed'
  <2>1. SeenRows' = Row(ix)
    BY <1>2, <1>6 DEF SeenRows, Row
  <2>2. "repair" \notin passed => \A c \in Cluster(ix) : Settled(c)
    BY <1>2, <1>5, <1>6 DEF Settled
  <2>3. \A r \in Row(ix) : \E c \in Cluster(ix) : r \in RowsOf(ix, c)
    BY <1>1, RowFacts
  <2>4. SeenRows = Row(ix)
    BY <1>2, <2>2, <2>3 DEF SeenRows
  <2> QED BY <2>1, <2>4
<1>7. CASE "repair" \notin passed'
  <2>1. Row(ix)' = Row(ix) /\ Cluster(ix)' = Cluster(ix)
        /\ \A c \in Cluster(ix) : RowsOf(ix, c)' = RowsOf(ix, c)
    BY <1>2 DEF Row, Cluster, RowsOf
  <2> QED BY <1>2, <1>5, <1>7, <2>1 DEF SeenRows
<1>8. QED
  BY <1>6, <1>7

(***************************************************************************)
(* What a search keeps to, and what follows while its promise stands: it   *)
(* has the nearest of the rows it has looked at.                           *)
(***************************************************************************)
Held == SearchInv /\ ScannedOnce /\ AnswerLast

\* The counts of KNearest are those of this module.
LEMMA SameCount == \A S : Promise!Cardinality(S) = Cardinality(S)
BY DEF Promise!Cardinality, Cardinality

\* While the promise stands, the entries kept are the nearest of those seen.
LEMMA KeptAreNearest ==
  Held /\ ~ Lapsed
  => Once /\ Covers(SeenRows) /\ KeptEntries = Promise!NearestOf(Entries(SeenRows))
<1> SUFFICES ASSUME Held, ~ Lapsed
             PROVE  /\ Once /\ Covers(SeenRows)
                    /\ KeptEntries = Promise!NearestOf(Entries(SeenRows))
  OBVIOUS
<1>1. Once
  BY DEF Held, Lapsed, ScannedOnce, Once, OnceKept, OnceScanning
<1>2. Covers(SeenRows)
  BY <1>1, SeenCovers DEF Held
<1>3. KeptEntries = {e \in Entries(SeenRows) :
                       Cardinality({f \in Entries(SeenRows) : Closer(f, e)}) < K}
  BY <1>1, <1>2, NearestAreKept DEF Held, SearchInv, Once
<1>4. Promise!NearestOf(Entries(SeenRows))
        = {e \in Entries(SeenRows) :
             Cardinality({f \in Entries(SeenRows) : Closer(f, e)}) < K}
  BY SameCount DEF Promise!NearestOf, Promise!Closer, Closer
<1>5. QED
  BY <1>1, <1>2, <1>3, <1>4

\* A search starts as KNearest does.
LEMMA InitPromises == Init => Promise!Init
<1> SUFFICES ASSUME Init PROVE Promise!Init
  OBVIOUS
<1>1. SeenRows = {}
  BY DEF Init, SeenRows, Settled
<1>2. {best[n] : n \in Positions} \ {EmptySlot} = {}
  BY DEF Init, newSearchState
<1>3. ~ Rescans /\ ~ Rescanned /\ result = -1
  BY DEF Init, Rescans, Rescanned
<1>4. QED
  BY <1>1, <1>2, <1>3 DEF Promise!Init

\* A step of a search is a look, an answer, a lapse, or none of them.
LEMMA NextPromises == Held /\ Held' /\ [Next]_vars => [Promise!Next]_(Promise!promise)
<1> SUFFICES ASSUME Held, Held', [Next]_vars
             PROVE  Promise!Next \/ UNCHANGED Promise!promise
  OBVIOUS
<1>1. CASE UNCHANGED vars
  BY <1>1 DEF vars, Promise!promise, EntryOf, Row, SeenRows, Settled, Cluster, RowsOf,
              Rescans, Rescanned
<1>2. CASE Next /\ ~ UNCHANGED vars
  <2>1. stage # "done" /\ result = -1 /\ result' \in -1 .. K
    BY <1>2 DEF Held, SearchInv, TypeOK, AnswerLast, Next, ScanRow, ProbeStep, ExpandStep,
                RepairStep, AfterProbe, AfterAmbiguous, AfterRepair, AfterApproval,
                AfterDenial, Returned, Expansions, PassShape
  <2>2. ix' = ix /\ Entries(Row(ix))' = Entries(Row(ix))
    <3>1. ix' = ix
      BY <1>2 DEF Next, ScanRow, ProbeStep, ExpandStep, RepairStep, AfterProbe,
                  AfterAmbiguous, AfterRepair, AfterApproval, AfterDenial, EndPass,
                  Returned, vars
    <3> QED BY <3>1 DEF Entries, EntryOf, Row
  <2>3. CASE Lapsed'
    <3>1. Promise!Lapse
      BY <2>1, <2>2, <2>3 DEF Promise!Lapse, Lapsed, Entries
    <3> QED BY <3>1 DEF Promise!Next
  <2>4. CASE ~ Lapsed'
    <3>1. ~ Lapsed
      BY <1>2, <2>1, <2>4
      DEF Lapsed, Rescans, Rescanned, Next, ScanRow, ProbeStep, ExpandStep, RepairStep,
          AfterProbe, AfterAmbiguous, AfterRepair, AfterApproval, AfterDenial, EndPass,
          Returned, vars
    <3>2. Once /\ Covers(SeenRows) /\ KeptEntries = Promise!NearestOf(Entries(SeenRows))
      BY <3>1, KeptAreNearest
    <3>3. (KeptEntries = Promise!NearestOf(Entries(SeenRows)))' /\ Covers(SeenRows)'
      <4>1. (Held /\ ~ Lapsed => Once /\ Covers(SeenRows)
                  /\ KeptEntries = Promise!NearestOf(Entries(SeenRows)))'
        BY KeptAreNearest, PTL
      <4> QED BY <2>4, <4>1
    <3>4. Entries(SeenRows)' = {EntryOf(ix, r) : r \in SeenRows'}
      BY <2>2 DEF Entries, EntryOf
    <3>5. CASE result' = result
      <4>1. SeenRows \subseteq SeenRows'
        BY <1>2, <2>4, <3>1, SeenGrows DEF Held
      <4>2. SeenRows' \subseteq Row(ix)
        BY <2>2, <3>3 DEF Covers, Row
      <4>3. Promise!Look
        BY <2>1, <2>2, <2>4, <3>1, <3>3, <3>4, <3>5, <4>1, <4>2
        DEF Promise!Look, Entries, Lapsed, KeptEntries
      <4> QED BY <4>3 DEF Promise!Next
    <3>6. CASE result' # result
      <4>1. EndPass /\ stage' = "done" /\ result' \in {countFrauds(best), DenyAt}
        BY <1>2, <3>6, AnswerCounts DEF Held
      <4>2. best' = best /\ SeenRows' = SeenRows
        BY <2>1, <2>4, <4>1, AnswerSees DEF Held, EndPass
      <4>3. countFrauds(best) = Promise!Cardinality({e \in KeptEntries : e.fraud})
        BY <3>2, FraudsAreKept, SameCount DEF Held, SearchInv, Once
      <4>4. Promise!Answer
        BY <2>1, <2>2, <2>4, <3>1, <3>4, <4>1, <4>2, <4>3
        DEF Promise!Answer, Entries, Lapsed, KeptEntries
      <4> QED BY <4>4 DEF Promise!Next
    <3> QED BY <3>5, <3>6
  <2> QED BY <2>3, <2>4
<1>3. QED
  BY <1>1, <1>2

(***************************************************************************)
(* A search (TwoPhaseFraudCount) implements KNearest, for every index, K   *)
(* and probe numbers: whatever the order of the clusters, and whatever the *)
(* cutoff and the boxes let it leave out, each step of it looks at more    *)
(* rows and keeps the nearest of them, or answers with their frauds.       *)
(***************************************************************************)
THEOREM SearchImplements == Spec => KeepsNearest
<1>1. Spec => []Held
  BY SearchSafe, ScansOnce, AnswersLast, PTL DEF Held
<1>2. QED
  BY <1>1, InitPromises, NextPromises, PTL DEF Spec, KeepsNearest, Promise!Spec
=============================================================================
