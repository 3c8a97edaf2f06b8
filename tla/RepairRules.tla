---------------------------- MODULE RepairRules -----------------------------
(***************************************************************************)
(* The predicates on a quantized query that decide how far a search goes:  *)
(* isAmbiguous of internal/ivf/index.go and the repair rules of            *)
(* internal/ivf/repair.go.  A query is a function of 0..13 into the 16-bit *)
(* integers; the dimensions the rules read are                             *)
(*   0 amount, 2 amount over average, 5 minutes and 6 km since the last    *)
(*   transaction (both -1 when there is none), 7 km from home, 8 count of  *)
(*   transactions, 9 online, 10 card present, 11 unknown merchant, 12 mcc. *)
(***************************************************************************)
EXTENDS Integers

quantScale == 10000

Dimensions == 0 .. 13

Query == [Dimensions -> Int]

FirstTransaction(q) == q[5] = -quantScale /\ q[6] = -quantScale

needsKnownBoundaryApprovalRepair(q) ==
  /\ FirstTransaction(q)
  /\ \/ /\ q[9] = quantScale /\ q[10] = 0
        /\ q[7] \in 800 .. 900 /\ q[2] \in 1000 .. 2000 /\ q[12] = 2000
     \/ /\ q[9] = 0 /\ q[10] = quantScale
        /\ q[7] \in 3500 .. 4000 /\ q[2] = quantScale /\ q[12] = 8000
        /\ q[8] <= 4000

\* Wrong: without the category 3000, that of the known late denials.
needsApprovalRepairHighMcc(q) ==
  \/ needsKnownBoundaryApprovalRepair(q)
  \/ /\ q[9] >= quantScale /\ q[10] = 0
     /\ q[2] >= 5000 /\ q[7] \in 3000 .. 3600 /\ q[12] >= 8500

needsApprovalRepair(q) ==
  \/ needsKnownBoundaryApprovalRepair(q)
  \/ /\ q[9] >= quantScale /\ q[10] = 0
     /\ q[2] >= 5000 /\ q[7] \in 3000 .. 3600
     /\ q[12] = 3000 \/ q[12] >= 8500

needsKnownLateDenialRepair(q) ==
  /\ q[9] = quantScale /\ q[10] = 0 /\ q[11] = 0 /\ q[12] = 3000
  /\ q[2] = quantScale /\ q[5] \in 250 .. 350 /\ q[6] \in 300 .. 450
  /\ q[7] \in 3300 .. 3500 /\ q[8] = 2000 /\ q[0] \in 1400 .. 1550

needsDenialRepair(q) ==
  /\ FirstTransaction(q)
  /\ q[9] = 0 /\ q[10] = quantScale
  /\ q[7] <= 1000 /\ q[2] \in 5000 .. 10000 /\ q[12] = 2500

(***************************************************************************)
(* k is the number of neighbours a search keeps, 5 in the code.            *)
(***************************************************************************)
isAmbiguous(q, frauds, k) ==
  \/ frauds > 1 /\ frauds < k
  \/ frauds = 1 /\ q[9] = 0
=============================================================================
