----------------------------- MODULE Neighbours -----------------------------
(***************************************************************************)
(* The five-best array of an IVF search: ivfSearchState.bestDist, bestID   *)
(* and bestFraud of internal/ivf/scan.go, as one function from positions   *)
(* 1..K to entries.  The code keeps three parallel arrays of length 5 and  *)
(* always moves the three of them together.                                *)
(***************************************************************************)
EXTENDS Integers, FiniteSets

CONSTANTS
  K,            \* neighbours kept; 5 in the code
  MaxInt64,     \* the distance that marks an empty slot
  MaxUint32     \* the identifier of an empty slot

ASSUME KAssumption == K \in Nat \ {0}
ASSUME SentinelAssumption == MaxInt64 \in Nat /\ MaxUint32 \in Nat

Positions == 1 .. K

Entry == [d : Nat, id : Nat, fraud : BOOLEAN]

EmptySlot == [d |-> MaxInt64, id |-> MaxUint32, fraud |-> FALSE]

newSearchState == [i \in Positions |-> EmptySlot]

(***************************************************************************)
(* The order of the neighbours: by distance, ties by original identifier.  *)
(***************************************************************************)
Closer(a, b) == a.d < b.d \/ (a.d = b.d /\ a.id < b.id)

(***************************************************************************)
(* insert: the entry goes to the first position it is closer than, and     *)
(* what is there and behind it moves back one; the last falls off.         *)
(***************************************************************************)
Insert(b, e) ==
  [i \in Positions |->
     IF \A j \in 1 .. i : ~ Closer(e, b[j]) THEN b[i]
     ELSE IF \A j \in 1 .. (i - 1) : ~ Closer(e, b[j]) THEN e
     ELSE b[i - 1]]

\* Wrong: ties with the last one are dropped whatever their identifiers.
OfferNoTies(b, e) == IF e.d < b[K].d THEN Insert(b, e) ELSE b

(***************************************************************************)
(* One lane of a scan: an entry no closer than the last one is skipped.    *)
(***************************************************************************)
Offer(b, e) == IF Closer(e, b[K]) THEN Insert(b, e) ELSE b

countFrauds(b) == Cardinality({i \in Positions : b[i].d # MaxInt64 /\ b[i].fraud})
=============================================================================
