---------------------------- MODULE PartialSums -----------------------------
(***************************************************************************)
(* The squared distances of internal/ivf, which stop early against a       *)
(* cutoff.  What a loop over the dimensions computes is a sequence of      *)
(* partial sums s, s[n] the sum of the first n squares; its last element   *)
(* is the distance.  The loops differ in the test that stops them and in   *)
(* the sum they return then.                                               *)
(***************************************************************************)
EXTENDS Integers, Sequences

PartialSum(s) ==
  /\ s \in Seq(Nat) /\ Len(s) > 0
  /\ \A m, n \in 1 .. Len(s) : m <= n => s[m] <= s[n]

Total(s) == s[Len(s)]

First(S) == CHOOSE n \in S : \A m \in S : n <= m

(***************************************************************************)
(* bboxDist: stops once the sum is over the cutoff, and returns it.        *)
(***************************************************************************)
\* Wrong: returns the sum before the one that is over the cutoff.
bboxDistBefore(s, cutoff) ==
  LET over == {n \in 1 .. Len(s) : s[n] > cutoff}
  IN  IF over = {} THEN Total(s) ELSE IF First(over) = 1 THEN 0 ELSE s[First(over) - 1]

bboxDist(s, cutoff) ==
  LET over == {n \in 1 .. Len(s) : s[n] > cutoff}
  IN  IF over = {} THEN Total(s) ELSE s[First(over)]

(***************************************************************************)
(* quantizedDistance: stops before the sum reaches the cutoff, and returns *)
(* the sum without the square that does.  The last square is not tested.   *)
(***************************************************************************)
quantizedDistance(s, cutoff) ==
  LET reached == {n \in 1 .. (Len(s) - 1) : s[n] >= cutoff}
  IN  IF reached = {} THEN Total(s)
      ELSE IF First(reached) = 1 THEN 0 ELSE s[First(reached) - 1]

(***************************************************************************)
(* blockLaneDist: stops once the sum has reached the cutoff, and returns   *)
(* it.                                                                     *)
(***************************************************************************)
\* Wrong: stops with the sum before, as quantizedDistance does.
blockLaneDistBefore(s, cutoff) == quantizedDistance(s, cutoff)

blockLaneDist(s, cutoff) ==
  LET reached == {n \in 1 .. Len(s) : s[n] >= cutoff}
  IN  IF reached = {} THEN Total(s) ELSE s[First(reached)]
=============================================================================
