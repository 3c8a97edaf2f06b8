--------------------------- MODULE MCTopCentroids ---------------------------
(***************************************************************************)
(* Four clusters with the partial sums of three dimensions, in blocks of   *)
(* two.                                                                    *)
(***************************************************************************)
EXTENDS TopCentroids

MCMaxInt64 == 4

MCSums == {s \in [1 .. 3 -> 0 .. 3] : s[1] <= s[2] /\ s[2] <= s[3]}

MCCentroids == [1 .. 4 -> MCSums]

MCProbes == {1, 2, 4}
=============================================================================
