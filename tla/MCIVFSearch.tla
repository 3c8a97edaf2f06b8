---------------------------- MODULE MCIVFSearch -----------------------------
(***************************************************************************)
(* Small indexes and representative queries for IVFSearch.                 *)
(***************************************************************************)
EXTENDS IVFSearch, Sequences

MCMaxInt64  == 1000
MCMaxUint32 == 1000

(***************************************************************************)
(* One query per combination of rules the search tells apart.              *)
(***************************************************************************)
Plain == [d \in Dimensions |-> 0]

OnlinePlain    == [Plain EXCEPT ![9] = 10000]
StorePlain     == [Plain EXCEPT ![10] = 10000]
DoubtApproval  == [OnlinePlain EXCEPT ![2] = 6000, ![7] = 3200, ![12] = 3000]
FirstApproval  == [Plain EXCEPT ![5] = -10000, ![6] = -10000, ![10] = 10000,
                                ![2] = 10000, ![7] = 3600, ![12] = 8000]
LateDenial     == [OnlinePlain EXCEPT ![0] = 1500, ![2] = 10000, ![5] = 300,
                        ![6] = 400, ![7] = 3400, ![8] = 2000, ![12] = 3000]
DoubtDenial    == [Plain EXCEPT ![5] = -10000, ![6] = -10000, ![10] = 10000,
                                ![2] = 6000, ![7] = 500, ![12] = 2500]

MCQueries ==
  {OnlinePlain, StorePlain, DoubtApproval, FirstApproval, LateDenial, DoubtDenial}

(***************************************************************************)
(* clusters clusters of size rows each.  Every cluster has a pair of near  *)
(* and far distance; the box is at the near one, or slack by one.  Original *)
(* identifiers run against the rows, so that ties are decided against the  *)
(* order of the scan.                                                      *)
(***************************************************************************)
Indexes(clusters, size, spans, frauds, orders, slacks) ==
  LET rows == 0 .. (clusters * size - 1)
  IN  {[clusters    |-> clusters,
        listOffsets |-> [c \in 0 .. clusters |-> c * size],
        dist        |-> [r \in rows |-> IF r % size = 0 THEN sp[r \div size][1]
                                                        ELSE sp[r \div size][2]],
        labels      |-> [r \in rows |-> r \in fr],
        origIDs     |-> [r \in rows |-> clusters * size - 1 - r],
        bboxDist    |-> [c \in 0 .. (clusters - 1) |-> sp[c][1] - sl],
        near        |-> nr]
       : sp \in [0 .. (clusters - 1) -> spans], fr \in frauds,
         nr \in orders, sl \in slacks}

Spans == {<<1, 4>>, <<2, 2>>, <<3, 5>>}

FourClusters ==
  Indexes(4, 2, Spans,
          {{}, {0, 2, 4, 6}, {0, 1, 4, 5}, {0, 2, 3, 5, 6, 7}},
          {<<0, 1, 2, 3>>, <<3, 1, 0, 2>>}, {0, 1})

\* Fewer rows than neighbours: the last slot stays empty and every box is open.
OneCluster  == Indexes(1, 2, Spans, {{0}, {0, 1}}, {<<0>>}, {0})
TwoClusters == Indexes(2, 1, Spans, {{0}, {0, 1}}, {<<1, 0>>}, {0})

\* The widest pass leaves clusters out, as 128 of 8192 do.
SixClusters ==
  Indexes(6, 2, {<<1, 3>>, <<2, 2>>}, {{0, 2, 4, 6, 8}, {0, 1, 5, 6, 10, 11}},
          {<<3, 5, 0, 4, 1, 2>>}, {0})

MCInstances == FourClusters \union SixClusters \union OneCluster \union TwoClusters
=============================================================================
