--------------------------- MODULE MCClusterScan ----------------------------
(***************************************************************************)
(* Small inputs for the chain from Build to the scan: every choice of few  *)
(* vectors of two dimensions, and a few with blocks that are full and      *)
(* blocks that are not, some of them four blocks and more to a cluster.    *)
(***************************************************************************)
EXTENDS ClusterScan

InputOf(v) ==
  [nVectors |-> Cardinality(DOMAIN v), vectors |-> v,
   labels |-> [i \in DOMAIN v |-> i % 2 = 1]]

Points  == [Dimensions -> {-2, 0, 1}]

FewVectors == {InputOf(v) : v \in UNION {[0 .. n -> Points] : n \in 0 .. 2}}

Spread(n, a, b) ==
  InputOf([i \in 0 .. (n - 1) |-> [d \in Dimensions |-> (((d + a) * i + b) % 7) - 3]])

ManyVectors ==
  {Spread(n, a, b) : n \in {4, 5, 7, 10, 13}, a \in 1 .. 5, b \in 0 .. 2}

WideClusters == {Spread(32, 1, 0), Spread(37, 2, 1), Spread(38, 3, 2)}

SomeInputs ==
  {Spread(n, 2, 0) : n \in {4, 5, 10, 13}}
    \union {InputOf([i \in 0 .. n |-> [d \in Dimensions |-> d - i]]) : n \in 0 .. 2}

SmallInputs == FewVectors \union ManyVectors \union WideClusters \union SomeInputs

SomeQueries == {[d \in Dimensions |-> 0], [d \in Dimensions |-> IF d = 0 THEN -3 ELSE 2],
                [d \in Dimensions |-> 2 - 3 * d]}
=============================================================================
