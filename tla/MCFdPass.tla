------------------------------ MODULE MCFdPass ------------------------------
(***************************************************************************)
(* Small plans for FdPass: a message may bring no descriptors, or more     *)
(* than there is room for.                                                 *)
(***************************************************************************)
EXTENDS FdPass

CONSTANTS p1, p2

MCPlans == {<<3, 1>>, <<0, 2>>}
ShortPlans == {<<3>>, <<1, 1>>}
=============================================================================
