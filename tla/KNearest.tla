----------------------------- MODULE KNearest ------------------------------
(***************************************************************************)
(* What a search of the index promises, without clusters, boxes or passes: *)
(* it looks at more and more of the rows, always has the K nearest of      *)
(* those it has looked at, and answers with the number of frauds among     *)
(* them, or with the denial that a rule prescribes.                        *)
(*                                                                         *)
(* The promise may lapse, when rows are looked at again; all that is left  *)
(* of it then is an answer between 0 and K.                                *)
(***************************************************************************)
EXTENDS Neighbours

CONSTANT DenyAt    \* the answer that a rule prescribes

VARIABLES
  rows,      \* the entries of all rows; never change
  seen,      \* those looked at
  nearest,   \* those kept
  answer,    \* -1 until there is one
  lapsed

promise == <<rows, seen, nearest, answer, lapsed>>

NearestOf(entries) ==
  {e \in entries : Cardinality({f \in entries : Closer(f, e)}) < K}

Init == seen = {} /\ nearest = {} /\ answer = -1 /\ lapsed = FALSE

Look ==
  /\ answer = -1 /\ ~lapsed
  /\ seen \subseteq seen' /\ seen' \subseteq rows
  /\ nearest' = NearestOf(seen')
  /\ UNCHANGED <<rows, answer, lapsed>>

Answer ==
  /\ answer = -1 /\ ~lapsed
  /\ answer' \in {Cardinality({e \in nearest : e.fraud}), DenyAt}
  /\ UNCHANGED <<rows, seen, nearest, lapsed>>

Lapse ==
  /\ answer = -1 /\ answer' \in -1 .. K /\ lapsed' = TRUE
  /\ UNCHANGED rows

Next == Look \/ Answer \/ Lapse

Spec == Init /\ [][Next]_promise
=============================================================================
