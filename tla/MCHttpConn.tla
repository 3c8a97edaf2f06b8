----------------------------- MODULE MCHttpConn -----------------------------
(***************************************************************************)
(* Small streams for HttpConn: buffers of two units that may grow to four. *)
(***************************************************************************)
EXTENDS HttpConn

CONSTANTS c1, c2, b1, b2

(***************************************************************************)
(* The stream of requests of the given heads and bodies.                   *)
(***************************************************************************)
After(s) == IF s = <<>> THEN 0 ELSE EndOf(s[Len(s)])
One(h, b) == <<[at |-> 0, head |-> h, body |-> b]>>
And(s, h, b) == Append(s, [at |-> After(s), head |-> h, body |-> b])

\* Two requests, the second a largest one; a head that grows the buffer; a
\* body too large; a head too long.
MixedStreams == {And(One(1, 1), 2, 2), One(3, 0), One(1, 4), One(5, 0)}

\* Requests that all fit.
FittingStreams == {And(One(1, 1), 2, 2), And(And(One(1, 0), 1, 0), 1, 3)}

\* Client c1 waits for each answer, the others send one request ahead.
OneWaits   == [c \in Conns |-> IF c = c1 THEN 1 ELSE 2]
NobodyWaits == [c \in Conns |-> 2]
=============================================================================
