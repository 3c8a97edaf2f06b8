----------------------------- MODULE MCProcess -----------------------------
(***************************************************************************)
(* Two processes and three connections, all for the first: connections for *)
(* different processes never meet, and the second delays the proxy.        *)
(***************************************************************************)
EXTENDS Process

CONSTANTS api1, api2, c1, c2, c3

MCTarget == [c \in Conns |-> api1]
=============================================================================
