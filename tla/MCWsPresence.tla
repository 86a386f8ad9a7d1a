----------------------------- MODULE MCWsPresence -----------------------------
(* Instances of WsPresence for TLC. *)
EXTENDS WsPresence

CONSTANTS d1, n1, n2, c1, c2

OneDevice == [c \in Conns |-> d1]
=============================================================================
