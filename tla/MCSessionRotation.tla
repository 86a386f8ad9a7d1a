-------------------------- MODULE MCSessionRotation --------------------------
(* Instances of SessionRotation for TLC. *)
EXTENDS SessionRotation

CONSTANTS p1, p2, r1, r2

\* Two requests in one process; the other one only refreshes.
Together == [r \in Requests |-> p1]
=============================================================================
