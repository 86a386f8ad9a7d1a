--------------------------- MODULE MCMessageOutbox ---------------------------
(* Instances of MessageOutbox for TLC. *)
EXTENDS MessageOutbox, TLC

CONSTANTS e1, e2, u1, w1, w2

OneUser == [e \in Events |-> u1]

=============================================================================
