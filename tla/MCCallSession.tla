---------------------------- MODULE MCCallSession ----------------------------
(* Instances of CallSession: a caller, a callee with two devices, and one more. *)
EXTENDS CallSession, TLC
CONSTANTS i, d1, d2, e, A, B, C
Four == {i, d1, d2, e}
Three == {i, d1, d2}
Owns == (i :> A) @@ (d1 :> B) @@ (d2 :> B) @@ (e :> C)
==============================================================================
