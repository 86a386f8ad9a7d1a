----------------------------- MODULE MCClientSync -----------------------------
(* Instances of ClientSync for TLC. *)
EXTENDS ClientSync

CONSTANTS h1, h2

\* Bound: the longest log is for runs without an upset.
UpsetsInShorterLogs == used = 0 \/ log < MaxLog
=============================================================================
