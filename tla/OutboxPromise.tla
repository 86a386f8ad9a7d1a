---------------------------- MODULE OutboxPromise ----------------------------
(***************************************************************************)
(* What the outbox promises for every event: from the commit that inserts  *)
(* it the event is owed, its handler runs only while it is owed, it is     *)
(* settled once and after at least one run, and it is not forgotten before *)
(* it is settled.  (docs/architecture/messaging.md, 5.2 and 5.4.)          *)
(***************************************************************************)
EXTENDS Naturals

CONSTANT Events

VARIABLES debt, runs

Init == /\ debt = [e \in Events |-> "none"]
        /\ runs = [e \in Events |-> 0]

Become(e, d) == debt' = [debt EXCEPT ![e] = d] /\ UNCHANGED runs

Accept(e) == debt[e] = "none" /\ Become(e, "owed")

Run(e) == /\ debt[e] = "owed"
          /\ runs' = [runs EXCEPT ![e] = @ + 1]
          /\ UNCHANGED debt

Settle(e) == debt[e] = "owed" /\ runs[e] > 0 /\ Become(e, "settled")

Forget(e) == debt[e] = "settled" /\ Become(e, "forgotten")

Next == \E e \in Events : Accept(e) \/ Run(e) \/ Settle(e) \/ Forget(e)

Spec == Init /\ [][Next]_<<debt, runs>>
=============================================================================
