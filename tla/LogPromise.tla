------------------------------ MODULE LogPromise ------------------------------
(***************************************************************************)
(* What the log of a conversation promises to those who read it.  Messages *)
(* are added at its end, under the next number, together with the events   *)
(* that deliver them and the states of those they are for; a send that is  *)
(* repeated adds nothing, and may waste a number; what a user has read,    *)
(* been given or hidden only moves forward, and no further than the log.   *)
(* (docs/architecture/messaging.md, 5.1, 5.2 and 5.5.)                     *)
(***************************************************************************)
EXTENDS Integers

CONSTANTS Users, Cids, None

VARIABLES
  head,    \* the last number spent
  shown,   \* the messages
  events,  \* <<number, user>>: what is to be delivered to whom
  state    \* how far each user is

State == [read : Nat, delivered : Nat, unread : Nat, hidden : Nat]

\* Nothing is ahead of the log, and no more is unread than lies ahead.
Within(s, n) == /\ s.read <= n /\ s.delivered <= n /\ s.hidden <= n
                /\ s.unread <= n - s.read

Forward(s, z) == s.read <= z.read /\ s.delivered <= z.delivered /\ s.hidden <= z.hidden

\* The states of the users in U move on, the others stay as they are.
Moves(U) == /\ state' \in [Users -> State]
            /\ \A u \in U : Forward(state[u], state'[u]) /\ Within(state'[u], head')
            /\ \A u \in Users \ U : state'[u] = state[u]

Init == /\ head = 1 /\ shown = {[seq |-> 1, sender |-> None, cid |-> None]} /\ events = {}
        /\ state \in [Users -> State] /\ \A u \in Users : Within(state[u], 1)

\* A message of the system, or one of a member that is not there yet.
New(sender, cid) == \/ sender = None /\ cid = None
                    \/ /\ sender # None /\ cid # None
                       /\ \A e \in shown : ~(e.sender = sender /\ e.cid = cid)

Post(sender, cid, audience) ==
  /\ New(sender, cid) /\ sender # None => sender \in audience
  /\ head' = head + 1
  /\ shown' = shown \cup {[seq |-> head + 1, sender |-> sender, cid |-> cid]}
  /\ events' = events \cup ({head + 1} \X audience)
  /\ Moves(audience) /\ \A u \in audience : state'[u].delivered = head + 1

Repeat == /\ \E e \in shown : e.cid # None
          /\ head' = head + 1 /\ UNCHANGED <<shown, events, state>>

Progress(u) == Moves({u}) /\ UNCHANGED <<head, shown, events>>

Next == \/ \E sender \in Users \cup {None}, cid \in Cids \cup {None}, audience \in SUBSET Users :
             Post(sender, cid, audience)
        \/ Repeat
        \/ \E u \in Users : Progress(u)

Spec == Init /\ [][Next]_<<head, shown, events, state>>
=============================================================================
