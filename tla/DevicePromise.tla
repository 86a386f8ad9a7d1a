---------------------------- MODULE DevicePromise ----------------------------
(***************************************************************************)
(* What a phone promises of the messages of a conversation.  It stores     *)
(* what the server has posted, loses nothing but by the user's own clear,  *)
(* which hides all that is stored and nothing that is yet to come, and     *)
(* brings back nothing that was cleared - unless it is excused: a handler  *)
(* held an old copy of the progress row over a clear, or the app was       *)
(* killed in the middle of one.  Of a message of its own it may lose the   *)
(* number, until it hears of it again.                                     *)
(***************************************************************************)
EXTENDS Naturals

CONSTANT own  \* the messages this device sends

VARIABLES
  posted,   \* the newest message of the server
  have,     \* the messages on the device
  gone,     \* what the user cleared: all up to this one
  excused

vars == <<posted, have, gone, excused>>

Init == posted \in Nat /\ have = {} /\ gone = 0 /\ excused = FALSE

Post == posted' = posted + 1 /\ UNCHANGED <<have, gone, excused>>

Store == \E S \in SUBSET (1 .. posted) :
           /\ excused \/ \A s \in S : s > gone
           /\ have' = have \cup S
           /\ UNCHANGED <<posted, gone, excused>>

Misplace == \E s \in own : have' = have \ {s} /\ UNCHANGED <<posted, gone, excused>>

Clear == \E n \in 0 .. posted :
           /\ n >= gone /\ \A s \in have : s <= n
           /\ have' = {} /\ gone' = n
           /\ UNCHANGED <<posted, excused>>

Excuse == excused' = TRUE /\ UNCHANGED <<posted, have, gone>>

Next == Post \/ Store \/ Misplace \/ Clear \/ Excuse

Spec == Init /\ [][Next]_vars
=============================================================================
