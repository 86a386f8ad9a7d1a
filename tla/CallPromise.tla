----------------------------- MODULE CallPromise -----------------------------
(***************************************************************************)
(* What a call promises to those who take part: it rings once, with the    *)
(* caller in it; whoever answers joins with one device, while there is a   *)
(* place; it ends once, for the reason its one record gives, and from then *)
(* on people can only leave.  (docs/architecture/realtime-call.md.)  The   *)
(* server does not keep it once an operation has written over a change it  *)
(* had not read.                                                           *)
(***************************************************************************)
EXTENDS Integers, FiniteSets, Sequences

CONSTANTS Devices, UserOf, Caller, MaxJoined

VARIABLES
  direct,   \* is it a call of two?
  phase,    \* "none", then "RINGING", perhaps "ONGOING", and "ENDED"
  inCall,   \* devices that take part
  records,  \* the call records of the conversation
  deserted, \* there is nobody to show a record to
  raced     \* the promise has lapsed

vars == <<direct, phase, inCall, records, deserted, raced>>

Open == phase \in {"RINGING", "ONGOING"}

Init == /\ direct \in BOOLEAN /\ phase = "none" /\ inCall = {} /\ records = <<>>
        /\ deserted = FALSE /\ raced = FALSE

Ring == /\ phase = "none"
        /\ phase' = "RINGING" /\ inCall' = {Caller}
        /\ UNCHANGED <<direct, records, deserted>>

Answer(d) == /\ Open
             /\ \A e \in inCall : UserOf[e] # UserOf[d]
             /\ ~direct => Cardinality(inCall) < MaxJoined
             /\ phase' = "ONGOING" /\ inCall' = inCall \cup {d}
             /\ UNCHANGED <<direct, records, deserted>>

Leave == inCall' \subseteq inCall /\ UNCHANGED <<direct, phase, records, deserted>>

Desert == deserted' /\ UNCHANGED <<direct, phase, inCall, records>>

\* Who may be left in a call for which the record says o.
Remain(o, S) == /\ o \in {"timeout", "busy"} => S = {}
                /\ Cardinality(S) <= IF direct THEN 0 ELSE 1

End(o) == /\ Open
          /\ o = "cancelled" => phase = "RINGING"
          /\ o = "rejected" => direct
          /\ phase' = "ENDED"
          /\ records' = IF deserted THEN records ELSE Append(records, o)
          /\ inCall' \subseteq inCall /\ Remain(o, inCall')
          /\ UNCHANGED <<direct, deserted>>

Kept == \/ Ring \/ Leave \/ Desert
        \/ \E d \in Devices : Answer(d)
        \/ \E o \in {"rejected", "timeout", "busy", "failed", "cancelled", "completed"} : End(o)

Next == raced' \/ (Kept /\ UNCHANGED raced)

Spec == Init /\ [][Next]_vars
=============================================================================
