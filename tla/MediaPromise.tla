----------------------------- MODULE MediaPromise -----------------------------
(***************************************************************************)
(* What attachments promise to those who read messages.  An upload is a    *)
(* draft until a message shows it; a message shows only what is stored,    *)
(* with what belongs to it (a video with its first frame) and nobody       *)
(* else's; what it shows stays stored until the message is recalled, as a  *)
(* whole; then nothing is stored again, and the upload is gone only when   *)
(* its object is.  A draft may be dropped, whatever is left of it.         *)
(***************************************************************************)
CONSTANT Uploads

VARIABLES
  life,      \* of each upload: new, draft, shown, recalled or gone
  messages,  \* what each message shows: a set of uploads
  stored     \* the uploads whose object is in the bucket

Init == /\ life = [u \in Uploads |-> "new"]
        /\ messages = {} /\ stored = {}

Become(S, from, to) ==
  /\ \A u \in S : life[u] = from
  /\ life' = [u \in Uploads |-> IF u \in S THEN to ELSE life[u]]

Begin(u) == Become({u}, "new", "draft") /\ UNCHANGED <<messages, stored>>
Drop(u)  == Become({u}, "draft", "gone") /\ UNCHANGED <<messages, stored>>

Show(S) == /\ S # {} /\ S \subseteq stored
           /\ Become(S, "draft", "shown")
           /\ messages' = messages \union {S}
           /\ UNCHANGED stored

Recall(S) == /\ S \in messages
             /\ Become(S, "shown", "recalled")
             /\ messages' = messages \ {S}
             /\ UNCHANGED stored

Remove(u) == /\ u \notin stored
             /\ Become({u}, "recalled", "gone")
             /\ UNCHANGED <<messages, stored>>

\* Objects come and go, but those of messages stay, and recalled ones only go.
Move(S) == /\ \A u \in Uploads : /\ life[u] = "shown" => (u \in S <=> u \in stored)
                                 /\ life[u] = "recalled" /\ u \in S => u \in stored
           /\ stored' = S /\ UNCHANGED <<life, messages>>

Next == \/ \E u \in Uploads : Begin(u) \/ Drop(u) \/ Remove(u)
        \/ \E S \in SUBSET Uploads : Show(S) \/ Recall(S) \/ Move(S)

Spec == Init /\ [][Next]_<<life, messages, stored>>
=============================================================================
