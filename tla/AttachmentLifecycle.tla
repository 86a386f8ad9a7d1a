-------------------------- MODULE AttachmentLifecycle --------------------------
(***************************************************************************)
(* An attachment from the request for an upload to the removal of its      *)
(* objects: the uploader of the client (initiate, PUT, complete, abort),   *)
(* the handlers of complete and abort with their calls to the object store *)
(* outside the transaction, the binding of the upload to a message, the    *)
(* recall with its outbox event, the cleanup of uploads nobody bound, and  *)
(* the in-memory worker that makes the thumbnails.                         *)
(*                                                                         *)
(* The thumbnail and the preview of an image are one object, "thumb". A    *)
(* row keeps whether file_url and the two keys are set, not their text.    *)
(***************************************************************************)
EXTENDS Naturals, Sequences, FiniteSets, SequencesExt

CONSTANTS Uploads,      \* the uploads of one user
          Images,       \* those whose category is "image"; the others are videos
          Large,        \* those sent in parts; the others in a single PUT
          NoUpload,     \* stands for a null parent or thumbnail
          MaxTries,     \* config.outbox.maxRetryCount: failures after which the
                        \* outbox gives an event up
          MaxUpsets     \* bound, by the number of uploads begun: failed calls to the
                        \* object store or the database, uploads the client gives up
                        \* and crashes of the server, taken together

ASSUME UploadsAssumption ==
    /\ IsFiniteSet(Uploads) /\ NoUpload \notin Uploads
    /\ Images \subseteq Uploads /\ Large \subseteq Uploads
ASSUME MaxTriesAssumption == MaxTries \in Nat \ {0}
ASSUME MaxUpsetsAssumption == MaxUpsets \in [0 .. Cardinality(Uploads) -> Nat]

VARIABLES
    row,      \* attachment_uploads
    objects,  \* the bucket: pairs of an upload and "main", "parts" or "thumb"
    phase,    \* how far the uploader of the client is
    comp,     \* where the handler of complete is
    abrt,     \* where the handler of abort is
    cleaner,  \* the cleanup: the batch it read, the upload it is on, its step
    recall,   \* the attachment.delete event of an upload
    queue,    \* the thumbnail worker's queue
    slot,     \* its running jobs
    booted,   \* recoverPendingThumbnails has run since the start
    gaveUp,   \* uploads whose job could not even write "failed", or that the
              \* start could not look for or left beyond its limit
    upsets    \* how much of MaxUpsets is used

vars == <<row, objects, phase, comp, abrt, cleaner, recall, queue, slot,
          booted, gaveUp, upsets>>
server == <<comp, abrt, cleaner, queue, slot, booted, gaveUp>>

MAX_CONCURRENCY == 2
Slots == 1 .. MAX_CONCURRENCY

Statuses == {"absent", "pending", "bound", "deleted"}
Thumbs   == {"none", "pending", "ready", "failed"}
Rows == [status : Statuses, url : BOOLEAN, thumb : Thumbs,
         keys : BOOLEAN, parent : Uploads \union {NoUpload},
         frame : Uploads \union {NoUpload}]
Jobs == [u : Uploads, at : {"download", "put", "ready", "failed"}] \union {<<>>}

TypeOK ==
    /\ row \in [Uploads -> Rows]
    /\ objects \subseteq Uploads \X {"main", "parts", "thumb"}
    /\ phase \in [Uploads -> {"idle", "putting", "completing", "completed",
                              "failed", "over", "sent"}]
    /\ comp \in [Uploads -> {"none", "check", "assemble", "stat", "tx",
                             "reclaim", "enqueue"}]
    /\ abrt \in [Uploads -> {"none", "check", "store", "tx"}]
    /\ cleaner \in [todo : SUBSET (Uploads \X BOOLEAN),
                    on   : (Uploads \X BOOLEAN) \union {<<>>},
                    at   : {"idle", "abort", "main", "thumb"}]
    /\ recall \in [Uploads ->
                     {e \in [at : {"none", "main", "thumb", "mark", "done", "dead"},
                              keys : BOOLEAN, tries : 0 .. MaxTries] :
                          e.at = "dead" <=> e.tries = MaxTries}]
    /\ queue \in Seq(Uploads)
    /\ slot \in [Slots -> Jobs]
    /\ booted \in BOOLEAN
    /\ gaveUp \subseteq Uploads
    /\ upsets \in Nat

Absent == [status |-> "absent", url |-> FALSE, thumb |-> "none",
           keys |-> FALSE, parent |-> NoUpload, frame |-> NoUpload]

Idle == [todo |-> {}, on |-> <<>>, at |-> "idle"]

Init ==
    /\ row = [u \in Uploads |-> Absent]
    /\ objects = {}
    /\ phase = [u \in Uploads |-> "idle"]
    /\ comp = [u \in Uploads |-> "none"]
    /\ abrt = [u \in Uploads |-> "none"]
    /\ cleaner = Idle
    /\ recall = [u \in Uploads |-> [at |-> "none", keys |-> FALSE, tries |-> 0]]
    /\ queue = <<>>
    /\ slot = [w \in Slots |-> <<>>]
    /\ booted = FALSE
    /\ gaveUp = {}
    /\ upsets = 0

Main(u)  == <<u, "main">>
Parts(u) == <<u, "parts">>
Thumb(u) == <<u, "thumb">>

(* Something goes wrong: a call to the object store or the database, the   *)
(* client, the server.                                                     *)
Begun == {u \in Uploads : phase[u] # "idle"}
Fault == upsets < MaxUpsets[Cardinality(Begun)] /\ upsets' = upsets + 1
Fine  == upsets' = upsets

-----------------------------------------------------------------------------
(* The client.                                                             *)

(* Mutant: the status is written in a form no query asks for.              *)
CreatedMisspelt(u) ==
    [Absent EXCEPT !.status = "PENDING",
                   !.thumb = IF u \in Images THEN "pending" ELSE "none"]

(* The row is written with file_url null; an image starts with its         *)
(* thumbnail pending.                                                      *)
Created(u) ==
    [Absent EXCEPT !.status = "pending",
                   !.thumb = IF u \in Images THEN "pending" ELSE "none"]

(* The uploads of one message follow one another: the web sends the first  *)
(* frame of a video before the video, the mobile client after it.          *)
Initiate(u) ==
    /\ phase[u] = "idle"
    /\ \A x \in Uploads : phase[x] \in {"idle", "completed", "over", "sent"}
    /\ upsets <= MaxUpsets[Cardinality(Begun) + 1]
    /\ row' = [row EXCEPT ![u] = Created(u)]
    /\ phase' = [phase EXCEPT ![u] = "putting"]
    /\ UNCHANGED <<objects, recall, server, upsets>>

(* What a PUT stores: the object itself, or the parts of a multipart       *)
(* upload.                                                                 *)
Stored(u) == IF u \in Large THEN Parts(u) ELSE Main(u)

(* Every PUT has succeeded: the client asks for the completion.            *)
Put(u) ==
    /\ phase[u] = "putting"
    /\ objects' = objects \union {Stored(u)}
    /\ phase' = [phase EXCEPT ![u] = "completing"]
    /\ comp' = [comp EXCEPT ![u] = "check"]
    /\ UNCHANGED <<row, recall, abrt, cleaner, queue, slot, booted, gaveUp,
                   upsets>>

(* The retries of a PUT are used up, or the user cancels: what was sent    *)
(* may or may not have arrived.                                            *)
PutFails(u) ==
    /\ phase[u] = "putting"
    /\ objects' \in {objects, objects \union {Stored(u)}}
    /\ phase' = [phase EXCEPT ![u] = "failed"]
    /\ Fault
    /\ UNCHANGED <<row, recall, server>>

(* No answer to complete reached the client: a timeout, a lost reply.      *)
NoAnswer(u) ==
    /\ phase[u] = "completing"
    /\ phase' = [phase EXCEPT ![u] = "failed"]
    /\ Fault
    /\ UNCHANGED <<row, objects, recall, server>>

(* After any failure the client asks once for the upload to be aborted and *)
(* ignores what becomes of the request.                                    *)
AskAbort(u) ==
    /\ phase[u] = "failed"
    /\ phase' = [phase EXCEPT ![u] = "over"]
    /\ abrt' \in {abrt, [abrt EXCEPT ![u] = "check"]}
    /\ UNCHANGED <<row, objects, recall, comp, cleaner, queue, slot, booted,
                   gaveUp, upsets>>

-----------------------------------------------------------------------------
(* completeAttachmentUpload.                                               *)

Answered(u, ok) ==
    IF phase[u] = "completing"
    THEN [phase EXCEPT ![u] = IF ok THEN "completed" ELSE "failed"]
    ELSE phase

Fails(u) ==
    /\ comp' = [comp EXCEPT ![u] = "none"]
    /\ phase' = Answered(u, FALSE)

CompleteRest == <<recall, abrt, cleaner, slot, booted, gaveUp>>

(* The check without a lock.                                               *)
CheckComplete(u) ==
    /\ comp[u] = "check"
    /\ \/ /\ row[u].status = "pending"
          /\ comp' = [comp EXCEPT ![u] = IF u \in Large
                                         THEN "assemble" ELSE "stat"]
          /\ phase' = phase
       \/ row[u].status # "pending" /\ Fails(u)
    /\ UNCHANGED <<row, objects, queue, upsets, CompleteRest>>

(* completeMultipart puts the parts together unless they were aborted.     *)
Assemble(u) ==
    /\ comp[u] = "assemble"
    /\ \/ /\ Parts(u) \in objects
          /\ objects' = (objects \ {Parts(u)}) \union {Main(u)}
          /\ comp' = [comp EXCEPT ![u] = "stat"]
          /\ phase' = phase
          /\ Fine
       \/ /\ Fails(u)
          /\ objects' = objects
          /\ IF Parts(u) \in objects THEN Fault ELSE Fine
    /\ UNCHANGED <<row, queue, CompleteRest>>

(* statAttachment: a missing object is an error; one above the limit is    *)
(* deleted, best effort, and the row left as it is.                        *)
Stat(u) ==
    /\ comp[u] = "stat"
    /\ \/ /\ Main(u) \in objects
          /\ comp' = [comp EXCEPT ![u] = "tx"]
          /\ UNCHANGED <<objects, phase>>
          /\ Fine
       \/ /\ Main(u) \in objects
          /\ Fails(u)
          /\ \/ objects' = objects \ {Main(u)} /\ Fine
             \/ objects' = objects /\ Fault
       \/ /\ Main(u) \notin objects
          /\ Fails(u)
          /\ objects' = objects
          /\ Fine
    /\ UNCHANGED <<row, queue, CompleteRest>>

MayComplete(u) == row[u].status = "pending"

Uploaded(r, u) ==
    [r EXCEPT !.url = TRUE,
              !.thumb = IF u \in Images THEN "pending" ELSE "none"]

(* The short transaction checks the status again under the row's lock.     *)
MarkUploaded(u) ==
    /\ comp[u] = "tx"
    /\ \/ /\ MayComplete(u)
          /\ row' = [row EXCEPT ![u] = Uploaded(@, u)]
          /\ comp' = [comp EXCEPT ![u] = "enqueue"]
       \/ /\ ~MayComplete(u)
          /\ comp' = [comp EXCEPT ![u] = "reclaim"]
          /\ row' = row
    /\ UNCHANGED <<objects, phase, queue, upsets, CompleteRest>>

(* The state changed meanwhile: the object is deleted, best effort.        *)
Reclaim(u) ==
    /\ comp[u] = "reclaim"
    /\ Fails(u)
    /\ \/ objects' = objects \ {Main(u)} /\ Fine
       \/ objects' = objects /\ Fault
    /\ UNCHANGED <<row, queue, CompleteRest>>

EnqueueThumbnail(u) ==
    /\ comp[u] = "enqueue"
    /\ queue' = IF u \in Images THEN Append(queue, u) ELSE queue
    /\ comp' = [comp EXCEPT ![u] = "none"]
    /\ phase' = Answered(u, TRUE)
    /\ UNCHANGED <<row, objects, upsets, CompleteRest>>

-----------------------------------------------------------------------------
(* abortAttachmentUpload.                                                  *)

AbortRest == <<recall, phase, comp, cleaner, queue, slot, booted, gaveUp>>

CheckAbort(u) ==
    /\ abrt[u] = "check"
    /\ abrt' = [abrt EXCEPT ![u] = IF row[u].status = "pending"
                                   THEN "store" ELSE "none"]
    /\ UNCHANGED <<row, objects, upsets, AbortRest>>

(* The parts of a multipart upload, or the object of a single one, are     *)
(* removed; an error is ignored.                                           *)
AbortStore(u) ==
    /\ abrt[u] = "store"
    /\ \/ objects' = objects \ {Stored(u)} /\ Fine
       \/ objects' = objects /\ Fault
    /\ abrt' = [abrt EXCEPT ![u] = "tx"]
    /\ UNCHANGED <<row, AbortRest>>

AbortTx(u) ==
    /\ abrt[u] = "tx"
    /\ row' = IF row[u].status = "pending"
              THEN [row EXCEPT ![u].status = "deleted"] ELSE row
    /\ abrt' = [abrt EXCEPT ![u] = "none"]
    /\ UNCHANGED <<objects, upsets, AbortRest>>

-----------------------------------------------------------------------------
(* saveMessage and recallMessage.                                          *)

(* Mutant: the binding does not ask for the status.                        *)
BindableCompleted(u) == row[u].url

(* findPendingUploadForBind and the conditional UPDATEs of the binding, in *)
(* one transaction that holds the row.                                     *)
Bindable(u) == row[u].status = "pending" /\ row[u].url

(* A file message binds its upload and, for a video, the upload of its     *)
(* first frame, which points to the video instead of the message. The      *)
(* client sends only uploads whose completion it was told of.              *)
Frames(u) ==
    {NoUpload} \union (IF u \in Images THEN {}
                       ELSE {f \in Images : phase[f] = "completed"})

Bound(u, f) ==
    [x \in Uploads |->
        CASE x = u -> [row[x] EXCEPT !.status = "bound", !.frame = f]
          [] x = f -> [row[x] EXCEPT !.status = "bound", !.parent = u]
          [] OTHER -> row[x]]

SaveMessage(u) ==
    \E f \in Frames(u) :
        /\ phase[u] = "completed"
        /\ Bindable(u)
        /\ f # NoUpload => Bindable(f)
        /\ row' = Bound(u, f)
        /\ phase' = [x \in Uploads |-> IF x \in {u, f} THEN "sent" ELSE phase[x]]
        /\ UNCHANGED <<objects, recall, server, upsets>>

(* Mutant: the event passes over the main object.                          *)
RecalledThumb(u) == [at |-> "thumb", keys |-> row[u].keys, tries |-> 0]

(* An attachment.delete event holds the keys as the row had them at the    *)
(* recall.                                                                 *)
Recalled(u) == [at |-> "main", keys |-> row[u].keys, tries |-> 0]

RecallMessage(u) ==
    /\ row[u].status = "bound"
    /\ row[u].parent = NoUpload
    /\ recall[u].at = "none"
    /\ recall' = [x \in Uploads |->
                    IF x = u \/ (x = row[u].frame /\ row[x].status # "deleted")
                    THEN Recalled(x) ELSE recall[x]]
    /\ UNCHANGED <<row, objects, phase, server, upsets>>

RecallRest == <<phase, server>>

(* An attempt has failed: the event is left for the next one, or is dead.  *)
Failed(u) ==
    [recall[u] EXCEPT !.tries = @ + 1,
                      !.at = IF recall[u].tries + 1 < MaxTries THEN "main" ELSE "dead"]

(* The outbox delivers the event: an error on the main object fails the    *)
(* attempt, one on the thumbnail is ignored.                               *)
DeleteMain(u) ==
    /\ booted
    /\ recall[u].at = "main"
    /\ \/ objects' = objects \ {Main(u)} /\ Fine
          /\ recall' = [recall EXCEPT ![u].at = "thumb"]
       \/ recall' = [recall EXCEPT ![u] = Failed(u)] /\ objects' = objects /\ Fault
    /\ UNCHANGED <<row, RecallRest>>

DeleteThumb(u) ==
    /\ booted
    /\ recall[u].at = "thumb"
    /\ \/ objects' = (IF recall[u].keys THEN objects \ {Thumb(u)} ELSE objects) /\ Fine
       \/ objects' = objects /\ Fault
    /\ recall' = [recall EXCEPT ![u].at = "mark"]
    /\ UNCHANGED <<row, RecallRest>>

MarkDeleted(u) ==
    /\ booted
    /\ recall[u].at = "mark"
    /\ \/ /\ row' = [row EXCEPT ![u].status = "deleted"]
          /\ recall' = [recall EXCEPT ![u].at = "done"]
          /\ Fine
       \/ /\ recall' = [recall EXCEPT ![u] = Failed(u)]
          /\ row' = row
          /\ Fault
    /\ UNCHANGED <<objects, RecallRest>>

-----------------------------------------------------------------------------
(* The cleanup of uploads that no message took.                            *)

CleanRest == <<phase, recall, comp, abrt, queue, slot, booted, gaveUp>>

(* findOrphanUploads reads, without a lock, the unbound rows older than its *)
(* limit and their keys. An upload may have grown old at any moment. (The  *)
(* timer may start a batch beside one that runs long; here they follow one *)
(* another.)                                                               *)
Scan ==
    /\ booted
    /\ cleaner = Idle
    /\ \E batch \in SUBSET {u \in Uploads : row[u].status = "pending"} :
          /\ batch # {}
          /\ cleaner' = [Idle EXCEPT !.todo = {<<u, row[u].keys>> : u \in batch}]
    /\ UNCHANGED <<row, objects, upsets, CleanRest>>

(* Mutant: the cleanup takes what it read without asking again.            *)
OwnsOrphanAsRead(u) == row[u].status # "deleted"

(* Mutant: the cleanup takes completed uploads only.                       *)
OwnsOrphanCompleted(u) == row[u].status = "pending" /\ row[u].url

(* markOrphanDeleted: whoever turns the row's status owns the removal.     *)
OwnsOrphan(u) == row[u].status = "pending"

TakeOrphan ==
    /\ cleaner.at = "idle"
    /\ \E r \in cleaner.todo :
          LET rest == [cleaner EXCEPT !.todo = @ \ {r}]
          IN  \/ /\ OwnsOrphan(r[1])
                 /\ row' = [row EXCEPT ![r[1]].status = "deleted"]
                 /\ cleaner' = [rest EXCEPT !.on = r, !.at = "abort"]
                 /\ Fine
              \/ /\ cleaner' = rest
                 /\ row' = row
                 /\ IF OwnsOrphan(r[1]) THEN Fault ELSE Fine
    /\ UNCHANGED <<objects, CleanRest>>

(* One removal, best effort: its error is logged, the next step follows.   *)
Removes(gone, next) ==
    /\ \/ objects' = objects \ gone /\ Fine
       \/ gone \intersect objects # {} /\ objects' = objects /\ Fault
    /\ cleaner' = next
    /\ UNCHANGED <<row, CleanRest>>

CleanParts ==
    /\ cleaner.at = "abort"
    /\ Removes({Parts(cleaner.on[1])}, [cleaner EXCEPT !.at = "main"])

CleanMain ==
    /\ cleaner.at = "main"
    /\ Removes({Main(cleaner.on[1])}, [cleaner EXCEPT !.at = "thumb"])

CleanThumb ==
    /\ cleaner.at = "thumb"
    /\ Removes(IF cleaner.on[2] THEN {Thumb(cleaner.on[1])} ELSE {},
               [cleaner EXCEPT !.at = "idle", !.on = <<>>])

-----------------------------------------------------------------------------
(* The thumbnail worker.                                                   *)

WorkRest == <<phase, recall, comp, abrt, cleaner, booted>>

(* Slots are alike: a job takes the first that is free.                    *)
Pump(w) ==
    /\ slot[w] = <<>> /\ \A v \in 1 .. (w - 1) : slot[v] # <<>>
    /\ queue # <<>>
    /\ slot' = [slot EXCEPT ![w] = [u |-> Head(queue), at |-> "download"]]
    /\ queue' = Tail(queue)
    /\ UNCHANGED <<row, objects, gaveUp, upsets, WorkRest>>

At(w, at) == slot[w] # <<>> /\ slot[w].at = at

Download(w) ==
    /\ At(w, "download")
    /\ \/ Main(slot[w].u) \in objects /\ slot' = [slot EXCEPT ![w].at = "put"] /\ Fine
       \/ /\ slot' = [slot EXCEPT ![w].at = "failed"]
          /\ IF Main(slot[w].u) \in objects THEN Fault ELSE Fine
    /\ UNCHANGED <<row, objects, queue, gaveUp, WorkRest>>

(* The image is resized and both results are stored; an error in either    *)
(* marks the thumbnail as failed.                                          *)
PutThumb(w) ==
    /\ At(w, "put")
    /\ \/ /\ objects' = objects \union {Thumb(slot[w].u)}
          /\ slot' = [slot EXCEPT ![w].at = "ready"]
          /\ Fine
       \/ /\ objects' = objects
          /\ slot' = [slot EXCEPT ![w].at = "failed"]
          /\ Fault
    /\ UNCHANGED <<row, queue, gaveUp, WorkRest>>

(* updateThumbnails asks for no status of the row; when the uploader       *)
(* cannot be told, the thumbnail is marked as failed after all.            *)
UpdateThumbnails(w) ==
    /\ At(w, "ready")
    /\ \/ /\ row' = [row EXCEPT ![slot[w].u].thumb = "ready", ![slot[w].u].keys = TRUE]
          /\ \/ slot' = [slot EXCEPT ![w] = <<>>] /\ Fine
             \/ slot' = [slot EXCEPT ![w].at = "failed"] /\ Fault
       \/ /\ row' = row
          /\ slot' = [slot EXCEPT ![w].at = "failed"]
          /\ Fault
    /\ UNCHANGED <<objects, queue, gaveUp, WorkRest>>

MarkFailed(w) ==
    /\ At(w, "failed")
    /\ slot' = [slot EXCEPT ![w] = <<>>]
    /\ \/ row' = [row EXCEPT ![slot[w].u].thumb = "failed"] /\ gaveUp' = gaveUp /\ Fine
       \/ row' = row /\ gaveUp' = gaveUp \union {slot[w].u} /\ Fault
    /\ UNCHANGED <<objects, queue, WorkRest>>

(* Mutant: only uploads that a message shows are taken up again.           *)
UnmadeBound == {u \in Images : row[u].thumb = "pending" /\ row[u].status = "bound"}

(* findPendingThumbnails: every image whose thumbnail is pending and whose *)
(* row is not deleted, completed or not.                                   *)
Unmade == {u \in Images : row[u].thumb = "pending" /\ row[u].status \in {"pending", "bound"}}

RecoverLimit == 500

(* recoverPendingThumbnails at the start takes up so many of them at most; *)
(* an error is logged.                                                     *)
Recover ==
    /\ ~booted
    /\ booted' = TRUE
    /\ \/ \E batch \in SUBSET Unmade :
             /\ IF Cardinality(Unmade) <= RecoverLimit THEN batch = Unmade
                                                    ELSE Cardinality(batch) = RecoverLimit
             /\ queue' = queue \o SetToSeq(batch)
             /\ gaveUp' = gaveUp \union (Unmade \ batch)
             /\ Fine
       \/ queue' = queue /\ gaveUp' = gaveUp \union Unmade /\ Fault
    /\ UNCHANGED <<row, objects, phase, recall, comp, abrt, cleaner, slot>>

(* A crash loses the handlers, the cleanup's batch and the worker's jobs;  *)
(* the rows, the objects and the outbox events stay.                       *)
Crash ==
    /\ booted
    /\ Fault
    /\ comp' = [u \in Uploads |-> "none"]
    /\ abrt' = [u \in Uploads |-> "none"]
    /\ cleaner' = Idle
    /\ queue' = <<>>
    /\ slot' = [w \in Slots |-> <<>>]
    /\ recall' = [u \in Uploads |->
                    IF recall[u].at \in {"thumb", "mark"}
                    THEN [recall[u] EXCEPT !.at = "main"] ELSE recall[u]]
    /\ booted' = FALSE
    /\ gaveUp' = {}
    /\ UNCHANGED <<row, objects, phase>>

-----------------------------------------------------------------------------
Client(u)   == Initiate(u) \/ Put(u) \/ PutFails(u) \/ NoAnswer(u) \/ AskAbort(u)
                 \/ SaveMessage(u) \/ RecallMessage(u)
Complete(u) == CheckComplete(u) \/ Assemble(u) \/ Stat(u) \/ MarkUploaded(u)
                 \/ Reclaim(u) \/ EnqueueThumbnail(u)
Abort(u)    == CheckAbort(u) \/ AbortStore(u) \/ AbortTx(u)
Outbox(u)   == DeleteMain(u) \/ DeleteThumb(u) \/ MarkDeleted(u)
Cleanup     == Scan \/ TakeOrphan \/ CleanParts \/ CleanMain \/ CleanThumb
Work(w)     == Pump(w) \/ Download(w) \/ PutThumb(w) \/ UpdateThumbnails(w) \/ MarkFailed(w)

Next ==
    \/ \E u \in Uploads : Client(u) \/ Complete(u) \/ Abort(u) \/ Outbox(u)
    \/ Cleanup
    \/ \E w \in Slots : Work(w)
    \/ Recover
    \/ Crash

Spec == Init /\ [][Next]_vars

(* The server's own loops and handlers go on, so that an unbound upload    *)
(* grows old and is scanned; nothing is asked of the client.               *)
FairSpec ==
    /\ Spec
    /\ \A u \in Uploads : /\ WF_vars(Complete(u))
                          /\ WF_vars(Abort(u))
                          /\ WF_vars(Outbox(u))
    /\ WF_vars(Cleanup)
    /\ \A w \in Slots : WF_vars(Work(w))
    /\ WF_vars(Recover)

-----------------------------------------------------------------------------
(* Properties.                                                             *)

Live(u) == row[u].status = "bound" /\ recall[u].at = "none"

(* The object of an upload that a message shows is there, whatever the     *)
(* cleanup, a late completion or an abort were doing when it was bound     *)
(* (markOrphanDeleted, findPendingUploadForBind).                          *)
BoundKeepsObject == \A u \in Uploads : Live(u) => Main(u) \in objects

(* A message that says its thumbnail is ready has one, also when two jobs  *)
(* worked on the upload or a crash came between (processJob,               *)
(* updateThumbnails, safeDeleteObject).                                    *)
ReadyHasThumb ==
    \A u \in Uploads : Live(u) /\ row[u].thumb = "ready" => Thumb(u) \in objects

(* How a message and its uploads look to those who read it: a video and     *)
(* its first frame are one message.                                        *)
Life == [u \in Uploads |->
           CASE row[u].status = "absent"  -> "new"
             [] row[u].status = "pending" -> "draft"
             [] row[u].status = "bound"   -> IF Live(u) THEN "shown" ELSE "recalled"
             [] OTHER                     -> "gone"]

Shows(u) == {u} \union ({row[u].frame} \ {NoUpload})
Messages == {Shows(u) : u \in {x \in Uploads : Live(x) /\ row[x].parent = NoUpload}}

(* Whatever handlers, cleanup, recalls, jobs and crashes do to one another, *)
(* attachments keep what MediaPromise says: a message shows what is stored, *)
(* as a whole, until its recall, and a recalled upload is marked deleted    *)
(* only when its object is gone (saveMessage, recallMessage,               *)
(* markOrphanDeleted, deleteAttachmentObject).                             *)
Promise == INSTANCE MediaPromise WITH life <- Life, messages <- Messages,
                                      stored <- {u \in Uploads : Main(u) \in objects}
MediaPromiseKept == Promise!Spec

(* Only the recall of its message takes a bound upload away; the cleanup   *)
(* that read it while it was free does not (markOrphanDeleted).            *)
BoundUntilRecalled ==
    [][\A u \in Uploads : Live(u) => row'[u].status = "bound"]_vars

(* The thumbnail of an image a message shows does not stay pending across  *)
(* crashes, unless the worker could not reach the database to say so       *)
(* (enqueueThumbnail, recoverPendingThumbnails, markFailed).               *)
ThumbSettles ==
    \A u \in Images : (Live(u) /\ row[u].thumb = "pending")
                        ~> (row[u].thumb # "pending" \/ u \in gaveUp \/ ~Live(u))

(* An upload that no message takes is marked deleted in the end            *)
(* (processOrphanBatch).                                                   *)
OrphansEnd == \A u \in Uploads : row[u].status = "pending" ~> row[u].status # "pending"

(* A recalled message's object is removed and its row marked, through      *)
(* errors and crashes, unless the event has failed as often as the outbox  *)
(* bears it (attachment.delete in the outbox).                             *)
RecallReclaims ==
    \A u \in Uploads : recall[u].at # "none"
        ~> \/ Main(u) \notin objects /\ row[u].status = "deleted"
           \/ recall[u].at = "dead"

=============================================================================
