---------------------- MODULE AttachmentLifecycle_proofs ----------------------
(***************************************************************************)
(* Theorems about AttachmentLifecycle, for any uploads and any number of   *)
(* upsets.                                                                 *)
(***************************************************************************)
EXTENDS AttachmentLifecycle, FiniteSetTheorems, TLAPS

-----------------------------------------------------------------------------
(* Types *)

Phases   == {"idle", "putting", "completing", "completed", "failed", "over", "sent"}
Comps    == {"none", "check", "assemble", "stat", "tx", "reclaim", "enqueue"}
Abrts    == {"none", "check", "store", "tx"}
Cleaners == [todo : SUBSET (Uploads \X BOOLEAN),
             on   : (Uploads \X BOOLEAN) \union {<<>>},
             at   : {"idle", "abort", "main", "thumb"}]
Events   == [at : {"none", "main", "thumb", "mark", "done", "dead"}, keys : BOOLEAN,
             tries : 0 .. MaxTries]
Recalls  == {e \in Events : e.at = "dead" <=> e.tries = MaxTries}

LEMMA Words ==
    /\ Phases = {"idle", "putting", "completing", "completed", "failed", "over", "sent"}
    /\ Comps = {"none", "check", "assemble", "stat", "tx", "reclaim", "enqueue"}
    /\ Abrts = {"none", "check", "store", "tx"}
BY DEF Phases, Comps, Abrts

RowT    == row \in [Uploads -> Rows]
ObjectT == objects \subseteq Uploads \X {"main", "parts", "thumb"}
PhaseT  == phase \in [Uploads -> Phases]
CompT   == comp \in [Uploads -> Comps]
AbortT  == abrt \in [Uploads -> Abrts]
CleanT  == cleaner \in Cleaners
RecallT == recall \in [Uploads -> Recalls]
QueueT  == queue \in Seq(Uploads)
SlotT   == slot \in [Slots -> Jobs]
RestT   == booted \in BOOLEAN /\ gaveUp \subseteq Uploads /\ upsets \in Nat

LEMMA TypeParts ==
    TypeOK <=> /\ RowT /\ ObjectT /\ PhaseT /\ CompT /\ AbortT /\ CleanT /\ RecallT
               /\ QueueT /\ SlotT /\ RestT
BY DEF TypeOK, RowT, ObjectT, PhaseT, CompT, AbortT, CleanT, RecallT, QueueT, SlotT, RestT,
       Phases, Comps, Abrts, Cleaners, Recalls, Events

LEMMA RowFields ==
    ASSUME NEW r
    PROVE  r \in Rows <=> /\ r = [status |-> r.status, url |-> r.url, thumb |-> r.thumb,
                                  keys |-> r.keys, parent |-> r.parent, frame |-> r.frame]
                          /\ r.status \in Statuses /\ r.url \in BOOLEAN /\ r.thumb \in Thumbs
                          /\ r.keys \in BOOLEAN /\ r.parent \in Uploads \union {NoUpload}
                          /\ r.frame \in Uploads \union {NoUpload}
BY DEF Rows

LEMMA Edits ==
    ASSUME NEW r \in Rows
    PROVE  /\ \A s \in Statuses : [r EXCEPT !.status = s] \in Rows
           /\ \A t \in Thumbs : [r EXCEPT !.thumb = t] \in Rows
           /\ [r EXCEPT !.keys = TRUE] \in Rows
           /\ \A t \in Thumbs : [r EXCEPT !.url = TRUE, !.thumb = t] \in Rows
           /\ \A s \in Statuses, x \in Uploads \union {NoUpload} :
                /\ [r EXCEPT !.status = s, !.frame = x] \in Rows
                /\ [r EXCEPT !.status = s, !.parent = x] \in Rows
BY DEF Rows

LEMMA ClientType ==
    ASSUME UploadsAssumption, TypeOK, NEW u \in Uploads,
           Initiate(u) \/ Put(u) \/ PutFails(u) \/ NoAnswer(u) \/ AskAbort(u)
    PROVE  TypeOK'
<1>1. /\ RowT /\ ObjectT /\ PhaseT /\ CompT /\ AbortT /\ CleanT /\ RecallT
      /\ QueueT /\ SlotT /\ RestT
  BY TypeParts
<1>2. RowT'
  <2>1. Created(u) \in Rows
    BY DEF Created, Absent, Rows, Statuses, Thumbs
  <2>2. QED
    BY <1>1, <2>1 DEF RowT, Initiate, Put, PutFails, NoAnswer, AskAbort
<1>3. ObjectT'
  BY <1>1 DEF ObjectT, Initiate, Put, PutFails, NoAnswer, AskAbort, Stored, Main, Parts
<1>4. PhaseT'
  BY <1>1, Words DEF PhaseT, Initiate, Put, PutFails, NoAnswer, AskAbort
<1>5. CompT' /\ AbortT'
  BY <1>1, Words DEF CompT, AbortT, Initiate, Put, PutFails, NoAnswer, AskAbort, server
<1>6. RestT' /\ UNCHANGED <<cleaner, recall, queue, slot>>
  BY <1>1 DEF RestT, Initiate, Put, PutFails, NoAnswer, AskAbort, server, Fault
<1>7. QED
  BY <1>1, <1>2, <1>3, <1>4, <1>5, <1>6 DEF TypeOK, RowT, ObjectT, PhaseT, CompT, AbortT,
     CleanT, RecallT, QueueT, SlotT, RestT, Phases, Comps, Abrts, Cleaners, Recalls, Events

LEMMA CompleteType ==
    ASSUME UploadsAssumption, TypeOK, NEW u \in Uploads, Complete(u)
    PROVE  TypeOK'
<1>1. /\ RowT /\ ObjectT /\ PhaseT /\ CompT /\ AbortT /\ CleanT /\ RecallT
      /\ QueueT /\ SlotT /\ RestT
  BY TypeParts
<1>2. RowT'
  <2>1. Uploaded(row[u], u) \in Rows
    BY <1>1, Edits DEF Uploaded, RowT, Thumbs
  <2>2. QED
    BY <1>1, <2>1 DEF RowT, Complete, CheckComplete, Assemble, Stat, MarkUploaded, Reclaim,
                      EnqueueThumbnail
<1>3. ObjectT'
  <2>1. objects' \subseteq objects \union {Main(u)}
    BY DEF Complete, CheckComplete, Assemble, Stat, MarkUploaded, Reclaim, EnqueueThumbnail
  <2>2. QED
    BY <1>1, <2>1 DEF ObjectT, Main
<1>4. PhaseT' /\ CompT'
  <2>1. /\ phase' = phase \/ phase' = Answered(u, TRUE) \/ phase' = Answered(u, FALSE)
        /\ \E p \in {"none", "assemble", "stat", "tx", "reclaim", "enqueue"} :
             comp' = [comp EXCEPT ![u] = p]
    <3>1. CASE CheckComplete(u) \/ MarkUploaded(u) \/ EnqueueThumbnail(u)
      BY <3>1 DEF CheckComplete, MarkUploaded, EnqueueThumbnail, Fails
    <3>2. CASE Assemble(u) \/ Stat(u) \/ Reclaim(u)
      BY <3>2 DEF Assemble, Stat, Reclaim, Fails
    <3>3. QED
      BY <3>1, <3>2 DEF Complete
  <2>2. \A ok \in BOOLEAN : Answered(u, ok) \in [Uploads -> Phases]
    BY <1>1, Words DEF PhaseT, Answered
  <2>3. QED
    BY <1>1, <2>1, <2>2, Words DEF PhaseT, CompT
<1>5. QueueT'
  <2>1. queue' = queue \/ queue' = Append(queue, u)
    BY DEF Complete, CheckComplete, Assemble, Stat, MarkUploaded, Reclaim, EnqueueThumbnail,
           CompleteRest
  <2>2. QED
    BY <1>1, <2>1 DEF QueueT
<1>6. RestT' /\ UNCHANGED <<recall, abrt, cleaner, slot>>
  <2>1. UNCHANGED CompleteRest
    BY DEF Complete, CheckComplete, Assemble, Stat, MarkUploaded, Reclaim, EnqueueThumbnail
  <2>2. Fault \/ Fine
    BY DEF Complete, CheckComplete, Assemble, Stat, MarkUploaded, Reclaim, EnqueueThumbnail, Fine
  <2>3. QED
    BY <1>1, <2>1, <2>2 DEF RestT, CompleteRest, Fault, Fine
<1>7. QED
  BY <1>1, <1>2, <1>3, <1>4, <1>5, <1>6 DEF TypeOK, RowT, ObjectT, PhaseT, CompT, AbortT,
     CleanT, RecallT, QueueT, SlotT, RestT, Phases, Comps, Abrts, Cleaners, Recalls, Events

LEMMA AbortType ==
    ASSUME UploadsAssumption, TypeOK, NEW u \in Uploads, Abort(u)
    PROVE  TypeOK'
<1>1. /\ RowT /\ ObjectT /\ PhaseT /\ CompT /\ AbortT /\ CleanT /\ RecallT
      /\ QueueT /\ SlotT /\ RestT
  BY TypeParts
<1>2. RowT'
  <2>1. "deleted" \in Statuses
    BY DEF Statuses
  <2>2. row' = row \/ row' = [row EXCEPT ![u] = [row[u] EXCEPT !.status = "deleted"]]
    BY DEF Abort, CheckAbort, AbortStore, AbortTx
  <2>3. [row[u] EXCEPT !.status = "deleted"] \in Rows
    BY <1>1, <2>1, Edits DEF RowT
  <2>4. QED
    BY <1>1, <2>2, <2>3 DEF RowT
<1>3. ObjectT' /\ AbortT'
  BY <1>1, Words DEF ObjectT, AbortT, Abort, CheckAbort, AbortStore, AbortTx, Stored, Main, Parts
<1>4. RestT' /\ UNCHANGED <<recall, phase, comp, cleaner, queue, slot>>
  BY <1>1 DEF RestT, Abort, CheckAbort, AbortStore, AbortTx, AbortRest, Fault, Fine
<1>5. QED
  BY <1>1, <1>2, <1>3, <1>4 DEF TypeOK, RowT, ObjectT, PhaseT, CompT, AbortT,
     CleanT, RecallT, QueueT, SlotT, RestT, Phases, Comps, Abrts, Cleaners, Recalls, Events

LEMMA SaveType ==
    ASSUME UploadsAssumption, TypeOK, NEW u \in Uploads, SaveMessage(u)
    PROVE  TypeOK'
<1>1. /\ RowT /\ ObjectT /\ PhaseT /\ CompT /\ AbortT /\ CleanT /\ RecallT
      /\ QueueT /\ SlotT /\ RestT
  BY TypeParts
<1>2. PICK f \in Frames(u) :
        /\ row' = Bound(u, f)
        /\ phase' = [x \in Uploads |-> IF x \in {u, f} THEN "sent" ELSE phase[x]]
        /\ UNCHANGED <<objects, recall, server, upsets>>
  BY DEF SaveMessage
<1>3. f \in Uploads \union {NoUpload} /\ "bound" \in Statuses
  BY DEF Frames, UploadsAssumption, Statuses
<1>4. RowT'
  BY <1>1, <1>2, <1>3, Edits DEF RowT, Bound
<1>5. PhaseT'
  BY <1>1, <1>2, Words DEF PhaseT
<1>6. UNCHANGED <<objects, recall, comp, abrt, cleaner, queue, slot, booted, gaveUp, upsets>>
  BY <1>2 DEF server
<1>7. QED
  BY <1>1, <1>4, <1>5, <1>6 DEF TypeOK, RowT, ObjectT, PhaseT, CompT, AbortT,
     CleanT, RecallT, QueueT, SlotT, RestT, Phases, Comps, Abrts, Cleaners, Recalls, Events

LEMMA FailedAt ==
    ASSUME RecallT, NEW u \in Uploads
    PROVE  Failed(u).at \in {"main", "dead"}
BY DEF Failed, RecallT, Recalls, Events

LEMMA RecallType ==
    ASSUME UploadsAssumption, TypeOK, NEW u \in Uploads, RecallMessage(u) \/ Outbox(u)
    PROVE  TypeOK'
<1>1. /\ RowT /\ ObjectT /\ PhaseT /\ CompT /\ AbortT /\ CleanT /\ RecallT
      /\ QueueT /\ SlotT /\ RestT
  BY TypeParts
<1>2. \A x \in Uploads : /\ Recalled(x) \in Recalls
                         /\ recall[x].at # "dead" =>
                              \A p \in {"main", "thumb", "mark", "done"} :
                                [recall[x] EXCEPT !.at = p] \in Recalls
  BY <1>1, MaxTriesAssumption DEF Recalled, Recalls, Events, RecallT, RowT, Rows
<1>a. ASSUME recall[u].at # "dead" PROVE Failed(u) \in Recalls
  <2>1. recall[u].tries \in 0 .. MaxTries /\ recall[u].tries # MaxTries /\ recall[u].keys \in BOOLEAN
    BY <1>1, <1>a DEF RecallT, Recalls, Events
  <2>2. recall[u].tries + 1 \in 0 .. MaxTries
    BY <2>1, MaxTriesAssumption
  <2> DEFINE n == recall[u].tries + 1
             p == IF recall[u].tries + 1 < MaxTries THEN "main" ELSE "dead"
  <2>3. Failed(u) = [recall[u] EXCEPT !.tries = n, !.at = p]
    BY DEF Failed
  <2>4. n \in 0 .. MaxTries /\ p \in {"main", "dead"} /\ (p = "dead" <=> n = MaxTries)
    BY <2>1, <2>2, MaxTriesAssumption
  <2> HIDE DEF n, p
  <2>5. recall[u] \in Events
    BY <1>1 DEF RecallT, Recalls
  <2>6. Failed(u) \in Events /\ Failed(u).at = p /\ Failed(u).tries = n
    BY <2>3, <2>4, <2>5 DEF Events
  <2>7. QED
    BY <2>4, <2>6 DEF Recalls
<1>b. ASSUME RecallMessage(u) PROVE RecallT'
  <2>1. \A x \in Uploads : recall[x] \in Recalls
    BY <1>1 DEF RecallT
  <2>2. recall' = [x \in Uploads |->
                    IF x = u \/ (x = row[u].frame /\ row[x].status # "deleted")
                    THEN Recalled(x) ELSE recall[x]]
    BY <1>b DEF RecallMessage
  <2>3. QED
    BY <1>2, <2>1, <2>2, Zenon DEF RecallT
<1>c. ASSUME Outbox(u) PROVE RecallT'
  <2>1. recall[u].at # "dead"
    BY <1>c DEF Outbox, DeleteMain, DeleteThumb, MarkDeleted
  <2>2. \/ recall' = [recall EXCEPT ![u] = Failed(u)]
        \/ \E p \in {"thumb", "mark", "done"} : recall' = [recall EXCEPT ![u] = [recall[u] EXCEPT !.at = p]]
    BY <1>c DEF Outbox, DeleteMain, DeleteThumb, MarkDeleted
  <2>4. \E e \in Recalls : recall' = [recall EXCEPT ![u] = e]
    BY <1>2, <1>a, <2>1, <2>2
  <2>3. QED
    BY <1>1, <2>4 DEF RecallT
<1>3. RecallT'
  BY <1>b, <1>c
<1>4. RowT'
  <2>1. "deleted" \in Statuses
    BY DEF Statuses
  <2>2. row' = row \/ row' = [row EXCEPT ![u] = [row[u] EXCEPT !.status = "deleted"]]
    BY DEF RecallMessage, Outbox, DeleteMain, DeleteThumb, MarkDeleted
  <2>3. [row[u] EXCEPT !.status = "deleted"] \in Rows
    BY <1>1, <2>1, Edits DEF RowT
  <2>4. QED
    BY <1>1, <2>2, <2>3 DEF RowT
<1>5. ObjectT'
  BY <1>1 DEF ObjectT, RecallMessage, Outbox, DeleteMain, DeleteThumb, MarkDeleted
<1>6. RestT' /\ UNCHANGED <<phase, comp, abrt, cleaner, queue, slot>>
  BY <1>1 DEF RestT, RecallMessage, Outbox, DeleteMain, DeleteThumb, MarkDeleted, RecallRest,
              server, Fault, Fine
<1>7. QED
  BY <1>1, <1>3, <1>4, <1>5, <1>6 DEF TypeOK, RowT, ObjectT, PhaseT, CompT, AbortT,
     CleanT, RecallT, QueueT, SlotT, RestT, Phases, Comps, Abrts, Cleaners, Recalls, Events

LEMMA CleanType ==
    ASSUME UploadsAssumption, TypeOK, Cleanup
    PROVE  TypeOK'
<1>1. /\ RowT /\ ObjectT /\ PhaseT /\ CompT /\ AbortT /\ CleanT /\ RecallT
      /\ QueueT /\ SlotT /\ RestT
  BY TypeParts
<1>2. CASE Scan
  <2>1. PICK batch \in SUBSET Uploads :
          cleaner' = [Idle EXCEPT !.todo = {<<u, row[u].keys>> : u \in batch}]
    BY <1>2 DEF Scan
  <2>2. {<<u, row[u].keys>> : u \in batch} \in SUBSET (Uploads \X BOOLEAN)
    BY <1>1 DEF RowT, Rows
  <2>3. CleanT'
    BY <2>1, <2>2 DEF CleanT, Cleaners, Idle
  <2>4. UNCHANGED <<row, objects, phase, comp, abrt, recall, queue, slot, booted, gaveUp, upsets>>
    BY <1>2 DEF Scan, CleanRest
  <2>5. QED
    BY <1>1, <2>3, <2>4 DEF TypeOK, RowT, ObjectT, PhaseT, CompT, AbortT,
       CleanT, RecallT, QueueT, SlotT, RestT, Phases, Comps, Abrts, Cleaners, Recalls, Events
<1>3. CASE TakeOrphan
  <2>1. PICK r \in cleaner.todo :
          LET rest == [cleaner EXCEPT !.todo = @ \ {r}]
          IN  \/ /\ row' = [row EXCEPT ![r[1]] = [row[r[1]] EXCEPT !.status = "deleted"]]
                 /\ cleaner' = [rest EXCEPT !.on = r, !.at = "abort"]
              \/ cleaner' = rest /\ row' = row
    BY <1>3 DEF TakeOrphan
  <2>2. r \in Uploads \X BOOLEAN /\ "deleted" \in Statuses
    BY <1>1, <2>1 DEF CleanT, Cleaners, Statuses
  <2>3. CleanT'
    BY <1>1, <2>1, <2>2 DEF CleanT, Cleaners
  <2>4. [row[r[1]] EXCEPT !.status = "deleted"] \in Rows
    BY <1>1, <2>2, Edits DEF RowT
  <2>5. RowT'
    BY <1>1, <2>1, <2>2, <2>4 DEF RowT
  <2>6. UNCHANGED <<objects, phase, comp, abrt, recall, queue, slot>> /\ RestT'
    BY <1>1, <1>3 DEF TakeOrphan, CleanRest, RestT, Fault, Fine
  <2>7. QED
    BY <1>1, <2>3, <2>5, <2>6 DEF TypeOK, RowT, ObjectT, PhaseT, CompT, AbortT,
       CleanT, RecallT, QueueT, SlotT, RestT, Phases, Comps, Abrts, Cleaners, Recalls, Events
<1>4. ASSUME NEW gone, NEW next \in Cleaners, Removes(gone, next) PROVE TypeOK'
  <2>1. ObjectT' /\ CleanT' /\ RestT'
    BY <1>1, <1>4 DEF ObjectT, CleanT, RestT, Removes, CleanRest, Fault, Fine
  <2>2. UNCHANGED <<row, phase, comp, abrt, recall, queue, slot>>
    BY <1>4 DEF Removes, CleanRest
  <2>3. QED
    BY <1>1, <2>1, <2>2 DEF TypeOK, RowT, ObjectT, PhaseT, CompT, AbortT,
       CleanT, RecallT, QueueT, SlotT, RestT, Phases, Comps, Abrts, Cleaners, Recalls, Events
<1>5. /\ [cleaner EXCEPT !.at = "main"] \in Cleaners
      /\ [cleaner EXCEPT !.at = "thumb"] \in Cleaners
      /\ [cleaner EXCEPT !.at = "idle", !.on = <<>>] \in Cleaners
  BY <1>1 DEF CleanT, Cleaners
<1>6. QED
  BY <1>2, <1>3, <1>4, <1>5 DEF Cleanup, CleanParts, CleanMain, CleanThumb

LEMMA WorkType ==
    ASSUME UploadsAssumption, TypeOK, NEW w \in Slots, Work(w)
    PROVE  TypeOK'
<1>1. /\ RowT /\ ObjectT /\ PhaseT /\ CompT /\ AbortT /\ CleanT /\ RecallT
      /\ QueueT /\ SlotT /\ RestT
  BY TypeParts
<1>2. UNCHANGED <<phase, recall, comp, abrt, cleaner, booted>>
  BY DEF Work, Pump, Download, PutThumb, UpdateThumbnails, MarkFailed, WorkRest
<1>3. upsets' \in Nat
  BY <1>1 DEF RestT, Work, Pump, Download, PutThumb, UpdateThumbnails, MarkFailed, Fault, Fine
<1>4. CASE Pump(w)
  <2>1. Head(queue) \in Uploads /\ Tail(queue) \in Seq(Uploads)
    BY <1>1, <1>4 DEF Pump, QueueT
  <2>2. SlotT' /\ QueueT'
    BY <1>1, <1>4, <2>1 DEF Pump, SlotT, QueueT, Jobs
  <2>3. UNCHANGED <<row, objects, gaveUp>>
    BY <1>4 DEF Pump
  <2>4. QED
    BY <1>1, <1>2, <1>3, <2>2, <2>3 DEF TypeOK, RowT, ObjectT, PhaseT, CompT, AbortT,
       CleanT, RecallT, QueueT, SlotT, RestT, Phases, Comps, Abrts, Cleaners, Recalls, Events
<1>5. CASE ~Pump(w)
  <2>1. /\ slot[w] # <<>> /\ slot[w] \in [u : Uploads, at : {"download", "put", "ready", "failed"}]
        /\ queue' = queue
    BY <1>1, <1>5 DEF SlotT, Jobs, Work, Download, PutThumb, UpdateThumbnails, MarkFailed, At
  <2>2. /\ \A a \in {"download", "put", "ready", "failed"} : [slot[w] EXCEPT !.at = a] \in Jobs
        /\ <<>> \in Jobs
    BY <2>1 DEF Jobs
  <2>3. SlotT'
    <3>1. \/ slot' = [slot EXCEPT ![w] = <<>>]
          \/ \E a \in {"put", "ready", "failed"} :
               slot' = [slot EXCEPT ![w] = [slot[w] EXCEPT !.at = a]]
      BY <1>5 DEF Work, Download, PutThumb, UpdateThumbnails, MarkFailed
    <3>2. QED
      BY <1>1, <2>2, <3>1 DEF SlotT
  <2>4. ObjectT'
    BY <1>1, <1>5, <2>1 DEF ObjectT, Work, Download, PutThumb, UpdateThumbnails, MarkFailed, Thumb
  <2>5. RowT'
    <3>1. /\ "ready" \in Thumbs /\ "failed" \in Thumbs /\ slot[w].u \in Uploads
          /\ row[slot[w].u] \in Rows
      BY <1>1, <2>1 DEF Thumbs, RowT
    <3>2. /\ [row[slot[w].u] EXCEPT !.thumb = "failed"] \in Rows
          /\ [row[slot[w].u] EXCEPT !.thumb = "ready", !.keys = TRUE] \in Rows
      BY <3>1 DEF Rows
    <3>3. \/ row' = row
          \/ row' = [row EXCEPT ![slot[w].u] = [row[slot[w].u] EXCEPT !.thumb = "failed"]]
          \/ row' = [row EXCEPT ![slot[w].u] = [row[slot[w].u] EXCEPT !.thumb = "ready", !.keys = TRUE]]
      BY <1>1, <1>5, <3>1 DEF Work, Download, PutThumb, UpdateThumbnails, MarkFailed, RowT
    <3>4. QED
      BY <1>1, <3>1, <3>2, <3>3 DEF RowT
  <2>6. gaveUp' \subseteq Uploads
    BY <1>1, <1>5, <2>1 DEF RestT, Work, Download, PutThumb, UpdateThumbnails, MarkFailed
  <2>7. QED
    BY <1>1, <1>2, <1>3, <2>1, <2>3, <2>4, <2>5, <2>6 DEF TypeOK, RowT, ObjectT, PhaseT,
       CompT, AbortT, CleanT, RecallT, QueueT, SlotT, RestT, Phases, Comps, Abrts, Cleaners,
       Recalls, Events
<1>6. QED
  BY <1>4, <1>5

LEMMA SequenceOf ==
    ASSUME NEW S, IsFiniteSet(S)
    PROVE  SetToSeq(S) \in Seq(S)
<1>1. ExistsBijection(1 .. Cardinality(S), S)
  BY FS_CardinalityType
<1>2. Cardinality(S) \in Nat
  BY FS_CardinalityType
<1>3. \E g \in [1 .. Cardinality(S) -> S] : IsInjective(g)
  BY <1>1 DEF ExistsBijection, Bijection, Injection, IsInjective
<1>4. SetToSeq(S) \in [1 .. Cardinality(S) -> S]
  BY <1>3 DEF SetToSeq
<1>5. QED
  BY <1>2, <1>4

LEMMA RestartType ==
    ASSUME UploadsAssumption, TypeOK, Recover \/ Crash
    PROVE  TypeOK'
<1>1. /\ RowT /\ ObjectT /\ PhaseT /\ CompT /\ AbortT /\ CleanT /\ RecallT
      /\ QueueT /\ SlotT /\ RestT
  BY TypeParts
<1>2. CASE Recover
  <2>1. Unmade \subseteq Uploads /\ IsFiniteSet(Unmade)
    BY FS_Subset DEF Unmade, UploadsAssumption
  <2>2. ASSUME NEW S \in SUBSET Unmade PROVE SetToSeq(S) \in Seq(Uploads)
    <3>1. S \subseteq Uploads /\ IsFiniteSet(S)
      BY <2>1, FS_Subset
    <3>2. QED
      BY <3>1, SequenceOf
  <2>3. QueueT'
    <3>1. queue \in Seq(Uploads)
      BY <1>1 DEF QueueT
    <3>2. queue' = queue \/ \E S \in SUBSET Unmade : queue' = queue \o SetToSeq(S)
      BY <1>2 DEF Recover
    <3>3. \A S \in SUBSET Unmade : queue \o SetToSeq(S) \in Seq(Uploads)
      BY <2>2, <3>1
    <3>4. QED
      BY <3>1, <3>2, <3>3, Zenon DEF QueueT
  <2>4. RestT' /\ UNCHANGED <<row, objects, phase, recall, comp, abrt, cleaner, slot>>
    <3>1. gaveUp' \subseteq gaveUp \union Unmade
      BY <1>2 DEF Recover
    <3>2. upsets' \in Nat
      BY <1>1, <1>2 DEF Recover, RestT, Fault, Fine
    <3>3. booted' = TRUE /\ UNCHANGED <<row, objects, phase, recall, comp, abrt, cleaner, slot>>
      BY <1>2 DEF Recover
    <3>4. QED
      BY <1>1, <2>1, <3>1, <3>2, <3>3 DEF RestT
  <2>5. QED
    BY <1>1, <2>3, <2>4 DEF TypeOK, RowT, ObjectT, PhaseT, CompT, AbortT,
       CleanT, RecallT, QueueT, SlotT, RestT, Phases, Comps, Abrts, Cleaners, Recalls, Events
<1>3. CASE Crash
  <2>1. CompT' /\ AbortT'
    BY <1>1, <1>3, Words DEF Crash, CompT, AbortT
  <2>2. CleanT' /\ QueueT'
    BY <1>3 DEF Crash, CleanT, Cleaners, Idle, QueueT
  <2>3. SlotT'
    BY <1>3 DEF Crash, SlotT, Jobs
  <2>4. RecallT'
    BY <1>1, <1>3 DEF Crash, RecallT, Recalls, Events
  <2>5. /\ booted' = FALSE /\ gaveUp' = {} /\ Fault
        /\ UNCHANGED <<row, objects, phase>>
    BY <1>3 DEF Crash
  <2>a. RestT'
    <3>1. booted' \in BOOLEAN /\ gaveUp' \subseteq Uploads
      BY <2>5, Zenon
    <3>2. upsets' \in Nat
      BY <1>1, <2>5 DEF RestT, Fault
    <3>3. QED
      BY <3>1, <3>2 DEF RestT
  <2>6. QED
    BY <1>1, <2>1, <2>2, <2>3, <2>4, <2>5, <2>a DEF TypeOK, RowT, ObjectT, PhaseT, CompT, AbortT,
       CleanT, RecallT, QueueT, SlotT, RestT, Phases, Comps, Abrts, Cleaners, Recalls, Events
<1>4. QED
  BY <1>2, <1>3

LEMMA InitType ==
    ASSUME UploadsAssumption, Init
    PROVE  TypeOK
<1>1. RowT
  BY DEF Init, RowT, Absent, Rows, Statuses, Thumbs
<1>2. PhaseT /\ CompT /\ AbortT
  BY Words DEF Init, PhaseT, CompT, AbortT
<1>3. ObjectT /\ QueueT
  BY DEF Init, ObjectT, QueueT
<1>c. RestT
  <2>1. booted \in BOOLEAN /\ gaveUp \subseteq Uploads
    BY Zenon DEF Init
  <2>2. upsets \in Nat
    BY DEF Init
  <2>3. QED
    BY <2>1, <2>2 DEF RestT
<1>a. CleanT
  BY DEF Init, CleanT, Cleaners, Idle
<1>b. RecallT
  BY MaxTriesAssumption DEF Init, RecallT, Recalls, Events
<1>4. SlotT
  BY DEF Init, SlotT, Jobs
<1>5. QED
  BY <1>1, <1>2, <1>3, <1>a, <1>b, <1>c, <1>4, TypeParts

\* Rows, objects and the state of every worker hold values of their types.
THEOREM TypeCorrect == Spec => []TypeOK
<1> USE UploadsAssumption
<1>1. Init => TypeOK
  BY InitType
<1>2. TypeOK /\ [Next]_vars => TypeOK'
  <2>1. TypeOK /\ UNCHANGED vars => TypeOK'
    BY DEF TypeOK, vars
  <2>2. QED
    BY <2>1, ClientType, CompleteType, AbortType, SaveType, RecallType, CleanType, WorkType,
       RestartType DEF Next, Client
<1>3. QED
  BY <1>1, <1>2, PTL DEF Spec

-----------------------------------------------------------------------------
(* What is bound was completed, so no handler of its upload is left; what is *)
(* being removed was marked deleted first, or recalled.                      *)

\* An upload nobody began has no row.
NotBegun == \A u \in Uploads : phase[u] = "idle" => row[u].status = "absent"

\* A bound upload is one the client sent,
BoundIsSent == \A u \in Uploads : row[u].status = "bound" => phase[u] = "sent"

\* and the handlers of complete and abort run while the client is not done.
HandlersEarlier == \A u \in Uploads :
    /\ comp[u] # "none" => phase[u] \in {"completing", "failed", "over"}
    /\ abrt[u] # "none" => phase[u] = "over"

\* The cleanup removes the objects of a row it has marked deleted.
CleansDeleted ==
    cleaner.at # "idle" => /\ cleaner.on \in Uploads \X BOOLEAN
                           /\ row[cleaner.on[1]].status = "deleted"

\* The outbox removes those of an upload that was bound, and a bound video
\* names a frame that was bound with it.
RecallsBound == \A u \in Uploads :
    /\ recall[u].at # "none" => row[u].status \in {"bound", "deleted"}
    /\ row[u].frame # NoUpload => row[row[u].frame].status \in {"bound", "deleted"}

\* The object is there from the completion on,
Needed(u) ==
    \/ row[u].status = "pending" /\ phase[u] = "completed"
    \/ row[u].status = "pending" /\ phase[u] = "completing" /\ comp[u] \in {"tx", "enqueue"}
    \/ Live(u)

MainKept == \A u \in Uploads : Needed(u) => Main(u) \in objects

\* and the thumbnail from the moment a job has stored it.
Made(u) == row[u].thumb = "ready" \/ \E w \in Slots : At(w, "ready") /\ slot[w].u = u

ThumbKept == \A u \in Uploads :
    Made(u) /\ row[u].status # "deleted" /\ recall[u].at = "none" => Thumb(u) \in objects

Inv == /\ NotBegun /\ BoundIsSent /\ HandlersEarlier /\ CleansDeleted /\ RecallsBound
       /\ MainKept /\ ThumbKept

LEMMA Distinct ==
    ASSUME NEW x, NEW y
    PROVE  /\ Main(x) = Main(y) => x = y
           /\ Thumb(x) = Thumb(y) => x = y
           /\ Main(x) # Thumb(y) /\ Main(x) # Parts(y) /\ Thumb(x) # Parts(y)
BY DEF Main, Thumb, Parts

\* Nothing that matters to Inv happens: handlers stop, jobs advance.
LEMMA QuietSafe ==
    ASSUME TypeOK, Inv, UNCHANGED phase, objects \subseteq objects',
           \A x \in Uploads : /\ row'[x].status = row[x].status
                              /\ row'[x].frame = row[x].frame
                              /\ recall'[x].at = "none" <=> recall[x].at = "none"
                              /\ comp'[x] \in {comp[x], "none"}
                              /\ abrt'[x] \in {abrt[x], "none"}
                              /\ Made(x)' => Made(x) \/ Thumb(x) \in objects',
           cleaner'.at = "idle" \/ cleaner' = cleaner
    PROVE  Inv'
<1>1. NotBegun' /\ BoundIsSent' /\ HandlersEarlier'
  BY DEF Inv, NotBegun, BoundIsSent, HandlersEarlier
<1>2. CleansDeleted'
  BY TypeParts DEF Inv, CleansDeleted, CleanT, Cleaners
<1>3. RecallsBound'
  BY TypeParts DEF Inv, RecallsBound, RowT, Rows
<1>4. MainKept'
  BY DEF Inv, MainKept, Needed, Live
<1>5. ThumbKept'
  BY DEF Inv, ThumbKept
<1>6. QED
  BY <1>1, <1>2, <1>3, <1>4, <1>5 DEF Inv

LEMMA InitiateSafe ==
    ASSUME UploadsAssumption, TypeOK, Inv, NEW u \in Uploads, Initiate(u)
    PROVE  Inv'
<1>1. /\ phase[u] = "idle" /\ phase' = [phase EXCEPT ![u] = "putting"]
      /\ row' = [row EXCEPT ![u] = Created(u)]
      /\ UNCHANGED <<objects, recall, comp, abrt, cleaner, slot>>
  BY DEF Initiate, server
<1>2. /\ Created(u).status = "pending" /\ Created(u).frame = NoUpload
      /\ Created(u).thumb # "ready"
  BY DEF Created, Absent
<1>3. /\ row'[u] = Created(u) /\ phase'[u] = "putting"
      /\ \A x \in Uploads \ {u} : row'[x] = row[x] /\ phase'[x] = phase[x]
  BY <1>1, TypeParts DEF RowT, PhaseT
<1>4. row[u].status = "absent" /\ recall[u].at = "none" /\ comp[u] = "none" /\ abrt[u] = "none"
  BY <1>1 DEF Inv, NotBegun, RecallsBound, HandlersEarlier
<1>5. NotBegun' /\ BoundIsSent' /\ HandlersEarlier'
  BY <1>1, <1>2, <1>3, <1>4 DEF Inv, NotBegun, BoundIsSent, HandlersEarlier
<1>6. CleansDeleted'
  BY <1>1, <1>3, <1>4, TypeParts DEF Inv, CleansDeleted, CleanT, Cleaners
<1>7. RecallsBound'
  BY <1>1, <1>2, <1>3, <1>4, TypeParts DEF Inv, RecallsBound, RowT, Rows, UploadsAssumption
<1>8. MainKept'
  BY <1>1, <1>2, <1>3 DEF Inv, MainKept, Needed, Live
<1>9. ThumbKept'
  BY <1>1, <1>2, <1>3, <1>4 DEF Inv, ThumbKept, Made, At
<1>10. QED
  BY <1>5, <1>6, <1>7, <1>8, <1>9 DEF Inv

\* The uploader goes on, and so does a handler of complete: the row keeps its
\* status, and only an upload that is not completed loses its object.
LEMMA UploadingSafe ==
    ASSUME TypeOK, Inv, NEW u \in Uploads, UNCHANGED <<recall, cleaner>>,
           \A x \in Uploads : /\ row'[x].status = row[x].status
                              /\ row'[x].frame = row[x].frame
                              /\ Made(x)' => Made(x)
                              /\ Thumb(x) \in objects => Thumb(x) \in objects',
           \A x \in Uploads \ {u} : /\ phase'[x] = phase[x]
                                    /\ comp'[x] = comp[x] /\ abrt'[x] = abrt[x]
                                    /\ Main(x) \in objects => Main(x) \in objects',
           phase[u] \in {"putting", "completing", "failed", "over"},
           phase'[u] \notin {"idle", "sent"},
           comp'[u] # "none" => phase'[u] \in {"completing", "failed", "over"},
           abrt'[u] # "none" => phase'[u] = "over",
           \/ row[u].status # "pending"
           \/ phase'[u] \notin {"completing", "completed"}
           \/ phase'[u] = "completing" /\ comp'[u] \notin {"tx", "enqueue"}
           \/ Main(u) \in objects'
    PROVE  Inv'
<1>1. row[u].status # "bound"
  BY DEF Inv, BoundIsSent
<1>2. NotBegun' /\ BoundIsSent' /\ HandlersEarlier'
  BY <1>1 DEF Inv, NotBegun, BoundIsSent, HandlersEarlier
<1>3. CleansDeleted'
  BY TypeParts DEF Inv, CleansDeleted, CleanT, Cleaners
<1>4. RecallsBound'
  BY TypeParts DEF Inv, RecallsBound, RowT, Rows
<1>5. MainKept'
  <2>1. ASSUME NEW x \in Uploads \ {u}, Needed(x)' PROVE Main(x) \in objects'
    <3>1. /\ row'[x].status = row[x].status /\ phase'[x] = phase[x] /\ comp'[x] = comp[x]
          /\ Needed(x)
      BY <2>1 DEF Needed, Live
    <3>2. Main(x) \in objects
      BY <3>1 DEF Inv, MainKept
    <3>3. QED
      BY <3>2
  <2>2. ASSUME Needed(u)' PROVE Main(u) \in objects'
    BY <1>1, <2>2 DEF Needed, Live
  <2>3. ASSUME NEW x \in Uploads, Needed(x)' PROVE Main(x) \in objects'
    <3>1. CASE x = u
      BY <2>2, <2>3, <3>1
    <3>2. CASE x # u
      BY <2>1, <2>3, <3>2
    <3>3. QED
      BY <3>1, <3>2
  <2>4. QED
    BY <2>3 DEF MainKept, Main
<1>6. ThumbKept'
  BY DEF Inv, ThumbKept
<1>7. QED
  BY <1>2, <1>3, <1>4, <1>5, <1>6 DEF Inv

LEMMA PutSafe ==
    ASSUME TypeOK, Inv, NEW u \in Uploads, Put(u) \/ PutFails(u) \/ NoAnswer(u) \/ AskAbort(u)
    PROVE  Inv'
<1>1. UNCHANGED <<row, recall, cleaner, slot>> /\ objects \subseteq objects'
  BY DEF Put, PutFails, NoAnswer, AskAbort, server
<1>2. \A x \in Uploads : Made(x)' => Made(x)
  BY <1>1 DEF Made, At
<1>3. /\ \A x \in Uploads \ {u} : phase'[x] = phase[x] /\ comp'[x] = comp[x] /\ abrt'[x] = abrt[x]
      /\ phase[u] \in {"putting", "completing", "failed"}
      /\ \/ phase'[u] = "completing" /\ comp'[u] = "check" /\ abrt'[u] = abrt[u]
         \/ phase'[u] = "failed" /\ comp'[u] = comp[u] /\ abrt'[u] = abrt[u]
         \/ phase'[u] = "over" /\ comp'[u] = comp[u]
  BY TypeParts DEF Put, PutFails, NoAnswer, AskAbort, server, PhaseT, CompT, AbortT
<1>4. (comp[u] # "none" => phase[u] # "putting") /\ abrt[u] = "none"
  BY <1>3 DEF Inv, HandlersEarlier
<1>5. (comp'[u] # "none" => phase'[u] \in {"completing", "failed", "over"})
      /\ (abrt'[u] # "none" => phase'[u] = "over")
  BY <1>3, <1>4
<1>6. QED
  BY <1>1, <1>2, <1>3, <1>5, UploadingSafe

LEMMA CompleteSafe ==
    ASSUME TypeOK, Inv, NEW u \in Uploads, Complete(u)
    PROVE  Inv'
<1>1. /\ comp[u] # "none" /\ phase[u] \in {"completing", "failed", "over"}
      /\ abrt[u] # "none" => phase[u] = "over"
  BY DEF Complete, CheckComplete, Assemble, Stat, MarkUploaded, Reclaim, EnqueueThumbnail,
         Inv, HandlersEarlier
<1>2. UNCHANGED <<recall, abrt, cleaner, slot>>
  BY DEF Complete, CheckComplete, Assemble, Stat, MarkUploaded, Reclaim, EnqueueThumbnail,
         CompleteRest
<1>3. ASSUME NEW ok \in BOOLEAN, phase' = Answered(u, ok)
      PROVE  /\ \A x \in Uploads \ {u} : phase'[x] = phase[x]
             /\ phase'[u] = IF phase[u] = "completing"
                            THEN IF ok THEN "completed" ELSE "failed" ELSE phase[u]
  BY <1>3, TypeParts DEF Answered, PhaseT
<1>4. ASSUME NEW p, comp' = [comp EXCEPT ![u] = p]
      PROVE  comp'[u] = p /\ \A x \in Uploads \ {u} : comp'[x] = comp[x]
  BY <1>4, TypeParts DEF CompT
<1>5. ASSUME UNCHANGED row
      PROVE  \A x \in Uploads : /\ row'[x].status = row[x].status
                                /\ row'[x].frame = row[x].frame
                                /\ Made(x)' => Made(x)
  BY <1>2, <1>5 DEF Made, At
<1>6. ASSUME objects' \in {objects, objects \ {Main(u)}, (objects \ {Parts(u)}) \union {Main(u)}}
      PROVE  /\ \A x \in Uploads : Thumb(x) \in objects => Thumb(x) \in objects'
             /\ \A x \in Uploads \ {u} : Main(x) \in objects => Main(x) \in objects'
  BY <1>6, Distinct
<1>7. ASSUME Fails(u), UNCHANGED row,
             objects' \in {objects, objects \ {Main(u)}, (objects \ {Parts(u)}) \union {Main(u)}}
      PROVE  Inv'
  <2>1. phase' = Answered(u, FALSE) /\ comp' = [comp EXCEPT ![u] = "none"]
    BY <1>7 DEF Fails
  <2>2. /\ comp'[u] = "none" /\ \A x \in Uploads \ {u} : comp'[x] = comp[x]
        /\ phase'[u] = IF phase[u] = "completing" THEN "failed" ELSE phase[u]
        /\ \A x \in Uploads \ {u} : phase'[x] = phase[x]
    BY <1>3, <1>4, <2>1
  <2>3. /\ phase'[u] \in {"failed", "over"} /\ (abrt'[u] # "none" => phase'[u] = "over")
        /\ phase'[u] \notin {"completing", "completed"} /\ phase'[u] \notin {"idle", "sent"}
    BY <1>1, <1>2, <2>2
  <2>4. QED
    BY <1>1, <1>2, <1>5, <1>6, <1>7, <2>2, <2>3, UploadingSafe
<1>8. ASSUME NEW p \in {"assemble", "stat", "tx", "reclaim"}, comp' = [comp EXCEPT ![u] = p],
             UNCHANGED <<row, phase>>,
             objects' \in {objects, (objects \ {Parts(u)}) \union {Main(u)}},
             p = "tx" => Main(u) \in objects'
      PROVE  Inv'
  <2>1. comp'[u] = p /\ \A x \in Uploads \ {u} : comp'[x] = comp[x]
    BY <1>4, <1>8
  <2>2. phase'[u] \notin {"idle", "sent", "completed"} /\ phase'[u] \in {"completing", "failed", "over"}
    BY <1>1, <1>8
  <2>3. QED
    BY <1>1, <1>2, <1>5, <1>6, <1>8, <2>1, <2>2, UploadingSafe
<1>9. CASE CheckComplete(u)
  BY <1>7, <1>8, <1>9 DEF CheckComplete
<1>10. CASE Assemble(u)
  BY <1>7, <1>8, <1>10 DEF Assemble
<1>11. CASE Stat(u)
  BY <1>7, <1>8, <1>11 DEF Stat
<1>12. CASE Reclaim(u)
  BY <1>7, <1>12 DEF Reclaim
<1>13. CASE MarkUploaded(u)
  <2>1. CASE ~MayComplete(u)
    BY <1>8, <1>13, <2>1 DEF MarkUploaded
  <2>2. CASE MayComplete(u)
    <3>1. /\ row' = [row EXCEPT ![u] = Uploaded(row[u], u)] /\ UNCHANGED <<objects, phase>>
          /\ comp[u] = "tx" /\ comp' = [comp EXCEPT ![u] = "enqueue"] /\ row[u].status = "pending"
      BY <1>13, <2>2 DEF MarkUploaded, MayComplete
    <3>2. comp'[u] = "enqueue" /\ \A x \in Uploads \ {u} : comp'[x] = comp[x]
      BY <1>4, <3>1
    <3>3. /\ Uploaded(row[u], u).status = row[u].status /\ Uploaded(row[u], u).frame = row[u].frame
          /\ Uploaded(row[u], u).thumb # "ready"
      BY TypeParts DEF Uploaded, RowT, Rows
    <3>4. row'[u] = Uploaded(row[u], u) /\ \A x \in Uploads \ {u} : row'[x] = row[x]
      BY <3>1, TypeParts DEF RowT
    <3>5. \A x \in Uploads : /\ row'[x].status = row[x].status /\ row'[x].frame = row[x].frame
                             /\ Made(x)' => Made(x)
      BY <1>2, <3>3, <3>4 DEF Made, At
    <3>6. phase[u] = "completing" => Main(u) \in objects
      BY <3>1 DEF Inv, MainKept, Needed
    <3>7. phase'[u] \notin {"idle", "sent", "completed"} /\ phase'[u] \in {"completing", "failed", "over"}
      BY <1>1, <3>1
    <3>8. QED
      BY <1>1, <1>2, <3>1, <3>2, <3>5, <3>6, <3>7, UploadingSafe
  <2>3. QED
    BY <2>1, <2>2
<1>14. CASE EnqueueThumbnail(u)
  <2>1. comp[u] = "enqueue" /\ row' = row /\ objects' = objects
    BY <1>14 DEF EnqueueThumbnail
  <2>a. comp' = [comp EXCEPT ![u] = "none"] /\ phase' = Answered(u, TRUE)
    BY <1>14 DEF EnqueueThumbnail
  <2>2. /\ comp'[u] = "none" /\ \A x \in Uploads \ {u} : comp'[x] = comp[x]
        /\ phase'[u] = IF phase[u] = "completing" THEN "completed" ELSE phase[u]
        /\ \A x \in Uploads \ {u} : phase'[x] = phase[x]
    BY <1>3, <1>4, <2>a
  <2>3. phase[u] = "completing" /\ row[u].status = "pending" => Main(u) \in objects
    BY <2>1 DEF Inv, MainKept, Needed
  <2>4. phase'[u] \notin {"idle", "sent"} /\ (abrt'[u] # "none" => phase'[u] = "over")
    BY <1>1, <1>2, <2>2
  <2>5. \/ row[u].status # "pending" \/ phase'[u] \notin {"completing", "completed"}
        \/ Main(u) \in objects'
    BY <1>1, <2>1, <2>2, <2>3
  <2>6. UNCHANGED <<recall, abrt, cleaner>> /\ phase[u] \in {"putting", "completing", "failed", "over"}
    BY <1>1, <1>2
  <2>7. \A x \in Uploads : /\ row'[x].status = row[x].status /\ row'[x].frame = row[x].frame
                           /\ Made(x)' => Made(x)
    BY <1>5, <2>1
  <2>8. QED
    BY <2>1, <2>2, <2>4, <2>5, <2>6, <2>7, UploadingSafe
<1>15. QED
  BY <1>9, <1>10, <1>11, <1>12, <1>13, <1>14 DEF Complete

\* Marking an upload deleted that was begun.
LEMMA DeletedSafe ==
    ASSUME TypeOK, Inv, NEW u \in Uploads, phase[u] # "idle",
           row' = [row EXCEPT ![u].status = "deleted"],
           UNCHANGED <<objects, phase, comp, slot>>,
           \A x \in Uploads : /\ recall'[x].at = "none" <=> recall[x].at = "none"
                              /\ abrt'[x] \in {abrt[x], "none"},
           \/ cleaner' = cleaner
           \/ cleaner'.at = "idle"
           \/ cleaner'.on \in Uploads \X BOOLEAN /\ cleaner'.on[1] = u
    PROVE  Inv'
<1>1. /\ row'[u].status = "deleted" /\ row'[u].frame = row[u].frame /\ row'[u].thumb = row[u].thumb
      /\ \A x \in Uploads \ {u} : row'[x] = row[x]
  BY TypeParts DEF RowT, Rows
<1>2. NotBegun' /\ BoundIsSent' /\ HandlersEarlier'
  BY <1>1 DEF Inv, NotBegun, BoundIsSent, HandlersEarlier
<1>3. CleansDeleted'
  BY <1>1, TypeParts DEF Inv, CleansDeleted, CleanT, Cleaners
<1>4. RecallsBound'
  BY <1>1, TypeParts DEF Inv, RecallsBound, RowT, Rows
<1>5. MainKept'
  BY <1>1 DEF Inv, MainKept, Needed, Live
<1>6. ThumbKept'
  BY <1>1 DEF Inv, ThumbKept, Made, At
<1>7. QED
  BY <1>2, <1>3, <1>4, <1>5, <1>6 DEF Inv

\* Removing objects of an upload that is deleted, recalled, or not completed.
LEMMA RemovedSafe ==
    ASSUME TypeOK, Inv, NEW u \in Uploads,
           UNCHANGED <<row, phase, comp, slot>>,
           \A x \in Uploads : /\ recall'[x].at = "none" <=> recall[x].at = "none"
                              /\ abrt'[x] # "none" => abrt[x] # "none",
           cleaner'.at = "idle" \/ (cleaner.at # "idle" /\ cleaner'.on = cleaner.on),
           objects' \in {objects, objects \ {Main(u)}, objects \ {Parts(u)}, objects \ {Thumb(u)}},
           ~Needed(u),
           \/ objects' # objects \ {Thumb(u)} \/ Thumb(u) \notin objects \/ row[u].status = "deleted" \/ recall[u].at # "none"
    PROVE  Inv'
<1>1. NotBegun' /\ BoundIsSent' /\ HandlersEarlier'
  BY DEF Inv, NotBegun, BoundIsSent, HandlersEarlier
<1>2. CleansDeleted'
  BY DEF Inv, CleansDeleted
<1>3. RecallsBound'
  BY DEF Inv, RecallsBound
<1>4. MainKept'
  <2>1. SUFFICES ASSUME NEW x \in Uploads, Needed(x)' PROVE Main(x) \in objects'
    BY DEF MainKept, Main
  <2>2. Needed(x) /\ Main(x) \in objects
    BY <2>1 DEF Needed, Live, Inv, MainKept
  <2>3. QED
    BY <2>2, Distinct
<1>5. ThumbKept'
  <2>1. SUFFICES ASSUME NEW x \in Uploads,
                        Made(x)', row'[x].status # "deleted", recall'[x].at = "none"
                 PROVE  Thumb(x) \in objects'
    BY DEF ThumbKept, Thumb
  <2>2. Made(x) /\ row[x].status # "deleted" /\ recall[x].at = "none" /\ Thumb(x) \in objects
    BY <2>1 DEF Made, At, Inv, ThumbKept
  <2>3. QED
    BY <2>2, Distinct
<1>6. QED
  BY <1>1, <1>2, <1>3, <1>4, <1>5 DEF Inv

LEMMA AbortSafe ==
    ASSUME TypeOK, Inv, NEW u \in Uploads, Abort(u)
    PROVE  Inv'
<1>1. /\ abrt[u] # "none" /\ phase[u] = "over"
      /\ UNCHANGED <<recall, phase, comp, cleaner, slot>>
      /\ \A x \in Uploads : abrt'[x] # "none" => abrt[x] # "none"
  BY TypeParts DEF Abort, CheckAbort, AbortStore, AbortTx, AbortRest, Inv, HandlersEarlier, AbortT
<1>2. ~Needed(u)
  BY <1>1 DEF Needed, Live, Inv, BoundIsSent
<1>3. CASE CheckAbort(u) \/ AbortStore(u)
  <2>1. row' = row /\ objects' \in {objects, objects \ {Main(u)}, objects \ {Parts(u)}}
    BY <1>3 DEF CheckAbort, AbortStore, Stored
  <2>2. \A x \in Uploads : /\ recall'[x].at = "none" <=> recall[x].at = "none"
                           /\ abrt'[x] # "none" => abrt[x] # "none"
    BY <1>1
  <2>3. cleaner'.at = "idle" \/ (cleaner.at # "idle" /\ cleaner'.on = cleaner.on)
    BY <1>1
  <2>4. objects' # objects \ {Thumb(u)} \/ Thumb(u) \notin objects
    BY <2>1, Distinct
  <2>5. QED
    BY <1>1, <1>2, <2>1, <2>2, <2>3, <2>4, RemovedSafe
<1>4. CASE AbortTx(u)
  <2>1. /\ objects' = objects /\ abrt' = [abrt EXCEPT ![u] = "none"]
        /\ row' = row \/ row' = [row EXCEPT ![u].status = "deleted"]
    BY <1>4 DEF AbortTx
  <2>2. \A x \in Uploads : /\ recall'[x].at = "none" <=> recall[x].at = "none"
                           /\ abrt'[x] \in {abrt[x], "none"}
    BY <1>1, <2>1, TypeParts DEF AbortT
  <2>3. CASE row' = row
    BY <1>1, <2>1, <2>2, <2>3, QuietSafe DEF Made, At
  <2>4. CASE row' = [row EXCEPT ![u].status = "deleted"]
    BY <1>1, <2>1, <2>2, <2>4, DeletedSafe
  <2>5. QED
    BY <2>1, <2>3, <2>4
<1>5. QED
  BY <1>3, <1>4 DEF Abort

LEMMA SaveSafe ==
    ASSUME UploadsAssumption, TypeOK, Inv, NEW u \in Uploads, SaveMessage(u)
    PROVE  Inv'
<1>1. PICK f \in Frames(u) :
        /\ phase[u] = "completed" /\ Bindable(u) /\ (f # NoUpload => Bindable(f))
        /\ row' = Bound(u, f)
        /\ phase' = [x \in Uploads |-> IF x \in {u, f} THEN "sent" ELSE phase[x]]
        /\ UNCHANGED <<objects, recall, server, upsets>>
  BY DEF SaveMessage
<1>2. f = NoUpload \/ (f \in Uploads /\ f # u /\ phase[f] = "completed")
  BY DEF Frames, UploadsAssumption
<1>3. UNCHANGED <<objects, recall, comp, abrt, cleaner, slot>>
  BY <1>1 DEF server
<1>4. row[u].status = "pending" /\ (f # NoUpload => row[f].status = "pending")
  BY <1>1 DEF Bindable
<1>5. \A x \in Uploads :
        /\ x \in {u, f} => /\ phase[x] = "completed" /\ phase'[x] = "sent"
                           /\ row[x].status = "pending" /\ row'[x].status = "bound"
        /\ x \notin {u, f} => phase'[x] = phase[x] /\ row'[x] = row[x]
        /\ row'[x].thumb = row[x].thumb
        /\ row'[x].frame = IF x = u THEN f ELSE row[x].frame
  BY <1>1, <1>2, <1>4, TypeParts DEF Bound, RowT, Rows, UploadsAssumption
<1>6. NotBegun' /\ BoundIsSent' /\ HandlersEarlier'
  BY <1>3, <1>5 DEF Inv, NotBegun, BoundIsSent, HandlersEarlier
<1>7. CleansDeleted'
  BY <1>3, <1>5, TypeParts DEF Inv, CleansDeleted, CleanT, Cleaners
<1>8. RecallsBound'
  <2>1. \A x \in Uploads : row[x].status \in {"bound", "deleted"} => row'[x].status \in {"bound", "deleted"}
    BY <1>5
  <2>2. \A x \in Uploads : recall'[x].at # "none" => row'[x].status \in {"bound", "deleted"}
    BY <1>3, <2>1 DEF Inv, RecallsBound
  <2>3. ASSUME NEW x \in Uploads, row'[x].frame # NoUpload
        PROVE  row'[row'[x].frame].status \in {"bound", "deleted"}
    <3>1. CASE x = u
      BY <1>2, <1>5, <2>3, <3>1
    <3>2. CASE x # u
      BY <1>5, <2>1, <2>3, <3>2, TypeParts DEF Inv, RecallsBound, RowT, Rows
    <3>3. QED
      BY <3>1, <3>2
  <2>4. QED
    BY <2>2, <2>3 DEF RecallsBound
<1>9. MainKept'
  BY <1>3, <1>5 DEF Inv, MainKept, Needed, Live
<1>10. ThumbKept'
  BY <1>3, <1>5 DEF Inv, ThumbKept, Made, At
<1>11. QED
  BY <1>6, <1>7, <1>8, <1>9, <1>10 DEF Inv

LEMMA RecallSafe ==
    ASSUME UploadsAssumption, TypeOK, Inv, NEW u \in Uploads, RecallMessage(u)
    PROVE  Inv'
<1>1. /\ UNCHANGED <<row, objects, phase, comp, abrt, cleaner, slot>>
      /\ row[u].status = "bound"
  BY DEF RecallMessage, server
<1>2. \A x \in Uploads :
        \/ recall'[x] = recall[x]
        \/ recall'[x].at = "main" /\ (x = u \/ x = row[u].frame)
  BY DEF RecallMessage, Recalled
<1>3. NotBegun' /\ BoundIsSent' /\ HandlersEarlier' /\ CleansDeleted'
  BY <1>1 DEF Inv, NotBegun, BoundIsSent, HandlersEarlier, CleansDeleted
<1>4. RecallsBound'
  BY <1>1, <1>2 DEF Inv, RecallsBound, UploadsAssumption
<1>5. MainKept'
  BY <1>1, <1>2 DEF Inv, MainKept, Needed, Live
<1>6. ThumbKept'
  BY <1>1, <1>2 DEF Inv, ThumbKept, Made, At
<1>7. QED
  BY <1>3, <1>4, <1>5, <1>6 DEF Inv

LEMMA OutboxSafe ==
    ASSUME TypeOK, Inv, NEW u \in Uploads, Outbox(u)
    PROVE  Inv'
<1>1. /\ recall[u].at # "none" /\ row[u].status \in {"bound", "deleted"} /\ phase[u] # "idle"
      /\ UNCHANGED <<phase, comp, abrt, cleaner, slot>>
  BY DEF Outbox, DeleteMain, DeleteThumb, MarkDeleted, RecallRest, server, Inv, RecallsBound, NotBegun
<1>2. ~Needed(u)
  BY <1>1 DEF Needed, Live
<1>3. \A x \in Uploads : recall'[x].at = "none" <=> recall[x].at = "none"
  BY <1>1, FailedAt, TypeParts DEF Outbox, DeleteMain, DeleteThumb, MarkDeleted, RecallT, Recalls, Events
<1>4. \A x \in Uploads : abrt'[x] \in {abrt[x], "none"} /\ (abrt'[x] # "none" => abrt[x] # "none")
  BY <1>1
<1>5. CASE MarkDeleted(u)
  <2>1. objects' = objects /\ (row' = row \/ row' = [row EXCEPT ![u].status = "deleted"])
    BY <1>5 DEF MarkDeleted
  <2>2. CASE row' = row
    BY <1>1, <1>3, <1>4, <2>1, <2>2, QuietSafe DEF Made, At
  <2>3. CASE row' = [row EXCEPT ![u].status = "deleted"]
    BY <1>1, <1>3, <1>4, <2>1, <2>3, DeletedSafe
  <2>4. QED
    BY <2>1, <2>2, <2>3
<1>6. CASE DeleteMain(u) \/ DeleteThumb(u)
  <2>1. row' = row /\ objects' \in {objects, objects \ {Main(u)}, objects \ {Thumb(u)}}
    BY <1>6 DEF DeleteMain, DeleteThumb
  <2>2. cleaner'.at = "idle" \/ (cleaner.at # "idle" /\ cleaner'.on = cleaner.on)
    BY <1>1
  <2>3. QED
    BY <1>1, <1>2, <1>3, <1>4, <2>1, <2>2, RemovedSafe
<1>7. QED
  BY <1>5, <1>6 DEF Outbox

LEMMA CleanSafe ==
    ASSUME TypeOK, Inv, Cleanup
    PROVE  Inv'
<1>1. UNCHANGED <<phase, recall, comp, abrt, slot>>
  BY DEF Cleanup, Scan, TakeOrphan, CleanParts, CleanMain, CleanThumb, Removes, CleanRest
<1>2. CASE Scan
  <2>1. cleaner'.at = "idle" /\ row' = row /\ objects' = objects
    BY <1>2 DEF Scan, Idle
  <2>2. QED
    BY <1>1, <2>1, QuietSafe DEF Made, At
<1>3. CASE TakeOrphan
  <2>1. PICK r \in cleaner.todo :
          LET rest == [cleaner EXCEPT !.todo = @ \ {r}]
          IN  \/ /\ OwnsOrphan(r[1])
                 /\ row' = [row EXCEPT ![r[1]].status = "deleted"]
                 /\ cleaner' = [rest EXCEPT !.on = r, !.at = "abort"]
              \/ cleaner' = rest /\ row' = row
    BY <1>3 DEF TakeOrphan
  <2>2. /\ r \in Uploads \X BOOLEAN /\ cleaner \in Cleaners /\ cleaner.at = "idle"
        /\ objects' = objects
    BY <1>3, TypeParts DEF TakeOrphan, CleanT, Cleaners
  <2>3. r[1] \in Uploads
    BY <2>2
  <2>4. CASE row' = row /\ cleaner' = [cleaner EXCEPT !.todo = @ \ {r}]
    <3>1. cleaner'.at = "idle"
      BY <2>2, <2>4 DEF Cleaners
    <3>2. QED
      BY <1>1, <2>2, <2>4, <3>1, QuietSafe DEF Made, At
  <2>5. CASE /\ OwnsOrphan(r[1]) /\ row' = [row EXCEPT ![r[1]].status = "deleted"]
             /\ cleaner' = [[cleaner EXCEPT !.todo = @ \ {r}] EXCEPT !.on = r, !.at = "abort"]
    <3>1. cleaner'.on = r
      BY <2>2, <2>5 DEF Cleaners
    <3>2. phase[r[1]] # "idle"
      BY <2>3, <2>5 DEF OwnsOrphan, Inv, NotBegun
    <3>3. QED
      BY <1>1, <2>2, <2>3, <2>5, <3>1, <3>2, DeletedSafe
  <2>6. QED
    BY <2>1, <2>4, <2>5
<1>4. ASSUME NEW gone, NEW next, cleaner.at # "idle", Removes(gone, next),
             next.at = "idle" \/ next.on = cleaner.on,
             gone \in {{Parts(cleaner.on[1])}, {Main(cleaner.on[1])}, {Thumb(cleaner.on[1])}, {}}
      PROVE  Inv'
  <2> DEFINE u == cleaner.on[1]
  <2>1. u \in Uploads /\ row[u].status = "deleted"
    BY <1>4, TypeParts DEF Inv, CleansDeleted, CleanT, Cleaners
  <2>2. ~Needed(u)
    BY <2>1 DEF Needed, Live
  <2>3. /\ row' = row /\ cleaner' = next
        /\ objects' \in {objects, objects \ {Main(u)}, objects \ {Parts(u)}, objects \ {Thumb(u)}}
    BY <1>4 DEF Removes
  <2> HIDE DEF u
  <2>4. cleaner'.at = "idle" \/ (cleaner.at # "idle" /\ cleaner'.on = cleaner.on)
    BY <1>4, <2>3
  <2>5. QED
    BY <1>1, <2>1, <2>2, <2>3, <2>4, RemovedSafe
<1>5. CASE CleanParts \/ CleanMain
  BY <1>4, <1>5, TypeParts DEF CleanParts, CleanMain, CleanT, Cleaners
<1>6. CASE CleanThumb
  BY <1>4, <1>6, TypeParts DEF CleanThumb, CleanT, Cleaners
<1>7. QED
  BY <1>2, <1>3, <1>5, <1>6 DEF Cleanup

LEMMA WorkSafe ==
    ASSUME TypeOK, Inv, NEW w \in Slots, Work(w)
    PROVE  Inv'
<1>1. UNCHANGED <<phase, recall, comp, abrt, cleaner>>
  BY DEF Work, Pump, Download, PutThumb, UpdateThumbnails, MarkFailed, WorkRest
<1>2. objects \subseteq objects'
  BY DEF Work, Pump, Download, PutThumb, UpdateThumbnails, MarkFailed
<1>3. \A x \in Uploads : row'[x].status = row[x].status /\ row'[x].frame = row[x].frame
  <2>1. CASE UpdateThumbnails(w)
    BY <2>1, TypeParts DEF UpdateThumbnails, RowT, Rows
  <2>2. CASE MarkFailed(w)
    BY <2>2, TypeParts DEF MarkFailed, RowT, Rows
  <2>3. CASE row' = row
    BY <2>3
  <2>4. QED
    BY <2>1, <2>2, <2>3 DEF Work, Pump, Download, PutThumb
<1>4. ASSUME NEW x \in Uploads, Made(x)' PROVE Made(x) \/ Thumb(x) \in objects'
  <2>1. CASE UpdateThumbnails(w)
    <3>1. slot[w] # <<>> /\ slot[w].at = "ready" /\ slot[w].u \in Uploads
      BY <2>1, TypeParts DEF UpdateThumbnails, At, SlotT, Jobs
    <3>2. x = slot[w].u \/ row'[x] = row[x]
      BY <2>1, <3>1, TypeParts DEF UpdateThumbnails, RowT
    <3>3. \A v \in Slots : At(v, "ready")' => At(v, "ready") /\ slot'[v].u = slot[v].u
      BY <2>1, <3>1, TypeParts DEF UpdateThumbnails, At, SlotT, Jobs
    <3>4. QED
      BY <1>4, <3>1, <3>2, <3>3 DEF Made, At
  <2>2. CASE PutThumb(w)
    <3>1. slot[w] # <<>> /\ slot[w].at = "put" /\ slot[w].u \in Uploads /\ row' = row
      BY <2>2, TypeParts DEF PutThumb, At, SlotT, Jobs
    <3>2. \A v \in Slots \ {w} : slot'[v] = slot[v]
      BY <2>2, TypeParts DEF PutThumb, SlotT
    <3>3. /\ slot'[w].u = slot[w].u
          /\ At(w, "ready")' => objects' = objects \union {Thumb(slot[w].u)}
      BY <2>2, <3>1, TypeParts DEF PutThumb, At, SlotT, Jobs
    <3>4. QED
      BY <1>4, <3>1, <3>2, <3>3 DEF Made, At
  <2>3. CASE Pump(w) \/ Download(w) \/ MarkFailed(w)
    <3>1. \A v \in Slots : At(v, "ready")' => At(v, "ready") /\ slot'[v].u = slot[v].u
      BY <2>3, TypeParts DEF Pump, Download, MarkFailed, At, SlotT, Jobs
    <3>2. row'[x].thumb = "ready" => row[x].thumb = "ready"
      BY <2>3, TypeParts DEF Pump, Download, MarkFailed, RowT, Rows
    <3>3. QED
      BY <1>4, <3>1, <3>2 DEF Made
  <2>4. QED
    BY <2>1, <2>2, <2>3 DEF Work
<1>5. QED
  BY <1>1, <1>2, <1>3, <1>4, QuietSafe

LEMMA RestartSafe ==
    ASSUME TypeOK, Inv, Recover \/ Crash
    PROVE  Inv'
<1>1. /\ UNCHANGED <<row, objects, phase>> /\ (cleaner' = cleaner \/ cleaner'.at = "idle")
      /\ slot' = slot \/ \A w \in Slots : slot'[w] = <<>>
  BY DEF Recover, Crash, Idle
<1>2. \A x \in Uploads : comp'[x] \in {comp[x], "none"} /\ abrt'[x] \in {abrt[x], "none"}
  BY DEF Recover, Crash
<1>3. \A x \in Uploads : recall'[x].at = "none" <=> recall[x].at = "none"
  BY TypeParts DEF Recover, Crash, RecallT, Recalls, Events
<1>4. \A x \in Uploads : Made(x)' => Made(x)
  BY <1>1 DEF Made, At
<1>5. QED
  BY <1>1, <1>2, <1>3, <1>4, QuietSafe

LEMMA NextSafe ==
    ASSUME UploadsAssumption, TypeOK, Inv, [Next]_vars
    PROVE  Inv'
<1>1. CASE UNCHANGED vars
  BY <1>1 DEF vars, Inv, NotBegun, BoundIsSent, HandlersEarlier, CleansDeleted, RecallsBound,
     MainKept, Needed, Live, ThumbKept, Made, At, Main, Thumb
<1>2. QED
  BY <1>1, InitiateSafe, PutSafe, CompleteSafe, AbortSafe, SaveSafe, RecallSafe, OutboxSafe,
     CleanSafe, WorkSafe, RestartSafe DEF Next, Client

LEMMA Invariance == Spec => []Inv
<1> USE UploadsAssumption
<1>1. Init => Inv
  <2>1. SUFFICES ASSUME Init PROVE Inv
    OBVIOUS
  <2>2. NotBegun /\ BoundIsSent /\ HandlersEarlier /\ CleansDeleted
    BY <2>1 DEF Init, NotBegun, BoundIsSent, HandlersEarlier, CleansDeleted, Absent, Idle
  <2>3. RecallsBound /\ MainKept /\ ThumbKept
    BY <2>1 DEF Init, RecallsBound, MainKept, Needed, Live, ThumbKept, Made, At, Absent
  <2>4. QED
    BY <2>2, <2>3 DEF Inv
<1>2. TypeOK /\ Inv /\ [Next]_vars => Inv'
  BY NextSafe
<1>3. QED
  BY <1>1, <1>2, TypeCorrect, PTL DEF Spec

\* The object of an upload that a message shows is in the bucket.
THEOREM ShownIsStored == Spec => []BoundKeepsObject
<1>1. Inv => BoundKeepsObject
  BY DEF Inv, MainKept, Needed, BoundKeepsObject
<1>2. QED
  BY <1>1, Invariance, PTL

\* A thumbnail that a message says is ready is in the bucket.
THEOREM ReadyIsStored == Spec => []ReadyHasThumb
<1>1. Inv => ReadyHasThumb
  BY DEF Inv, ThumbKept, Made, Live, ReadyHasThumb
<1>2. QED
  BY <1>1, Invariance, PTL

\* Only its recall takes an upload away from a message: no cleanup, abort or
\* late completion does.
THEOREM OnlyRecallUnbinds == Spec => BoundUntilRecalled
<1> USE UploadsAssumption
<1>1. TypeOK /\ Inv /\ [Next]_vars => [\A u \in Uploads : Live(u) => row'[u].status = "bound"]_vars
  <2>1. SUFFICES ASSUME TypeOK, Inv, Next, NEW x \in Uploads, Live(x)
                 PROVE  row'[x].status = "bound"
    OBVIOUS
  <2>2. /\ row[x].status = "bound" /\ phase[x] = "sent" /\ recall[x].at = "none"
        /\ comp[x] = "none" /\ abrt[x] = "none"
    BY <2>1 DEF Live, Inv, BoundIsSent, HandlersEarlier
  <2>3. ASSUME NEW u \in Uploads, Client(u) PROVE row'[x].status = "bound"
    <3>1. CASE Initiate(u)
      <4>1. u # x /\ row' = [row EXCEPT ![u] = Created(u)]
        BY <2>2, <3>1 DEF Initiate
      <4>2. QED
        BY <2>1, <2>2, <4>1, TypeParts DEF RowT
    <3>2. CASE SaveMessage(u)
      <4>1. PICK f \in Frames(u) : row' = Bound(u, f)
        BY <3>2 DEF SaveMessage
      <4>2. row'[x] = CASE x = u -> [row[x] EXCEPT !.status = "bound", !.frame = f]
                        [] x = f -> [row[x] EXCEPT !.status = "bound", !.parent = u]
                        [] OTHER -> row[x]
        BY <2>1, <4>1 DEF Bound
      <4>3. row[x] \in Rows
        BY <2>1, TypeParts DEF RowT
      <4>4. QED
        BY <2>2, <4>2, <4>3 DEF Rows
    <3>3. QED
      BY <2>2, <2>3, <3>1, <3>2 DEF Client, Put, PutFails, NoAnswer, AskAbort, RecallMessage
  <2>4. ASSUME NEW u \in Uploads, Complete(u) PROVE row'[x].status = "bound"
    <3>1. row' = row \/ row' = [row EXCEPT ![u] = Uploaded(row[u], u)]
      BY <2>4 DEF Complete, CheckComplete, Assemble, Stat, MarkUploaded, Reclaim, EnqueueThumbnail
    <3>2. Uploaded(row[u], u).status = row[u].status
      BY <2>1, TypeParts DEF Uploaded, RowT, Rows
    <3>3. QED
      BY <2>1, <2>2, <3>1, <3>2, TypeParts DEF RowT
  <2>5. ASSUME NEW u \in Uploads, Abort(u) \/ Outbox(u) PROVE row'[x].status = "bound"
    <3>1. row' = row \/ (u # x /\ row' = [row EXCEPT ![u].status = "deleted"])
      BY <2>2, <2>5 DEF Abort, CheckAbort, AbortStore, AbortTx, Outbox, DeleteMain, DeleteThumb,
                        MarkDeleted
    <3>2. QED
      BY <2>1, <2>2, <3>1, TypeParts DEF RowT
  <2>6. CASE Cleanup
    <3>1. row' = row \/ \E u \in Uploads \ {x} : row' = [row EXCEPT ![u].status = "deleted"]
      <4>1. CASE TakeOrphan
        <5>1. PICK r \in cleaner.todo :
                \/ OwnsOrphan(r[1]) /\ row' = [row EXCEPT ![r[1]].status = "deleted"]
                \/ row' = row
          BY <4>1 DEF TakeOrphan
        <5>2. r[1] \in Uploads
          BY <2>1, TypeParts DEF CleanT, Cleaners
        <5>3. QED
          BY <2>2, <5>1, <5>2 DEF OwnsOrphan
      <4>2. QED
        BY <2>6, <4>1 DEF Cleanup, Scan, CleanParts, CleanMain, CleanThumb, Removes
    <3>2. QED
      BY <2>1, <2>2, <3>1, TypeParts DEF RowT
  <2>7. ASSUME NEW w \in Slots, Work(w) PROVE row'[x].status = "bound"
    <3>1. CASE UpdateThumbnails(w)
      BY <2>1, <2>2, <3>1, TypeParts DEF UpdateThumbnails, RowT, Rows
    <3>2. CASE MarkFailed(w)
      BY <2>1, <2>2, <3>2, TypeParts DEF MarkFailed, RowT, Rows
    <3>3. QED
      BY <2>2, <2>7, <3>1, <3>2 DEF Work, Pump, Download, PutThumb
  <2>8. CASE Recover \/ Crash
    BY <2>2, <2>8 DEF Recover, Crash
  <2>9. QED
    BY <2>1, <2>3, <2>4, <2>5, <2>6, <2>7, <2>8 DEF Next
<1>2. QED
  BY <1>1, TypeCorrect, Invariance, PTL DEF Spec, BoundUntilRecalled

-----------------------------------------------------------------------------
(* MediaPromise                                                            *)

\* A recalled upload was sent, and from the removal of its object on that object
\* is gone.
Removed == \A u \in Uploads :
    /\ recall[u].at # "none" => phase[u] = "sent"
    /\ recall[u].at \in {"thumb", "mark"} => Main(u) \notin objects
    /\ recall[u].at \in {"main", "thumb", "mark"} => row[u].status = "bound"

\* A draft belongs to nothing; a message that shows a frame shows its own.
Paired == \A u \in Uploads :
    /\ row[u].status \in {"absent", "pending"} => row[u].parent = NoUpload /\ row[u].frame = NoUpload
    /\ Live(u) /\ row[u].frame # NoUpload =>
         Live(row[u].frame) /\ row[u].frame # u /\ row[row[u].frame].parent = u

Whole == Removed /\ Paired

\* Nobody stores the object of an upload that was sent.
LEMMA NothingStoredLater ==
    ASSUME TypeOK, Inv, [Next]_vars, NEW x \in Uploads, phase[x] = "sent", Main(x) \in objects'
    PROVE  Main(x) \in objects
<1>1. ASSUME NEW u \in Uploads, Put(u) \/ PutFails(u), Main(x) \notin objects PROVE FALSE
  <2>1. u # x
    BY <1>1 DEF Put, PutFails
  <2>2. Stored(u) # Main(x)
    BY <2>1, Distinct DEF Stored
  <2> QED
    BY <1>1, <2>2 DEF Put, PutFails
<1>2. ASSUME NEW u \in Uploads, Complete(u), Main(x) \notin objects PROVE FALSE
  <2>1. u # x
    BY <1>2 DEF Inv, HandlersEarlier, Complete, CheckComplete, Assemble, Stat, MarkUploaded, Reclaim,
       EnqueueThumbnail
  <2>2. Main(u) # Main(x)
    BY <2>1, Distinct
  <2> QED
    BY <1>2, <2>2 DEF Complete, CheckComplete, Assemble, Stat, MarkUploaded, Reclaim, EnqueueThumbnail
<1>3. ASSUME NEW w \in Slots, Work(w) PROVE Main(x) \in objects
  <2>1. objects' = objects \/ objects' = objects \union {Thumb(slot[w].u)}
    BY <1>3 DEF Work, Pump, Download, PutThumb, UpdateThumbnails, MarkFailed
  <2> QED
    BY <2>1, Distinct
<1>4. ASSUME NEW u \in Uploads, Abort(u) \/ Outbox(u) \/ Initiate(u) \/ NoAnswer(u) \/ AskAbort(u)
                                \/ SaveMessage(u) \/ RecallMessage(u)
      PROVE  Main(x) \in objects
  BY <1>4 DEF Abort, CheckAbort, AbortStore, AbortTx, Outbox, DeleteMain, DeleteThumb, MarkDeleted,
     Initiate, NoAnswer, AskAbort, SaveMessage, RecallMessage
<1>5. CASE Cleanup \/ Recover \/ Crash \/ UNCHANGED vars
  BY <1>5 DEF Cleanup, Scan, TakeOrphan, CleanParts, CleanMain, CleanThumb, Removes, Recover, Crash, vars
<1>6. QED
  BY <1>1, <1>2, <1>3, <1>4, <1>5 DEF Next, Client

\* Nothing is decided about any row.
Undecided ==
    \A x \in Uploads : /\ row'[x].status = row[x].status /\ row'[x].parent = row[x].parent
                       /\ row'[x].frame = row[x].frame
                       /\ recall'[x].at = "none" <=> recall[x].at = "none"

\* A row is marked deleted.
Deletes(u) ==
    /\ row' = [row EXCEPT ![u].status = "deleted"]
    /\ UNCHANGED objects
    /\ \A x \in Uploads : recall'[x].at = "none" <=> recall[x].at = "none"

LEMMA RowMoves ==
    ASSUME TypeOK, Inv, [Next]_vars
    PROVE  \/ Undecided
           \/ \E u \in Uploads : \/ Initiate(u) \/ SaveMessage(u) \/ RecallMessage(u)
                                 \/ row[u].status = "pending" /\ Deletes(u)
                                 \/ recall[u].at = "mark" /\ recall'[u].at = "done" /\ Deletes(u)
<1>0. RowT /\ RecallT
  BY TypeParts
<1>a. ASSUME row' = row, \A x \in Uploads : recall'[x].at = "none" <=> recall[x].at = "none"
      PROVE  Undecided
  BY <1>a DEF Undecided
<1>1. ASSUME NEW u \in Uploads, Put(u) \/ PutFails(u) \/ NoAnswer(u) \/ AskAbort(u) PROVE Undecided
  BY <1>1, <1>a DEF Put, PutFails, NoAnswer, AskAbort
<1>2. ASSUME NEW u \in Uploads, Complete(u) PROVE Undecided
  <2>1. recall' = recall /\ (row' = row \/ row' = [row EXCEPT ![u] = Uploaded(row[u], u)])
    BY <1>2 DEF Complete, CheckComplete, Assemble, Stat, MarkUploaded, Reclaim, EnqueueThumbnail,
       CompleteRest
  <2>2. /\ Uploaded(row[u], u).status = row[u].status /\ Uploaded(row[u], u).parent = row[u].parent
        /\ Uploaded(row[u], u).frame = row[u].frame
    BY <1>0 DEF Uploaded, RowT, Rows
  <2> QED
    BY <1>0, <2>1, <2>2 DEF Undecided, RowT
<1>3. ASSUME NEW u \in Uploads, Abort(u) PROVE Undecided \/ (row[u].status = "pending" /\ Deletes(u))
  <2>1. recall' = recall
    BY <1>3 DEF Abort, CheckAbort, AbortStore, AbortTx, AbortRest
  <2>2. row' = row \/ (row[u].status = "pending" /\ row' = [row EXCEPT ![u].status = "deleted"]
                       /\ UNCHANGED objects)
    BY <1>3 DEF Abort, CheckAbort, AbortStore, AbortTx
  <2> QED
    BY <1>a, <2>1, <2>2 DEF Deletes
<1>4. ASSUME NEW u \in Uploads, Outbox(u) 
      PROVE  Undecided \/ (recall[u].at = "mark" /\ recall'[u].at = "done" /\ Deletes(u))
  <2>1. \A x \in Uploads : recall'[x].at = "none" <=> recall[x].at = "none"
    BY <1>0, <1>4, FailedAt DEF Outbox, DeleteMain, DeleteThumb, MarkDeleted, RecallT, Recalls, Events
  <2>2. \/ row' = row
        \/ /\ recall[u].at = "mark" /\ recall' = [recall EXCEPT ![u].at = "done"]
           /\ row' = [row EXCEPT ![u].status = "deleted"] /\ UNCHANGED objects
    BY <1>4 DEF Outbox, DeleteMain, DeleteThumb, MarkDeleted
  <2>3. recall' = [recall EXCEPT ![u].at = "done"] => recall'[u].at = "done"
    BY <1>0 DEF RecallT, Recalls, Events
  <2> QED
    BY <1>a, <2>1, <2>2, <2>3 DEF Deletes
<1>5. ASSUME Cleanup
      PROVE  Undecided \/ \E u \in Uploads : row[u].status = "pending" /\ Deletes(u)
  <2>1. recall' = recall
    BY <1>5 DEF Cleanup, Scan, TakeOrphan, CleanParts, CleanMain, CleanThumb, Removes, CleanRest
  <2>2. CASE TakeOrphan
    <3>1. PICK r \in cleaner.todo :
            \/ OwnsOrphan(r[1]) /\ row' = [row EXCEPT ![r[1]].status = "deleted"]
            \/ row' = row
      BY <2>2 DEF TakeOrphan
    <3>2. r[1] \in Uploads /\ UNCHANGED objects
      BY <2>2, TypeParts DEF CleanT, Cleaners, TakeOrphan
    <3> QED
      BY <1>a, <2>1, <3>1, <3>2 DEF OwnsOrphan, Deletes
  <2>3. CASE ~TakeOrphan
    <3>1. row' = row
      BY <1>5, <2>3 DEF Cleanup, Scan, CleanParts, CleanMain, CleanThumb, Removes
    <3> QED
      BY <1>a, <2>1, <3>1
  <2> QED
    BY <2>2, <2>3
<1>6. ASSUME NEW w \in Slots, Work(w) PROVE Undecided
  <2>1. recall' = recall
    BY <1>6 DEF Work, Pump, Download, PutThumb, UpdateThumbnails, MarkFailed, WorkRest
  <2>2. CASE UpdateThumbnails(w)
    BY <1>0, <2>1, <2>2 DEF UpdateThumbnails, RowT, Rows, Undecided
  <2>3. CASE MarkFailed(w)
    BY <1>0, <2>1, <2>3 DEF MarkFailed, RowT, Rows, Undecided
  <2>4. CASE row' = row
    BY <1>a, <2>1, <2>4
  <2> QED
    BY <1>6, <2>2, <2>3, <2>4 DEF Work, Pump, Download, PutThumb
<1>7. CASE Recover \/ Crash
  <2>1. row' = row /\ \A x \in Uploads : recall'[x].at = "none" <=> recall[x].at = "none"
    BY <1>0, <1>7 DEF Recover, Crash, RecallT, Recalls, Events
  <2> QED
    BY <1>a, <2>1
<1>8. CASE UNCHANGED vars
  BY <1>a, <1>8 DEF vars
<1>9. QED
  BY <1>1, <1>2, <1>3, <1>4, <1>5, <1>6, <1>7, <1>8 DEF Next, Client

LEMMA RecallMoves ==
    ASSUME UploadsAssumption, TypeOK, Inv, [Next]_vars, NEW x \in Uploads
    PROVE  \/ recall'[x].at = recall[x].at
           \/ recall[x].at = "main" /\ recall'[x].at = "thumb" /\ Main(x) \notin objects'
           \/ recall[x].at = "thumb" /\ recall'[x].at = "mark"
           \/ recall[x].at \in {"thumb", "mark"} /\ recall'[x].at \in {"main", "done"}
           \/ recall[x].at \in {"main", "mark"} /\ recall'[x].at \in {"main", "dead"}
           \/ \E u \in Uploads : RecallMessage(u) /\ x \in Shows(u) /\ recall'[x].at = "main"
<1> DEFINE Ok == \/ recall'[x].at = recall[x].at
                 \/ recall[x].at = "main" /\ recall'[x].at = "thumb" /\ Main(x) \notin objects'
                 \/ recall[x].at = "thumb" /\ recall'[x].at = "mark"
                 \/ recall[x].at \in {"thumb", "mark"} /\ recall'[x].at \in {"main", "done"}
                 \/ recall[x].at \in {"main", "mark"} /\ recall'[x].at \in {"main", "dead"}
                 \/ \E u \in Uploads : RecallMessage(u) /\ x \in Shows(u) /\ recall'[x].at = "main"
<1>0. RecallT
  BY TypeParts
<1>a. recall' = recall => Ok
  OBVIOUS
<1>b. ASSUME NEW u \in Uploads, NEW p, recall' = [recall EXCEPT ![u].at = p]
      PROVE  recall'[u].at = p /\ (x # u => recall'[x].at = recall[x].at)
  BY <1>0, <1>b DEF RecallT, Recalls, Events
<1>f. ASSUME NEW u \in Uploads, recall' = [recall EXCEPT ![u] = Failed(u)]
      PROVE  recall'[u].at \in {"main", "dead"} /\ (x # u => recall'[x] = recall[x])
  BY <1>0, <1>f, FailedAt DEF RecallT
<1>1. ASSUME NEW u \in Uploads, Outbox(u) PROVE Ok
  <2>1. CASE DeleteMain(u)
    BY <1>b, <1>f, <2>1 DEF DeleteMain
  <2>2. CASE DeleteThumb(u)
    BY <1>b, <2>2 DEF DeleteThumb
  <2>3. CASE MarkDeleted(u)
    BY <1>b, <1>f, <2>3 DEF MarkDeleted
  <2> QED
    BY <1>1, <2>1, <2>2, <2>3 DEF Outbox
<1>2. ASSUME NEW u \in Uploads, RecallMessage(u) PROVE Ok
  <2>1. recall'[x] = recall[x] \/ (recall'[x] = Recalled(x) /\ (x = u \/ x = row[u].frame))
    BY <1>2 DEF RecallMessage
  <2>2. Recalled(x).at = "main"
    BY DEF Recalled
  <2>3. x # NoUpload \/ x = u
    BY DEF UploadsAssumption
  <2> QED
    BY <1>2, <2>1, <2>2, <2>3 DEF Shows
<1>3. ASSUME Crash PROVE Ok
  BY <1>0, <1>3 DEF Crash, RecallT, Recalls, Events
<1>4. ASSUME NEW u \in Uploads, Complete(u) \/ Abort(u) \/ Initiate(u) \/ Put(u) \/ PutFails(u)
                                \/ NoAnswer(u) \/ AskAbort(u) \/ SaveMessage(u)
      PROVE  recall' = recall
  BY <1>4 DEF Complete, CheckComplete, Assemble, Stat, MarkUploaded, Reclaim, EnqueueThumbnail,
     CompleteRest, Abort, CheckAbort, AbortStore, AbortTx, AbortRest, Initiate, Put, PutFails,
     NoAnswer, AskAbort, SaveMessage
<1>5. ASSUME Cleanup \/ Recover \/ UNCHANGED vars \/ \E w \in Slots : Work(w) PROVE recall' = recall
  BY <1>5 DEF Cleanup, Scan, TakeOrphan, CleanParts, CleanMain, CleanThumb, Removes, CleanRest,
     Recover, vars, Work, Pump, Download, PutThumb, UpdateThumbnails, MarkFailed, WorkRest
<1> HIDE DEF Ok
<1>6. Ok
  BY <1>a, <1>1, <1>2, <1>3, <1>4, <1>5 DEF Next, Client
<1>7. QED
  BY <1>6 DEF Ok

LEMMA SentStays ==
    ASSUME UploadsAssumption, TypeOK, Inv, [Next]_vars, NEW x \in Uploads, phase[x] = "sent"
    PROVE  phase'[x] = "sent"
<1>0. PhaseT
  BY TypeParts
<1>1. ASSUME NEW u \in Uploads, NEW p, phase[u] # "sent", phase' = [phase EXCEPT ![u] = p]
      PROVE  phase'[x] = "sent"
  BY <1>0, <1>1 DEF PhaseT
<1>2. ASSUME NEW u \in Uploads, Initiate(u) \/ Put(u) \/ PutFails(u) \/ NoAnswer(u) \/ AskAbort(u)
      PROVE  phase'[x] = "sent"
  BY <1>1, <1>2 DEF Initiate, Put, PutFails, NoAnswer, AskAbort
<1>3. ASSUME NEW u \in Uploads, SaveMessage(u) \/ RecallMessage(u) PROVE phase'[x] = "sent"
  BY <1>3 DEF SaveMessage, RecallMessage
<1>4. ASSUME NEW u \in Uploads, Complete(u) PROVE phase'[x] = "sent"
  <2>1. \/ phase' = phase
        \/ \E ok \in BOOLEAN : phase' = Answered(u, ok)
    BY <1>4 DEF Complete, CheckComplete, Assemble, Stat, MarkUploaded, Reclaim, EnqueueThumbnail, Fails
  <2>2. phase[u] # "sent"
    BY <1>4 DEF Inv, HandlersEarlier, Complete, CheckComplete, Assemble, Stat, MarkUploaded, Reclaim,
       EnqueueThumbnail
  <2> QED
    BY <1>1, <2>1, <2>2 DEF Answered
<1>5. ASSUME NEW u \in Uploads, Abort(u) \/ Outbox(u) PROVE phase' = phase
  BY <1>5 DEF Abort, CheckAbort, AbortStore, AbortTx, AbortRest, Outbox, DeleteMain, DeleteThumb,
     MarkDeleted, RecallRest
<1>6. ASSUME Cleanup \/ Recover \/ Crash \/ UNCHANGED vars \/ \E w \in Slots : Work(w)
      PROVE  phase' = phase
  BY <1>6 DEF Cleanup, Scan, TakeOrphan, CleanParts, CleanMain, CleanThumb, Removes, CleanRest,
     Recover, Crash, vars, Work, Pump, Download, PutThumb, UpdateThumbnails, MarkFailed, WorkRest
<1>7. QED
  BY <1>2, <1>3, <1>4, <1>5, <1>6 DEF Next, Client

\* What saving a message does to the rows.
LEMMA SaveMoves ==
    ASSUME UploadsAssumption, TypeOK, NEW u \in Uploads, SaveMessage(u)
    PROVE  \E f \in Uploads \union {NoUpload} :
             /\ f # u
             /\ \A x \in Uploads \ {u, f} : row'[x] = row[x]
             /\ \A x \in Uploads : x \in {u, f} =>
                  /\ row[x].status = "pending" /\ row'[x].status = "bound" /\ phase[x] = "completed"
                  /\ row'[x].frame = IF x = u THEN f ELSE row[x].frame
                  /\ row'[x].parent = IF x = u THEN row[x].parent ELSE u
             /\ UNCHANGED <<objects, recall>>
<1>1. PICK f \in Frames(u) :
        /\ phase[u] = "completed" /\ Bindable(u) /\ (f # NoUpload => Bindable(f))
        /\ row' = Bound(u, f) /\ UNCHANGED <<objects, recall>>
  BY DEF SaveMessage
<1>2. f = NoUpload \/ (f \in Uploads /\ f # u /\ phase[f] = "completed")
  BY DEF Frames, UploadsAssumption
<1>3. f # u
  BY <1>2 DEF UploadsAssumption
<1>4. ASSUME NEW x \in Uploads \ {u, f} PROVE row'[x] = row[x]
  BY <1>1, <1>4 DEF Bound
<1>5. ASSUME NEW x \in Uploads, x \in {u, f}
      PROVE  /\ row[x].status = "pending" /\ row'[x].status = "bound" /\ phase[x] = "completed"
             /\ row'[x].frame = IF x = u THEN f ELSE row[x].frame
             /\ row'[x].parent = IF x = u THEN row[x].parent ELSE u
  <2>1. row[x] \in Rows
    BY TypeParts DEF RowT
  <2>2. row'[x] = IF x = u THEN [row[x] EXCEPT !.status = "bound", !.frame = f]
                           ELSE [row[x] EXCEPT !.status = "bound", !.parent = u]
    BY <1>1, <1>3, <1>5 DEF Bound
  <2>3. row[x].status = "pending" /\ phase[x] = "completed"
    BY <1>1, <1>2, <1>5 DEF Bindable, UploadsAssumption
  <2> QED
    BY <1>3, <1>5, <2>1, <2>2, <2>3 DEF Rows
<1>6. QED
  BY <1>1, <1>2, <1>3, <1>4, <1>5

LEMMA RemovedNext ==
    ASSUME UploadsAssumption, TypeOK, Inv, Whole, [Next]_vars
    PROVE  Removed'
<1> SUFFICES ASSUME NEW x \in Uploads
             PROVE  /\ recall'[x].at # "none" => phase'[x] = "sent"
                    /\ recall'[x].at \in {"thumb", "mark"} => Main(x) \notin objects'
                    /\ recall'[x].at \in {"main", "thumb", "mark"} => row'[x].status = "bound"
  BY DEF Removed, Main
<1>1. /\ recall[x].at # "none" => phase[x] = "sent"
      /\ recall[x].at \in {"thumb", "mark"} => Main(x) \notin objects
      /\ recall[x].at \in {"main", "thumb", "mark"} => row[x].status = "bound"
  BY DEF Whole, Removed
<1>2. RowT /\ RecallT
  BY TypeParts
<1>3. ASSUME NEW u \in Uploads, RecallMessage(u), x \in Shows(u)
      PROVE  row[x].status = "bound" /\ phase[x] = "sent" /\ row' = row
  <2>1. Live(u) /\ row' = row
    BY <1>3 DEF RecallMessage, Live
  <2>2. Live(x)
    BY <1>3, <2>1 DEF Shows, Whole, Paired
  <2> QED
    BY <2>1, <2>2 DEF Live, Inv, BoundIsSent
<1>4. recall'[x].at # "none" => phase'[x] = "sent"
  <2>1. recall'[x].at # "none" => recall[x].at # "none" \/ \E u \in Uploads : RecallMessage(u) /\ x \in Shows(u)
    BY RecallMoves
  <2> QED
    BY <1>1, <1>3, <2>1, SentStays
<1>5. recall'[x].at \in {"thumb", "mark"} => Main(x) \notin objects'
  <2>1. recall'[x].at \in {"thumb", "mark"} => recall[x].at \in {"thumb", "mark"} \/ Main(x) \notin objects'
    BY RecallMoves
  <2> QED
    BY <1>1, <2>1, NothingStoredLater
<1>6. recall'[x].at \in {"main", "thumb", "mark"} => row'[x].status = "bound"
  <2> SUFFICES ASSUME recall'[x].at \in {"main", "thumb", "mark"} PROVE row'[x].status = "bound"
    OBVIOUS
  <2>1. row[x].status = "bound"
    BY <1>1, <1>3, RecallMoves
  <2>2. ASSUME NEW u \in Uploads, Deletes(u), u # x PROVE row'[x] = row[x]
    BY <1>2, <2>2 DEF Deletes, RowT
  <2>3. ASSUME NEW u \in Uploads, Initiate(u) PROVE row'[x] = row[x]
    <3>1. u # x
      BY <2>1, <2>3 DEF Initiate, Inv, NotBegun
    <3> QED
      BY <1>2, <2>3, <3>1 DEF Initiate, RowT
  <2>4. ASSUME NEW u \in Uploads, SaveMessage(u) PROVE row'[x].status = "bound"
    BY <2>1, <2>4, SaveMoves
  <2>5. ASSUME NEW u \in Uploads, RecallMessage(u) PROVE row' = row
    BY <2>5 DEF RecallMessage
  <2> QED
    BY <2>1, <2>2, <2>3, <2>4, <2>5, RowMoves DEF Undecided
<1>7. QED
  BY <1>4, <1>5, <1>6

\* Live in the next state.
Lives(x) == row'[x].status = "bound" /\ recall'[x].at = "none"

LEMMA PairedNext ==
    ASSUME UploadsAssumption, TypeOK, TypeOK', Inv, Whole, [Next]_vars
    PROVE  Paired'
<1>1. RowT /\ RowT'
  BY DEF TypeOK, RowT
<1>2. \A x \in Uploads : row[x].frame \in Uploads \union {NoUpload} /\ NoUpload \notin Uploads
  BY <1>1 DEF RowT, Rows, UploadsAssumption
<1>3. CASE Undecided
  BY <1>2, <1>3 DEF Undecided, Whole, Paired, Live, Lives
<1>4. ASSUME NEW u \in Uploads, Initiate(u) PROVE Paired'
  <2>1. row[u].status = "absent" /\ recall' = recall
    BY <1>4 DEF Initiate, Inv, NotBegun
  <2>2. row'[u].parent = NoUpload /\ row'[u].frame = NoUpload /\ \A x \in Uploads \ {u} : row'[x] = row[x]
    BY <1>1, <1>4 DEF Initiate, RowT, Created, Absent
  <2> QED
    BY <1>2, <2>1, <2>2 DEF Whole, Paired, Live, Lives
<1>5. ASSUME NEW u \in Uploads, SaveMessage(u) PROVE Paired'
  <2>1. PICK f \in Uploads \union {NoUpload} :
             /\ f # u
             /\ \A x \in Uploads \ {u, f} : row'[x] = row[x]
             /\ \A x \in Uploads : x \in {u, f} =>
                  /\ row[x].status = "pending" /\ row'[x].status = "bound"
                  /\ row'[x].frame = IF x = u THEN f ELSE row[x].frame
                  /\ row'[x].parent = IF x = u THEN row[x].parent ELSE u
             /\ recall' = recall
    BY <1>5, SaveMoves
  <2>2. \A x \in Uploads : x \in {u, f} => recall[x].at = "none" /\ row[x].frame = NoUpload
    BY <2>1 DEF Inv, RecallsBound, Whole, Paired
  <2>3. ASSUME NEW x \in Uploads, row'[x].status \in {"absent", "pending"}
        PROVE  row'[x].parent = NoUpload /\ row'[x].frame = NoUpload
    BY <2>1, <2>3 DEF Whole, Paired
  <2>4. ASSUME NEW x \in Uploads, Lives(x), row'[x].frame # NoUpload
        PROVE  Lives(row'[x].frame) /\ row'[x].frame # x /\ row'[row'[x].frame].parent = x
    <3>1. CASE x = u
      BY <2>1, <2>2, <2>4, <3>1 DEF Live, Lives
    <3>2. CASE x = f
      BY <2>1, <2>2, <2>4, <3>2
    <3>3. CASE x \notin {u, f}
      <4>1. Live(x) /\ row'[x] = row[x]
        BY <2>1, <2>4, <3>3 DEF Live, Lives
      <4>2. Live(row[x].frame) /\ row[x].frame # x /\ row[row[x].frame].parent = x /\ row[x].frame \in Uploads
        BY <1>2, <2>4, <4>1 DEF Whole, Paired
      <4>3. row[x].frame \notin {u, f}
        BY <2>1, <4>2 DEF Live, Lives
      <4> QED
        BY <2>1, <4>1, <4>2, <4>3 DEF Live, Lives
    <3> QED
      BY <3>1, <3>2, <3>3
  <2> QED
    BY <2>3, <2>4 DEF Paired, Live, Lives
<1>6. ASSUME NEW u \in Uploads, RecallMessage(u) PROVE Paired'
  <2>1. /\ row' = row /\ Live(u) /\ row[u].parent = NoUpload
        /\ \A x \in Uploads : recall'[x] = recall[x] \/ x = u \/ x = row[u].frame
        /\ recall'[u].at = "main"
    BY <1>6 DEF RecallMessage, Live, Recalled
  <2>2. ASSUME NEW x \in Uploads, Lives(x), row[x].frame # NoUpload
        PROVE  Lives(row[x].frame) /\ row[x].frame # x /\ row[row[x].frame].parent = x
    <3>1. x # u
      BY <2>1, <2>2 DEF Live, Lives
    <3>2. row[u].frame # x
      <4>1. row[u].frame = x => Live(x) /\ row[x].parent = u /\ recall'[x] = Recalled(x)
        BY <1>6, <2>1, <1>2 DEF Whole, Paired, RecallMessage, Live
      <4> QED
        BY <2>2, <4>1 DEF Recalled, Live, Lives
    <3>3. Live(x)
      BY <2>1, <2>2, <3>1, <3>2 DEF Live, Lives
    <3>4. Live(row[x].frame) /\ row[x].frame # x /\ row[row[x].frame].parent = x /\ row[x].frame \in Uploads
      BY <1>2, <2>2, <3>3 DEF Whole, Paired
    <3>5. row[x].frame # u /\ row[x].frame # row[u].frame
      BY <1>2, <2>1, <3>1, <3>4 DEF Whole, Paired
    <3> QED
      BY <2>1, <3>4, <3>5 DEF Live, Lives
  <2>3. \A x \in Uploads : row[x].status \in {"absent", "pending"} => row[x].parent = NoUpload /\ row[x].frame = NoUpload
    BY DEF Whole, Paired
  <2> QED
    BY <2>1, <2>2, <2>3 DEF Paired, Live, Lives
<1>7. ASSUME NEW u \in Uploads, Deletes(u), row[u].status = "pending" \/ recall[u].at = "mark"
      PROVE  Paired'
  <2>1. /\ row'[u].status = "deleted" /\ ~Live(u) /\ ~Lives(u)
        /\ \A x \in Uploads \ {u} : row'[x] = row[x]
    BY <1>1, <1>7 DEF Deletes, RowT, Rows, Live, Lives
  <2>2. \A x \in Uploads \ {u} : Lives(x) <=> Live(x)
    BY <1>7, <2>1 DEF Deletes, Live, Lives
  <2>3. ASSUME NEW x \in Uploads, Lives(x), row'[x].frame # NoUpload
        PROVE  Lives(row'[x].frame) /\ row'[x].frame # x /\ row'[row'[x].frame].parent = x
    <3>1. x # u /\ row'[x] = row[x] /\ Live(x)
      BY <2>1, <2>2, <2>3
    <3>2. Live(row[x].frame) /\ row[x].frame # x /\ row[row[x].frame].parent = x /\ row[x].frame \in Uploads
      BY <1>2, <2>3, <3>1 DEF Whole, Paired
    <3>3. row[x].frame # u
      BY <2>1, <3>2
    <3> QED
      BY <2>1, <2>2, <3>1, <3>2, <3>3
  <2>4. \A x \in Uploads : row'[x].status \in {"absent", "pending"} => row'[x].parent = NoUpload /\ row'[x].frame = NoUpload
    BY <2>1 DEF Whole, Paired
  <2> QED
    BY <2>3, <2>4 DEF Paired, Live, Lives
<1>8. QED
  BY <1>3, <1>4, <1>5, <1>6, <1>7, RowMoves

LEMMA WholeAlways == Spec => []Whole
<1> USE UploadsAssumption
<1>1. Init => Whole
  BY DEF Init, Whole, Removed, Paired, Live, Absent
<1>2. TypeOK /\ TypeOK' /\ Inv /\ Whole /\ [Next]_vars => Whole'
  BY RemovedNext, PairedNext DEF Whole
<1>3. QED
  BY <1>1, <1>2, TypeCorrect, Invariance, PTL DEF Spec

-----------------------------------------------------------------------------
(* What a reader sees                                                      *)

LEMMA LifeOf ==
    ASSUME RowT, NEW x \in Uploads
    PROVE  /\ Life[x] = "new" <=> row[x].status = "absent"
           /\ Life[x] = "draft" <=> row[x].status = "pending"
           /\ Life[x] = "shown" <=> Live(x)
           /\ Life[x] = "recalled" <=> row[x].status = "bound" /\ ~Live(x)
           /\ Life[x] = "gone" <=> row[x].status = "deleted"
<1>1. row[x].status \in Statuses
  BY DEF RowT, Rows
<1>2. Life[x] = CASE row[x].status = "absent"  -> "new"
                  [] row[x].status = "pending" -> "draft"
                  [] row[x].status = "bound"   -> IF Live(x) THEN "shown" ELSE "recalled"
                  [] OTHER                     -> "gone"
  BY DEF Life
<1>3. Live(x) => row[x].status = "bound"
  BY DEF Live
<1>4. QED
  BY <1>1, <1>2, <1>3 DEF Statuses

LEMMA LifeNext ==
    ASSUME RowT', NEW x \in Uploads
    PROVE  /\ Life'[x] = "new" <=> row'[x].status = "absent"
           /\ Life'[x] = "draft" <=> row'[x].status = "pending"
           /\ Life'[x] = "shown" <=> Live(x)'
           /\ Life'[x] = "recalled" <=> row'[x].status = "bound" /\ ~Live(x)'
           /\ Life'[x] = "gone" <=> row'[x].status = "deleted"
<1>1. row'[x].status \in Statuses
  BY DEF RowT, Rows
<1>2. Life'[x] = CASE row'[x].status = "absent"  -> "new"
                   [] row'[x].status = "pending" -> "draft"
                   [] row'[x].status = "bound"   -> IF Live(x)' THEN "shown" ELSE "recalled"
                   [] OTHER                      -> "gone"
  BY DEF Life
<1>3. Live(x)' => row'[x].status = "bound"
  BY DEF Live
<1>4. QED
  BY <1>1, <1>2, <1>3 DEF Statuses

\* A life is decided by the status of the row and by whether it is recalled.
LEMMA SameLife ==
    ASSUME NEW x \in Uploads, row'[x].status = row[x].status,
           recall'[x].at = "none" <=> recall[x].at = "none"
    PROVE  Life'[x] = Life[x]
<1>1. Live(x)' <=> Live(x)
  BY DEF Live
<1>2. QED
  BY <1>1 DEF Life

LEMMA BecomeOf ==
    ASSUME NEW S \in SUBSET Uploads, NEW from, NEW to,
           \A x \in S : Life[x] = from /\ Life'[x] = to,
           \A x \in Uploads \ S : Life'[x] = Life[x]
    PROVE  Promise!Become(S, from, to)
<1>1. Life' = [x \in Uploads |-> Life'[x]]
  BY DEF Life
<1>2. Life' = [x \in Uploads |-> IF x \in S THEN to ELSE Life[x]]
  BY <1>1
<1>3. QED
  BY <1>2 DEF Promise!Become

Root(x) == Live(x) /\ row[x].parent = NoUpload

\* Messages stay if the lives of roots and their frames do.
LEMMA SameMessages ==
    ASSUME \A x \in Uploads : Root(x)' <=> Root(x),
           \A x \in Uploads : Root(x) => row'[x].frame = row[x].frame
    PROVE  Messages' = Messages
<1>1. \A x \in Uploads : Root(x) => Shows(x)' = Shows(x)
  BY DEF Shows
<1>2. Messages = {Shows(x) : x \in {y \in Uploads : Root(y)}}
  BY DEF Messages, Root
<1>3. Messages' = {Shows(x)' : x \in {y \in Uploads : Root(y)'}}
  BY DEF Messages, Root
<1>4. QED
  BY <1>1, <1>2, <1>3

Stock == {x \in Uploads : Main(x) \in objects}

\* Where nothing is decided, objects may move.
LEMMA MovesObjects ==
    ASSUME TypeOK, TypeOK', Inv, Inv', [Next]_vars, Undecided
    PROVE  Promise!Move(Stock')
<1>1. RowT
  BY DEF TypeOK, RowT
<1>2. ASSUME NEW x \in Uploads PROVE Life'[x] = Life[x] /\ (Live(x)' <=> Live(x))
  BY <1>2, SameLife DEF Undecided, Live
<1>3. Life' = Life
  BY <1>2 DEF Life
<1>4. Messages' = Messages
  BY <1>2, SameMessages DEF Root, Undecided
<1>5. ASSUME NEW x \in Uploads, Life[x] = "shown" PROVE x \in Stock' /\ x \in Stock
  <2>1. Live(x) /\ Live(x)'
    BY <1>1, <1>2, <1>5, LifeOf
  <2> QED
    BY <2>1 DEF Stock, Inv, MainKept, Needed
<1>6. ASSUME NEW x \in Uploads, Life[x] = "recalled", x \in Stock' PROVE x \in Stock
  <2>1. phase[x] = "sent"
    BY <1>1, <1>6, LifeOf DEF Inv, BoundIsSent
  <2> QED
    BY <1>6, <2>1, NothingStoredLater DEF Stock
<1>7. QED
  BY <1>3, <1>4, <1>5, <1>6 DEF Promise!Move, Stock

LEMMA BeginsDraft ==
    ASSUME UploadsAssumption, TypeOK, TypeOK', Inv, NEW u \in Uploads, Initiate(u)
    PROVE  Promise!Begin(u)
<1>1. RowT /\ RowT'
  BY DEF TypeOK, RowT
<1>2. /\ row[u].status = "absent" /\ row'[u].status = "pending" /\ UNCHANGED <<objects, recall>>
      /\ \A x \in Uploads \ {u} : row'[x] = row[x]
  BY <1>1, Edits DEF Initiate, Inv, NotBegun, RowT, Created, Absent
<1>3. Life[u] = "new" /\ Life'[u] = "draft"
  BY <1>1, <1>2, LifeOf, LifeNext
<1>4. ASSUME NEW x \in Uploads \ {u} PROVE Life'[x] = Life[x]
  BY <1>2, <1>4, SameLife
<1>5. Promise!Become({u}, "new", "draft")
  BY <1>3, <1>4, BecomeOf
<1>6. Messages' = Messages
  BY <1>2, SameMessages DEF Root, Live
<1>7. QED
  BY <1>2, <1>5, <1>6 DEF Promise!Begin

LEMMA ShowsMessage ==
    ASSUME UploadsAssumption, TypeOK, TypeOK', Inv, Whole, NEW u \in Uploads, SaveMessage(u)
    PROVE  \E S \in SUBSET Uploads : Promise!Show(S)
<1>1. RowT /\ RowT'
  BY DEF TypeOK, RowT
<1>2. PICK f \in Uploads \union {NoUpload} :
         /\ f # u
         /\ \A x \in Uploads \ {u, f} : row'[x] = row[x]
         /\ \A x \in Uploads : x \in {u, f} =>
              /\ row[x].status = "pending" /\ row'[x].status = "bound" /\ phase[x] = "completed"
              /\ row'[x].frame = IF x = u THEN f ELSE row[x].frame
              /\ row'[x].parent = IF x = u THEN row[x].parent ELSE u
         /\ UNCHANGED <<objects, recall>>
  BY SaveMoves
<1> DEFINE S == {u, f} \ {NoUpload}
<1>3. S \subseteq Uploads /\ u \in S /\ \A x \in Uploads : x \in S <=> x \in {u, f}
  BY DEF UploadsAssumption
<1> HIDE DEF S
<1>4. \A x \in S : recall[x].at = "none" /\ ~Live(x) /\ Live(x)' /\ row[x].parent = NoUpload
  BY <1>2, <1>3 DEF Inv, RecallsBound, Live, Whole, Paired
<1>5. \A x \in S : Life[x] = "draft" /\ Life'[x] = "shown"
  BY <1>1, <1>2, <1>3, <1>4, LifeOf, LifeNext
<1>6. ASSUME NEW x \in Uploads \ S PROVE Life'[x] = Life[x] /\ row'[x] = row[x] /\ recall' = recall
  BY <1>2, <1>3, <1>6, SameLife
<1>7. Promise!Become(S, "draft", "shown")
  BY <1>3, <1>5, <1>6, BecomeOf
<1>8. S \subseteq Stock
  BY <1>2, <1>3 DEF Stock, Inv, MainKept, Needed
<1>9. Messages' = Messages \union {S}
  <2>1. ASSUME NEW x \in Uploads, x # u PROVE Root(x)' <=> Root(x)
    BY <1>2, <1>3, <1>4, <1>6, <2>1 DEF Root, Live, UploadsAssumption
  <2>2. Root(u)' /\ ~Root(u)
    BY <1>2, <1>3, <1>4 DEF Root
  <2>3. Shows(u)' = S
    BY <1>2 DEF Shows, S
  <2>4. ASSUME NEW x \in Uploads, Root(x) PROVE Shows(x)' = Shows(x)
    BY <1>3, <1>4, <1>6, <2>4 DEF Root, Shows
  <2>5. Messages = {Shows(x) : x \in {y \in Uploads : Root(y)}}
    BY DEF Messages, Root
  <2>6. Messages' = {Shows(x)' : x \in {y \in Uploads : Root(y)'}}
    BY DEF Messages, Root
  <2> QED
    BY <2>1, <2>2, <2>3, <2>4, <2>5, <2>6
<1>10. QED
  BY <1>2, <1>3, <1>7, <1>8, <1>9 DEF Promise!Show, Stock

LEMMA RecallsWhole ==
    ASSUME UploadsAssumption, TypeOK, TypeOK', Inv, Whole, NEW u \in Uploads, RecallMessage(u)
    PROVE  \E S \in SUBSET Uploads : Promise!Recall(S)
<1>1. RowT /\ RowT'
  BY DEF TypeOK, RowT
<1> DEFINE f == row[u].frame
<1>2. /\ row' = row /\ objects' = objects /\ Root(u)
      /\ recall' = [x \in Uploads |-> IF x = u \/ (x = f /\ row[x].status # "deleted")
                                      THEN Recalled(x) ELSE recall[x]]
  BY DEF RecallMessage, Root, Live
<1>3. f \in Uploads \union {NoUpload} /\ NoUpload \notin Uploads
  BY <1>1 DEF RowT, Rows, UploadsAssumption
<1>4. f # NoUpload => Live(f) /\ row[f].parent = u /\ f # u
  BY <1>2 DEF Whole, Paired, Root
<1>5. Shows(u) \subseteq Uploads /\ \A x \in Uploads : x \in Shows(u) <=> x = u \/ x = f
  BY <1>3 DEF Shows
<1> HIDE DEF f
<1>6. ASSUME NEW x \in Shows(u) PROVE Live(x) /\ ~Live(x)' /\ row[x].status = "bound"
  <2>1. x \in Uploads /\ Live(x) /\ row[x].status = "bound"
    BY <1>2, <1>3, <1>4, <1>5, <1>6 DEF Root, Live
  <2>2. recall'[x].at = "main"
    BY <1>2, <1>5, <1>6, <2>1 DEF Recalled
  <2> QED
    BY <2>1, <2>2 DEF Live
<1>7. ASSUME NEW x \in Uploads \ Shows(u) PROVE recall'[x] = recall[x]
  BY <1>2, <1>5, <1>7
<1>8. \A x \in Shows(u) : Life[x] = "shown" /\ Life'[x] = "recalled"
  BY <1>1, <1>2, <1>5, <1>6, LifeOf, LifeNext
<1>9. \A x \in Uploads \ Shows(u) : Life'[x] = Life[x]
  BY <1>2, <1>7, SameLife
<1>10. Promise!Become(Shows(u), "shown", "recalled")
  BY <1>5, <1>8, <1>9, BecomeOf
<1>11. Messages = {Shows(x) : x \in {y \in Uploads : Root(y)}}
  BY DEF Messages, Root
<1>12. Messages' = {Shows(x)' : x \in {y \in Uploads : Root(y)'}}
  BY DEF Messages, Root
<1>13. ASSUME NEW x \in Uploads PROVE Root(x)' <=> Root(x) /\ x # u
  <2>1. CASE x \in Shows(u)
    BY <1>2, <1>3, <1>4, <1>5, <1>6, <2>1 DEF Root
  <2>2. CASE x \notin Shows(u)
    BY <1>2, <1>5, <1>7, <2>2 DEF Root, Live
  <2> QED
    BY <2>1, <2>2
<1>14. ASSUME NEW x \in Uploads, Root(x), x # u PROVE Shows(x) # Shows(u)
  <2>1. row[x].frame = u => row[u].parent = x
    BY <1>3, <1>14 DEF Root, Whole, Paired
  <2> QED
    BY <1>2, <1>3, <1>14, <2>1 DEF Shows, Root
<1>15. \A x \in Uploads : Shows(x)' = Shows(x)
  BY <1>2 DEF Shows
<1>16. Messages' = Messages \ {Shows(u)} /\ Shows(u) \in Messages
  BY <1>2, <1>11, <1>12, <1>13, <1>14, <1>15
<1>17. QED
  BY <1>2, <1>5, <1>10, <1>16 DEF Promise!Recall

LEMMA GoesAway ==
    ASSUME TypeOK, TypeOK', Inv, Whole, NEW u \in Uploads, Deletes(u),
           row[u].status = "pending" \/ recall[u].at = "mark"
    PROVE  Promise!Drop(u) \/ Promise!Remove(u)
<1>1. RowT /\ RowT'
  BY DEF TypeOK, RowT
<1>2. /\ row'[u].status = "deleted" /\ objects' = objects
      /\ \A x \in Uploads \ {u} : row'[x] = row[x]
      /\ \A x \in Uploads : recall'[x].at = "none" <=> recall[x].at = "none"
  BY <1>1 DEF Deletes, RowT, Rows
<1>3. Life'[u] = "gone" /\ ~Live(u) /\ ~Live(u)'
  BY <1>1, <1>2, LifeNext DEF Live
<1>4. ASSUME NEW x \in Uploads \ {u} PROVE Life'[x] = Life[x] /\ (Live(x)' <=> Live(x))
  BY <1>2, <1>4, SameLife DEF Live
<1>5. Messages' = Messages
  BY <1>2, <1>3, <1>4, SameMessages DEF Root
<1>6. CASE row[u].status = "pending"
  <2>1. Life[u] = "draft"
    BY <1>1, <1>6, LifeOf
  <2>2. Promise!Become({u}, "draft", "gone")
    BY <1>3, <1>4, <2>1, BecomeOf
  <2> QED
    BY <1>2, <1>5, <2>2 DEF Promise!Drop
<1>7. CASE recall[u].at = "mark"
  <2>1. Life[u] = "recalled" /\ u \notin Stock
    BY <1>1, <1>3, <1>7, LifeOf DEF Whole, Removed, Stock
  <2>2. Promise!Become({u}, "recalled", "gone")
    BY <1>3, <1>4, <2>1, BecomeOf
  <2> QED
    BY <1>2, <1>5, <2>1, <2>2 DEF Promise!Remove, Stock
<1>8. QED
  BY <1>6, <1>7

LEMMA StepKeepsMedia ==
    ASSUME UploadsAssumption, TypeOK, TypeOK', Inv, Inv', Whole, [Next]_vars
    PROVE  Promise!Next
<1>1. CASE Undecided
  <2>1. Promise!Move(Stock') /\ Stock' \in SUBSET Uploads
    BY <1>1, MovesObjects DEF Stock
  <2> QED
    BY <2>1 DEF Promise!Next
<1>2. ASSUME NEW u \in Uploads, Initiate(u) PROVE Promise!Next
  BY <1>2, BeginsDraft DEF Promise!Next
<1>3. ASSUME NEW u \in Uploads, SaveMessage(u) PROVE Promise!Next
  BY <1>3, ShowsMessage DEF Promise!Next
<1>4. ASSUME NEW u \in Uploads, RecallMessage(u) PROVE Promise!Next
  BY <1>4, RecallsWhole DEF Promise!Next
<1>5. ASSUME NEW u \in Uploads, Deletes(u), row[u].status = "pending" \/ recall[u].at = "mark"
      PROVE  Promise!Next
  BY <1>5, GoesAway DEF Promise!Next
<1>6. QED
  BY <1>1, <1>2, <1>3, <1>4, <1>5, RowMoves

\* Attachments keep what MediaPromise says, for any uploads: whatever the
\* handlers, the cleanup, recalls, jobs, errors and crashes do to one another, a
\* message shows what is stored, a video together with its frame, until the
\* message is recalled as a whole; nothing recalled is stored again, and it is
\* marked deleted only when its object is gone (saveMessage, recallMessage,
\* markOrphanDeleted, deleteAttachmentObject).
THEOREM MediaKeepsPromise == Spec => MediaPromiseKept
<1> USE UploadsAssumption
<1>1. Init => Promise!Init
  BY DEF Init, Promise!Init, Life, Messages, Live, Absent
<1>2. TypeOK /\ TypeOK' /\ Inv /\ Inv' /\ Whole /\ [Next]_vars
        => [Promise!Next]_<<Life, Messages, {u \in Uploads : Main(u) \in objects}>>
  BY StepKeepsMedia
<1>3. QED
  BY <1>1, <1>2, TypeCorrect, Invariance, WholeAlways, PTL DEF Spec, MediaPromiseKept, Promise!Spec

=============================================================================
