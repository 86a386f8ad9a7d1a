------------------------------ MODULE ClientSync ------------------------------
(***************************************************************************)
(* What a phone keeps of one conversation: the stored messages, the        *)
(* progress row beside them, and the handlers that change both - pushes,   *)
(* read receipts, scrolling back, clearing, deleting and the sync with the *)
(* server (packages/app-core over the shared sync-engine and the SQLite    *)
(* repository of apps/mobile).                                             *)
(*                                                                         *)
(* Most handlers read the whole row, await, and write the whole row back,  *)
(* changed in a field or two.  The calls that change messages run one at a *)
(* time (runExclusive), but change the messages first and the row in a     *)
(* later statement, outside a transaction; the reads of the row, and the   *)
(* calls that only write it, wait for none of them.                        *)
(***************************************************************************)
EXTENDS Naturals

CONSTANTS
  Handlers,    \* handlers under way at once, beside the sync
  PageSize,    \* messages in a page of the server
  MaxLog,      \* messages ever posted
  Mine,        \* those of them that this device sends
  MaxUpsets,   \* requests that fail, times the app is killed, and times the
               \* user clears or deletes the conversation, together
  Tearing      \* may the row be torn?  (see torn)

ASSUME ClientAssumption ==
  /\ PageSize \in Nat \ {0} /\ MaxLog \in Nat
  /\ Mine \subseteq 1 .. MaxLog
  /\ MaxUpsets \in Nat
  /\ Tearing \in BOOLEAN

VARIABLES
  log,       \* server: sequence of the newest message
  concealed, \* server: hidden_before_seq of this user
  cursor,    \* checkpoint: the newest message in the listings taken in
  msgs,      \* sequences of the stored messages (one without a sequence is in no set)
  row,       \* sync progress of the conversation
  excl,      \* the exclusive section: whose it is, and the row it is to write
  h,         \* what each handler is at
  sync,      \* what the sync is at
  erased,    \* history: sequences that an old copy of the message took from it again
  hidden,    \* history: highest cutoff of a clear or a deletion
  torn,      \* history: was the row blanked while somebody held a copy, or the
             \* app killed between the deletion of the messages and the blanking?
  stale,     \* history: did a copy undo last_server_sequence or the deletion?
  cut,       \* history: did a fetch stop between two pages?
  used       \* upsets so far

server  == <<log, concealed>>
local   == <<msgs, erased, row, excl, hidden>>
history == <<torn, stale, cut>>
vars    == <<server, cursor, local, h, sync, history, used>>

Upset == used < MaxUpsets /\ used' = used + 1

Larger(a, b) == IF a < b THEN b ELSE a
Newest(S)    == IF S = {} THEN 0 ELSE CHOOSE s \in S : \A t \in S : t <= s
Oldest(S)    == IF S = {} THEN 0 ELSE CHOOSE s \in S : \A t \in S : s <= t

-----------------------------------------------------------------------------
(* Progress: what the row says of the stored messages *)

\* Mutant: what is hidden is stored all the same.
VisibleAll(r, m) == m

Visible(r, m) == {s \in m : s > r.floor}

\* Mutant: the newest message counts as synced, gaps or not.
ContiguousGaps(f, m) == Larger(f, Newest(m))

\* The messages up to n that are stored without a gap above the floor.
Contiguous(f, m) == Newest({n \in f .. MaxLog : \A s \in (f + 1) .. n : s \in m})

\* First message of the run without a gap that ends at the newest one.
TailFrom(m) == Oldest({n \in m : \A s \in n .. Newest(m) : s \in m})

Reconciled(r, from, to, prefix) ==
  LET synced   == Larger(r.sync, prefix)
      newest   == Larger(Larger(r.server, synced), to)
      complete == newest <= r.floor \/ (from > 0 /\ from <= r.floor + 1)
  IN  [r EXCEPT !.sync = synced, !.server = newest, !.to = to,
                !.complete = complete,
                !.backfill = newest > Larger(to, r.floor) \/ ~complete]

\* recomputeConversationSyncProgress.
Recompute(r, m) ==
  LET v == Visible(r, m)
  IN  Reconciled(r, TailFrom(v), Newest(v), Contiguous(r.floor, v))

Anchor(r) == Larger(Larger(r.sync, r.to), r.floor)

\* Mutant: the sequence the server lists is left to the fetch.
MergedLater(r, remote) ==
  LET m == [r EXCEPT !.sync = Larger(r.sync, r.floor),
                     !.deleted = r.deleted /\ remote <= r.floor]
  IN  [m EXCEPT !.backfill = ~m.deleted /\ (m.server > Anchor(m) \/ ~m.complete)]

\* diffConversations, for a row the device has: what the listing changes.
Merged(r, remote) ==
  LET m == [r EXCEPT !.sync = Larger(r.sync, r.floor),
                     !.server = Larger(r.server, remote),
                     !.deleted = r.deleted /\ remote <= r.floor]
  IN  [m EXCEPT !.backfill = ~m.deleted /\ (m.server > Anchor(m) \/ ~m.complete)]

\* mapRemoteConversation, for one it has not.
Added(remote) ==
  [sync |-> 0, server |-> remote, to |-> 0, floor |-> 0,
   complete |-> remote = 0, backfill |-> remote > 0, deleted |-> FALSE]

Blank == Added(0)

\* Mutant: the message after the newest one is hidden too.
CutoffNext(r, m) == Larger(Larger(Anchor(r), r.server), Newest(m)) + 1

\* The cutoff of a clear, and the row it leaves.
Cutoff(r, m) == Larger(Larger(Anchor(r), r.server), Newest(m))
Blanked(r, cutoff, deleted) ==
  [r EXCEPT !.sync = cutoff, !.to = cutoff, !.floor = cutoff,
            !.complete = TRUE, !.backfill = FALSE, !.deleted = deleted]

-----------------------------------------------------------------------------
(* The pages of the server *)

Shown == {s \in 1 .. log : s > concealed}

\* The newest messages before b, and the oldest after a.
Before(b) == {s \in Shown : s < b /\ \A t \in Shown : t < b => t < s + PageSize}
After(a)  == {s \in Shown : s > a /\ s <= Larger(a, concealed) + PageSize}

-----------------------------------------------------------------------------
(* Initial state: the first listing after a login has brought the conversation. *)

Idle   == [pc |-> "idle", seq |-> 0, page |-> {}, last |-> FALSE, copy |-> Blank]
Asleep == [pc |-> "idle", mode |-> "delta", after |-> 0, target |-> 0, page |-> {},
           last |-> FALSE, from |-> 0, main |-> TRUE, paged |-> FALSE, lapsed |-> FALSE,
           copy |-> Blank]
Free   == [kind |-> "free", by |-> "sync", next |-> Blank]

Task(mode, after, target, main) ==
  [Asleep EXCEPT !.pc = "fetching", !.mode = mode, !.after = after,
                 !.target = target, !.main = main]

Init ==
  /\ log \in 1 .. MaxLog
  /\ concealed = 0 /\ cursor = log
  /\ msgs = {} /\ erased = {} /\ row = Added(log) /\ excl = Free
  /\ h = [i \in Handlers |-> Idle]
  /\ sync = Task("tail", 0, log, TRUE)
  /\ hidden = 0 /\ torn = FALSE /\ stale = FALSE /\ cut = FALSE
  /\ used = 0

-----------------------------------------------------------------------------
(* The server *)

Post ==
  /\ log < MaxLog
  /\ log' = log + 1
  /\ UNCHANGED <<concealed, cursor, local, h, sync, history, used>>

-----------------------------------------------------------------------------
(* The repository *)

HoldsCopy(i) == h[i].pc \in {"received", "stored", "calling", "marking"}
SyncHolds    == sync.pc \in {"listed", "written", "marking"}
Held         == SyncHolds \/ \E i \in Handlers : HoldsCopy(i)

\* upsertMessages, up to the row it computes: what is hidden is not stored.
Recount(who, stored) ==
  /\ excl.kind = "free"
  /\ msgs' = stored
  /\ erased' = (erased \cup msgs) \ stored
  /\ excl' = [kind |-> "upsert", by |-> who, next |-> Recompute(row, stored)]
  /\ UNCHANGED <<row, hidden>>

Upsert(who, new) ==
  IF Visible(row, new) = {} THEN excl.kind = "free" /\ UNCHANGED local
  ELSE Recount(who, msgs \cup Visible(row, new))

\* clearConversationMessages and softDeleteConversation, likewise.
Empty(who, deleted) ==
  LET cutoff == Cutoff(row, msgs)
  IN  /\ excl.kind = "free"
      /\ msgs' = {} /\ erased' = {s \in erased : s > cutoff}
      /\ excl' = [kind |-> "blank", by |-> who, next |-> Blanked(row, cutoff, deleted)]
      /\ hidden' = Larger(hidden, cutoff)
      /\ UNCHANGED row

\* The caller goes on once its section has ended.
Goes(who) == excl.kind = "free" \/ excl.by # who

\* To write new, computed from copy, undoes what was written since copy was read.
Undoes(copy, new) == new.server < row.server \/ (copy.deleted # row.deleted)

\* The section writes the row, over what was written since it was read.
WriteRecord ==
  /\ excl.kind # "free"
  /\ row' = excl.next
  /\ excl' = Free
  /\ stale' = (stale \/ IF excl.kind = "upsert" THEN Undoes(excl.next, excl.next)
                      ELSE excl.next.server < row.server)
  /\ torn' = (torn \/ (excl.kind = "blank" /\ Held))
  /\ torn' => Tearing
  /\ UNCHANGED <<server, cursor, msgs, erased, hidden, h, sync, cut, used>>

\* upsertConversations: what was computed from a copy of the row replaces it.
PutBack(copy, new) ==
  /\ row' = new
  /\ stale' = (stale \/ Undoes(copy, new))
  /\ UNCHANGED <<msgs, erased, excl, hidden, torn, cut>>

-----------------------------------------------------------------------------
(* Handlers *)

At(i, pc) == h[i].pc = pc /\ Goes(i)
Ends(i)   == h' = [h EXCEPT ![i] = Idle]

\* A message or an acknowledgement arrives: pushes are repeated, overtake each
\* other, or never arrive.
Receive(i, s) ==
  /\ At(i, "idle") /\ s \in 1 .. log
  /\ h' = [h EXCEPT ![i] = [Idle EXCEPT !.pc = "received", !.seq = s, !.copy = row]]
  /\ UNCHANGED <<server, cursor, local, sync, history, used>>

Store(i) ==
  /\ At(i, "received")
  /\ Upsert(i, {h[i].seq})
  /\ h' = [h EXCEPT ![i].pc = "stored"]
  /\ UNCHANGED <<server, cursor, sync, history, used>>

WriteBack(i) ==
  /\ At(i, "stored")
  /\ PutBack(h[i].copy, [h[i].copy EXCEPT !.server = Larger(@, h[i].seq)])
  /\ Ends(i)
  /\ UNCHANGED <<server, cursor, sync, used>>

\* A read receipt, a draft, a pin: no field of the progress is changed.
BeginTouch(i) ==
  /\ At(i, "idle")
  /\ h' = [h EXCEPT ![i] = [Idle EXCEPT !.pc = "calling", !.copy = row]]
  /\ UNCHANGED <<server, cursor, local, sync, history, used>>

\* A pin is written before the request and again after it.
EndTouch(i) ==
  /\ At(i, "calling")
  /\ PutBack(h[i].copy, h[i].copy)
  /\ Ends(i) \/ UNCHANGED h
  /\ UNCHANGED <<server, cursor, sync, used>>

\* The user scrolls above the oldest message.
Scroll(i) ==
  LET oldest == Oldest(Visible(row, msgs))
  IN  /\ At(i, "idle")
      /\ oldest > row.floor + 1 /\ ~row.complete
      /\ h' = [h EXCEPT ![i] = [Idle EXCEPT !.pc = "paging", !.seq = oldest]]
      /\ UNCHANGED <<server, cursor, local, sync, history, used>>

FetchOlder(i) ==
  LET page == Before(h[i].seq)
  IN  /\ At(i, "paging")
      /\ h' = [h EXCEPT ![i] =
                 [Idle EXCEPT !.pc = "paged", !.page = page,
                              !.last = \A s \in Shown : s < h[i].seq => s \in page]]
      /\ UNCHANGED <<server, cursor, local, sync, history, used>>

StoreOlder(i) ==
  /\ At(i, "paged")
  /\ Upsert(i, h[i].page)
  /\ h' = [h EXCEPT ![i] = IF h[i].last THEN [Idle EXCEPT !.pc = "older"] ELSE Idle]
  /\ UNCHANGED <<server, cursor, sync, history, used>>

\* After the last page the row is read, to be marked complete.
ReadToMark(i) ==
  /\ At(i, "older")
  /\ h' = [h EXCEPT ![i] = [Idle EXCEPT !.pc = "marking", !.copy = row]]
  /\ UNCHANGED <<server, cursor, local, sync, history, used>>

MarkStart(i) ==
  /\ At(i, "marking")
  /\ PutBack(h[i].copy, [h[i].copy EXCEPT !.complete = TRUE])
  /\ Ends(i)
  /\ UNCHANGED <<server, cursor, sync, used>>

\* The user deletes the conversation: the server first, then the device.
BeginDelete(i) ==
  /\ At(i, "idle")
  /\ Upset
  /\ concealed' = log
  /\ h' = [h EXCEPT ![i] = [Idle EXCEPT !.pc = "deleting"]]
  /\ UNCHANGED <<log, cursor, local, sync, history>>

EndDelete(i) ==
  /\ At(i, "deleting")
  /\ Empty(i, TRUE)
  /\ Ends(i)
  /\ UNCHANGED <<server, cursor, sync, history, used>>

\* A request of a handler fails: the handler ends.
HandlerFails(i) ==
  /\ h[i].pc \in {"calling", "paging", "deleting"}
  /\ Upset
  /\ Ends(i)
  /\ UNCHANGED <<server, cursor, local, sync, history>>

\* The user clears the messages.
Clear(i) ==
  /\ At(i, "idle")
  /\ Upset
  /\ Empty(i, FALSE)
  /\ UNCHANGED <<server, cursor, h, sync, history>>

\* A message is to be written, or to change in a field - it is sent, failed, sent
\* again, or its attachment is ready: s if it has that sequence, or will have,
\* and 0 if none.  What is read of it is page.
BeginPatch(i, s) ==
  /\ At(i, "idle")
  /\ s \in Visible(row, msgs) \cup {n \in Mine \ msgs : n > row.floor} \cup {0}
  /\ h' = [h EXCEPT ![i] = [Idle EXCEPT !.pc = "patching", !.seq = s, !.page = {s} \cap msgs]]
  /\ UNCHANGED <<server, cursor, local, sync, history, used>>

\* The changed copy replaces the message, its sequence included: a sequence that
\* arrived since the copy was read is gone.
EndPatch(i) ==
  /\ At(i, "patching")
  /\ IF h[i].page = {} THEN Recount(i, msgs \ {h[i].seq}) ELSE Upsert(i, h[i].page)
  /\ Ends(i)
  /\ UNCHANGED <<server, cursor, sync, history, used>>

-----------------------------------------------------------------------------
(* The sync *)

SyncAt(pc) == sync.pc = pc /\ Goes("sync")
Finish(pc) == sync' = [Asleep EXCEPT !.pc = pc]

\* The conversation is listed if it changed since the checkpoint.
List ==
  /\ sync.pc \in {"idle", "done"}
  /\ IF log > cursor /\ log > concealed
     THEN sync' = [Asleep EXCEPT !.pc = "listing", !.target = log]
     ELSE Finish("settling")
  /\ UNCHANGED <<server, cursor, local, h, history, used>>

ReadRows ==
  /\ SyncAt("listing")
  /\ sync' = [sync EXCEPT !.pc = "listed", !.copy = row]
  /\ UNCHANGED <<server, cursor, local, h, history, used>>

\* The rows are written, then the checkpoint: a task is left if the listing
\* is ahead of the copy.
Diff ==
  LET merged == Merged(sync.copy, sync.target)
  IN  /\ SyncAt("listed")
      /\ PutBack(sync.copy, merged)
      /\ cursor' = sync.target
      /\ IF sync.target > Anchor(sync.copy) /\ ~merged.deleted
         THEN sync' = Task(IF sync.copy.to = 0 /\ sync.copy.sync = 0
                           THEN "tail" ELSE "delta",
                           Anchor(sync.copy), sync.target, TRUE)
         ELSE Finish("settling")
      /\ UNCHANGED <<server, h, used>>

\* A page is asked for: the reply has it, and says whether it is the last, and
\* where the history starts.
Fetch ==
  LET page == IF sync.mode = "tail" THEN Before(log + 1) ELSE After(sync.after)
  IN  /\ SyncAt("fetching")
      /\ sync' = [sync EXCEPT !.pc = "fetched", !.page = page, !.from = concealed,
                    !.last = \A s \in Shown : s \in page
                                              \/ (sync.mode = "delta" /\ s <= sync.after)]
      /\ UNCHANGED <<server, cursor, local, h, history, used>>

StorePage ==
  /\ SyncAt("fetched")
  /\ Upsert("sync", sync.page)
  /\ sync' = [sync EXCEPT !.pc = "stored"]
  /\ UNCHANGED <<server, cursor, h, history, used>>

ReadRow ==
  /\ SyncAt("stored")
  /\ sync' = [sync EXCEPT !.pc = "written", !.copy = row]
  /\ UNCHANGED <<server, cursor, local, h, history, used>>

\* max_sequence of the reply.
Reached == Newest(sync.page \cup IF sync.mode = "tail" THEN {} ELSE {sync.after})

AfterTask == Finish(IF sync.main THEN "settling" ELSE "done")

\* The tail is whole: what is left is to mark the row.
Marks(pc, copy) ==
  sync' = [Asleep EXCEPT !.pc = pc, !.from = sync.from, !.main = sync.main, !.copy = copy]

\* Mutant: the next page starts where this one did.
AdvanceNot ==
  IF sync.mode = "tail"
  THEN IF sync.last THEN Marks("tailed", Blank) ELSE AfterTask
  ELSE IF sync.last \/ sync.page = {} \/ Reached >= sync.target
  THEN AfterTask
  ELSE sync' = [sync EXCEPT !.pc = "fetching", !.page = {}, !.copy = Blank]

\* What follows a page: the marking of a whole tail, the next page, or nothing.
Advance ==
  IF sync.mode = "tail"
  THEN IF sync.last THEN Marks("tailed", Blank) ELSE AfterTask
  ELSE IF sync.last \/ sync.page = {} \/ Reached >= sync.target
  THEN AfterTask
  ELSE sync' = [sync EXCEPT !.pc = "fetching", !.after = Reached, !.page = {},
                            !.last = FALSE, !.from = 0, !.paged = TRUE, !.copy = Blank]

\* The row is written back with max_sequence.
WriteRow ==
  LET top == IF sync.mode = "delta" /\ Reached = 0 THEN sync.target ELSE Reached
  IN  /\ SyncAt("written")
      /\ row' = [sync.copy EXCEPT !.server = top]
      /\ stale' = (stale \/ Undoes(sync.copy, sync.copy))
      /\ Advance
      /\ UNCHANGED <<server, cursor, msgs, erased, excl, hidden, h, torn, cut, used>>

\* markHistoryComplete reads the row itself.
ReadTailed ==
  /\ SyncAt("tailed")
  /\ Marks("marking", row)
  /\ UNCHANGED <<server, cursor, local, h, history, used>>

MarkComplete ==
  /\ SyncAt("marking")
  /\ PutBack(sync.copy, [sync.copy EXCEPT !.complete = TRUE, !.floor = Larger(@, sync.from)])
  /\ AfterTask
  /\ UNCHANGED <<server, cursor, h, used>>

\* Conversations still marked are fetched once more.
Settle ==
  /\ SyncAt("settling")
  /\ IF row.backfill /\ ~row.deleted /\ row.server > Larger(row.sync, row.to)
     THEN sync' = Task(IF row.to = 0 /\ row.sync = 0 THEN "tail" ELSE "delta",
                       row.sync, row.server, FALSE)
     ELSE Finish("done")
  /\ UNCHANGED <<server, cursor, local, h, history, used>>

\* A request fails, and the sync with it; in the second pass the error is caught
\* and the sync ends well.
SyncFails ==
  /\ sync.pc \in {"listing", "fetching"}
  /\ Upset
  /\ cut' = (cut \/ sync.paged)
  /\ sync' = IF sync.main THEN Asleep
             ELSE [Asleep EXCEPT !.pc = "done", !.lapsed = TRUE]
  /\ UNCHANGED <<server, cursor, local, h, torn, stale>>

\* The app is killed; what is stored survives.
Crash ==
  /\ Upset
  /\ h' = [i \in Handlers |-> Idle]
  /\ cut' = (cut \/ sync.paged \/ sync.pc \in {"stored", "written"})
  /\ torn' = (torn \/ excl.kind = "blank")
  /\ torn' => Tearing
  /\ excl' = Free
  /\ Finish("idle")
  /\ UNCHANGED <<server, cursor, msgs, erased, row, hidden, stale>>

-----------------------------------------------------------------------------
Handle(i) == \/ \E s \in 1 .. log : Receive(i, s)
             \/ Store(i) \/ WriteBack(i) \/ BeginTouch(i) \/ EndTouch(i)
             \/ Scroll(i) \/ FetchOlder(i) \/ StoreOlder(i)
             \/ ReadToMark(i) \/ MarkStart(i)
             \/ BeginDelete(i) \/ EndDelete(i) \/ Clear(i)
             \/ (\E s \in 0 .. MaxLog : BeginPatch(i, s)) \/ EndPatch(i)
             \/ HandlerFails(i)

SyncStep == \/ ReadRows \/ Diff \/ Fetch \/ StorePage \/ ReadRow \/ WriteRow
            \/ ReadTailed \/ MarkComplete \/ Settle

Next == \/ Post \/ (\E i \in Handlers : Handle(i))
        \/ WriteRecord \/ List \/ SyncStep \/ SyncFails \/ Crash

Spec == Init /\ [][Next]_vars

-----------------------------------------------------------------------------
(* Properties *)

Row == [sync : 0 .. MaxLog, server : 0 .. MaxLog, to : 0 .. MaxLog,
        floor : 0 .. MaxLog, complete : BOOLEAN, backfill : BOOLEAN, deleted : BOOLEAN]

\* The variables keep their types.
TypeOK ==
  /\ log \in 0 .. MaxLog /\ concealed \in 0 .. MaxLog /\ cursor \in 0 .. MaxLog
  /\ msgs \subseteq 1 .. MaxLog /\ erased \subseteq Mine
  /\ row \in Row /\ hidden \in 0 .. MaxLog
  /\ excl \in [kind : {"free", "upsert", "blank"},
               by : Handlers \cup {"sync"}, next : Row]
  /\ h \in [Handlers ->
              {x \in [pc : {"idle", "received", "stored", "calling", "paging", "paged",
                            "older", "marking", "deleting", "patching"},
                      seq : 0 .. MaxLog, page : SUBSET (1 .. MaxLog),
                      last : BOOLEAN, copy : Row] :
                 x.pc = "patching" /\ x.page = {} => x.seq \in Mine \cup {0}}]
  /\ sync \in [pc : {"idle", "listing", "listed", "fetching", "fetched", "stored",
                      "written", "tailed", "marking", "settling", "done"},
               mode : {"tail", "delta"}, after : 0 .. MaxLog, target : 0 .. MaxLog,
               page : SUBSET (1 .. MaxLog), last : BOOLEAN, from : 0 .. MaxLog,
               main : BOOLEAN, paged : BOOLEAN, lapsed : BOOLEAN, copy : Row]
  /\ torn \in BOOLEAN /\ stale \in BOOLEAN /\ cut \in BOOLEAN
  /\ used \in 0 .. MaxUpsets

\* Messages the device has, if one of its own may have lost the sequence.
Known == msgs \cup erased

Kept(s, r) == s <= r.floor \/ s \in Known

Blanking == excl.kind = "blank"

\* last_sync_sequence is what it is taken for: every message up to it is stored
\* or hidden, whatever stale copies of the row were written back - but for one of
\* this device's own that an old copy of the message took the sequence from, and
\* unless the row was blanked under a copy, or is about to be.
PrefixIsStored == torn \/ Blanking \/ \A s \in 1 .. row.sync : Kept(s, row)

\* Messages the user cleared are never stored again, unless torn.
ClearedIsGone == torn \/ \A s \in msgs : s > hidden

\* Whatever handlers, sync and crashes do to one another, the device keeps what
\* DevicePromise says: messages of others disappear by a clear only, which takes
\* nothing that was not there, and do not come back unless torn.
Promise == INSTANCE DevicePromise WITH posted <- log, have <- msgs, gone <- hidden,
                                       own <- Mine, excused <- torn
DevicePromiseKept == Promise!Spec

\* The device has what was ever listed to it, or something newer (a message of its
\* own counts without its sequence).
CaughtUp == cursor <= Larger(Newest(Known), Larger(row.floor, concealed))

\* A sync none of whose requests failed.
EndedWell == sync.pc = "done" /\ ~sync.lapsed

\* A sync that ends well has caught up with every listing, unless a copy undid
\* what a listing wrote, or a fetch stopped between two pages.
NewestArrives == (EndedWell /\ ~Blanking /\ ~torn /\ ~stale /\ ~cut) => CaughtUp

\* A sync ends: each page it asks for begins after the one before, however the
\* log grows meanwhile.
PagesAdvance ==
  [][sync.pc = "written" /\ sync'.pc = "fetching"
       => sync'.after > sync.after /\ sync'.after < sync'.target]_vars

\* sync.ts: a fetch that failed is repeated by the next sync.
NextSyncRetries == (EndedWell /\ ~Blanking /\ ~torn /\ ~stale) => CaughtUp
=============================================================================
