# Verification of the mushroom IM server and its clients

mushroom-app is an instant messenger: a Node.js server over PostgreSQL, Redis and an object store (`server/`), and web,
desktop and mobile clients over shared packages (`packages/shared`, `packages/app-core`). This directory holds TLA+ models
of the parts whose correctness depends on the order in which things happen, TLC configurations that check them on small
instances, and TLAPS proofs of their main invariants for every size. Paths below are relative to `src/` of the repository.

| Module | What it is |
| --- | --- |
| `MessageOutbox` | the table `message_outbox` and the workers that drain it |
| `OutboxPromise` | what the outbox promises to the code that writes events: an abstract specification |
| `ConversationLog` | a group conversation as concurrent transactions: sequence, members, read state, events |
| `LogPromise` | what a log promises to those who read it by sequence: an abstract specification |
| `CallSession` | one voice or video call: session row, participant rows, timer, concurrent operations |
| `CallPromise` | what a call is to those who take part: an abstract specification |
| `SessionRotation` | one login session: rotation of its tokens on the server, single flight and retry in the apps |
| `WsPresence` | the sockets of a user on several nodes, and the presence keys in Redis |
| `ClientSync` | what a phone stores of one conversation: messages, progress row, handlers and sync |
| `DevicePromise` | what a phone promises of its messages to its user: an abstract specification |
| `AttachmentLifecycle` | an upload from initiate over bind and recall to the removal of its objects |
| `MediaPromise` | what attachments promise to those who read messages: an abstract specification |
| `MC...` | instances of these for TLC |
| `..._proofs` | theorems about these, with proofs; `ClientArrival_proofs` is a second one about `ClientSync` |

`PROJECT.json` lists components, runs, the mutant of every property, the source lines of every definition, findings,
hazards and theorems. To check: `tlc -config X.cfg M` for each run, `tlapm M_proofs.tla` for each proof module.

## 1. Inventory

### Server

**Outbox** (`server/src/outbox/outbox_worker.ts`, `server/src/repository/outbox_repository.ts`). State: rows with a status,
a retry count, a retry date, a lease; per process a timer and the batch in hand. Operations: `insertEvents` in the
transaction of the business change, `claimPending` under `FOR UPDATE SKIP LOCKED`, `markDispatched`, `markRetry`,
`markDead`, `deleteOlderThan`. Reached from every service that tells users something; calls `WsServer.dispatchToUser`,
the push router and the object store. Hard: several workers, leases that nothing renews, UPDATEs that name only the row's
id, replies that are lost, crashes between any two steps, a presence that lags behind the sockets. Right when: no event is
stranded, none is given up early, one worker consumes an event at a time, a settled event stays settled, every event is
settled in the end.

**Conversations and messages** (`server/src/service/message_service.ts`, `server/src/service/conversation/*`,
`server/src/repository/conversation/*`, `message_repository.ts`). State: `conversations`, `conversation_members`,
`conversation_user_state`, `messages`. Operations: send, invite, leave, remove, change a role, transfer, disband, read,
hide, recall, mute, notice. Each decides on reads made before it takes a lock. Hard: READ COMMITTED transactions that
overlap, two lock orders, retries with the same `client_message_id`, counters computed from a snapshot. Right when:
messages become visible in the order of their numbers, numbers have no unexplained holes, a retry is one message, every
member gets an event, one owner exists, counters and watermarks match the log.

**Calls** (`server/src/service/call_service.ts`, `server/src/websocket/call_handler.ts`,
`server/src/repository/call_repository.ts`). State: `call_sessions`, `call_participants`, a timer and the invitation in the
memory of one process. Operations: invite, accept, reject, hang up, time out, end an invitation to busy users, close the
call of a device that reconnects, sweep stale calls. Hard: each decides on a read before its transaction; timers are in
memory; updates run over several rows in an unspecified order. Right when: an ended call stays ended and has one record,
one device of a user is in the call, nobody rings for ever, the counts match.

**Presence and sockets** (`server/src/websocket/ws_server.ts`, `presence_manager.ts`, `presence_subscription_manager.ts`,
`redis_dispatcher.ts`). State: a map of sockets by device in each process, a registry and presence keys with a TTL in Redis,
subscriptions. Operations: set a connection up (authenticate, replace the one before, register), heartbeat, idle scan,
unregister, drop, reconcile the keys of a node at its start. Hard: set-up and cleanup await between their steps, and a newer
connection of the device may be there by then; nodes die with their keys. Right when: no socket stays open that nothing is
delivered to, and presence tells the truth in the end.

**Idempotency of HTTP requests** (`server/src/handler/idempotency.ts`). State: a table of responses by `client_request_id`.
Hard: look-up, execution and record are separate steps, and the record is written after the response. Right when: a
repeated request is not executed twice.

**Sessions and tokens** (`server/src/service/auth_service.ts`, `repository/user_session_repository.ts`; the clients' side in
`packages/shared/src/api/`, `apps/web/src`, `packages/app-core`). State: one session per device with the current and the
previous refresh token and two grace windows; in the client a token store that tabs share, and one refresh at a time per
process. Operations: refresh (rotation by a conditional UPDATE), replay within the grace window, revoke, expire; request,
refusal, refresh, retry, log out. Hard: two refreshes at once, a reply that is lost, requests refused together. Right when: a
token is exchanged once, and a client that follows the protocol is not logged out.

**Attachments** (`server/src/controller/attachment_controller.ts`, `repository/attachment_repository.ts`,
`storage/attachment_orphan_cleanup.ts`, `service/thumbnail_worker.ts`, the delete job of `outbox/outbox_worker.ts`,
`packages/shared/src/uploader/ChunkedUploader.ts`). State: upload rows, objects, an in-memory queue of thumbnails. Operations:
initiate, put, complete, abort, bind, recall, clean up, make thumbnails, recover them at the start. Hard: the object store is
called outside the transactions; complete, abort, bind and cleanup race for a row. Right when: what a message shows is stored,
what no message shows is taken away, and no thumbnail stays pending.

**Reactions, contacts, blocks, privacy, notification settings, push**: single rows and filters over them; reactions have a
sequence of their own beside that of the messages.

### Clients

**Sync progress** (`packages/shared/src/sync-engine/`, `packages/app-core/src/conversation-sync.ts`,
`conversation-blanking.ts`). State: for each conversation the prefix that is stored for certain, the newest sequence the server
listed, the loaded tail, a floor below which everything is hidden. Hard: it is read, changed over an await and saved. Right
when: the prefix claims only what is stored, and what was listed arrives.

**Controller** (`packages/app-core/src/sync.ts`, `controller-internal/services/`). Operations: pushes, acknowledgements, read
receipts, drafts and pins, scrolling back, clearing, deleting, the sync and its second pass. Hard: most handlers read a whole
row, await, and write the whole row back.

**Store of the mobile app** (`apps/mobile/src/data/repo/`). An exclusive section for calls that change messages, which reads
and writes the row in separate statements; reads of the row and calls that only write it do not wait for it.

**Connection of the web and desktop clients** (`apps/web/src/ws`, `apps/web/src/sync`): one socket, heartbeats, backoff, a
sync after every connect unless one runs. Hard: a socket that closes and opens while a sync runs.

**Apps** (`apps/web`, `apps/electron`, `apps/mobile`): views, platform storage and native call screens over these.

### How they interact

    client --HTTP--> idempotency --> services --one transaction--> rows + message_outbox
    message_outbox --lease--> outbox worker --> sockets of this process --> client
                                            \-> Redis --> sockets of other processes
                                            \-> push router, object store
    client --WebSocket--> call handler --> CallService --> rows;  timers in memory
    client --sync by sequence--> rows        (what a lost event is repaired by)

`ConversationLog` writes what `MessageOutbox` delivers: `sent` there is `InsertEvent` here. `CallSession` has no outbox for
its signals; only its call records become messages of the log. `SaveMessage` and
`RecallMessage` of `AttachmentLifecycle` are what its transactions do to upload rows, and its delete job is an event of
`MessageOutbox` that settles in the end. `Post` of `ClientSync` is a commit of `ConversationLog`, whose holes
(`HolesAreDuplicates`) and promise (`LogPromise`) say what the client may assume of a sequence.

## 2. Plan

Done, in the order of what relies on what: `MessageOutbox` with `OutboxPromise`, `ConversationLog` with `LogPromise`,
`CallSession` with `CallPromise`, `SessionRotation`, `WsPresence`, `ClientSync` with `DevicePromise`, `AttachmentLifecycle` with
`MediaPromise`. Left, most useful first:

1. `ClientConnection`: connect, close, back off and sync of the web and desktop clients. Property: after the last reconnect a
   sync begins that sees everything sent before it.
2. `ClientSend`: which messages the recovery of the client sends again, recall, edit and reactions; an abstract `Delivery` (a
   message is shown once, and is acknowledged, failed or pending) that it implements.
3. Composition: the log feeding the outbox and a `ClientSync`, so that an event nobody got is shown to be repaired by a sync.
4. `Reactions`: the second sequence, with the cursor of the clients.

## 3. The modules

### MessageOutbox, OutboxPromise

*State.* `status`, `retryCount`, `nextRetryAt`, `leaseExpiresAt` are the columns of a row. `timer`, `pc`, `batch`, `snap`
(the counts the claim returned), `job`, `op` (the UPDATE in hand) are the memory of a worker. `sockets` and `presence` are
what a worker sees of the connections. `attempts`, `reached` and `seenOnline` are history; `used` counts faults.

*Time.* A date is NULL, in the future, or past; `RetryFallsDue` and `LeaseLapses` let one pass. A lease that lapses while
its worker is still busy with the row is an *overrun*. Lengths of backoffs and leases do not matter otherwise.

*Actions.* `InsertEvent`, `Purge` (`deleteOlderThan`), `ClaimPending` (one UPDATE; its reply may be lost),
`DispatchToUser`, `RunSystemJob`, `HandlerThrows` (the handler of a job), `ProbePresence` (`hasAnyOnlineDevice`, after
which the event is a retry of the reconnect window or is written off), `MarkRow` (end of the try block), `MarkFailure`
(the catch block, which is also where a failed `MarkRow` leads), `EndTick`, `Start`, `Stop`, `Exit`, `Crash`, and the four
actions of the links. UPDATEs name the row's id alone, so one from a slow worker finds whatever is there: `MarkRow` and
`MarkFailure` are written that way.

*Promise.* `OutboxPromise` says what other code relies on: an event that is committed is owed; its handler runs only
while it is owed; it is settled once, after a run, and forgotten only then. `Debt` maps statuses to it.

### ConversationLog

*State.* `conv`, `member`, `ustate`, `log` are rows of the four tables; `sent` the delivery events; `convLock`, `rowLock`
the row locks; `tx` what a transaction has read. `burnt` (numbers spent on duplicates) and `overlap` (were two requests ever
under way at once?) are history.

*Granularity.* A READ COMMITTED transaction is cut where another one can get in between: the reads it decides upon
(`Begin...`), the rows it locks before the conversation (`LockRow`), the UPDATE that takes the number and locks the
conversation row (`TakeSequence`), and the commit, which also waits for the rows it updates last (`SaveMessage`,
`SaveDuplicate`, `MutateGroup`, `Disband`, `MarkConversationRead`, `HideConversation`). Since the conversation row stays
locked from the number to the commit, what is written in between is invisible and is one action. `Rollback` is any end
without an effect: a check that fails, a deadlock victim, a lost server. Sends are idempotent per `client_message_id`: a
look before, an `ON CONFLICT` at the insert.

*Promise.* `LogPromise` is what a reader by sequence relies on: a message appears at the end, under the next number, together
with the events and states of its audience; a repeated send adds no message, and may waste a number; and a user's own read and
hide move that user's watermarks forward, within the log, and nobody else's.

*Left out.* Direct conversations, attachments (a module of their own), mutes, notices, recall, and an invitation of several
people at once. Blocks and privacy filter who may send before the first read here. The message a rank is checked against and
a departure that races with a departure are modelled as the code has them: check first, update later.

### CallSession

*State.* `session` and `part` are the rows, `records` the call records the conversation was given, `group` whether that
conversation has members left, is empty, or is disbanded (`CloseGroup`), `rowLock` and `tx` the operations under way, `later`
what a handler still does after its transaction (arm or clear a timer, end a busy invitation), `timer` and `inviteData` the
memory of `WebSocketCallHandler`, `aged` whether the invitation timeout has passed since `started_at`. Two are history:
`tx.late` says that another operation has committed since this one read the call (a later read of its own, of a call
that has not ended, is a new start), and `raced` that an operation has committed in that state. One call is
modelled: what other calls do to it is who is busy (`Invite`), the sweep that `isUserBusy` does (`ReconcileStale`) and a
device that reconnects (`ReconcileReconnect`).

*Granularity.* `Begin...`, `TimerFires` and `ReadCall` read the call outside any transaction; `tx.seen` is the status
they saw. In the transaction every row of an UPDATE is a step (`UpdateRow`), since it can wait for a lock; then the
devices left are counted (`CountJoined`), the siblings or all others are cleared (`SelectOthers`), and the session row and the
record are written at the commit (`Commit`, `CommitLeave`). `RecordsAfter` is `persistCallRecordMessage`: no record when the
conversation has no members; it throws when the conversation is gone, and the operation is rolled back (`EndRefused`). `View`
is what a transaction sees. PostgreSQL breaks a cycle of waits by aborting one (`AbortVictim`). `Fail`, `HandlerFails` and
`Crash` are failures: a crash forgets the timer and every follow-up, an operation that fails leaves no trace.

*Promise.* `CallPromise` has the steps of a call: it rings, a device answers, people leave, the group is deserted (nobody is
left to show a record to), the call ends with a record whose outcome fits who is left, or nothing happens. Its `phase` is the
status of the session row and `inCall` the joined devices. It lapses (`raced`) once an operation commits after a late read.

*Left out.* Relayed signalling (offer, answer, ICE), media state, LiveKit tokens, `markBusy` of a device, and typing.
An invitation is assumed to name somebody other than the caller, and the conversation to have other members then: the
handler's input checks are taken as passed.

### SessionRotation

*State.* `row` is the session's row in `user_sessions`; tokens are numbered by rotation, and an access token also by copy,
since a replay signs a second one for the same jti. `store` is the token store of the app (the tabs of a browser share one),
`flight` the refresh of each process, client and server side together, `req` its requests, `cooldown` whether its
`lastRefreshAt` is recent. `app` is chosen at the start: the web app, or the mobile app, which has one process, another
reaction to a failed refresh and refreshes ahead only of an expired token.

*Granularity.* A refresh on the server is the read by current token (`FindCurrent`), the read by previous token
(`FindPrevious`) and the conditional UPDATE (`Rotate`): other refreshes and a log-out come in between. On the client, what
runs between two awaits is a step. Grace windows, cooldowns, tokens and the session end at any moment, as far as the fault
`slow` allows for a window that ends under a call. `Hang` is a refresh of the web app that never returns: its `fetch` has no
timeout (`apps/web/src/http/index.ts:87-98`), and the await of it is outside that of the request (`client.ts:250`, `175-178`).
Whoever waits for such a refresh is `Stuck`.

*Left out.* Logging in, several sessions of a user, the password change.

### WsPresence

*State.* `map` is the `clients` map of each node, `pc` and `old` where `initAuthenticatedConnection` of a socket is and whom it
replaces, `beat` the two Redis writes of a heartbeat, `sweep` the steps of `unregisterClient`, `reg` and `key` the hash of
devices and the keys with a TTL, `stale` the removals a reader has scheduled, `scan` the steps of `reconcileNodeCounter`.
`sock` and `event` are the network's: the socket itself, and a close that has not been handled yet.

*Granularity.* Every await of set-up, heartbeat, cleanup and reconciliation ends a step. `Die` is a half-open connection, found
by `HeartbeatCheck` (the idle scan); `DropClient` and `SendFailsLate` are the two other ways a client is removed.

*Left out.* Announcements to other users and subscriptions, which read this state; the authentication itself; rate limits.

### ClientSync

*State.* `msgs` and `row` are the messages and the progress row of one conversation on a phone; `excl` the exclusive section
of the SQLite repository with the row it is about to write; `h` the handlers under way with the copy of the row each holds;
`sync` the sync; `cursor` the checkpoint of the listing. `log` and `concealed` are the server's, `Mine` the messages this
device sends. `torn`, `stale`, `cut` and `erased` are history: they name the ways in which the code is known to lose something
(section 6), so that the properties say what holds otherwise. `erased` has the sequences an old copy of the message took from
it.

*Granularity.* A handler is cut at its awaits: read the row, do something, write the whole row back. A call in the exclusive
section reads the row and changes the messages in one step and writes the row in another one (`WriteRecord`), since reads of
the row and `upsertConversations` do not wait for the section. A page is inserted in one step. A change of a message - sent,
failed, sent again, its attachment ready - reads a copy of it (`BeginPatch`) and writes the whole copy back (`EndPatch`), with
the sequence it had then, or none. Only a message of this device can be without a sequence, so that only `Mine` lose one.
`SyncFails` is a request that fails: in the main pass the sync fails with it, in the second one the code swallows the error,
the sync ends as if well, and `lapsed` remembers. `Crash` is the death of the app. Failures, crashes, clears and deletions
count as upsets, to keep the instance small.

*The reconciler.* `Contiguous`, `TailFrom` and `Reconciled` are defined by sets, not by the loops of `reconciler.ts`, and
`Recompute` is what `recomputeConversationSyncProgress` makes of them.

*Promise.* `DevicePromise` knows the newest message of the server, the messages on the device and what was cleared. Messages
arrive in any order and none is made up; they go only by a clear, which hides everything the device has and nothing that is
yet to come; and what is gone stays gone, unless `torn` excuses it. A message of the device's own may lose its number
(`Misplace`) until an acknowledgement, a push or a page brings it again.

*Left out.* The log of the server has no holes here; a hole stops the prefix, and the flags then say that something is
missing for ever. Previews, counters, recall, edits and reactions; the stages of the sync for contacts and for states; the
JSON store of app-core, which only tests use; the engines of the web and the desktop.

### AttachmentLifecycle

*State.* `row` is `attachment_uploads`, `objects` the bucket (the object or its parts, and the thumbnail, which stands for the
preview too), `phase` the uploader of the client, `comp` and `abrt` the handlers of complete and abort, `cleaner` the batch of
the cleanup, `recall` the `attachment.delete` event with the failures the outbox has counted, `queue` and `slot` the thumbnail
worker, `booted` whether the start has looked for pending thumbnails, `gaveUp` the uploads whose job could not reach the
database.

*Granularity.* Calls to the object store are steps of their own, before or after a transaction, as in the code: complete
checks, assembles, stats, checks again under the lock, and may have to reclaim; abort checks, deletes, marks; the cleanup
reads a batch, takes a row by a conditional UPDATE, deletes. `Fault` is a call that fails, a client that gives up or a crash.
A recall event whose handler failed `MaxTries` times is dead (`Failed`). The two slots of the worker are a count in the code;
here a job takes the first that is free. `Recover` takes up at most `RecoverLimit` (500) of the pending rows; an instance has
fewer, so that what the limit leaves for the next start counts as `gaveUp` and is met by the proofs only. Ticks of the cleanup
may overlap in the code (its timer does not look whether one is under way); here one is at a time, which loses nothing, since
the conditional UPDATE gives each row to one of them.

*Promise.* `MediaPromise` has the life of each upload (new, draft, shown, recalled, gone), what each message shows, and what
is stored. A message shows only stored drafts, a video together with its frame; they are recalled together; what a message
shows stays stored, nothing recalled is stored again, and it is gone only when its object is. A draft may go with its object
left behind.

*Left out.* Limits, signed addresses, the order of parts, the refresh of addresses. A client does not repeat a completion or
an abort, as `ChunkedUploader` does not.

## 4. The runs

| Run | Bounds | Shows |
| --- | --- | --- |
| `outbox_any` | 1 event, 2 workers; 1 crash, 1 overrun, 1 failing and 1 lost UPDATE, 2 changes of sockets; 3 in all | no event is written off without a reason, and every event is settled, whatever fails |
| `outbox_timely` | 2 events (one a system job), 2 workers; 1 crash, 1 failing UPDATE, no overrun, no lost reply | one consumer at a time, and `OutboxPromise` is implemented |
| `log_any` | a group of 2 and one to invite; 4 requests of any kind, 2 at a time | `LogPromise` is implemented; holes, duplicates, counters, deadlocks; and, as long as requests have taken turns, one owner and exact audiences |
| `log_owner` | 2 transfers, both under way at once | *violation*: two transfers make two owners |
| `call_any` | 4 devices of 3 users; 2 requests and what timers start, 2 at a time; 1 fault | an ended call is recorded; and until an operation commits on a late read, `CallPromise` is implemented and who is joined fits the session row |
| `call_ends` | 3 devices of 2 users; 2 requests and what timers start, 2 at a time; no fault | every operation ends, and a direct call does not ring for ever |
| `session` | web or mobile, 2 processes, 2 requests; 1 rotation begun afresh, 1 fault, a refresh that hangs included | a session that lives is not lost, the grace window covers a lost reply, requests end unless they wait for a refresh that hangs, a token is spent once |
| `session_web` | as `session`, the web only | *violation*: a failing network logs the web app out |
| `presence` | 2 sockets of a device, 2 nodes; 1 failing call, 1 crash | no socket is orphaned unless two are set up at once; presence tells the truth in the end |
| `client` | 3 messages and no upset, or 2 and 2 upsets; one message is the device's own; pages of 1; 1 handler beside the sync; copies of the row and of messages written back late | `DevicePromise` is implemented, the prefix is stored but for own messages, cleared messages stay gone, a sync without a failed request has caught up, pages advance |
| `client_retry` | as `client`, with 3 messages and 1 upset, and the row may be torn | *violation*: a fetch cut between two pages is not repeated |
| `attachment` | an image with 3 faults, or a video in parts with its first frame and none; `MaxTries = 2` | `MediaPromise` is implemented, what is shown is stored, thumbnails settle, orphans end, recalled objects are removed unless the event is dead |

*Why the bounds are enough.* Two workers and one event let one worker overtake another in every way; `MaxRetryCount = 2` and
`Window = 1` have a retry before and after either limit; `Window < MaxRetryCount` is the order of the default configuration.
Two transactions, three users and four requests have every pair of requests overlap with a history of two; one client id lets
every retry collide; the two transactions differ by name only, which `log_any` uses as its symmetry (it checks no liveness).
In a call, a caller and a callee with two devices have a sibling to supersede; a fourth device makes a group with one more
than `MaxJoined`. Two tabs are what a shared store needs, and two requests are refused together. A device has two sockets when
it reconnects, on the same node or another. Three messages and pages of one give a fetch of several pages, a gap and a tail
apart from the prefix; one handler holds a copy, of the row or of the message of the device, while the sync writes. Upsets
take two messages (`UpsetsInShorterLogs`): one is on the device when the other is missed, and a second upset may follow the
repair of the first. Two uploads are a message with its frame; three faults are a failing call, a crash and another failure
after it, and with `MaxTries = 2` also a recall event that dies.

*Deadlock.* `CHECK_DEADLOCK FALSE` is set in all of them: once the requests, events, sockets and faults of an instance are
spent, nothing is left to do.

*Violations.* Each is a statement of a document or a comment that the code does not keep; `PROJECT.json` quotes it. The
positive run beside it (`log_any`, `session`, `client`) shows under which condition the statement holds, which is what a fix
has to establish: check the role again under the conversation's lock, as `finishGroupMutation` does; tell a failing call
from a refusal, as the mobile app does; write `last_server_sequence` of the listing, not of the page.

*Fairness.* Outbox: `WF` of each worker's `Work`, since an interval timer calls `tick` as long as the process lives; of
`Start`, since a supervisor starts the process again; of the two clocks. Calls: `WF` of what the event loop and the database
carry on by themselves (`Handle`, `Proceed`, `TimerFires`, `BeginBusy`) and of `TimePasses`; `OperationsEnd` needs that of
`Proceed` alone (`RunningSpec`). Sessions: `WF` of the refresh of each process and of each request's own steps: a promise that
is settled continues, and requests and the refresh of the mobile app have a timeout. The refresh of the web app has none, so
it may stop for good (`Hang`, which disables the fair action); `RequestsEnd` excepts those who wait for it, and without
the exception TLC finds them stuck. Presence: `WF` of set-up, writes, pings, closes, the idle scan and the cleanup of each
socket, and of Redis's clock; not of the reconciliation, which runs once at a start. Attachments: `WF` of the handlers, of the
delete job (the outbox runs each event until it is settled, `EventuallySettled`, but DEAD is settled too: an event that failed
`config.outbox.maxRetryCount` times is given up, hence the exception in `RecallReclaims`), of the cleanup's timer, of the
worker and of the start after a crash. Users and clients owe nothing, no request is fair, and faults are finitely many: with
endlessly many overruns or failing UPDATEs no event need be settled. `ConversationLog` and `ClientSync` have no liveness
property: all the one does is answer requests, and a sync is only as live as the network; what it owes is stated of the
moment it ends (`NewestArrives`) and of its pages (`PagesAdvance`, which bounds their number).

## 5. The proofs

The proofs hold for all sets of events, users, workers, devices, sockets, nodes, uploads and transactions, and for all fault
bounds. Assumed are the ASSUMEs of the modules, which the runs evaluate. Every module has a theorem `TypeCorrect`.

*Outbox, whatever fails.* `WriteOffEarned` is not inductive: a slow worker may write a count it read long ago. `RunsCounted`
says that no count, in the row or in a worker's memory, exceeds the handler runs; `ReasonKnown` that a worker about to write
DISPATCHED has a reason. With `Recoverable` and `DeathEarned` they make `AnyInv` (theorem `AnyFaultSafe`).

*Outbox, without overruns and lost replies* (`Timely`). `HeldIsLeased`: what a worker holds is PROCESSING, under a lease
that has not lapsed, with the count the worker read. Hence no second worker can claim it; `TimelyInv` (theorem
`TimelySafe`) contains `SingleConsumer`, and `SettledIsFinal`, `RetryCountGrows` and `PromiseKept` follow step by step.

*Log.* One invariant, `Base /\ Rest` (theorem `Invariant`). `Base`: types, the shape of a transaction, and `OneSequencer`:
who has a number holds the conversation's lock and its number is the next one. `Rest`: the safety properties of `log_any`
that hold under overlap. Steps fall into those that append (`GrowthKeeps`), a duplicate (`DuplicateKeeps`), those that touch
one user state (`UserStepKeeps`) and those that leave all rows alone. `LogKeepsPromise` (the refinement of
`LogPromise`) goes by the same kinds of steps: an appending one is a post (`GrowthPosts`), a duplicate a repeat
(`DuplicateRepeats`), the third kind progress of one user (`StateStepProgresses`; `MovesForward` says what a read or a hide
does to a state). The action properties `CommitOrder` and `WatermarksGrow`, which the promise contains, are theorems of their
own; no run lists them beside it. `SendersNeverDeadlock` follows from `HeldRows` (only transactions that lock member rows first
hold any before their commit). `OneOwnerInTurn` and `AudienceInTurn` need `Turn`: while requests take turns one at most is under
way and what it has read is true still (`StillTrue`); the set of users is assumed finite. Theorems `TurnsKeepOneOwner` and
`TurnsReachMembers`.

*Calls.* All of it holds for operations that overlap as they like. `EndedIsRecorded` needs `SeenEnded`: an operation that saw
the call ended has seen a call with `ended_at`, so that what it writes back is recorded. `AnswerIsRemembered` needs
`OnlyAcceptsJoin`: no operation but an accept has JOINED or SUPERSEDED among its writes. The other theorems rest on
`AllInTime`: unless another operation has committed since its read (`late`), what an operation saw is still what the session
row says. Hence `EndsAreFinal` and `AnsweredRingsNoMore`: a call that comes back from its end, gets a second record, or rings
again after an answer is always the work of an operation that commits on a late read. Nothing is assumed about when operations
run; that a commit looks again at what it read (a version of the session row, say) would therefore be a sufficient fix.

`ParticipantsAgree` (`JoinedIsConsistent`) has the invariant `RowInv`: an operation that is not late is `Sound` - only an accept
joins a device, and only its own; the count it took is still that of the rows and its writes; one that ends the call leaves no
participant in it - and so the rows fit until `raced`. It assumes `MaxJoined > 0`. On the same invariant rests
`CallKeepsPromise`, the refinement of `CallPromise`: a commit in time is an answer, a departure or the end
(`CommitKeepsPromise`), an invitation rings, a group is deserted, a commit on a late read ends the promise, and every other step
stutters (`OthersKeepCall`). It needs two more facts: an accept writes rows of its own user only, and joins the device it came
from (`Accepting`); a call that rings has nobody but the caller in it (`OnlyCaller`), so a timeout that finds two in the call
finds it answered.

*Sessions.* `EveryRotationSpends` rests on `SpentBelow`: every spent token is older than the current one. For
`GraceAlwaysCovers`, `Alone` says of the one refresh under way what it has been told and why; the row around it only fades
(`Fades`: windows close, tokens lapse, the session ends), except by its own rotation.

`CalmKeepsSession` (`KeepsLiveSession`) says that fast path, cooldown, single flight and grace window work together. Its
invariant, while the run is `Calm` and the session active, is `Body`: the access token and the refresh token were issued
together and the grace window, if open, covers the pair before them (`RowKept`); the store holds the current pair, or, while a
grant is on its way, the one before, under an open window (`StoreKept`); a refresh presents the current token (`FlightKept`);
and a request (`ReqKept`) is refused only because its token has lapsed or has been replaced, so that the repeat, with the
store's newer token, is not refused again. What is not calm is a hypothesis because each part of it is a way in which the
code does lose the session: `overlap`, `out`, a fault (a refresh that hangs is one) and `outrun` (section 6).

*Presence.* `NobodyOrphaned` needs to know who may be in a map: `SlotsHold` (a slot names a connection of its device that has
joined), `OldsHold` (who is replaced had joined earlier and is being terminated), and, unless two sockets were set up at
once, `OneSetUp` and `SlotKept` (the slot stays empty while its connection is replacing).

*Client.* `Safe` extends `PrefixIsStored` and `ClearedIsGone` to every copy of the row in anybody's hands: each copy's prefix
is `Known` - stored, or a message of the device's own that a late copy of it took the sequence from - and its floor covers
what the user cleared, so that writing any of them back keeps both (`PutBackKeeps`), and writing a message back keeps the
first. The arithmetic is in lemmas about the operators: `ContiguousIsStored`, `RecomputeFacts`, `MergedFacts`. `SyncAdvances`
needs `PageAfter`: a page of a delta begins after the sequence it was asked from. `NewestArrives` is theorem `SyncCatchesUp`,
in a module of its own (`ClientArrival_proofs`); it is about syncs none of whose requests failed, the second pass included.
Its invariant measures every row against `Top`, the newest message the device has or need not have, which never falls: a row
or copy that knows of a newer one has it marked for a fetch (`Fine`); what the sync asks for was listed and begins at what the
device has (`Asked`); a last page brings it (`Got`); and while something listed is missing the row knows, or a fetch in pages
is under way, and the sync is not done (`Owes`). The refinement of `DevicePromise` (`DeviceKeepsPromise`) rests on these and
on `Posted`: nothing is stored, hidden, or in a page or push on its way, that was not posted. What a clear hides is computed
from a row that others wrote, so that it stays within the log because every row and copy does (`CutoffPosted`, by `Fine`), and
takes every stored message along (`EmptyHides`); a store brings back nothing cleared because of `ClearedIsGone`; and a message
that is written back without its sequence is one of the device's own.

*Attachments.* `Inv` says who may still delete: a handler of complete or abort belongs to an upload that is not bound
(`HandlersEarlier`), the cleanup deletes only what it has marked (`CleansDeleted`), a recall event only what was bound
(`RecallsBound`); then what is needed is stored (`MainKept`, `ThumbKept`), and the cleanup that read an upload while it was
free does not take it once bound (`OnlyRecallUnbinds`). The refinement of `MediaPromise` (`MediaKeepsPromise`) needs two facts
more: a frame that a message shows points back to the upload that shows it, which is in the same message (`Paired`), so that a
recall takes a message as a whole; and the object is gone while the outbox is at the thumbnail or the row (`Removed`), since
nobody stores the object of an upload that was sent (`NothingStoredLater`). `RowMoves` lists all that a step can decide.

*Model-checked only.* Liveness (`EventuallySettled`, `OperationsEnd`, `RingingEnds`, `RequestsEnd`, `PresenceHeals`,
`ThumbSettles`, `OrphansEnd`, `RecallReclaims`), which is out of this prover's reach.

## 6. Observations without a run of their own

Outbox and log:
- `docs/architecture/messaging.md:111` and `:242` promise one consumer per event under a lease of 30 seconds; nothing renews
  the lease during a batch (`outbox_worker.ts:155`), so an overrun gives an event to two workers.
- `outbox_worker.ts:173-182` speaks of three retries of the reconnect window. Failures of the handler count in the same column,
  so an event that failed before has fewer retries, or none, when its user is offline.
- A member who joins between the first reads of a send and its sequence gets no event for it (`message_service.ts:227`,
  `messaging.md:257`); a sync brings it. `AudienceInTurn` is restricted for that reason.
- A read or hide that commits beside a send counts unread messages up to a `message_seq` of its snapshot
  (`conversation_read_state_repository.ts:243`, `:262`): the new message may miss from the badge. The count is never too high.
- A failed handler is tried `config.outbox.maxRetryCount` times and then given up (DEAD, `outbox_worker.ts:268-282`); dead rows
  are counted, and purged after 30 days (`app.ts:460-478`).
- `docs/architecture/messaging.md:616-625` lists status codes, and `:264` a rule for `last_delivered_seq`, that the code
  does not have.

Calls: - `call_service.ts:573-574` and `docs/architecture/realtime-call.md:248` say an ended call is left alone; the check is
on the   row read before the transaction (`call_service.ts:334`), so two operations that overlap give two call records or
reopen it.   Every anomaly of overlapping operations is of that kind: the commit of one on a read that another commit made
old. - `docs/architecture/realtime-call.md:289` and `:347` say that group calls have no call record yet; `call_service.ts`
writes one for   every call that ends, unless the group has no members any more (832-834). A call of a group that was
disbanded can never   end: `persistCallRecordMessage` throws, and the operation is rolled back each time (`EndRefused`). - A
device that was superseded may still decline (`call_service.ts:361` checks nothing but the status): in a direct call its
user answered elsewhere, the caller is marked as having left while the call goes on. - Overlapping accepts can also put two
devices of a user, or one too many, in a call   (compare `docs/architecture/realtime-call-legacy-design.md:218`). - A group
call that everybody declines keeps ringing at the caller: `handleScheduledCallTimeout` returns when nobody   rings, and a
decline ends direct calls only. `RingingEnds` is about direct calls for that reason. - Timers are one-shot and live in memory.
One that fires while the database fails, or is lost in a crash, leaves the   call ringing until `isUserBusy` sweeps it or a
device of it reconnects; `RingingEnds` is checked without faults.

Sessions: - The web app's refresh is a `fetch` without timeout or signal (`apps/web/src/http/index.ts:87-98`), awaited outside
the timeout of   the request (`client.ts:250`, `175-178`). If it hangs, every request that waits for it hangs, and as the
flight is single, so   does every later one that is refused, until the page is loaded again. - A 403 that a rule of the
business gives (not a refused token) also triggers refresh, retry and log-out. - Of two refreshes at once the loser of the
UPDATE gets a 401 although its token is within the grace window, and the web app   then drops the tokens both tabs share. A
refresh that ends after a log-out stores its tokens again. - The row remembers one replaced token. A request that is repeated
after its refresh and is still on its way while two later   refreshes rotate the tokens is refused a second time, and the app
logs out although its session lives and nothing failed   (TLC finds it with `MaxRotations = 3`: three timers of two tabs). The
history variable `outrun` records it, and `Calm`   excludes it: it takes a call slower than two others in a row. -
`changePassword` revokes the other sessions outside its transaction.

Presence:
- Comments (`presence_manager.ts:107-111`, `ws_server.ts:309-311`) say that a cleanup leaves a newer client of the device alone;
  the check precedes an await, and `hdel` and `del` (157-158) then remove the new connection's keys until its next ping.
  `reconcileNodeCounter` has the same gap. `PresenceHeals` shows that both heal.
- A close during the set-up is ignored until the idle scan; two sockets of a device set up at once may orphan one
  (`ws_server.ts:299-346`): it stays open and gets nothing. `cleanupClient` drops the newer connection's subscriptions.
- The debounce keeps the last `previousOnline`, its comment says the first (355-357, 365; `docs/architecture/presence.md:108`).

Client: - A handler that read the row before a clear and writes it back after restores the old floor (`torn`), while
`conversation-blanking.ts:3-9` guarantees that a sync will not fetch the cleared messages again. A kill between the DELETE
and the row leaves no messages and a row that says synced. A deleted conversation can come back the same way (`stale`). - A
change of a message is written as a whole copy that was read outside the exclusive section
(`outgoing-retry-service.ts:95-114`,   `124-140`, `message-send-service.ts:495-503`, `handleAttachmentUpdated` in
`realtime-service.ts:306-335`), and `{...existing, ...message}`   (`messages.ts:107`) lets the copy win: the sequence of a
message of the device's own that was acknowledged in between is gone   below `last_sync_sequence`, so that no sync asks for it
(`erased`). A re-send, a push or a page heals it; a message that   was acknowledged may show as failed until then, and may be
deleted as such. - An error of the second pass is swallowed (`sync.ts:879-885`): the sync reports success without what it went
for (`lapsed`). - The exclusive section is called one atomic step (`index.ts:73-77`); a row written in between is lost. - The
checkpoint of the listing is written before the messages (`sync.ts:818-820`); the second pass skips what its comment
(837-841) says it fetches (858-865). - An error of `syncNow` drops the sync that was asked for meanwhile; the web client skips
the sync of a socket that opens   during one (`WSClient.ts:306`). - The reaction cursor may jump over a change
(`docs/architecture/reactions.md:87`, `:105`), and an older delta may bring a   removed reaction back.

Attachments: - `docs/architecture/media-upload.md:389-393` says the cleanup deletes the object first and keeps the row on
failure; the code   takes the row first and leaks the object when the deletion fails. - A completion whose reply is lost makes
the client abort: the row is marked deleted, but an object assembled from parts   stays (comment at
`attachment_controller.ts:233-235`). A thumbnail made after the recall or the abort stays too. - The removal of a recalled
object is given up after `config.outbox.maxRetryCount` failures (`outbox_worker.ts:268-282`; the comment   at `:376` and
`docs/architecture/media-upload.md:396-398` speak of a dead letter): the object then stays for ever, since the cleanup   looks
at pending rows only. - The start takes up the 500 oldest pending thumbnails (`attachment_repository.ts:194-206`,
`thumbnail_worker.ts:209`); more of them wait   for the next start. Ticks of the cleanup may overlap
(`attachment_orphan_cleanup.ts:133-155`): harmless, by the conditional UPDATE. - `markFailed` may overwrite a newer "ready". A
second, concurrent send of a file message fails with "already used".

## 7. Not modelled

The components with status `not_modelled` in `PROJECT.json`: the connection of the web and desktop clients, the idempotency of
HTTP requests (a look before and a record after, with nothing a model would add) and reactions, which the plan names; and,
for good, single-row services (contacts, blocks, privacy, settings), stateless fan-out (push), views, styles, translations
and native code of the apps (most of the lines of the repository), configuration and logging, file system helpers, and the
load-test tools. What a modelled component leaves out is under its module in section 3.
