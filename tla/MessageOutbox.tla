---------------------------- MODULE MessageOutbox ----------------------------
(***************************************************************************)
(* The transactional outbox of the server: the table message_outbox and    *)
(* the OutboxWorkers that drain it.  Several server processes (and the     *)
(* standalone worker process) poll the same table.  A worker claims a      *)
(* batch under a lease, runs the handler of each job in turn and records   *)
(* the outcome with an UPDATE that names nothing but the row's id.         *)
(*                                                                         *)
(* Time is abstract: a timestamp column is "null", "future" or "past", and *)
(* two actions let a timestamp pass.  The MaxXxx constants bound the       *)
(* faults of one behaviour; MaxOverruns = 0 says that no lease runs out    *)
(* while its worker still holds the job.                                   *)
(***************************************************************************)
EXTENDS Naturals, FiniteSets

CONSTANTS
  Events,          \* ids of outbox rows
  Realtime,        \* those whose event_type is a WebSocket delivery
  Users,
  Target,          \* target_user_id of each event
  Workers,         \* server processes, each one worker and one WS node
  NoJob,
  MultiNode,       \* config.server.multiNode: is the Redis bridge on?
  BatchSize,
  MaxRetryCount,   \* config.outbox.maxRetryCount
  Window,          \* reconnectWindowRetryLimit
  MaxCrashes,      \* crashes and shutdowns of workers
  MaxFaults,       \* UPDATEs and presence probes that fail
  MaxLostReplies,  \* UPDATEs that commit although the worker sees an error
  MaxOverruns,     \* leases that lapse while the worker still holds the job
  MaxLinkChanges,  \* sockets opened and closed
  MaxTotal         \* all of these together

ASSUME OutboxAssumption ==
  /\ IsFiniteSet(Events) /\ Realtime \subseteq Events
  /\ Target \in [Events -> Users]
  /\ NoJob \notin Events
  /\ MultiNode \in BOOLEAN
  /\ BatchSize \in Nat \ {0} /\ MaxRetryCount \in Nat \ {0} /\ Window \in Nat
  /\ MaxCrashes \in Nat /\ MaxFaults \in Nat /\ MaxLostReplies \in Nat
  /\ MaxOverruns \in Nat /\ MaxLinkChanges \in Nat /\ MaxTotal \in Nat

VARIABLES
  \* columns of message_outbox
  status, retryCount, nextRetryAt, leaseExpiresAt,
  \* memory of each OutboxWorker
  timer, pc, batch, snap, job, op,
  \* WebSocket links: nodes with an open socket of the user, presence in Redis
  sockets, presence,
  \* what happened so far: handler runs, whether a copy got to a socket,
  \* whether a probe said "online"
  attempts, reached, seenOnline,
  \* faults used up
  used

table  == <<status, retryCount, nextRetryAt, leaseExpiresAt>>
memory == <<timer, pc, batch, snap, job, op>>
links  == <<sockets, presence>>
past   == <<attempts, reached, seenOnline>>
vars   == <<table, memory, links, past, used>>

Settled == {"DISPATCHED", "DEAD"}
Status  == {"absent", "PENDING", "PROCESSING", "RETRY", "purged"} \cup Settled
Stamp   == {"null", "future", "past"}
Ops     == {"dispatched", "retry"}
Faults  == {"crash", "db", "reply", "overrun", "link"}

Limit == [crash |-> MaxCrashes, db |-> MaxFaults, reply |-> MaxLostReplies,
          overrun |-> MaxOverruns, link |-> MaxLinkChanges]

Total == used["crash"] + used["db"] + used["reply"] + used["overrun"] + used["link"]

\* One more fault of kind k, while its bound and that of them all allow it.
Spend(k) == /\ used[k] < Limit[k] /\ Total < MaxTotal
            /\ used' = [used EXCEPT ![k] = @ + 1]

\* The events a worker took in its current tick and has not finished with.
Held(w) == batch[w] \cup (IF job[w] = NoJob THEN {} ELSE {job[w]})

Init ==
  /\ status = [e \in Events |-> "absent"]
  /\ retryCount = [e \in Events |-> 0]
  /\ nextRetryAt = [e \in Events |-> "null"]
  /\ leaseExpiresAt = [e \in Events |-> "null"]
  /\ timer = [w \in Workers |-> FALSE]
  /\ pc = [w \in Workers |-> "down"]
  /\ batch = [w \in Workers |-> {}]
  /\ snap = [w \in Workers |-> [e \in Events |-> 0]]
  /\ job = [w \in Workers |-> NoJob]
  /\ op = [w \in Workers |-> "dispatched"]
  /\ sockets = [u \in Users |-> {}]
  /\ presence = [u \in Users |-> FALSE]
  /\ attempts = [e \in Events |-> 0]
  /\ reached = [e \in Events |-> FALSE]
  /\ seenOnline = [e \in Events |-> FALSE]
  /\ used = [k \in Faults |-> 0]

-----------------------------------------------------------------------------
(* Rows *)

\* insertEvents, committed with the business transaction that calls it.
InsertEvent(e) ==
  /\ status[e] = "absent"
  /\ status' = [status EXCEPT ![e] = "PENDING"]
  /\ UNCHANGED <<retryCount, nextRetryAt, leaseExpiresAt, memory, links, past, used>>

\* Mutant: the expiry of the lease is not looked at.
ClaimableUnderLease == {e \in Events : \/ status[e] \in {"PENDING", "PROCESSING"}
                                       \/ status[e] = "RETRY" /\ nextRetryAt[e] = "past"}

Claimable == {e \in Events : \/ status[e] = "PENDING"
                             \/ status[e] = "RETRY" /\ nextRetryAt[e] = "past"
                             \/ status[e] = "PROCESSING" /\ leaseExpiresAt[e] = "past"}

\* Mutant: the claim sets no lease.
LeaseForever(S) ==
  /\ S # {} /\ S \subseteq Claimable /\ Cardinality(S) <= BatchSize
  /\ status' = [e \in Events |-> IF e \in S THEN "PROCESSING" ELSE status[e]]
  /\ UNCHANGED <<retryCount, nextRetryAt, leaseExpiresAt>>

\* The single UPDATE of claimPending.  RETURNING does not keep the ORDER BY of
\* the candidates and SKIP LOCKED may pass rows over: any batch is possible.
Lease(S) ==
  /\ S # {} /\ S \subseteq Claimable /\ Cardinality(S) <= BatchSize
  /\ status' = [e \in Events |-> IF e \in S THEN "PROCESSING" ELSE status[e]]
  /\ leaseExpiresAt' = [e \in Events |-> IF e \in S THEN "future" ELSE leaseExpiresAt[e]]
  /\ UNCHANGED <<retryCount, nextRetryAt>>

\* UPDATE ... WHERE id = $1: a purged row is matched by none of these.
MarkDispatched(e) ==
  IF status[e] = "purged" THEN UNCHANGED table
  ELSE /\ status' = [status EXCEPT ![e] = "DISPATCHED"]
       /\ nextRetryAt' = [nextRetryAt EXCEPT ![e] = "null"]
       /\ leaseExpiresAt' = [leaseExpiresAt EXCEPT ![e] = "null"]
       /\ UNCHANGED retryCount

MarkRetry(e, n) ==
  IF status[e] = "purged" THEN UNCHANGED table
  ELSE /\ status' = [status EXCEPT ![e] = "RETRY"]
       /\ retryCount' = [retryCount EXCEPT ![e] = n]
       /\ nextRetryAt' = [nextRetryAt EXCEPT ![e] = "future"]
       /\ leaseExpiresAt' = [leaseExpiresAt EXCEPT ![e] = "null"]

\* Mutant: a status the table does not know.
MarkDeadMisspelt(e, n) ==
  status' = [status EXCEPT ![e] = "FAILED"] /\ UNCHANGED <<retryCount, nextRetryAt, leaseExpiresAt>>

MarkDead(e, n) ==
  IF status[e] = "purged" THEN UNCHANGED table
  ELSE /\ status' = [status EXCEPT ![e] = "DEAD"]
       /\ retryCount' = [retryCount EXCEPT ![e] = n]
       /\ nextRetryAt' = [nextRetryAt EXCEPT ![e] = "null"]
       /\ leaseExpiresAt' = [leaseExpiresAt EXCEPT ![e] = "null"]

\* Mutant: the cleanup takes the rows waiting for a retry along.
PurgeUnsettled(e) ==
  /\ status[e] \in Settled \cup {"RETRY"}
  /\ status' = [status EXCEPT ![e] = "purged"]
  /\ UNCHANGED <<retryCount, nextRetryAt, leaseExpiresAt, memory, links, past, used>>

\* deleteOlderThan, run by the cleanup timer of every server process.
Purge(e) ==
  /\ status[e] \in Settled
  /\ status' = [status EXCEPT ![e] = "purged"]
  /\ UNCHANGED <<retryCount, nextRetryAt, leaseExpiresAt, memory, links, past, used>>

\* next_retry_at passes.
RetryFallsDue(e) ==
  /\ status[e] = "RETRY" /\ nextRetryAt[e] = "future"
  /\ nextRetryAt' = [nextRetryAt EXCEPT ![e] = "past"]
  /\ UNCHANGED <<status, retryCount, leaseExpiresAt, memory, links, past, used>>

\* lease_expires_at passes.  Nothing renews a lease, so it may pass while a
\* worker is still busy with the job: that is an overrun.
LeaseLapses(e) ==
  /\ status[e] = "PROCESSING" /\ leaseExpiresAt[e] = "future"
  /\ leaseExpiresAt' = [leaseExpiresAt EXCEPT ![e] = "past"]
  /\ IF \E w \in Workers : e \in Held(w) THEN Spend("overrun") ELSE UNCHANGED used
  /\ UNCHANGED <<status, retryCount, nextRetryAt, memory, links, past>>

-----------------------------------------------------------------------------
(* Workers *)

Start(w) ==
  /\ pc[w] = "down"
  /\ timer' = [timer EXCEPT ![w] = TRUE]
  /\ pc' = [pc EXCEPT ![w] = "idle"]
  /\ UNCHANGED <<table, batch, snap, job, op, links, past, used>>

\* stop(): the timer is cleared at once, the tick in progress runs to its end.
Stop(w) ==
  /\ timer[w] /\ Spend("crash")
  /\ timer' = [timer EXCEPT ![w] = FALSE]
  /\ UNCHANGED <<table, pc, batch, snap, job, op, links, past>>

\* A process that goes away takes its sockets along, not the presence keys.
DropNode(w) ==
  /\ pc' = [pc EXCEPT ![w] = "down"]
  /\ batch' = [batch EXCEPT ![w] = {}]
  /\ snap' = [snap EXCEPT ![w] = [e \in Events |-> 0]]
  /\ job' = [job EXCEPT ![w] = NoJob]
  /\ op' = [op EXCEPT ![w] = "dispatched"]
  /\ sockets' = [u \in Users |-> sockets[u] \ {w}]
  /\ UNCHANGED <<table, presence, past>>

Exit(w) ==
  /\ pc[w] = "idle" /\ ~timer[w]
  /\ DropNode(w)
  /\ UNCHANGED <<timer, used>>

Crash(w) ==
  /\ pc[w] # "down" /\ Spend("crash")
  /\ DropNode(w)
  /\ timer' = [timer EXCEPT ![w] = FALSE]

\* retry_count of the claimed rows, as RETURNING gave it.
Snapshot(S) == [e \in Events |-> IF e \in S THEN retryCount[e] ELSE 0]

\* Beginning of tick().  The database may fail after it committed the claim:
\* the rows are leased then and nobody works on them.
ClaimPending(w) ==
  /\ timer[w] /\ pc[w] = "idle"
  /\ \E S \in SUBSET Claimable :
       /\ Lease(S)
       /\ \/ /\ pc' = [pc EXCEPT ![w] = "loop"]
             /\ batch' = [batch EXCEPT ![w] = S]
             /\ snap' = [snap EXCEPT ![w] = Snapshot(S)]
             /\ UNCHANGED used
          \/ Spend("reply") /\ UNCHANGED <<pc, batch, snap>>
  /\ UNCHANGED <<timer, job, op, links, past>>

Take(w, e) ==
  /\ pc[w] = "loop" /\ e \in batch[w]
  /\ batch' = [batch EXCEPT ![w] = @ \ {e}]
  /\ job' = [job EXCEPT ![w] = e]
  /\ attempts' = [attempts EXCEPT ![e] = @ + 1]

\* The handler throws: a URL cannot be signed, the object store is down, ...
HandlerThrows(w, e) ==
  /\ Take(w, e)
  /\ pc' = [pc EXCEPT ![w] = "catch"]
  /\ UNCHANGED <<table, timer, snap, op, links, reached, seenOnline, used>>

\* dispatchToUser: first the sockets of this node, then, fire and forget, an
\* envelope on Redis for the others.  Only the local copies are counted.
DispatchToUser(w, e) ==
  LET here  == w \in sockets[Target[e]]
      there == MultiNode /\ sockets[Target[e]] \ {w} # {}
  IN /\ e \in Realtime
     /\ Take(w, e)
     /\ \E bridged \in (IF there THEN BOOLEAN ELSE {FALSE}) :
          reached' = [reached EXCEPT ![e] = @ \/ here \/ bridged]
     /\ IF here
        THEN /\ pc' = [pc EXCEPT ![w] = "mark"]
             /\ op' = [op EXCEPT ![w] = "dispatched"]
        ELSE /\ pc' = [pc EXCEPT ![w] = "probe"]
             /\ UNCHANGED op
     /\ UNCHANGED <<table, timer, snap, links, seenOnline, used>>

\* push.notification and attachment.delete: done whatever the count says.
RunSystemJob(w, e) ==
  /\ e \in Events \ Realtime
  /\ Take(w, e)
  /\ reached' = [reached EXCEPT ![e] = TRUE]
  /\ pc' = [pc EXCEPT ![w] = "mark"]
  /\ op' = [op EXCEPT ![w] = "dispatched"]
  /\ UNCHANGED <<table, timer, snap, links, seenOnline, used>>

\* Is there a retry left in the reconnect window?  Mutant: off by one.
ImpatientBy1(w, e) == snap[w][e] + 1 < Window

Patient(w, e) == snap[w][e] + 1 <= Window

\* hasAnyOnlineDevice; an error of the probe counts as "offline".
ProbePresence(w) ==
  LET e == job[w] IN
  /\ pc[w] = "probe"
  /\ \/ /\ presence[Target[e]]
        /\ op' = [op EXCEPT ![w] = "dispatched"]
        /\ seenOnline' = [seenOnline EXCEPT ![e] = TRUE]
        /\ UNCHANGED used
     \/ /\ IF presence[Target[e]] THEN Spend("db") ELSE UNCHANGED used
        /\ op' = [op EXCEPT ![w] = IF Patient(w, e) THEN "retry" ELSE "dispatched"]
        /\ UNCHANGED seenOnline
  /\ pc' = [pc EXCEPT ![w] = "mark"]
  /\ UNCHANGED <<table, timer, batch, snap, job, links, attempts, reached>>

Outcome(w) ==
  IF op[w] = "dispatched" THEN MarkDispatched(job[w])
                          ELSE MarkRetry(job[w], snap[w][job[w]] + 1)

\* The UPDATE at the end of the try block.  When it fails, committed or not,
\* control is in the catch block as if the handler had thrown.
MarkRow(w) ==
  /\ pc[w] = "mark"
  /\ \/ /\ Outcome(w)
        /\ pc' = [pc EXCEPT ![w] = "loop"]
        /\ job' = [job EXCEPT ![w] = NoJob]
        /\ UNCHANGED used
     \/ /\ \/ Outcome(w) /\ Spend("reply")
           \/ UNCHANGED table /\ Spend("db")
        /\ pc' = [pc EXCEPT ![w] = "catch"]
        /\ UNCHANGED job
  /\ UNCHANGED <<timer, batch, snap, op, links, past>>

\* Is n the last failure the event may have?
Exhausted(n) == n >= MaxRetryCount

Failure(w) ==
  LET n == snap[w][job[w]] + 1
  IN IF Exhausted(n) THEN MarkDead(job[w], n) ELSE MarkRetry(job[w], n)

\* The UPDATE in the catch block.  When that one fails the tick is over, and
\* the rest of the batch stays PROCESSING until its lease lapses.
MarkFailure(w) ==
  /\ pc[w] = "catch"
  /\ job' = [job EXCEPT ![w] = NoJob]
  /\ \/ /\ Failure(w)
        /\ pc' = [pc EXCEPT ![w] = "loop"]
        /\ UNCHANGED <<batch, used>>
     \/ /\ \/ Failure(w) /\ Spend("reply")
           \/ UNCHANGED table /\ Spend("db")
        /\ pc' = [pc EXCEPT ![w] = "idle"]
        /\ batch' = [batch EXCEPT ![w] = {}]
  /\ UNCHANGED <<timer, snap, op, links, past>>

EndTick(w) ==
  /\ pc[w] = "loop" /\ batch[w] = {}
  /\ pc' = [pc EXCEPT ![w] = "idle"]
  /\ UNCHANGED <<table, timer, batch, snap, job, op, links, past, used>>

-----------------------------------------------------------------------------
(* WebSocket links, as far as the outbox sees them.  The socket is in the   *)
(* node's map before its presence reaches Redis, and a key outlives a       *)
(* socket until it is unregistered or its TTL ends.                         *)

Connect(u, w) ==
  /\ pc[w] # "down" /\ w \notin sockets[u] /\ Spend("link")
  /\ sockets' = [sockets EXCEPT ![u] = @ \cup {w}]
  /\ UNCHANGED <<table, memory, presence, past>>

Disconnect(u, w) ==
  /\ w \in sockets[u] /\ Spend("link")
  /\ sockets' = [sockets EXCEPT ![u] = @ \ {w}]
  /\ UNCHANGED <<table, memory, presence, past>>

RegisterPresence(u) ==
  /\ sockets[u] # {} /\ ~presence[u]
  /\ presence' = [presence EXCEPT ![u] = TRUE]
  /\ UNCHANGED <<table, memory, sockets, past, used>>

\* An unregister deletes the key whoever set it, a newer socket included.
UnregisterPresence(u) ==
  /\ presence[u]
  /\ presence' = [presence EXCEPT ![u] = FALSE]
  /\ UNCHANGED <<table, memory, sockets, past, used>>

-----------------------------------------------------------------------------
RunJob(w) == \E e \in Events : \/ HandlerThrows(w, e)
                               \/ DispatchToUser(w, e)
                               \/ RunSystemJob(w, e)

Work(w) == \/ ClaimPending(w) \/ RunJob(w) \/ ProbePresence(w)
           \/ MarkRow(w) \/ MarkFailure(w) \/ EndTick(w)

Next ==
  \/ \E e \in Events : \/ InsertEvent(e) \/ Purge(e)
                       \/ RetryFallsDue(e) \/ LeaseLapses(e)
  \/ \E w \in Workers : \/ Start(w) \/ Stop(w) \/ Exit(w) \/ Crash(w) \/ Work(w)
  \/ \E u \in Users : \/ RegisterPresence(u) \/ UnregisterPresence(u)
                      \/ \E w \in Workers : Connect(u, w) \/ Disconnect(u, w)

Spec == Init /\ [][Next]_vars

\* setInterval keeps a worker going, a process is started again by its
\* supervisor, and clocks advance.  Nothing is assumed of users or of faults.
Fairness ==
  /\ \A w \in Workers : WF_vars(Work(w)) /\ WF_vars(Start(w)) /\ WF_vars(Exit(w))
  /\ \A e \in Events : WF_vars(RetryFallsDue(e)) /\ WF_vars(LeaseLapses(e))

FairSpec == Spec /\ Fairness

-----------------------------------------------------------------------------
(* Properties *)

Steps == {"down", "idle", "loop", "probe", "mark", "catch"}

TableOK == /\ status \in [Events -> Status]
           /\ retryCount \in [Events -> Nat]
           /\ nextRetryAt \in [Events -> Stamp]
           /\ leaseExpiresAt \in [Events -> Stamp]

\* A job is in hand exactly between the handler and the UPDATE that ends it.
MemoryOK == /\ timer \in [Workers -> BOOLEAN]
            /\ pc \in [Workers -> Steps]
            /\ batch \in [Workers -> SUBSET Events]
            /\ snap \in [Workers -> [Events -> Nat]]
            /\ job \in [Workers -> Events \cup {NoJob}]
            /\ op \in [Workers -> Ops]
            /\ \A w \in Workers : pc[w] \in {"probe", "mark", "catch"} <=> job[w] # NoJob

LinksOK == sockets \in [Users -> SUBSET Workers] /\ presence \in [Users -> BOOLEAN]

PastOK == /\ attempts \in [Events -> Nat]
          /\ reached \in [Events -> BOOLEAN] /\ seenOnline \in [Events -> BOOLEAN]

\* The columns and the memory of the workers hold values of their types.
TypeOK == TableOK /\ MemoryOK /\ LinksOK /\ PastOK /\ used \in [Faults -> Nat]

\* No row is stranded: whatever crashes, lost replies and stale UPDATEs did to
\* an unsettled row, it is claimable or carries the timestamp that will make
\* it so (the OR of claimPending ignores rows whose column is NULL).
Recoverable ==
  \A e \in Events : /\ status[e] = "RETRY" => nextRetryAt[e] # "null"
                    /\ status[e] = "PROCESSING" => leaseExpiresAt[e] # "null"

\* An event is written off as DISPATCHED for a reason: a copy got to a socket
\* (or its system job was done), presence said the user is online, or its
\* handler ran more often than the reconnect window allows retries.  Stale
\* workers, failed UPDATEs and re-claims do not cut the window short.
WriteOffEarned ==
  \A e \in Events : status[e] = "DISPATCHED" =>
     reached[e] \/ seenOnline[e] \/ attempts[e] > Window

\* An event is given up as DEAD only after MaxRetryCount runs of its handler.
DeathEarned ==
  \A e \in Events : status[e] = "DEAD" => attempts[e] >= MaxRetryCount

\* Why the last two hold: an UPDATE never writes a count that exceeds the runs,
\* even when its worker read the row long ago ...
RunsCounted ==
  /\ \A e \in Events : retryCount[e] <= attempts[e]
  /\ \A w \in Workers, e \in Events : snap[w][e] <= attempts[e]
  /\ \A w \in Workers : job[w] # NoJob => snap[w][job[w]] < attempts[job[w]]

\* ... and a worker about to write DISPATCHED has the reason in its history.
ReasonKnown ==
  \A w \in Workers : pc[w] = "mark" /\ op[w] = "dispatched" =>
     reached[job[w]] \/ seenOnline[job[w]] \/ attempts[job[w]] > Window

\* The inductive invariant that no fault breaks.
AnyInv == TypeOK /\ Recoverable /\ RunsCounted /\ ReasonKnown /\ WriteOffEarned /\ DeathEarned

\* The lease makes one worker the only consumer of an event.
SingleConsumer ==
  \A v, w \in Workers : v # w => Held(v) \cap Held(w) = {}

\* Why: what a worker holds is leased to it and unchanged since the claim.
HeldIsLeased ==
  \A w \in Workers : \A e \in Held(w) :
     /\ status[e] = "PROCESSING" /\ leaseExpiresAt[e] = "future"
     /\ snap[w][e] = retryCount[e]

BatchTidy ==
  \A w \in Workers : /\ job[w] \notin batch[w]
                     /\ pc[w] \in {"down", "idle"} => batch[w] = {}

\* The inductive invariant of the outbox without overruns and lost replies.
TimelyInv == TypeOK /\ BatchTidy /\ HeldIsLeased /\ SingleConsumer

\* A settled row is only ever purged: no worker brings it back to life and
\* none turns DISPATCHED into DEAD.
SettledIsFinal ==
  [][\A e \in Events : status[e] \in Settled => status'[e] \in {status[e], "purged"}]_vars

\* The retry budget of an event is never given back.
RetryCountGrows == [][\A e \in Events : retryCount'[e] >= retryCount[e]]_vars

\* Every event that was committed is settled in the end.
EventuallySettled ==
  \A e \in Events : status[e] = "PENDING" ~> status[e] \in Settled \cup {"purged"}

\* What the outbox promises to the code that writes events.
Debt == [e \in Events |-> CASE status[e] = "absent" -> "none"
                           [] status[e] \in Settled -> "settled"
                           [] status[e] = "purged" -> "forgotten"
                           [] OTHER -> "owed"]

Promise == INSTANCE OutboxPromise WITH debt <- Debt, runs <- attempts

PromiseKept == Promise!Spec
=============================================================================
