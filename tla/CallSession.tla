----------------------------- MODULE CallSession -----------------------------
(***************************************************************************)
(* One voice or video call: the rows of call_sessions and                  *)
(* call_participants, the call_record messages that end it, and the timer  *)
(* WebSocketCallHandler keeps in memory.  Every WebSocket message is       *)
(* handled at once, so operations of CallService run concurrently.  Each   *)
(* reads the call before its transaction, and decides on what it read; in  *)
(* the transaction it updates participant rows one statement at a time,    *)
(* counts who is in the call, and writes the session row at the end.       *)
(***************************************************************************)
EXTENDS Integers, FiniteSets, Sequences

CONSTANTS
  Devices,      \* the devices that may take part
  UserOf,       \* whose device it is
  Caller,       \* the device of initiator_user_id that places the call
  Scopes,       \* is it a direct call? a subset of BOOLEAN
  MaxJoined,    \* config.call.groupMaxParticipants
  Txs,          \* how many operations run at a time
  MaxRequests,  \* bound: requests after the invitation
  MaxFaults,    \* bound: failures and crashes
  None          \* SQL NULL: no lock holder, nothing written

CallAssumption ==
  /\ Caller \in Devices /\ Scopes \subseteq BOOLEAN
  /\ IsFiniteSet(Devices) /\ Devices # {}
  /\ MaxJoined \in Nat /\ MaxRequests \in Nat /\ MaxFaults \in Nat
  /\ None \notin Txs
ASSUME CallAssumption

VARIABLES
  direct,      \* call_scope = CALL_SCOPE_DIRECT
  session,     \* the row of call_sessions
  part,        \* participant_status of each device
  records,     \* outcomes of the call_record messages, in order
  group,       \* its conversation has members, is "empty", or is "disbanded"
  raced,       \* history: an operation has committed after a late read
  rowLock,     \* who holds the lock of each participant row
  tx,          \* the operations under way
  later,       \* what handlers still do after their transaction
  timer,       \* callTimeouts has this call
  inviteData,  \* callInviteData has this call
  aged,        \* has the invitation timeout passed since started_at?
  requests, faults

call   == <<direct, session, part, records, group, raced>>
memory == <<later, timer, inviteData>>
vars   == <<call, rowLock, tx, memory, aged, requests, faults>>

(* The participant statuses the updates of the repository call live, of    *)
(* those the code ever writes.                                             *)
Live == {"RINGING", "JOINED"}
Statuses == Live \cup {"absent", "DECLINED", "BUSY", "TIMEOUT", "LEFT", "SUPERSEDED"}
ASSUME NoneIsNoStatus == None \notin Statuses

Having(p, s) == {d \in Devices : p[d] = s}
Joined == Having(part, "JOINED")

(* hasNoResolvedTargets: the users called had no device at all.            *)
Unresolved == \A d \in Devices \ {Caller} : part[d] = "absent"

(* late is history: another operation has committed since this one's read. *)
Idle == [pc |-> "idle", op |-> "none", dev |-> None, seen |-> "none", todo |-> {},
         late |-> FALSE, wrote |-> [d \in Devices |-> None], count |-> 0]
Op(op, d) == [Idle EXCEPT !.pc = "own", !.op = op, !.dev = d, !.seen = session.status,
                          !.todo = {d}]

(* What a transaction sees: what is committed, and what it wrote itself.   *)
View(t) == [d \in Devices |-> IF tx[t].wrote[d] = None THEN part[d] ELSE tx[t].wrote[d]]

Init ==
  /\ direct \in Scopes
  /\ session = [status |-> "none", active |-> 0, answered |-> FALSE, ended |-> FALSE]
  /\ part = [d \in Devices |-> "absent"] /\ records = <<>> /\ group = "active" /\ raced = FALSE
  /\ rowLock = [d \in Devices |-> None] /\ tx = [t \in Txs |-> Idle]
  /\ later = {} /\ timer = FALSE /\ inviteData = FALSE /\ aged = FALSE
  /\ requests = 0 /\ faults = 0

----------------------------------------------------------------------------
(* The invitation, and what its handler does after it told everybody.      *)

(* createCall: a row for every device of the users called, who are busy in *)
(* another call or not.  An invitation names somebody, never the caller.   *)
Invite(rung, busy) ==
  LET ringing == {d \in rung : UserOf[d] \notin busy} IN
  /\ session.status = "none"
  /\ \A d \in rung : UserOf[d] # UserOf[Caller]
  /\ direct => \A d, e \in rung : UserOf[d] = UserOf[e]
  /\ session' = [session EXCEPT !.status = "RINGING", !.active = 1]
  /\ part' = [d \in Devices |-> CASE d = Caller          -> "JOINED"
                                  [] d \in ringing        -> "RINGING"
                                  [] d \in rung \ ringing -> "BUSY"
                                  [] OTHER                -> "absent"]
  /\ later' = IF direct /\ ringing = {} /\ rung # {}
                THEN {[job |-> "busy", arm |-> FALSE]}
                ELSE {[job |-> "ring", arm |-> ringing # {} \/ rung = {}]}
  /\ UNCHANGED <<direct, records, group, raced, rowLock, tx, timer, inviteData, aged,
                 requests, faults>>

(* MUTANT: the invitation is kept, the timer forgotten.                    *)
ScheduleNothing(r) ==
  /\ r \in later /\ r.job = "ring"
  /\ inviteData' = TRUE
  /\ later' = later \ {r}
  /\ UNCHANGED <<call, rowLock, tx, timer, aged, requests, faults>>

(* scheduleCallTimeout goes by the state its handler has in hand, which    *)
(* may be old; arming cancels the timer there was.                         *)
ScheduleTimeout(r) ==
  /\ r \in later /\ r.job = "ring"
  /\ inviteData' = TRUE
  /\ timer' = (timer \/ r.arm)
  /\ later' = later \ {r}
  /\ UNCHANGED <<call, rowLock, tx, aged, requests, faults>>

(* After an accept the others ring for another full window.                *)
Reschedule(r) ==
  /\ r \in later /\ r.job = "accepted"
  /\ timer' = (timer \/ (inviteData /\ r.arm))
  /\ later' = later \ {r}
  /\ UNCHANGED <<call, rowLock, tx, inviteData, aged, requests, faults>>

ClearTimeout(r) ==
  /\ r \in later /\ r.job = "ended"
  /\ timer' = FALSE /\ inviteData' = FALSE
  /\ later' = later \ {r}
  /\ UNCHANGED <<call, rowLock, tx, aged, requests, faults>>

----------------------------------------------------------------------------
(* The read of an operation, outside its transaction, with its checks.     *)

Begin(t, x) ==
  /\ tx[t].pc = "idle" /\ session.status # "none"
  /\ tx' = [tx EXCEPT ![t] = x]
  /\ UNCHANGED <<call, rowLock, aged, faults>>

Request(t, x) ==
  /\ requests < MaxRequests /\ Begin(t, x)
  /\ requests' = requests + 1
  /\ UNCHANGED memory

CanAccept(d) ==
  /\ session.status \in {"RINGING", "ONGOING"}
  /\ \A e \in Joined : UserOf[e] # UserOf[d]
  /\ ~direct => Cardinality(Joined) < MaxJoined

BeginAccept(t, d) ==
  /\ part[d] # "absent" /\ CanAccept(d)
  /\ Request(t, Op("accept", d))

BeginReject(t, d) ==
  /\ part[d] # "absent" /\ session.status # "ENDED"
  /\ Request(t, Op("reject", d))

(* handleCallEnd never refuses: see OnlyLeaves.                            *)
BeginEnd(t, d) ==
  /\ part[d] # "absent"
  /\ Request(t, Op("end", d))

(* finalizeBusyInviteCall, the end of an invitation nobody can answer.     *)
BeginBusy(t, r) ==
  /\ r \in later /\ r.job = "busy"
  /\ Begin(t, IF session.status = "ENDED" THEN Idle
                                          ELSE [Op("busy", Caller) EXCEPT !.todo = {}])
  /\ later' = later \ {r}
  /\ UNCHANGED <<timer, inviteData, requests>>

(* handleScheduledCallTimeout looks once; markTimeout reads again.         *)
TimerFires(t) ==
  /\ timer /\ aged
  /\ Begin(t, IF \/ session.status = "ENDED"
                 \/ Having(part, "RINGING") = {} /\ ~Unresolved
                THEN Idle ELSE [Op("timeout", None) EXCEPT !.pc = "due", !.todo = {}])
  /\ timer' = FALSE /\ inviteData' = FALSE
  /\ UNCHANGED <<later, requests>>

(* isUserBusy, when somebody else calls a user, times out a call of his    *)
(* that rang for too long.                                                 *)
ReconcileStale(t, d) ==
  /\ aged /\ session.status = "RINGING" /\ d \in Joined
  /\ \E e \in Devices \ {d} : part[e] \in Live
  /\ Request(t, [Op("timeout", None) EXCEPT !.pc = "due", !.todo = {}])

(* reconcileDeviceReconnect, when a device opens a new socket.             *)
ReconcileReconnect(t, d) ==
  /\ aged /\ session.status \in {"RINGING", "ONGOING"} /\ part[d] \in Live
  /\ Request(t, [Op("force", d) EXCEPT !.pc = "due"])

(* getCallStateOrThrow in markTimeout and forceCloseDeviceCall: what was    *)
(* decided before is no longer old, unless markTimeout finds the call ended *)
(* and goes on.                                                            *)
ReadCall(t) ==
  LET x == tx[t] IN
  /\ x.pc = "due"
  /\ tx' = [tx EXCEPT ![t] =
              IF x.op = "force" /\ session.status = "ENDED" THEN Idle
              ELSE [x EXCEPT !.pc = "own", !.seen = session.status,
                             !.late = @ /\ session.status = "ENDED",
                             !.todo = IF x.op = "force" THEN @ ELSE Having(part, "RINGING")]]
  /\ UNCHANGED <<call, rowLock, memory, aged, requests, faults>>

----------------------------------------------------------------------------
(* The transaction.                                                        *)

(* What the operation makes of its own rows, whatever they are by then...  *)
OwnMark(op) == CASE op = "accept"  -> "JOINED"
                 [] op = "reject"  -> "DECLINED"
                 [] op = "timeout" -> "TIMEOUT"
                 [] OTHER          -> "LEFT"

(* ... and whose rows it then clears, where they are live:                 *)
(* updateSiblingDevicesForUser, updateRemainingParticipantsForCall.        *)
Others(x) == CASE x.op = "accept" ->
                    {d \in Devices \ {x.dev} : UserOf[d] = UserOf[x.dev]}
               [] x.op \in {"timeout", "busy"} -> Devices
               [] OTHER -> {d \in Devices : UserOf[d] # UserOf[x.dev]}

OtherMark(op) == IF op = "accept" THEN "SUPERSEDED" ELSE "LEFT"

(* MUTANT: an ended call is ended again.                                   *)
NeverOnlyLeaves(x) == FALSE

(* endCall of a call that was seen ended only marks the device.            *)
OnlyLeaves(x) == x.op = "end" /\ x.seen = "ENDED"
ClearsOthers(x) ==
  CASE x.op \in {"accept", "busy"} -> TRUE
    [] x.op = "timeout"            -> x.count <= 1
    [] OTHER                       -> direct /\ ~OnlyLeaves(x)

(* One row of an UPDATE: it waits for the lock, and looks again at a row   *)
(* it had to wait for.                                                     *)
UpdateRow(t, d) ==
  LET x == tx[t]
      hit == x.pc = "own" \/ View(t)[d] \in Live IN
  /\ x.pc \in {"own", "others"} /\ d \in x.todo
  /\ rowLock[d] \in {None, t}
  /\ tx' = [tx EXCEPT ![t].todo = @ \ {d},
                      ![t].wrote[d] = IF ~hit THEN @
                                      ELSE IF x.pc = "own" THEN OwnMark(x.op)
                                                           ELSE OtherMark(x.op)]
  /\ rowLock' = IF hit THEN [rowLock EXCEPT ![d] = t] ELSE rowLock
  /\ UNCHANGED <<call, memory, aged, requests, faults>>

SelectOthers(t) ==
  LET x == tx[t] IN
  /\ x.todo = {} /\ ClearsOthers(x)
  /\ x.pc = IF x.op = "timeout" THEN "counted" ELSE "own"
  /\ tx' = [tx EXCEPT ![t].pc = "others",
                      ![t].todo = {d \in Others(x) : View(t)[d] \in Live}]
  /\ UNCHANGED <<call, rowLock, memory, aged, requests, faults>>

(* MUTANT: ringing devices count.                                          *)
CountLive(t) ==
  LET x == tx[t] IN
  /\ x.todo = {} /\ x.op # "busy" /\ ~OnlyLeaves(x)
  /\ IF x.op = "timeout" \/ ~ClearsOthers(x) THEN x.pc = "own" ELSE x.pc = "others"
  /\ tx' = [tx EXCEPT ![t].pc = "counted",
                      ![t].count = Cardinality({d \in Devices : View(t)[d] \in Live})]
  /\ UNCHANGED <<call, rowLock, memory, aged, requests, faults>>

(* countParticipantsByStatus, of those in the call.                        *)
CountJoined(t) ==
  LET x == tx[t] IN
  /\ x.todo = {} /\ x.op # "busy" /\ ~OnlyLeaves(x)
  /\ IF x.op = "timeout" \/ ~ClearsOthers(x) THEN x.pc = "own" ELSE x.pc = "others"
  /\ tx' = [tx EXCEPT ![t].pc = "counted",
                      ![t].count = Cardinality(Having(View(t), "JOINED"))]
  /\ UNCHANGED <<call, rowLock, memory, aged, requests, faults>>

(* shouldEndCall.                                                          *)
EndsCall(x) ==
  CASE x.op = "accept"  -> FALSE
    [] x.op = "reject"  -> direct /\ x.count = 0
    [] x.op = "timeout" -> x.count <= 1
    [] x.op = "busy"    -> TRUE
    [] OTHER            -> x.count <= IF direct THEN 0 ELSE 1

(* The outcome persistCallRecordMessage is given.                          *)
Outcome(x) ==
  CASE x.op = "reject"  -> "rejected"
    [] x.op = "timeout" -> "timeout"
    [] x.op = "busy"    -> "busy"
    [] x.op = "force"   -> "failed"
    [] OTHER -> IF UserOf[x.dev] = UserOf[Caller] /\ x.seen = "RINGING"
                  THEN "cancelled" ELSE "completed"

(* MUTANT: the active count is taken down by hand.                         *)
SessionCountsDown(x) ==
  [status   |-> IF EndsCall(x) THEN "ENDED"
                ELSE IF x.op \in {"accept", "timeout"} THEN "ONGOING" ELSE x.seen,
   active   |-> IF x.op = "accept" THEN x.count ELSE session.active - 1,
   answered |-> session.answered \/ x.op = "accept",
   ended    |-> session.ended \/ EndsCall(x)]
(* updateCallSessionState: a status that is not decided here is the one    *)
(* that was read.                                                          *)
SessionAfter(x) ==
  [status   |-> IF EndsCall(x) THEN "ENDED"
                ELSE IF x.op \in {"accept", "timeout"} THEN "ONGOING" ELSE x.seen,
   active   |-> IF x.op \in {"timeout", "busy"} /\ EndsCall(x) THEN 0 ELSE x.count,
   answered |-> session.answered \/ x.op = "accept",
   ended    |-> session.ended \/ EndsCall(x)]

(* What is left to the handler once the transaction has committed.         *)
FollowUp(t, status) ==
  LET op == tx[t].op IN
  IF op = "accept" /\ Having(View(t), "RINGING") # {}
    THEN {[job |-> "accepted", arm |-> TRUE]}
    ELSE IF op \in {"reject", "end"} /\ status = "ENDED"
      THEN {[job |-> "ended", arm |-> FALSE]} ELSE {}

(* MUTANT: a transaction that leaves its locks behind.                     *)
ReleaseNothing(t) == UNCHANGED rowLock

(* The end of a transaction, without its changes or with them.             *)
Release(t) == rowLock' = [d \in Devices |-> IF rowLock[d] = t THEN None ELSE rowLock[d]]

Rollback(t) == tx' = [tx EXCEPT ![t] = Idle] /\ Release(t)

CommitTx(t) ==
  /\ tx' = [s \in Txs |-> IF s = t \/ tx[s].pc = "idle" THEN Idle
                                                        ELSE [tx[s] EXCEPT !.late = TRUE]]
  /\ raced' = (raced \/ tx[t].late)
  /\ Release(t)

Finished(x) ==
  /\ x.todo = {}
  /\ CASE x.op = "busy"                      -> x.pc = "others"
       [] x.op = "timeout" /\ ClearsOthers(x) -> x.pc = "others"
       [] OTHER                              -> x.pc = "counted"

(* MUTANT: a timeout leaves no call record.                                *)
TimeoutUnrecorded(x) ==
  IF EndsCall(x) /\ group # "empty" /\ x.op # "timeout" THEN Append(records, Outcome(x)) ELSE records
(* persistCallRecordMessage: a message to the members, if there are any.   *)
RecordsAfter(x) ==
  IF EndsCall(x) /\ group # "empty" THEN Append(records, Outcome(x)) ELSE records

(* The session row is written, a call that ends gets its record, and all   *)
(* is committed: unless persistCallRecordMessage finds no conversation.    *)
Commit(t) ==
  LET x == tx[t] IN
  /\ Finished(x) /\ (EndsCall(x) => group # "disbanded")
  /\ session' = SessionAfter(x) /\ part' = View(t) /\ records' = RecordsAfter(x)
  /\ later' = later \cup FollowUp(t, SessionAfter(x).status)
  /\ CommitTx(t)
  /\ UNCHANGED <<direct, group, timer, inviteData, aged, requests, faults>>

EndRefused(t) ==
  /\ Finished(tx[t]) /\ EndsCall(tx[t]) /\ group = "disbanded"
  /\ Rollback(t)
  /\ UNCHANGED <<call, memory, aged, requests, faults>>

CommitLeave(t) ==
  /\ tx[t].pc = "own" /\ tx[t].todo = {} /\ OnlyLeaves(tx[t])
  /\ part' = View(t)
  /\ later' = later \cup FollowUp(t, session.status)
  /\ CommitTx(t)
  /\ UNCHANGED <<direct, session, records, group, timer, inviteData, aged, requests, faults>>

----------------------------------------------------------------------------
(* What goes wrong: operations that wait for one another, of which the     *)
(* database aborts one; a statement, or the dispatch before a follow-up,   *)
(* that fails; a crash, which forgets timers and follow-ups.               *)

Waits(s, t) ==
  /\ tx[s].todo # {} /\ \A d \in tx[s].todo : rowLock[d] \notin {None, s}
  /\ \E d \in tx[s].todo : rowLock[d] = t
Deadlocked(t) ==
  \E D \in SUBSET Txs : t \in D /\ \A s \in D : \E r \in D : Waits(s, r)

AbortVictim(t) ==
  /\ Deadlocked(t)
  /\ Rollback(t)
  /\ UNCHANGED <<call, memory, aged, requests, faults>>

Fault == faults < MaxFaults /\ faults' = faults + 1

Fail(t) ==
  /\ Fault /\ tx[t].pc # "idle"
  /\ Rollback(t)
  /\ UNCHANGED <<call, memory, aged, requests>>

HandlerFails(r) ==
  /\ Fault /\ r \in later
  /\ later' = later \ {r}
  /\ UNCHANGED <<call, rowLock, tx, timer, inviteData, aged, requests>>

Crash ==
  /\ Fault
  /\ tx' = [t \in Txs |-> Idle] /\ rowLock' = [d \in Devices |-> None]
  /\ later' = {} /\ timer' = FALSE /\ inviteData' = FALSE
  /\ UNCHANGED <<call, aged, requests>>

(* The last member leaves the group the call is held in, or the owner      *)
(* disbands it.                                                            *)
CloseGroup ==
  /\ ~direct /\ group = "active" /\ group' \in {"empty", "disbanded"}
  /\ requests < MaxRequests /\ requests' = requests + 1
  /\ UNCHANGED <<direct, session, part, records, raced, rowLock, tx, memory, aged, faults>>

TimePasses ==
  /\ session.status # "none" /\ ~aged /\ aged' = TRUE
  /\ UNCHANGED <<call, rowLock, tx, memory, requests, faults>>

Handle == \E r \in later : ScheduleTimeout(r) \/ Reschedule(r) \/ ClearTimeout(r)

Start(t) ==
  \/ \E d \in Devices : \/ BeginAccept(t, d) \/ BeginReject(t, d) \/ BeginEnd(t, d)
                        \/ ReconcileStale(t, d) \/ ReconcileReconnect(t, d)
  \/ \E r \in later : BeginBusy(t, r)
  \/ TimerFires(t)

Proceed(t) ==
  \/ ReadCall(t) \/ SelectOthers(t) \/ CountJoined(t)
  \/ Commit(t) \/ CommitLeave(t) \/ EndRefused(t)
  \/ \E d \in Devices : UpdateRow(t, d)
  \/ AbortVictim(t)

Next ==
  \/ \E rung \in SUBSET (Devices \ {Caller}) :
       \E busy \in SUBSET {UserOf[d] : d \in rung} : Invite(rung, busy)
  \/ Handle \/ TimePasses \/ CloseGroup \/ Crash
  \/ \E t \in Txs : Start(t) \/ Proceed(t) \/ Fail(t)
  \/ \E r \in later : HandlerFails(r)

Spec == Init /\ [][Next]_vars

(* The database answers.                                                   *)
RunningSpec == Spec /\ \A t \in Txs : WF_vars(Proceed(t))

(* Timers fire as well, and handlers run on.                               *)
FairSpec ==
  /\ RunningSpec
  /\ WF_vars(Handle) /\ WF_vars(TimePasses)
  /\ WF_vars(\E t \in Txs : TimerFires(t))
  /\ WF_vars(\E t \in Txs, r \in later : BeginBusy(t, r))

----------------------------------------------------------------------------
(* Properties                                                              *)

TxStates ==
  [pc : {"idle", "due", "own", "others", "counted"},
   op : {"none", "accept", "reject", "end", "timeout", "busy", "force"},
   dev : Devices \cup {None}, seen : {"none", "RINGING", "ONGOING", "ENDED"},
   todo : SUBSET Devices, late : BOOLEAN,
   wrote : [Devices -> Statuses \cup {None}], count : Nat]

CallOK ==
  /\ direct \in BOOLEAN
  /\ session \in [status : {"none", "RINGING", "ONGOING", "ENDED"},
                  active : Nat, answered : BOOLEAN, ended : BOOLEAN]
  /\ part \in [Devices -> Statuses]
  /\ records \in Seq({"rejected", "timeout", "busy", "failed", "cancelled", "completed"})
  /\ group \in {"active", "empty", "disbanded"} /\ raced \in BOOLEAN
TxOK == tx \in [Txs -> TxStates] /\ rowLock \in [Devices -> Txs \cup {None}]
Jobs == [job : {"busy", "ring", "accepted", "ended"}, arm : BOOLEAN]
MemoryOK ==
  /\ later \subseteq Jobs
  /\ timer \in BOOLEAN /\ inviteData \in BOOLEAN

(* Every variable stays in its set.                                        *)
TypeOK ==
  /\ CallOK /\ TxOK /\ MemoryOK
  /\ aged \in BOOLEAN /\ requests \in 0 .. MaxRequests /\ faults \in 0 .. MaxFaults

(* A call shown as ended has ended_at, and a call has ended_at exactly if  *)
(* its conversation shows a call_record, unless it is a group that has no  *)
(* member left to show it to: record and session row are written in one    *)
(* transaction, whichever way a call ends and whatever fails.              *)
EndedIsRecorded ==
  /\ session.status = "ENDED" => session.ended
  /\ records # <<>> => session.ended
  /\ session.ended => records # <<>> \/ group = "empty"

(* If a device called ever was in the call, answered_at says so for good:  *)
(* the duration the call record shows is counted from it.                  *)
AnswerIsRemembered ==
  (\E d \in Devices \ {Caller} : part[d] \in {"JOINED", "SUPERSEDED"}) => session.answered

(* Operations lock participant rows in no common order, and some wait for  *)
(* one another: still every one of them ends, and its rows are free again. *)
OperationsEnd ==
  \A t \in Txs : tx[t].pc # "idle" ~> tx[t].pc = "idle" /\ \A d \in Devices : rowLock[d] # t

(* Only an operation that read the call before another one committed       *)
(* brings a call back from its end or gives it a second call_record...     *)
LateCommit == \E t \in Txs : tx[t].late /\ tx'[t].pc = "idle"
EndedIsFinal ==
  [][session.status = "ENDED" =>
       (session'.status = "ENDED" /\ records' = records) \/ LateCommit]_vars

(* ... or lets a call ring again that was answered, as rejections and      *)
(* hang-ups write back the status they read.                               *)
NeverBackToRinging ==
  [][session.status = "ONGOING" => session'.status # "RINGING" \/ LateCommit]_vars

(* The parts of the next property.                                         *)
OneDevicePerUser == \A d, e \in Joined : UserOf[d] = UserOf[e] => d = e
ActiveIsJoined == session.status # "ENDED" => session.active = Cardinality(Joined)
GroupFits == ~direct => Cardinality(Joined) <= MaxJoined
DirectEndsForAll == direct /\ session.status = "ENDED" => Joined = {}

(* Who is in the call, as the participant rows say it, agrees with the     *)
(* session row and the rules: a user answers on one device only, by the    *)
(* check of acceptCall and the supersession of the siblings;               *)
(* active_device_count counts those in a call that goes on; a group never  *)
(* exceeds groupMaxParticipants; and nobody is left in a direct call that  *)
(* has ended, not even a sibling of the device that ended it.  Operations  *)
(* may overlap as they like: only the commit of one that decided on a read *)
(* older than another's commit can break it.                               *)
JoinedIsConsistent ==
  ~raced => /\ OneDevicePerUser
            /\ ActiveIsJoined
            /\ GroupFits
            /\ DirectEndsForAll

(* A call does what CallPromise says, until an operation has committed     *)
(* after a late read: its status, its joined devices and its records go    *)
(* through ring, answer, leave and end, and nothing comes after the end    *)
(* but leaving.                                                            *)
Promise == INSTANCE CallPromise WITH phase <- session.status, inCall <- Joined,
                                     deserted <- group = "empty"
CallPromiseKept == Promise!Spec

(* A direct call does not ring for ever: somebody answers or declines, or  *)
(* the timer of its invitation ends it, however operations overlap.  (One  *)
(* that commits after a late read can write RINGING back.)                 *)
RingingEnds ==
  direct /\ session.status = "RINGING" ~> session.status # "RINGING" \/ raced
=============================================================================
