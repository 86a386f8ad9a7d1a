------------------------- MODULE CallSession_proofs -------------------------
(***************************************************************************)
(* Proofs about CallSession, for every set of devices and users, every     *)
(* number of operations at a time and every bound.                         *)
(***************************************************************************)
EXTENDS CallSession, FiniteSetTheorems, TLAPS

-----------------------------------------------------------------------------
(* The parts of the state an action moves. *)

\* Counting devices by status gives a number.
LEMMA CountType ==
  ASSUME NEW p, NEW s
  PROVE  Cardinality(Having(p, s)) \in Nat
<1>1. Having(p, s) \subseteq Devices
  BY DEF Having
<1>2. IsFiniteSet(Having(p, s))
  BY <1>1, CallAssumption, FS_Subset DEF CallAssumption
<1> QED
  BY <1>2, FS_CardinalityType

\* A new operation is a well-typed one.
LEMMA OpType ==
  ASSUME CallOK, NEW op \in {"accept", "reject", "end", "timeout", "busy", "force"},
         NEW d \in Devices \cup {None}, NEW c \in {"own", "due"}, NEW S \in SUBSET Devices
  PROVE  Idle \in TxStates /\ [Op(op, d) EXCEPT !.pc = c, !.todo = S] \in TxStates
BY DEF CallOK, Op, Idle, TxStates

LEMMA ViewType ==
  ASSUME CallOK, TxOK, NEW t \in Txs
  PROVE  View(t) \in [Devices -> Statuses]
BY DEF CallOK, TxOK, View, TxStates

\* Ending a transaction, by commit or rollback.
LEMMA RollbackType ==
  ASSUME TxOK, NEW t \in Txs, Rollback(t)
  PROVE  TxOK'
BY DEF TxOK, Rollback, Release, TxStates, Idle

LEMMA CommitTxType ==
  ASSUME TxOK, NEW t \in Txs, CommitTx(t), raced \in BOOLEAN
  PROVE  TxOK' /\ raced' \in BOOLEAN
<1>2. raced' \in BOOLEAN
  BY DEF TxOK, CommitTx, TxStates
<1>3. Idle \in TxStates
  BY DEF Idle, TxStates
<1>4. \A x \in TxStates : [x EXCEPT !.late = TRUE] \in TxStates
  BY DEF TxStates
<1>5. tx' \in [Txs -> TxStates]
  BY <1>3, <1>4 DEF TxOK, CommitTx
<1> QED
  BY <1>2, <1>5 DEF TxOK, CommitTx, Release

\* One operation starts.
LEMMA BeginType ==
  ASSUME TypeOK, NEW t \in Txs, NEW x \in TxStates, Begin(t, x), MemoryOK',
         requests' \in 0 .. MaxRequests
  PROVE  TypeOK'
BY DEF Begin, TypeOK, CallOK, TxOK, call

LEMMA RequestType ==
  ASSUME TypeOK, NEW t \in Txs, NEW x \in TxStates, Request(t, x)
  PROVE  TypeOK'
<1>1. MemoryOK' /\ requests' \in 0 .. MaxRequests
  BY CallAssumption DEF CallAssumption, Request, TypeOK, MemoryOK, memory
<1> QED
  BY <1>1, BeginType DEF Request

\* A follow-up is done and struck off.
LEMMA DoneType ==
  ASSUME MemoryOK, NEW r, later' = later \ {r}, timer' \in BOOLEAN, inviteData' \in BOOLEAN
  PROVE  MemoryOK'
BY DEF MemoryOK

\* What a handler still has to do.
LEMMA FollowUpType ==
  ASSUME NEW t, NEW s
  PROVE  FollowUp(t, s) \subseteq Jobs
<1>1. [job |-> "accepted", arm |-> TRUE] \in Jobs /\ [job |-> "ended", arm |-> FALSE] \in Jobs
  BY DEF Jobs
<1> QED
  BY <1>1 DEF FollowUp

-----------------------------------------------------------------------------
\* The rows, the operations and the handler's memory hold values of their types.
THEOREM TypeCorrect == Spec => []TypeOK
<1>1. Init => TypeOK
  <2> SUFFICES ASSUME Init PROVE TypeOK
    OBVIOUS
  <2>1. CallOK
    <3>1. direct \in BOOLEAN /\ part \in [Devices -> Statuses]
      BY CallAssumption DEF CallAssumption, Init, Statuses
    <3>2. session \in [status : {"none", "RINGING", "ONGOING", "ENDED"},
                      active : Nat, answered : BOOLEAN, ended : BOOLEAN]
      BY DEF Init
    <3>3. records = <<>> /\ group = "active" /\ raced \in BOOLEAN
      BY DEF Init
    <3> QED
      BY <3>1, <3>2, <3>3 DEF CallOK
  <2>2. TxOK
    BY DEF Init, TxOK, TxStates, Idle
  <2>3. MemoryOK /\ aged \in BOOLEAN
    BY DEF Init, MemoryOK
  <2>4. requests \in 0 .. MaxRequests /\ faults \in 0 .. MaxFaults
    BY CallAssumption DEF CallAssumption, Init
  <2> QED
    BY <2>1, <2>2, <2>3, <2>4 DEF TypeOK
<1>2. TypeOK /\ [Next]_vars => TypeOK'
  <2> SUFFICES ASSUME TypeOK, [Next]_vars PROVE TypeOK'
    OBVIOUS
  <2>a. CallOK /\ TxOK /\ MemoryOK /\ Idle \in TxStates
    BY OpType DEF TypeOK
  <2>b. UNCHANGED call => CallOK'
    BY <2>a DEF CallOK, call
  <2>c. UNCHANGED memory => MemoryOK'
    BY <2>a DEF MemoryOK, memory
  <2>d. UNCHANGED <<tx, rowLock>> => TxOK'
    BY <2>a DEF TxOK
  <2>1. ASSUME NEW rung \in SUBSET (Devices \ {Caller}), NEW busy, Invite(rung, busy) PROVE TypeOK'
    <3> DEFINE ringing(R, B) == {d \in R : UserOf[d] \notin B}
    <3>1. CallOK'
      BY <2>a, <2>1 DEF Invite, CallOK, Statuses, Live
    <3>2. \A a \in BOOLEAN : {[job |-> "busy", arm |-> a], [job |-> "ring", arm |-> a]} \subseteq Jobs
      BY DEF Jobs
    <3>3. (ringing(rung, busy) # {} \/ rung = {}) \in BOOLEAN
      OBVIOUS
    <3>4. later' \subseteq Jobs
      BY <2>1, <3>2, <3>3 DEF Invite
    <3>5. MemoryOK'
      BY <2>a, <2>1, <3>4 DEF Invite, MemoryOK
    <3> QED
      BY <2>1, <2>d, <3>1, <3>5 DEF Invite, TypeOK
  <2>2. CASE Handle
    <3> SUFFICES ASSUME NEW r \in later, ScheduleTimeout(r) \/ Reschedule(r) \/ ClearTimeout(r)
                 PROVE  TypeOK'
      BY <2>2 DEF Handle
    <3>1. MemoryOK'
      BY <2>a, DoneType DEF ScheduleTimeout, Reschedule, ClearTimeout, MemoryOK
    <3> QED
      BY <2>b, <2>d, <3>1 DEF ScheduleTimeout, Reschedule, ClearTimeout, TypeOK
  <2>3. CASE TimePasses
    BY <2>3, <2>b, <2>c, <2>d DEF TimePasses, TypeOK
  <2>z. CASE CloseGroup
    <3>1. CallOK'
      BY <2>z, <2>a DEF CloseGroup, CallOK
    <3> QED
      BY <2>z, <3>1, <2>c, <2>d, CallAssumption DEF CallAssumption, CloseGroup, TypeOK
  <2>4. CASE Crash
    <3>1. TxOK' /\ MemoryOK'
      BY <2>4, <2>a DEF Crash, TxOK, MemoryOK
    <3> QED
      BY <2>4, <3>1, <2>b, CallAssumption DEF CallAssumption, Crash, Fault, TypeOK
  <2>5. ASSUME NEW t \in Txs, Start(t) PROVE TypeOK'
    <3>1. ASSUME NEW d \in Devices, BeginAccept(t, d) PROVE TypeOK'
      <4>1. Op("accept", d) \in TxStates
        BY <2>a DEF Op, Idle, TxStates, CallOK
      <4> QED
        BY <3>1, <4>1, RequestType DEF BeginAccept
    <3>2. ASSUME NEW d \in Devices, BeginReject(t, d) PROVE TypeOK'
      <4>1. Op("reject", d) \in TxStates
        BY <2>a DEF Op, Idle, TxStates, CallOK
      <4> QED
        BY <3>2, <4>1, RequestType DEF BeginReject
    <3>3. ASSUME NEW d \in Devices, BeginEnd(t, d) PROVE TypeOK'
      <4>1. Op("end", d) \in TxStates
        BY <2>a DEF Op, Idle, TxStates, CallOK
      <4> QED
        BY <3>3, <4>1, RequestType DEF BeginEnd
    <3>4. ASSUME NEW d \in Devices, ReconcileStale(t, d) PROVE TypeOK'
      <4>1. [Op("timeout", None) EXCEPT !.pc = "due", !.todo = {}] \in TxStates
        BY <2>a, OpType
      <4> QED
        BY <3>4, <4>1, RequestType DEF ReconcileStale
    <3>5. ASSUME NEW d \in Devices, ReconcileReconnect(t, d) PROVE TypeOK'
      <4>1. [Op("force", d) EXCEPT !.pc = "due"] \in TxStates
        BY <2>a DEF Op, Idle, TxStates, CallOK
      <4> QED
        BY <3>5, <4>1, RequestType DEF ReconcileReconnect
    <3>6. ASSUME NEW r \in later, BeginBusy(t, r) PROVE TypeOK'
      <4>1. Caller \in Devices
        BY CallAssumption DEF CallAssumption
      <4>2. [Op("busy", Caller) EXCEPT !.todo = {}] \in TxStates
        BY <4>1, <2>a DEF Op, Idle, TxStates, CallOK
      <4>3. MemoryOK'
        BY <3>6, <2>a, DoneType DEF BeginBusy, MemoryOK
      <4>4. PICK x \in TxStates : Begin(t, x)
        BY <3>6, <4>2, <2>a DEF BeginBusy
      <4> QED
        BY <3>6, <4>3, <4>4, BeginType DEF BeginBusy, TypeOK
    <3>7. CASE TimerFires(t)
      <4>1. [Op("timeout", None) EXCEPT !.pc = "due", !.todo = {}] \in TxStates
        BY <2>a, OpType
      <4>2. MemoryOK'
        BY <3>7, <2>a DEF TimerFires, MemoryOK
      <4>3. PICK x \in TxStates : Begin(t, x)
        BY <3>7, <4>1, <2>a DEF TimerFires
      <4> QED
        BY <3>7, <4>2, <4>3, BeginType DEF TimerFires, TypeOK
    <3> QED
      BY <2>5, <3>1, <3>2, <3>3, <3>4, <3>5, <3>6, <3>7 DEF Start
  <2>6. ASSUME NEW t \in Txs, Proceed(t) PROVE TypeOK'
    <3>t. tx[t] \in TxStates
      BY <2>a DEF TxOK
    <3>1. CASE ReadCall(t)
      <4>1. Having(part, "RINGING") \in SUBSET Devices
        BY DEF Having
      <4>2. TxOK'
        BY <3>1, <3>t, <4>1, <2>a DEF ReadCall, TxOK, TxStates, CallOK
      <4> QED
        BY <3>1, <4>2, <2>b, <2>c DEF ReadCall, TypeOK
    <3>2. CASE SelectOthers(t)
      <4>k. {d \in Others(tx[t]) : View(t)[d] \in Live} \in SUBSET Devices
        BY DEF Others
      <4>1. TxOK'
        BY <3>2, <3>t, <4>k, <2>a DEF SelectOthers, TxOK, TxStates
      <4> QED
        BY <3>2, <4>1, <2>b, <2>c DEF SelectOthers, TypeOK
    <3>3. CASE CountJoined(t)
      <4>1. TxOK'
        BY <3>3, <3>t, <2>a, CountType DEF CountJoined, TxOK, TxStates
      <4> QED
        BY <3>3, <4>1, <2>b, <2>c DEF CountJoined, TypeOK
    <3>4. CASE Commit(t)
      <4>1. SessionAfter(tx[t]) \in [status : {"none", "RINGING", "ONGOING", "ENDED"},
                                     active : Nat, answered : BOOLEAN, ended : BOOLEAN]
        BY <3>t, <2>a DEF SessionAfter, TxStates, CallOK, EndsCall
      <4>2. Outcome(tx[t]) \in {"rejected", "timeout", "busy", "failed", "cancelled", "completed"}
        BY DEF Outcome
      <4>r. RecordsAfter(tx[t]) \in Seq({"rejected", "timeout", "busy", "failed", "cancelled",
                                        "completed"})
        BY <4>2, <2>a DEF RecordsAfter, CallOK
      <4>4. TxOK' /\ raced' \in BOOLEAN
        BY <3>4, <2>a, CommitTxType DEF Commit, CallOK
      <4>3. CallOK'
        BY <3>4, <4>1, <4>r, <4>4, <2>a, ViewType DEF Commit, CallOK
      <4>5. MemoryOK'
        BY <3>4, <2>a, FollowUpType DEF Commit, MemoryOK
      <4> QED
        BY <3>4, <4>3, <4>4, <4>5 DEF Commit, TypeOK
    <3>5. CASE CommitLeave(t)
      <4>2. TxOK' /\ raced' \in BOOLEAN
        BY <3>5, <2>a, CommitTxType DEF CommitLeave, CallOK
      <4>1. CallOK'
        BY <3>5, <4>2, <2>a, ViewType DEF CommitLeave, CallOK
      <4>3. MemoryOK'
        BY <3>5, <2>a, FollowUpType DEF CommitLeave, MemoryOK
      <4> QED
        BY <3>5, <4>1, <4>2, <4>3 DEF CommitLeave, TypeOK
    <3>6. ASSUME NEW d \in Devices, UpdateRow(t, d) PROVE TypeOK'
      <4>1. OwnMark(tx[t].op) \in Statuses /\ OtherMark(tx[t].op) \in Statuses
        BY DEF OwnMark, OtherMark, Statuses, Live
      <4> DEFINE after == [tx[t] EXCEPT !.todo = @ \ {d}, !.wrote[d] = tx'[t].wrote[d]]
      <4>a. tx'[t].wrote[d] \in Statuses \cup {None}
        BY <3>6, <3>t, <4>1, <2>a DEF UpdateRow, TxOK, TxStates
      <4>b. after \in TxStates
        BY <3>t, <4>a DEF TxStates
      <4>c. tx' = [tx EXCEPT ![t] = after]
        BY <3>6, <3>t, <2>a DEF UpdateRow, TxOK, TxStates
      <4>d. rowLock' \in [Devices -> Txs \cup {None}]
        BY <3>6, <2>a DEF UpdateRow, TxOK
      <4>2. TxOK'
        BY <4>b, <4>c, <4>d, <2>a DEF TxOK
      <4> QED
        BY <3>6, <4>2, <2>b, <2>c DEF UpdateRow, TypeOK
    <3>7. CASE AbortVictim(t) \/ EndRefused(t)
      <4>1. TxOK'
        BY <3>7, <2>a, RollbackType DEF AbortVictim, EndRefused
      <4> QED
        BY <3>7, <4>1, <2>b, <2>c DEF AbortVictim, EndRefused, TypeOK
    <3> QED
      BY <2>6, <3>1, <3>2, <3>3, <3>4, <3>5, <3>6, <3>7 DEF Proceed
  <2>7. ASSUME NEW t \in Txs, Fail(t) PROVE TypeOK'
    <3>1. TxOK'
      BY <2>7, <2>a, RollbackType DEF Fail
    <3> QED
      BY <2>7, <3>1, <2>b, <2>c, CallAssumption DEF CallAssumption, Fail, Fault, TypeOK
  <2>8. ASSUME NEW r \in later, HandlerFails(r) PROVE TypeOK'
    <3>1. MemoryOK'
      BY <2>8, <2>a, DoneType DEF HandlerFails, MemoryOK
    <3> QED
      BY <2>8, <3>1, <2>b, <2>d, CallAssumption DEF CallAssumption, HandlerFails, Fault, TypeOK
  <2>9. CASE UNCHANGED vars
    BY <2>9, <2>b, <2>c, <2>d DEF vars, call, memory, TypeOK
  <2> QED
    BY <2>1, <2>2, <2>3, <2>z, <2>4, <2>5, <2>6, <2>7, <2>8, <2>9 DEF Next
<1> QED
  BY <1>1, <1>2, PTL DEF Spec

-----------------------------------------------------------------------------
(* What holds however operations overlap and whatever fails. *)

\* Only Invite and the two ways to commit change the rows of the call, and only
\* CloseGroup the group it is held in.
LEMMA OthersKeepCall ==
  ASSUME [Next]_vars
  PROVE  \/ \E rung \in SUBSET (Devices \ {Caller}) :
              \E busy \in SUBSET {UserOf[d] : d \in rung} : Invite(rung, busy)
         \/ \E t \in Txs : Commit(t) \/ CommitLeave(t)
         \/ CloseGroup
         \/ UNCHANGED call
<1>1. Handle => UNCHANGED call
  BY DEF Handle, ScheduleTimeout, Reschedule, ClearTimeout
<1>2. ASSUME NEW t \in Txs, Start(t) PROVE UNCHANGED call
  BY <1>2 DEF Start, BeginAccept, BeginReject, BeginEnd, ReconcileStale, ReconcileReconnect,
              BeginBusy, TimerFires, Request, Begin
<1>3. ASSUME NEW t \in Txs, Proceed(t), ~Commit(t), ~CommitLeave(t) PROVE UNCHANGED call
  BY <1>3 DEF Proceed, ReadCall, SelectOthers, CountJoined, UpdateRow, AbortVictim, EndRefused
<1>4. ASSUME NEW t \in Txs, Fail(t) PROVE UNCHANGED call
  BY <1>4 DEF Fail
<1>5. ASSUME NEW r \in later, HandlerFails(r) PROVE UNCHANGED call
  BY <1>5 DEF HandlerFails
<1>6. TimePasses \/ Crash \/ UNCHANGED vars => UNCHANGED call
  BY DEF TimePasses, Crash, vars
<1> QED
  BY <1>1, <1>2, <1>3, <1>4, <1>5, <1>6 DEF Next

\* How an operation moves: it starts with nothing written and the status it
\* reads, ends, reads again, or goes on with its own marks.
Fresh(x) == /\ x.wrote = [d \in Devices |-> None]
            /\ x.seen \in {"none", session.status}
Marks(x, y) ==
  /\ y.op = x.op /\ y.seen \in {x.seen, session.status}
  /\ \A d \in Devices : y.wrote[d] \in {x.wrote[d], OwnMark(x.op), OtherMark(x.op)}

LEMMA TxMoves ==
  ASSUME TypeOK, [Next]_vars, NEW s \in Txs
  PROVE  Fresh(tx'[s]) \/ Marks(tx[s], tx'[s])
<1> USE DEF TxStates
<1>a. tx \in [Txs -> TxStates]
  BY DEF TypeOK, TxOK
<1>b. tx'[s] = tx[s] => Marks(tx[s], tx'[s])
  BY DEF Marks
<1>c. Fresh(Idle)
  BY DEF Fresh, Idle
<1>d. ASSUME NEW t \in Txs, NEW x, Begin(t, x), Fresh(x)
      PROVE  Fresh(tx'[s]) \/ Marks(tx[s], tx'[s])
  BY <1>a, <1>b, <1>d DEF Begin
<1>e. ASSUME NEW t \in Txs, Rollback(t)
      PROVE  Fresh(tx'[s]) \/ Marks(tx[s], tx'[s])
  BY <1>a, <1>b, <1>c, <1>e DEF Rollback
<1>f. ASSUME NEW t \in Txs, CommitTx(t)
      PROVE  Fresh(tx'[s]) \/ Marks(tx[s], tx'[s])
  <2>1. tx'[s] \in {Idle, [tx[s] EXCEPT !.late = TRUE]}
    BY <1>f DEF CommitTx
  <2>2. Marks(tx[s], [tx[s] EXCEPT !.late = TRUE])
    BY <1>a DEF Marks
  <2> QED
    BY <2>1, <2>2, <1>c
<1>1. ASSUME NEW t \in Txs, Start(t)
      PROVE  Fresh(tx'[s]) \/ Marks(tx[s], tx'[s])
  <2>1. ASSUME NEW op, NEW d, NEW c, NEW S
        PROVE  /\ Fresh(Op(op, d)) /\ Fresh([Op(op, d) EXCEPT !.pc = c])
               /\ Fresh([Op(op, d) EXCEPT !.todo = S])
               /\ Fresh([Op(op, d) EXCEPT !.pc = c, !.todo = S])
    BY DEF Fresh, Op, Idle
  <2>2. ASSUME NEW d \in Devices, BeginAccept(t, d) \/ BeginReject(t, d) \/ BeginEnd(t, d)
        PROVE  Fresh(tx'[s]) \/ Marks(tx[s], tx'[s])
    BY <2>1, <2>2, <1>d DEF BeginAccept, BeginReject, BeginEnd, Request
  <2>3. ASSUME NEW d \in Devices, ReconcileStale(t, d) \/ ReconcileReconnect(t, d)
        PROVE  Fresh(tx'[s]) \/ Marks(tx[s], tx'[s])
    BY <2>1, <2>3, <1>d DEF ReconcileStale, ReconcileReconnect, Request
  <2>4. ASSUME NEW r \in later, BeginBusy(t, r)
        PROVE  Fresh(tx'[s]) \/ Marks(tx[s], tx'[s])
    BY <2>1, <2>4, <1>c, <1>d DEF BeginBusy
  <2>5. CASE TimerFires(t)
    BY <2>1, <2>5, <1>c, <1>d DEF TimerFires
  <2> QED
    BY <1>1, <2>2, <2>3, <2>4, <2>5 DEF Start
<1>2. ASSUME NEW t \in Txs, Proceed(t)
      PROVE  Fresh(tx'[s]) \/ Marks(tx[s], tx'[s])
  <2>1. CASE ReadCall(t)
    <3>1. CASE s = t /\ tx'[t] = Idle
      BY <3>1, <1>c
    <3>2. CASE s = t /\ tx'[t] # Idle
      BY <2>1, <3>2, <1>a DEF ReadCall, Marks
    <3>3. CASE s # t
      BY <2>1, <3>3, <1>a, <1>b DEF ReadCall
    <3> QED
      BY <3>1, <3>2, <3>3
  <2>2. CASE SelectOthers(t)
    BY <2>2, <1>a DEF SelectOthers, Marks
  <2>3. CASE CountJoined(t)
    BY <2>3, <1>a DEF CountJoined, Marks
  <2>4. CASE Commit(t) \/ CommitLeave(t) \/ AbortVictim(t) \/ EndRefused(t)
    BY <2>4, <1>e, <1>f DEF Commit, CommitLeave, AbortVictim, EndRefused
  <2>5. ASSUME NEW d \in Devices, UpdateRow(t, d)
        PROVE  Marks(tx[s], tx'[s])
    <3>1. s # t => tx'[s] = tx[s]
      BY <2>5, <1>a DEF UpdateRow
    <3>2. ASSUME s = t PROVE Marks(tx[s], tx'[s])
      BY <2>5, <3>2, <1>a DEF UpdateRow, Marks
    <3> QED
      BY <3>1, <3>2, <1>b
  <2> QED
    BY <1>2, <2>1, <2>2, <2>3, <2>4, <2>5 DEF Proceed
<1>3. ASSUME NEW t \in Txs, Fail(t)
      PROVE  Fresh(tx'[s]) \/ Marks(tx[s], tx'[s])
  BY <1>3, <1>e DEF Fail
<1>4. Crash => Fresh(tx'[s])
  BY <1>c DEF Crash
<1>5. Handle \/ TimePasses \/ CloseGroup \/ (\E r \in later : HandlerFails(r)) \/ UNCHANGED vars
        => tx' = tx
  BY DEF Handle, ScheduleTimeout, Reschedule, ClearTimeout, TimePasses, CloseGroup, HandlerFails, vars
<1>6. ASSUME NEW rung, NEW busy, Invite(rung, busy) PROVE tx' = tx
  BY <1>6 DEF Invite
<1> QED
  BY <1>b, <1>1, <1>2, <1>3, <1>4, <1>5, <1>6 DEF Next

\* An operation that saw the call ended may write that status back.
SeenEnded == \A t \in Txs : tx[t].seen = "ENDED" => session.ended

\* A call with a record has ended, an ended one has a record unless nobody was left
\* to see it, and none is shown as ended otherwise.
THEOREM EveryEndIsRecorded == Spec => []EndedIsRecorded
<1>1. Init => EndedIsRecorded /\ SeenEnded
  BY DEF Init, EndedIsRecorded, SeenEnded, Idle
<1>2. TypeOK /\ EndedIsRecorded /\ SeenEnded /\ [Next]_vars => EndedIsRecorded' /\ SeenEnded'
  <2> SUFFICES ASSUME TypeOK, EndedIsRecorded, SeenEnded, [Next]_vars
               PROVE  EndedIsRecorded' /\ SeenEnded'
    OBVIOUS
  <2>s. session \in [status : {"none", "RINGING", "ONGOING", "ENDED"},
                    active : Nat, answered : BOOLEAN, ended : BOOLEAN]
    BY DEF TypeOK, CallOK
  <2>1. EndedIsRecorded' /\ (session.ended => session'.ended)
    <3>1. ASSUME NEW rung, NEW busy, Invite(rung, busy)
          PROVE  EndedIsRecorded' /\ (session.ended => session'.ended)
      BY <3>1, <2>s DEF Invite, EndedIsRecorded
    <3>2. ASSUME NEW t \in Txs, Commit(t)
          PROVE  EndedIsRecorded' /\ (session.ended => session'.ended)
      <4>1. CASE EndsCall(tx[t])
        <5>1. session'.ended
          BY <3>2, <4>1 DEF Commit, SessionAfter
        <5>2. records' # <<>> \/ group' = "empty"
          BY <3>2, <4>1 DEF Commit, RecordsAfter, TypeOK, CallOK
        <5> QED
          BY <5>1, <5>2 DEF EndedIsRecorded
      <4>2. CASE ~EndsCall(tx[t])
        <5>1. session'.ended = session.ended /\ records' = records
          BY <3>2, <4>2, <2>s DEF Commit, SessionAfter, RecordsAfter
        <5>2. group' = group
          BY <3>2 DEF Commit
        <5>3. session'.status = "ENDED" => tx[t].seen = "ENDED"
          BY <3>2, <4>2 DEF Commit, SessionAfter
        <5> QED
          BY <5>1, <5>2, <5>3 DEF EndedIsRecorded, SeenEnded
      <4> QED
        BY <4>1, <4>2
    <3>3. ASSUME NEW t \in Txs, CommitLeave(t)
          PROVE  EndedIsRecorded' /\ (session.ended => session'.ended)
      BY <3>3 DEF CommitLeave, EndedIsRecorded
    <3>4. CloseGroup \/ UNCHANGED call => EndedIsRecorded' /\ (session.ended => session'.ended)
      BY DEF call, CloseGroup, EndedIsRecorded
    <3> QED
      BY <3>1, <3>2, <3>3, <3>4, OthersKeepCall
  <2>2. SeenEnded'
    <3> SUFFICES ASSUME NEW s \in Txs, tx'[s].seen = "ENDED" PROVE session'.ended
      BY DEF SeenEnded
    <3>1. tx'[s].seen \in {tx[s].seen, session.status, "none"}
      BY TxMoves DEF Fresh, Marks
    <3> QED
      BY <2>1, <3>1 DEF SeenEnded, EndedIsRecorded
  <2> QED
    BY <2>1, <2>2
<1> QED
  BY <1>1, <1>2, TypeCorrect, PTL DEF Spec

\* Only an operation that accepts marks a device as in the call.
OnlyAcceptsJoin ==
  \A t \in Txs, d \in Devices :
    tx[t].wrote[d] # None /\ tx[t].wrote[d] \in {"JOINED", "SUPERSEDED"} => tx[t].op = "accept"

\* answered_at is set from the first answer on.
THEOREM AnswersAreRemembered == Spec => []AnswerIsRemembered
<1>1. Init => AnswerIsRemembered /\ OnlyAcceptsJoin
  BY DEF Init, AnswerIsRemembered, OnlyAcceptsJoin, Idle
<1>2. TypeOK /\ AnswerIsRemembered /\ OnlyAcceptsJoin /\ [Next]_vars
        => AnswerIsRemembered' /\ OnlyAcceptsJoin'
  <2> SUFFICES ASSUME TypeOK, AnswerIsRemembered, OnlyAcceptsJoin, [Next]_vars
               PROVE  AnswerIsRemembered' /\ OnlyAcceptsJoin'
    OBVIOUS
  <2>1. OnlyAcceptsJoin'
    <3> SUFFICES ASSUME NEW s \in Txs, NEW d \in Devices, tx'[s].wrote[d] # None,
                        tx'[s].wrote[d] \in {"JOINED", "SUPERSEDED"}
                 PROVE  tx'[s].op = "accept"
      BY DEF OnlyAcceptsJoin
    <3>1. CASE Fresh(tx'[s])
      BY <3>1 DEF Fresh
    <3>2. CASE Marks(tx[s], tx'[s])
      <4>1. tx'[s].wrote[d] = tx[s].wrote[d] => tx'[s].op = "accept"
        BY <3>2 DEF Marks, OnlyAcceptsJoin
      <4>2. OwnMark(tx[s].op) = "JOINED" => tx[s].op = "accept"
        BY DEF OwnMark
      <4>3. OwnMark(tx[s].op) # "SUPERSEDED" /\ OtherMark(tx[s].op) # "JOINED"
        BY DEF OwnMark, OtherMark
      <4>4. OtherMark(tx[s].op) = "SUPERSEDED" => tx[s].op = "accept"
        BY DEF OtherMark
      <4> QED
        BY <3>2, <4>1, <4>2, <4>3, <4>4 DEF Marks
    <3> QED
      BY <3>1, <3>2, TxMoves
  <2>2. AnswerIsRemembered'
    <3>1. ASSUME NEW rung \in SUBSET (Devices \ {Caller}), NEW busy, Invite(rung, busy)
          PROVE  AnswerIsRemembered'
      <4>1. \A d \in Devices \ {Caller} : part'[d] \notin {"JOINED", "SUPERSEDED"}
        BY <3>1 DEF Invite
      <4> QED
        BY <4>1 DEF AnswerIsRemembered
    <3>2. ASSUME NEW t \in Txs, part' = View(t), tx[t].op # "accept",
                 session.answered => session'.answered
          PROVE  AnswerIsRemembered'
      <4> SUFFICES ASSUME NEW d \in Devices \ {Caller}, part'[d] \in {"JOINED", "SUPERSEDED"}
                   PROVE  session'.answered
        BY DEF AnswerIsRemembered
      <4>1. part'[d] = part[d]
        BY <3>2 DEF View, OnlyAcceptsJoin
      <4> QED
        BY <4>1, <3>2 DEF AnswerIsRemembered
    <3>3. ASSUME NEW t \in Txs, Commit(t) PROVE AnswerIsRemembered'
      <4>1. session'.answered = (session.answered \/ tx[t].op = "accept")
        BY <3>3 DEF Commit, SessionAfter
      <4>2. CASE tx[t].op = "accept"
        BY <4>1, <4>2 DEF AnswerIsRemembered
      <4>3. CASE tx[t].op # "accept"
        BY <4>1, <4>3, <3>2, <3>3 DEF Commit
      <4> QED
        BY <4>2, <4>3
    <3>4. ASSUME NEW t \in Txs, CommitLeave(t) PROVE AnswerIsRemembered'
      BY <3>2, <3>4 DEF CommitLeave, OnlyLeaves
    <3>5. CloseGroup \/ UNCHANGED call => AnswerIsRemembered'
      BY DEF call, CloseGroup, AnswerIsRemembered
    <3> QED
      BY <3>1, <3>3, <3>4, <3>5, OthersKeepCall
  <2> QED
    BY <2>1, <2>2
<1> QED
  BY <1>1, <1>2, TypeCorrect, PTL DEF Spec

-----------------------------------------------------------------------------
(* What an operation read, while nobody else commits. *)

\* Unless another operation has committed since, what it read still is what the
\* session row says, and only endCall goes on with a call it saw ended, to mark its
\* device and no more.
UpToDate(x) ==
  /\ x.pc = "due" => x.op = "force" \/ (x.op = "timeout" /\ session.status # "ENDED")
  /\ x.pc \in {"own", "others", "counted"} => x.seen = session.status
  /\ x.pc = "own" /\ x.seen = "ENDED" => x.op = "end"
  /\ x.pc \in {"others", "counted"} => x.seen # "ENDED"
InTime(x) ==
  /\ x.pc # "idle" => session.status # "none" /\ x.seen # "none"
  /\ x.pc = "due" => x.op \in {"timeout", "force"} /\ x.wrote = [d \in Devices |-> None]
  /\ x.late \/ UpToDate(x)
AllInTime == \A t \in Txs : InTime(tx[t])

LEMMA IdleInTime == InTime(Idle) /\ (InTime(Idle))'
BY DEF InTime, UpToDate, Idle

LEMMA KeepInTime ==
  ASSUME TypeOK, AllInTime, [Next]_vars
  PROVE  AllInTime'
<1> USE DEF TxStates
<1>a. tx \in [Txs -> TxStates]
  BY DEF TypeOK, TxOK
<1>b. UNCHANGED <<tx, session>> => AllInTime'
  BY DEF AllInTime, InTime, UpToDate
<1>c. ASSUME NEW t \in Txs, UNCHANGED session, (InTime(tx[t]))',
             \A s \in Txs \ {t} : tx'[s] = tx[s]
      PROVE  AllInTime'
  <2> SUFFICES ASSUME NEW s \in Txs \ {t} PROVE (InTime(tx[s]))'
    BY <1>c DEF AllInTime
  <2> QED
    BY <1>c DEF AllInTime, InTime, UpToDate
<1>d. ASSUME NEW t \in Txs, Rollback(t), UNCHANGED session PROVE AllInTime'
  <2>1. tx'[t] = Idle /\ \A s \in Txs \ {t} : tx'[s] = tx[s]
    BY <1>a, <1>d DEF Rollback
  <2> QED
    BY <2>1, <1>c, <1>d, IdleInTime DEF InTime, UpToDate
<1>1. ASSUME NEW rung, NEW busy, Invite(rung, busy) PROVE AllInTime'
  <2> SUFFICES ASSUME NEW t \in Txs PROVE (InTime(tx[t]))'
    BY DEF AllInTime
  <2>1. tx[t].pc = "idle" /\ tx' = tx
    BY <1>1, <1>a DEF Invite, AllInTime, InTime
  <2> QED
    BY <2>1 DEF InTime, UpToDate
<1>2. Handle \/ TimePasses \/ CloseGroup \/ (\E r \in later : HandlerFails(r)) \/ UNCHANGED vars
        => UNCHANGED <<tx, session>>
  BY DEF Handle, ScheduleTimeout, Reschedule, ClearTimeout, TimePasses, CloseGroup, HandlerFails,
         vars, call
<1>3. Crash => AllInTime'
  BY IdleInTime DEF Crash, AllInTime, InTime, UpToDate
<1>4. ASSUME NEW t \in Txs, Start(t) PROVE AllInTime'
  <2>a. ASSUME NEW x, Begin(t, x), InTime(x) PROVE AllInTime'
    <3>1. tx'[t] = x /\ UNCHANGED session /\ \A s \in Txs \ {t} : tx'[s] = tx[s]
      BY <2>a, <1>a DEF Begin, call
    <3>2. (InTime(tx[t]))'
      BY <2>a, <3>1 DEF InTime, UpToDate
    <3> QED
      BY <3>1, <3>2, <1>c
  <2>b. InTime(Idle)
    BY IdleInTime
  <2>1. ASSUME NEW d \in Devices, BeginAccept(t, d) PROVE AllInTime'
    <3>1. InTime(Op("accept", d))
      BY <2>1 DEF BeginAccept, CanAccept, InTime, UpToDate, Op, Idle
    <3> QED
      BY <2>1, <3>1, <2>a DEF BeginAccept, Request
  <2>2. ASSUME NEW d \in Devices, BeginReject(t, d) PROVE AllInTime'
    <3>1. InTime(Op("reject", d))
      BY <2>2 DEF BeginReject, Request, Begin, InTime, UpToDate, Op, Idle
    <3> QED
      BY <2>2, <3>1, <2>a DEF BeginReject, Request
  <2>3. ASSUME NEW d \in Devices, BeginEnd(t, d) PROVE AllInTime'
    <3>1. InTime(Op("end", d))
      BY <2>3 DEF BeginEnd, Request, Begin, InTime, UpToDate, Op, Idle
    <3> QED
      BY <2>3, <3>1, <2>a DEF BeginEnd, Request
  <2>4. ASSUME NEW d \in Devices, ReconcileStale(t, d) PROVE AllInTime'
    <3>1. InTime([Op("timeout", None) EXCEPT !.pc = "due", !.todo = {}])
      BY <2>4 DEF ReconcileStale, InTime, UpToDate, Op, Idle
    <3> QED
      BY <2>4, <3>1, <2>a DEF ReconcileStale, Request
  <2>5. ASSUME NEW d \in Devices, ReconcileReconnect(t, d) PROVE AllInTime'
    <3>1. InTime([Op("force", d) EXCEPT !.pc = "due"])
      BY <2>5 DEF ReconcileReconnect, InTime, UpToDate, Op, Idle
    <3> QED
      BY <2>5, <3>1, <2>a DEF ReconcileReconnect, Request
  <2>6. ASSUME NEW r \in later, BeginBusy(t, r) PROVE AllInTime'
    <3>1. session.status \notin {"none", "ENDED"}
            => InTime([Op("busy", Caller) EXCEPT !.todo = {}])
      BY DEF InTime, UpToDate, Op, Idle
    <3>2. session.status # "none"
      BY <2>6 DEF BeginBusy, Begin
    <3> QED
      BY <2>6, <3>1, <3>2, <2>a, <2>b DEF BeginBusy
  <2>7. CASE TimerFires(t)
    <3>1. session.status \notin {"none", "ENDED"}
            => InTime([Op("timeout", None) EXCEPT !.pc = "due", !.todo = {}])
      BY DEF InTime, UpToDate, Op, Idle
    <3>2. session.status # "none"
      BY <2>7 DEF TimerFires, Begin
    <3> QED
      BY <2>7, <3>1, <3>2, <2>a, <2>b DEF TimerFires
  <2> QED
    BY <1>4, <2>1, <2>2, <2>3, <2>4, <2>5, <2>6, <2>7 DEF Start
<1>5. ASSUME NEW t \in Txs, Proceed(t) PROVE AllInTime'
  <2>t. tx[t] \in TxStates /\ InTime(tx[t])
    BY <1>a DEF AllInTime
  <2>1. CASE ReadCall(t)
    <3>1. UNCHANGED session /\ \A s \in Txs \ {t} : tx'[s] = tx[s]
      BY <2>1, <1>a DEF ReadCall, call
    <3>2. tx'[t] # Idle => (InTime(tx[t]))'
      BY <2>1, <2>t, <1>a DEF ReadCall, InTime, UpToDate, call
    <3>3. tx'[t] = Idle => (InTime(tx[t]))'
      BY IdleInTime DEF InTime, UpToDate
    <3> QED
      BY <3>1, <3>2, <3>3, <1>c
  <2>2. CASE SelectOthers(t)
    <3>1. ~OnlyLeaves(tx[t])
      BY <2>2 DEF SelectOthers, ClearsOthers, OnlyLeaves
    <3>2. (InTime(tx[t]))'
      BY <2>2, <2>t, <3>1, <1>a DEF SelectOthers, InTime, UpToDate, OnlyLeaves, call
    <3>3. UNCHANGED session /\ \A s \in Txs \ {t} : tx'[s] = tx[s]
      BY <2>2, <1>a DEF SelectOthers, call
    <3> QED
      BY <3>2, <3>3, <1>c
  <2>3. CASE CountJoined(t)
    <3>1. (InTime(tx[t]))'
      BY <2>3, <2>t, <1>a DEF CountJoined, InTime, UpToDate, OnlyLeaves, call
    <3>2. UNCHANGED session /\ \A s \in Txs \ {t} : tx'[s] = tx[s]
      BY <2>3, <1>a DEF CountJoined, call
    <3> QED
      BY <3>1, <3>2, <1>c
  <2>4. CASE AbortVictim(t) \/ EndRefused(t)
    BY <2>4, <1>d DEF AbortVictim, EndRefused, call
  <2>5. CASE Commit(t) \/ CommitLeave(t)
    <3>1. session'.status # "none"
      BY <2>5, <2>t DEF Commit, CommitLeave, Finished, OnlyLeaves, SessionAfter, InTime
    <3> SUFFICES ASSUME NEW s \in Txs PROVE (InTime(tx[s]))'
      BY DEF AllInTime
    <3>2. tx'[s] = Idle \/ (tx'[s] = [tx[s] EXCEPT !.late = TRUE] /\ tx[s].pc # "idle")
      BY <2>5, <1>a DEF Commit, CommitLeave, CommitTx
    <3>3. CASE tx'[s] = Idle
      BY <3>3, IdleInTime DEF InTime, UpToDate
    <3>4. CASE tx'[s] = [tx[s] EXCEPT !.late = TRUE] /\ tx[s].pc # "idle"
      <4>1. /\ tx'[s].late /\ tx'[s].pc = tx[s].pc /\ tx'[s].seen = tx[s].seen
            /\ tx'[s].op = tx[s].op /\ tx'[s].wrote = tx[s].wrote
        BY <3>4, <1>a
      <4> QED
        BY <3>1, <3>4, <4>1 DEF AllInTime, InTime
    <3> QED
      BY <3>2, <3>3, <3>4
  <2>6. ASSUME NEW d \in Devices, UpdateRow(t, d) PROVE AllInTime'
    <3>1. /\ UNCHANGED session /\ \A s \in Txs \ {t} : tx'[s] = tx[s]
          /\ tx'[t].pc = tx[t].pc /\ tx'[t].seen = tx[t].seen /\ tx'[t].op = tx[t].op
          /\ tx'[t].late = tx[t].late /\ tx[t].pc # "due"
      BY <2>6, <1>a DEF UpdateRow, call
    <3>2. (InTime(tx[t]))'
      BY <2>t, <3>1 DEF InTime, UpToDate
    <3> QED
      BY <3>1, <3>2, <1>c
  <2> QED
    BY <1>5, <2>1, <2>2, <2>3, <2>4, <2>5, <2>6 DEF Proceed
<1>6. ASSUME NEW t \in Txs, Fail(t) PROVE AllInTime'
  BY <1>6, <1>d DEF Fail, call
<1> QED
  BY <1>b, <1>1, <1>2, <1>3, <1>4, <1>5, <1>6 DEF Next

LEMMA InitInTime == Init => AllInTime
BY IdleInTime DEF Init, AllInTime

\* What a commit does to the status of a call its operation is up to date with.
LEMMA CommitUpToDate ==
  ASSUME NEW t \in Txs, InTime(tx[t]), ~tx[t].late, Commit(t)
  PROVE  /\ session.status # "ENDED"
         /\ session.status = "ONGOING" => session'.status # "RINGING"
<1>1. tx[t].pc \in {"others", "counted"}
  BY DEF Commit, Finished
<1> QED
  BY <1>1 DEF Commit, SessionAfter, InTime, UpToDate

\* A commit of an operation that was late shows as one.
LEMMA LateShows ==
  ASSUME TypeOK, NEW t \in Txs, tx[t].late, Commit(t)
  PROVE  LateCommit
<1>1. tx'[t] = Idle
  BY DEF Commit, CommitTx
<1> QED
  BY <1>1 DEF LateCommit, Idle

\* However operations overlap: what brings a call back from its end, or adds a
\* second record, is the commit of an operation that read the call too early.
THEOREM EndsAreFinal == Spec => EndedIsFinal
<1>1. TypeOK /\ AllInTime /\ [Next]_vars => AllInTime'
  BY KeepInTime
<1>2. TypeOK /\ AllInTime /\ [Next]_vars
        => [session.status = "ENDED" =>
              (session'.status = "ENDED" /\ records' = records) \/ LateCommit]_vars
  <2> SUFFICES ASSUME TypeOK, AllInTime, [Next]_vars, session.status = "ENDED", ~LateCommit
               PROVE  session'.status = "ENDED" /\ records' = records
    OBVIOUS
  <2>1. ASSUME NEW rung, NEW busy, Invite(rung, busy) PROVE FALSE
    BY <2>1 DEF Invite
  <2>2. ASSUME NEW t \in Txs, Commit(t) PROVE FALSE
    BY <2>2, CommitUpToDate, LateShows DEF AllInTime
  <2>3. ASSUME NEW t \in Txs, CommitLeave(t)
        PROVE  session'.status = "ENDED" /\ records' = records
    BY <2>3 DEF CommitLeave
  <2> QED
    BY <2>1, <2>2, <2>3, OthersKeepCall DEF call, CloseGroup
<1> QED
  BY InitInTime, <1>1, <1>2, TypeCorrect, PTL DEF Spec, EndedIsFinal

\* However operations overlap: only such a commit lets an answered call ring again.
THEOREM AnsweredRingsNoMore == Spec => NeverBackToRinging
<1>1. TypeOK /\ AllInTime /\ [Next]_vars => AllInTime'
  BY KeepInTime
<1>2. TypeOK /\ AllInTime /\ [Next]_vars
        => [session.status = "ONGOING" => session'.status # "RINGING" \/ LateCommit]_vars
  <2> SUFFICES ASSUME TypeOK, AllInTime, [Next]_vars, session.status = "ONGOING", ~LateCommit
               PROVE  session'.status # "RINGING"
    OBVIOUS
  <2>1. ASSUME NEW rung, NEW busy, Invite(rung, busy) PROVE FALSE
    BY <2>1 DEF Invite
  <2>2. ASSUME NEW t \in Txs, Commit(t) PROVE session'.status # "RINGING"
    BY <2>2, CommitUpToDate, LateShows DEF AllInTime
  <2>3. ASSUME NEW t \in Txs, CommitLeave(t) PROVE session'.status # "RINGING"
    BY <2>3 DEF CommitLeave
  <2> QED
    BY <2>1, <2>2, <2>3, OthersKeepCall DEF call, CloseGroup
<1> QED
  BY InitInTime, <1>1, <1>2, TypeCorrect, PTL DEF Spec, NeverBackToRinging

\* An operation that is not late finds the rows as it read them, too: only an accept
\* has marked a device as in the call, its own, and may still do so; what it counted
\* is still true; and the end of a call skips no row.
JoinedBy(x, p) == {d \in Devices : (IF x.wrote[d] = None THEN p[d] ELSE x.wrote[d]) = "JOINED"}
Sound(x) ==
  /\ \A d \in Devices : x.wrote[d] = "JOINED" => x.op = "accept" /\ d = x.dev
  /\ x.op = "accept" => /\ x.dev \in Devices /\ CanAccept(x.dev)
                        /\ x.pc = "own" => x.todo \subseteq {x.dev}
  /\ x.pc = "counted" => x.count = Cardinality(JoinedBy(x, part))
  /\ x.pc = "others" /\ x.op \in {"timeout", "busy"} =>
       \A d \in Devices \ x.todo :
         (IF x.wrote[d] = None THEN part[d] ELSE x.wrote[d]) \notin Live
Unborn == session.status = "none" => session.active = 0 /\ part = [d \in Devices |-> "absent"]
AllSound == \A t \in Txs : tx[t].late \/ Sound(tx[t])
Consistent == OneDevicePerUser /\ ActiveIsJoined /\ GroupFits /\ DirectEndsForAll
RowInv == AllInTime /\ Unborn /\ AllSound /\ (~raced => Consistent)

LEMMA ViewJoined ==
  ASSUME NEW t \in Txs
  PROVE  Having(View(t), "JOINED") = JoinedBy(tx[t], part)
BY DEF Having, View, JoinedBy

\* An operation that has just begun, or none, has written nothing.
LEMMA FreshIsSound ==
  ASSUME NEW x, x.wrote = [d \in Devices |-> None], x.pc \in {"idle", "due", "own"},
         x.op = "accept" => x.dev \in Devices /\ CanAccept(x.dev) /\ x.todo \subseteq {x.dev}
  PROVE  Sound(x)
BY NoneIsNoStatus DEF Sound, Statuses, Live

LEMMA IdleIsSound == Sound(Idle) /\ (Sound(Idle))'
<1>1. Sound(Idle)
  BY FreshIsSound DEF Idle
<1>2. (Sound(Idle))'
  BY NoneIsNoStatus DEF Idle, Sound, Statuses, Live
<1> QED
  BY <1>1, <1>2

\* Sound speaks of the operation and of the rows of the call.
LEMMA SoundStays ==
  ASSUME UNCHANGED <<direct, session, part>>, NEW x, Sound(x)
  PROVE  (Sound(x))'
BY DEF Sound, JoinedBy, CanAccept, Joined, Having

\* One operation moves, and the rows stay.
LEMMA OneMovesSound ==
  ASSUME AllSound, UNCHANGED <<direct, session, part>>, NEW t \in Txs,
         tx'[t].late \/ Sound(tx'[t]), \A s \in Txs \ {t} : tx'[s] = tx[s]
  PROVE  AllSound'
<1> SUFFICES ASSUME NEW s \in Txs, ~tx'[s].late PROVE (Sound(tx[s]))'
  BY DEF AllSound
<1>1. \E z : z = tx'[s] /\ Sound(z)
  BY DEF AllSound
<1>2. PICK z : z = tx'[s] /\ Sound(z)
  BY <1>1
<1> QED
  BY <1>2, SoundStays DEF Sound

\* An operation starts.
LEMMA StartIsSound ==
  ASSUME TypeOK, NEW t \in Txs, Start(t), AllSound
  PROVE  AllSound'
<1>a. tx \in [Txs -> TxStates]
  BY DEF TypeOK, TxOK
<1>b. ASSUME NEW x, Begin(t, x), Sound(x)
      PROVE  AllSound'
  <2>1. /\ tx'[t] = x /\ \A s \in Txs \ {t} : tx'[s] = tx[s]
        /\ UNCHANGED <<direct, session, part>>
    BY <1>a, <1>b DEF Begin, call
  <2> QED
    BY <2>1, <1>b, OneMovesSound
<1>1. ASSUME NEW d \in Devices, BeginAccept(t, d) PROVE AllSound'
  <2>1. Sound(Op("accept", d))
    BY <1>1, FreshIsSound DEF BeginAccept, Op, Idle
  <2> QED
    BY <1>1, <2>1, <1>b DEF BeginAccept, Request
<1>2. ASSUME NEW op, op # "accept", NEW d, NEW c \in {"own", "due"}, NEW S
      PROVE  /\ Sound(Op(op, d)) /\ Sound([Op(op, d) EXCEPT !.pc = c])
             /\ Sound([Op(op, d) EXCEPT !.todo = S])
             /\ Sound([Op(op, d) EXCEPT !.pc = c, !.todo = S])
  BY <1>2, FreshIsSound DEF Op, Idle
<1>3. ASSUME NEW d \in Devices, BeginReject(t, d) \/ BeginEnd(t, d)
      PROVE  AllSound'
  BY <1>3, <1>2, <1>b DEF BeginReject, BeginEnd, Request
<1>4. ASSUME NEW d \in Devices, ReconcileStale(t, d) \/ ReconcileReconnect(t, d)
      PROVE  AllSound'
  BY <1>4, <1>2, <1>b DEF ReconcileStale, ReconcileReconnect, Request
<1>5. ASSUME NEW r \in later, BeginBusy(t, r) PROVE AllSound'
  BY <1>5, <1>2, <1>b, IdleIsSound DEF BeginBusy
<1>6. CASE TimerFires(t)
  BY <1>6, <1>2, <1>b, IdleIsSound DEF TimerFires
<1> QED
  BY <1>1, <1>3, <1>4, <1>5, <1>6 DEF Start

\* An operation goes on: the rows stay, and what it does to its own is sound.
LEMMA GoingOnIsSound ==
  ASSUME TypeOK, NEW t \in Txs, Proceed(t), InTime(tx[t]), tx[t].late \/ Sound(tx[t]),
         ~Commit(t), ~CommitLeave(t)
  PROVE  /\ tx'[t].late \/ Sound(tx'[t])
         /\ \A s \in Txs \ {t} : tx'[s] = tx[s]
<1> USE DEF TxStates
<1>a. tx \in [Txs -> TxStates] /\ tx[t] \in TxStates
  BY DEF TypeOK, TxOK
<1>b. \A s \in Txs \ {t} : tx'[s] = tx[s]
  BY <1>a DEF Proceed, ReadCall, SelectOthers, CountJoined, UpdateRow, AbortVictim, EndRefused, Rollback
<1> SUFFICES ASSUME ~tx'[t].late PROVE Sound(tx'[t])
  BY <1>b
<1>n. None \notin {"JOINED", "RINGING", "LEFT", "SUPERSEDED", "TIMEOUT", "DECLINED"}
  BY NoneIsNoStatus DEF Statuses, Live
<1>1. CASE ReadCall(t)
  <2>1. tx'[t] = Idle => Sound(tx'[t])
    BY IdleIsSound
  <2>2. tx[t].op # "accept" /\ tx[t].wrote = [d \in Devices |-> None]
    BY <1>1, <1>a DEF ReadCall, InTime
  <2>3. ASSUME tx'[t] # Idle PROVE Sound(tx'[t])
    <3>1. tx'[t].op = tx[t].op /\ tx'[t].wrote = tx[t].wrote /\ tx'[t].pc = "own"
      BY <1>1, <1>a, <2>3 DEF ReadCall
    <3> QED
      BY <2>2, <3>1, FreshIsSound
  <2> QED
    BY <2>1, <2>3
<1>2. CASE SelectOthers(t)
  <2> DEFINE S == {d \in Others(tx[t]) : View(t)[d] \in Live}
  <2>1. tx'[t] = [tx[t] EXCEPT !.pc = "others", !.todo = S] /\ Sound(tx[t])
    BY <1>2, <1>a DEF SelectOthers
  <2>2. ASSUME tx[t].op \in {"timeout", "busy"}, NEW d \in Devices \ S
        PROVE  View(t)[d] \notin Live
    BY <2>2 DEF Others
  <2>3. \A d \in Devices : View(t)[d] = IF tx[t].wrote[d] = None THEN part[d] ELSE tx[t].wrote[d]
    BY DEF View
  <2> HIDE DEF S
  <2> QED
    BY <1>a, <2>1, <2>2, <2>3 DEF Sound
<1>3. CASE CountJoined(t)
  <2>1. /\ tx'[t] = [tx[t] EXCEPT !.pc = "counted",
                                  !.count = Cardinality(JoinedBy(tx[t], part))]
        /\ Sound(tx[t])
    BY <1>3, <1>a, ViewJoined DEF CountJoined
  <2>2. JoinedBy(tx'[t], part) = JoinedBy(tx[t], part)
    BY <2>1, <1>a DEF JoinedBy
  <2> QED
    BY <1>a, <2>1, <2>2 DEF Sound
<1>4. ASSUME NEW d \in Devices, UpdateRow(t, d) PROVE Sound(tx'[t])
  <2> DEFINE x == tx[t]
             mark == IF x.pc = "own" THEN OwnMark(x.op) ELSE OtherMark(x.op)
             hit == x.pc = "own" \/ View(t)[d] \in Live
  <2>1. /\ x.pc \in {"own", "others"} /\ d \in x.todo
        /\ tx'[t] = [x EXCEPT !.todo = @ \ {d}, !.wrote[d] = IF hit THEN mark ELSE @]
        /\ Sound(x)
    BY <1>4, <1>a DEF UpdateRow
  <2>s. Sound(x)
    BY <2>1
  <2>2. ASSUME mark = "JOINED" PROVE x.op = "accept" /\ x.pc = "own"
    BY <2>2 DEF OwnMark, OtherMark
  <2>3. mark \in {"JOINED", "DECLINED", "TIMEOUT", "LEFT", "SUPERSEDED"}
    BY DEF OwnMark, OtherMark
  <2>4. x.pc = "others" => mark \in {"LEFT", "SUPERSEDED"}
    BY DEF OtherMark
  <2>5. View(t)[d] = IF x.wrote[d] = None THEN part[d] ELSE x.wrote[d]
    BY DEF View
  <2> HIDE DEF mark, hit
  <2>y. tx'[t].op = x.op /\ tx'[t].dev = x.dev /\ tx'[t].pc = x.pc /\ tx'[t].todo = x.todo \ {d}
        /\ tx'[t].wrote = [x.wrote EXCEPT ![d] = IF hit THEN mark ELSE @]
    BY <2>1, <1>a
  <2>6. ASSUME NEW c \in Devices, tx'[t].wrote[c] = "JOINED"
        PROVE  tx'[t].op = "accept" /\ c = tx'[t].dev
    <3>1. CASE c = d /\ hit
      BY <1>a, <2>1, <2>y, <2>2, <2>6, <3>1 DEF Sound
    <3>2. CASE ~(c = d /\ hit)
      BY <1>a, <2>s, <2>y, <2>6, <3>2 DEF Sound
    <3> QED
      BY <3>1, <3>2
  <2>7. ASSUME x.pc = "others", x.op \in {"timeout", "busy"}, NEW c \in Devices \ tx'[t].todo
        PROVE  (IF tx'[t].wrote[c] = None THEN part[c] ELSE tx'[t].wrote[c]) \notin Live
    <3>1. CASE c = d /\ hit
      BY <1>a, <1>n, <2>y, <2>3, <2>4, <2>7, <3>1 DEF Live
    <3>2. CASE c = d /\ ~hit
      BY <1>a, <2>y, <2>5, <3>2, <2>7 DEF hit
    <3>3. CASE c # d
      BY <1>a, <2>s, <2>y, <2>7, <3>3 DEF Sound
    <3> QED
      BY <3>1, <3>2, <3>3
  <2> QED
    BY <1>a, <2>1, <2>y, <2>6, <2>7 DEF Sound
<1>5. CASE AbortVictim(t) \/ EndRefused(t)
  BY <1>5, <1>a, IdleIsSound DEF AbortVictim, EndRefused, Rollback
<1> QED
  BY <1>1, <1>2, <1>3, <1>4, <1>5 DEF Proceed

\* Who is in the call after a commit.
LEMMA JoinedFits ==
  ASSUME TypeOK, Consistent, NEW t \in Txs, Sound(tx[t]), UNCHANGED direct,
         part' = View(t)
  PROVE  /\ Joined' = JoinedBy(tx[t], part)
         /\ OneDevicePerUser' /\ GroupFits'
         /\ tx[t].op # "accept" => Joined' \subseteq Joined
<1>1. Joined' = JoinedBy(tx[t], part)
  BY ViewJoined DEF Joined, Having
<1>2. CASE tx[t].op # "accept"
  <2>1. Joined' \subseteq Joined
    BY <1>1, <1>2 DEF JoinedBy, Sound, Joined, Having
  <2>2. OneDevicePerUser'
    BY <2>1 DEF Consistent, OneDevicePerUser
  <2>3. IsFiniteSet(Joined) /\ Joined \subseteq Devices
    BY CallAssumption, FS_Subset DEF CallAssumption, Joined, Having
  <2>4. Cardinality(Joined') <= Cardinality(Joined) /\ Cardinality(Joined') \in Nat
        /\ Cardinality(Joined) \in Nat
    BY <2>1, <2>3, FS_Subset, FS_CardinalityType
  <2>5. GroupFits'
    BY <2>4, CallAssumption DEF CallAssumption, Consistent, GroupFits
  <2> QED
    BY <1>1, <2>1, <2>2, <2>5
<1>3. CASE tx[t].op = "accept"
  <2> DEFINE d == tx[t].dev
  <2>1. Joined' \subseteq Joined \cup {d} /\ d \in Devices /\ CanAccept(d)
    BY <1>1, <1>3 DEF JoinedBy, Sound, Joined, Having
  <2>2. OneDevicePerUser'
    BY <2>1 DEF Consistent, OneDevicePerUser, CanAccept
  <2>3. IsFiniteSet(Joined) /\ d \notin Joined
    BY <2>1, CallAssumption, FS_Subset DEF CallAssumption, CanAccept, Joined, Having
  <2>4. Cardinality(Joined \cup {d}) = Cardinality(Joined) + 1 /\ IsFiniteSet(Joined \cup {d})
    BY <2>3, FS_AddElement
  <2>5. Cardinality(Joined') <= Cardinality(Joined) + 1 /\ Cardinality(Joined') \in Nat
        /\ Cardinality(Joined) \in Nat
    BY <2>1, <2>3, <2>4, FS_Subset, FS_CardinalityType
  <2>6. GroupFits'
    BY <2>1, <2>5, CallAssumption DEF CallAssumption, GroupFits, CanAccept
  <2> QED
    BY <1>1, <1>3, <2>2, <2>6
<1> QED
  BY <1>2, <1>3

\* What a commit writes in the session row, field by field.
LEMMA AfterFields ==
  ASSUME NEW x
  PROVE  /\ EndsCall(x) => SessionAfter(x).status = "ENDED"
         /\ SessionAfter(x).status = "ENDED" => EndsCall(x) \/ x.seen = "ENDED"
         /\ x.op \notin {"timeout", "busy"} \/ ~EndsCall(x) => SessionAfter(x).active = x.count
BY DEF SessionAfter

\* A commit leaves the session row and the participants in agreement.
LEMMA CommitFits ==
  ASSUME TypeOK, Consistent, NEW t \in Txs, InTime(tx[t]), ~tx[t].late, Sound(tx[t]),
         Commit(t) \/ CommitLeave(t)
  PROVE  Consistent'
<1> DEFINE x == tx[t]
           counted == x.count = Cardinality(JoinedBy(x, part))
<1> USE DEF TxStates
<1>a. x \in TxStates /\ UNCHANGED direct /\ part' = View(t)
  BY DEF TypeOK, TxOK, Commit, CommitLeave
<1>b. Joined' = JoinedBy(x, part) /\ OneDevicePerUser' /\ GroupFits'
  BY <1>a, JoinedFits
<1>u. UpToDate(x)
  BY DEF InTime
<1>1. CASE CommitLeave(t)
  <2>1. session.status = "ENDED" /\ session' = session /\ x.op # "accept"
    BY <1>1, <1>u DEF CommitLeave, OnlyLeaves, UpToDate
  <2>2. Joined' \subseteq Joined
    BY <1>a, <2>1, JoinedFits
  <2> QED
    BY <1>a, <1>b, <2>1, <2>2 DEF Consistent, ActiveIsJoined, DirectEndsForAll
<1>2. CASE Commit(t)
  <2>0. x.todo = {} /\ session' = SessionAfter(x) /\ x.pc \in {"others", "counted"}
    BY <1>2 DEF Commit, Finished
  <2>1. CASE x.pc = "others"
    <3>1. x.op \in {"timeout", "busy"} /\ EndsCall(x)
      BY <1>2, <2>1 DEF Commit, Finished, ClearsOthers, EndsCall
    <3>2. Joined' = {}
      BY <1>b, <2>0, <2>1, <3>1 DEF Sound, JoinedBy, Live
    <3>3. session'.status = "ENDED"
      BY <2>0, <3>1, AfterFields
    <3> QED
      BY <1>b, <3>2, <3>3 DEF Consistent, ActiveIsJoined, DirectEndsForAll
  <2>2. CASE x.pc = "counted"
    <3>1. counted /\ x.op # "busy" /\ ~(x.op = "timeout" /\ ClearsOthers(x))
      BY <1>2, <2>2 DEF Commit, Finished, Sound
    <3>e. x.op = "timeout" => ~EndsCall(x)
      BY <3>1 DEF ClearsOthers, EndsCall
    <3>2. ActiveIsJoined'
      BY <1>b, <2>0, <3>1, <3>e, AfterFields DEF ActiveIsJoined
    <3>3. ASSUME direct', session'.status = "ENDED" PROVE Joined' = {}
      <4>1. EndsCall(x)
        BY <1>u, <2>0, <3>3, AfterFields DEF UpToDate
      <4>2. x.count <= 0
        BY <1>a, <3>1, <3>3, <4>1 DEF EndsCall, ClearsOthers
      <4>3. IsFiniteSet(Joined')
        BY <1>b, CallAssumption, FS_Subset DEF CallAssumption, JoinedBy
      <4>4. Cardinality(Joined') \in Nat /\ Cardinality(Joined') <= 0
        BY <1>b, <3>1, <4>2, <4>3, FS_CardinalityType
      <4> QED
        BY <4>3, <4>4, FS_EmptySet
    <3> QED
      BY <1>b, <3>2, <3>3 DEF Consistent, DirectEndsForAll
  <2> QED
    BY <2>0, <2>1, <2>2
<1> QED
  BY <1>1, <1>2

\* The invariant of the rows of a call.
LEMMA KeepRows ==
  ASSUME MaxJoined > 0, TypeOK, RowInv, [Next]_vars
  PROVE  RowInv'
<1>a. AllInTime' /\ AllInTime /\ Unborn /\ AllSound
  BY KeepInTime DEF RowInv
<1>b. tx \in [Txs -> TxStates]
  BY DEF TypeOK, TxOK
<1>c. UNCHANGED <<direct, session, part, raced>> => Unborn' /\ (~raced' => Consistent')
  BY DEF RowInv, Consistent, OneDevicePerUser, ActiveIsJoined, GroupFits,
         DirectEndsForAll, Joined, Having, Unborn
<1>e. ASSUME UNCHANGED <<direct, session, part, raced>>, tx' = tx PROVE RowInv'
  <2> SUFFICES ASSUME NEW t \in Txs, ~tx[t].late PROVE (Sound(tx[t]))'
    BY <1>a, <1>c, <1>e DEF RowInv, AllSound
  <2>1. Sound(tx[t])
    BY <1>a DEF AllSound
  <2> QED
    BY <1>e, <2>1, SoundStays DEF Sound
<1>f. ASSUME NEW t \in Txs, Rollback(t), UNCHANGED <<direct, session, part, raced>> PROVE RowInv'
  <2>1. tx'[t] = Idle /\ \A s \in Txs \ {t} : tx'[s] = tx[s]
    BY <1>b, <1>f DEF Rollback
  <2>2. AllSound'
    BY <1>a, <1>f, <2>1, IdleIsSound, OneMovesSound
  <2> QED
    BY <1>a, <1>c, <1>f, <2>2 DEF RowInv
<1>1. ASSUME NEW rung \in SUBSET (Devices \ {Caller}), NEW busy, Invite(rung, busy) PROVE RowInv'
  <2>1. /\ session.status = "none" /\ session'.status = "RINGING" /\ session'.active = 1
        /\ direct' = direct /\ tx' = tx
    BY <1>1 DEF Invite, TypeOK, CallOK
  <2>2. Joined' = {Caller}
    BY <1>1, CallAssumption DEF CallAssumption, Invite, Joined, Having
  <2>3. Consistent'
    <3>1. Cardinality(Joined') = 1
      BY <2>2, FS_Singleton
    <3>2. 1 <= MaxJoined
      BY CallAssumption DEF CallAssumption
    <3>3. OneDevicePerUser'
      BY <2>2 DEF OneDevicePerUser
    <3>4. ActiveIsJoined' /\ GroupFits' /\ DirectEndsForAll'
      BY <2>1, <3>1, <3>2 DEF ActiveIsJoined, GroupFits, DirectEndsForAll
    <3> QED
      BY <3>3, <3>4 DEF Consistent
  <2>4. Unborn'
    BY <2>1 DEF Unborn
  <2>5. ASSUME NEW t \in Txs, ~tx[t].late PROVE (Sound(tx[t]))'
    <3>1. tx[t].pc = "idle" /\ Sound(tx[t]) /\ tx[t].op # "accept"
      BY <1>a, <2>1, <2>5 DEF AllInTime, InTime, AllSound, Sound, CanAccept
    <3> QED
      BY <2>1, <3>1 DEF Sound
  <2> QED
    BY <1>a, <2>1, <2>3, <2>4, <2>5 DEF RowInv, AllSound
<1>2. Handle \/ TimePasses \/ CloseGroup \/ (\E r \in later : HandlerFails(r)) \/ UNCHANGED vars
        => RowInv'
  BY <1>e DEF Handle, ScheduleTimeout, Reschedule, ClearTimeout, TimePasses, CloseGroup, HandlerFails,
              vars, call
<1>3. CASE Crash
  <2>1. AllSound'
    BY <1>3, IdleIsSound DEF Crash, AllSound, Sound
  <2> QED
    BY <1>3, <1>a, <1>c, <2>1 DEF Crash, RowInv, call
<1>4. ASSUME NEW t \in Txs, Start(t) PROVE RowInv'
  <2>1. AllSound'
    BY <1>4, <1>a, StartIsSound
  <2>2. UNCHANGED call
    BY <1>4 DEF Start, BeginAccept, BeginReject, BeginEnd, ReconcileStale, ReconcileReconnect,
                BeginBusy, TimerFires, Request, Begin
  <2> QED
    BY <1>a, <1>c, <2>1, <2>2 DEF RowInv, call
<1>5. ASSUME NEW t \in Txs, Proceed(t) PROVE RowInv'
  <2>1. InTime(tx[t]) /\ (tx[t].late \/ Sound(tx[t]))
    BY <1>a DEF AllInTime, AllSound
  <2>2. CASE Commit(t) \/ CommitLeave(t)
    <3>1. raced' = (raced \/ tx[t].late)
      BY <2>2 DEF Commit, CommitLeave, CommitTx
    <3>2. ~raced' => Consistent'
      BY <2>1, <2>2, <3>1, CommitFits DEF RowInv
    <3>3. session'.status # "none"
      BY <2>1, <2>2 DEF Commit, CommitLeave, Finished, OnlyLeaves, SessionAfter, InTime
    <3>4. ASSUME NEW s \in Txs, ~tx'[s].late PROVE (Sound(tx[s]))'
      <4>1. tx'[s] = Idle \/ tx'[s] = [tx[s] EXCEPT !.late = TRUE]
        BY <2>2 DEF Commit, CommitLeave, CommitTx
      <4>2. tx'[s] = Idle
        BY <1>b, <3>4, <4>1 DEF TxStates
      <4> QED
        BY <4>2, IdleIsSound DEF Sound
    <3> QED
      BY <1>a, <3>2, <3>3, <3>4 DEF RowInv, AllSound, Unborn
  <2>3. CASE ~(Commit(t) \/ CommitLeave(t))
    <3>1. UNCHANGED call
      BY <1>5, <2>3 DEF Proceed, ReadCall, SelectOthers, CountJoined, UpdateRow, AbortVictim, EndRefused
    <3>2. AllSound'
      BY <1>5, <1>a, <2>1, <2>3, <3>1, GoingOnIsSound, OneMovesSound DEF call
    <3> QED
      BY <1>a, <1>c, <3>1, <3>2 DEF RowInv, call
  <2> QED
    BY <2>2, <2>3
<1>6. ASSUME NEW t \in Txs, Fail(t) PROVE RowInv'
  BY <1>6, <1>f DEF Fail, call
<1> QED
  BY <1>1, <1>2, <1>3, <1>4, <1>5, <1>6 DEF Next

LEMMA InitRows == Init => RowInv
<1> SUFFICES ASSUME Init PROVE RowInv
  OBVIOUS
<1>1. Joined = {}
  BY DEF Init, Joined, Having
<1>2. Consistent
  BY <1>1, FS_EmptySet, CallAssumption
     DEF CallAssumption, Init, Consistent, OneDevicePerUser, ActiveIsJoined,
         GroupFits, DirectEndsForAll
<1>3. AllSound
  BY IdleIsSound DEF Init, AllSound
<1>4. AllInTime /\ Unborn
  BY InitInTime DEF Init, Unborn
<1> QED
  BY <1>2, <1>3, <1>4 DEF RowInv

\* However operations overlap, until one commits after a late read, participants and
\* session row agree: one device for each user, the count right, no group too large,
\* and nobody left in a direct call that has ended.
THEOREM ParticipantsAgree ==
  ASSUME MaxJoined > 0 PROVE Spec => []JoinedIsConsistent
<1>1. Init => RowInv
  BY InitRows
<1>2. TypeOK /\ RowInv /\ [Next]_vars => RowInv'
  BY KeepRows
<1>3. RowInv => JoinedIsConsistent
  BY DEF RowInv, Consistent, JoinedIsConsistent
<1> QED
  BY <1>1, <1>2, <1>3, TypeCorrect, PTL DEF Spec

-----------------------------------------------------------------------------
(* What a call promises. *)

\* An accept marks its own device as joined before anything else, then only
\* siblings of it, and never the device itself again.
Accepting(x) ==
  x.op = "accept" =>
    /\ x.dev \in Devices /\ x.pc # "due"
    /\ \A c \in Devices : x.wrote[c] # None => UserOf[c] = UserOf[x.dev]
    /\ x.pc = "own" => x.todo \subseteq {x.dev}
    /\ x.pc = "own" /\ x.todo = {} => x.wrote[x.dev] = "JOINED"
    /\ x.pc = "others" => x.todo \subseteq Others(x)
    /\ x.pc \in {"others", "counted"} => x.wrote[x.dev] = "JOINED"

LEMMA AcceptsGoOn ==
  ASSUME TypeOK, [Next]_vars, \A t \in Txs : Accepting(tx[t])
  PROVE  \A t \in Txs : Accepting(tx'[t])
<1> USE DEF TxStates
<1>a. tx \in [Txs -> TxStates]
  BY DEF TypeOK, TxOK
<1>b. ASSUME NEW t \in Txs, NEW x, tx' = [tx EXCEPT ![t] = x], Accepting(x)
      PROVE  \A s \in Txs : Accepting(tx'[s])
  BY <1>a, <1>b
<1>c. \A x : x.op # "accept" => Accepting(x)
  BY DEF Accepting
<1>d. Accepting(Idle)
  BY DEF Accepting, Idle
<1>e. ASSUME NEW t \in Txs, NEW x, Begin(t, x), Accepting(x)
      PROVE  \A s \in Txs : Accepting(tx'[s])
  BY <1>b, <1>e DEF Begin
<1>f. ASSUME NEW t \in Txs, Rollback(t) PROVE \A s \in Txs : Accepting(tx'[s])
  BY <1>b, <1>d, <1>f DEF Rollback
<1>g. ASSUME NEW t \in Txs, CommitTx(t) PROVE \A s \in Txs : Accepting(tx'[s])
  <2> SUFFICES ASSUME NEW s \in Txs PROVE Accepting(tx'[s])
    OBVIOUS
  <2> DEFINE y == [tx[s] EXCEPT !.late = TRUE]
  <2>1. tx'[s] \in {Idle, y}
    BY <1>g DEF CommitTx
  <2>2. /\ y.op = tx[s].op /\ y.dev = tx[s].dev /\ y.pc = tx[s].pc /\ y.todo = tx[s].todo
        /\ y.wrote = tx[s].wrote
    BY <1>a
  <2> HIDE DEF y
  <2>3. Others(y) = Others(tx[s])
    BY <2>2 DEF Others
  <2>4. Accepting(y)
    <3>1. Accepting(tx[s])
      OBVIOUS
    <3> QED
      BY <2>2, <2>3, <3>1 DEF Accepting
  <2> QED
    BY <2>1, <2>4, <1>d
<1>1. ASSUME NEW t \in Txs, Start(t) PROVE \A s \in Txs : Accepting(tx'[s])
  <2>1. ASSUME NEW d \in Devices, BeginAccept(t, d) PROVE \A s \in Txs : Accepting(tx'[s])
    <3>1. Accepting(Op("accept", d))
      BY DEF Accepting, Op, Idle
    <3> QED
      BY <2>1, <3>1, <1>e DEF BeginAccept, Request
  <2>2. ASSUME NEW op, op # "accept", NEW d, NEW c, NEW S
        PROVE  /\ Accepting(Op(op, d)) /\ Accepting([Op(op, d) EXCEPT !.pc = c])
               /\ Accepting([Op(op, d) EXCEPT !.todo = S])
               /\ Accepting([Op(op, d) EXCEPT !.pc = c, !.todo = S])
    BY <2>2 DEF Accepting, Op, Idle
  <2>3. ASSUME NEW d \in Devices,
               BeginReject(t, d) \/ BeginEnd(t, d) \/ ReconcileStale(t, d) \/ ReconcileReconnect(t, d)
        PROVE  \A s \in Txs : Accepting(tx'[s])
    BY <2>3, <2>2, <1>e DEF BeginReject, BeginEnd, ReconcileStale, ReconcileReconnect, Request
  <2>4. ASSUME NEW r \in later, BeginBusy(t, r) PROVE \A s \in Txs : Accepting(tx'[s])
    BY <2>4, <2>2, <1>d, <1>e DEF BeginBusy
  <2>5. CASE TimerFires(t)
    BY <2>5, <2>2, <1>d, <1>e DEF TimerFires
  <2> QED
    BY <1>1, <2>1, <2>3, <2>4, <2>5 DEF Start
<1>2. ASSUME NEW t \in Txs, Proceed(t) PROVE \A s \in Txs : Accepting(tx'[s])
  <2> DEFINE x == tx[t]
  <2>a. x \in TxStates /\ Accepting(x)
    BY <1>a
  <2>1. CASE ReadCall(t)
    <3> DEFINE y == [x EXCEPT !.pc = "own", !.seen = session.status,
                              !.late = @ /\ session.status = "ENDED",
                              !.todo = IF x.op = "force" THEN @ ELSE Having(part, "RINGING")]
    <3>1. tx' = [tx EXCEPT ![t] = Idle] \/ tx' = [tx EXCEPT ![t] = y]
      BY <2>1 DEF ReadCall
    <3>2. y.op # "accept"
      BY <2>1, <2>a DEF ReadCall, Accepting
    <3> HIDE DEF y
    <3> QED
      BY <3>1, <3>2, <1>b, <1>c, <1>d
  <2>2. CASE SelectOthers(t)
    <3> DEFINE S == {d \in Others(x) : View(t)[d] \in Live}
               y == [x EXCEPT !.pc = "others", !.todo = S]
    <3>1. tx' = [tx EXCEPT ![t] = y] /\ x.todo = {} /\ (x.op = "accept" => x.pc = "own")
      BY <2>2, <1>a DEF SelectOthers
    <3>2. y.op = x.op /\ y.dev = x.dev /\ y.wrote = x.wrote /\ y.pc = "others" /\ y.todo \subseteq Others(x)
      BY <2>a
    <3>3. Others(y) = Others(x)
      BY <2>a DEF Others
    <3> HIDE DEF y, S
    <3>4. Accepting(y)
      BY <2>a, <3>1, <3>2, <3>3 DEF Accepting
    <3> QED
      BY <3>1, <3>4, <1>b
  <2>3. CASE CountJoined(t)
    <3> DEFINE y == [x EXCEPT !.pc = "counted", !.count = Cardinality(Having(View(t), "JOINED"))]
    <3>1. tx' = [tx EXCEPT ![t] = y] /\ x.todo = {} /\ x.pc \in {"own", "others"}
      BY <2>3, <1>a DEF CountJoined
    <3>2. y.op = x.op /\ y.dev = x.dev /\ y.wrote = x.wrote /\ y.pc = "counted"
      BY <2>a
    <3> HIDE DEF y
    <3>4. Accepting(y)
      BY <2>a, <3>1, <3>2 DEF Accepting
    <3> QED
      BY <3>1, <3>4, <1>b
  <2>4. CASE Commit(t) \/ CommitLeave(t) \/ AbortVictim(t) \/ EndRefused(t)
    BY <2>4, <1>f, <1>g DEF Commit, CommitLeave, AbortVictim, EndRefused
  <2>5. ASSUME NEW d \in Devices, UpdateRow(t, d) PROVE \A s \in Txs : Accepting(tx'[s])
    <3> DEFINE hit == x.pc = "own" \/ View(t)[d] \in Live
               mark == IF x.pc = "own" THEN OwnMark(x.op) ELSE OtherMark(x.op)
               w == IF hit THEN mark ELSE x.wrote[d]
               y == [x EXCEPT !.todo = @ \ {d}, !.wrote[d] = w]
    <3>1. tx' = [tx EXCEPT ![t] = y] /\ x.pc \in {"own", "others"} /\ d \in x.todo
      BY <2>5, <1>a DEF UpdateRow
    <3>2. /\ y.op = x.op /\ y.dev = x.dev /\ y.pc = x.pc /\ y.todo = x.todo \ {d}
          /\ \A c \in Devices : y.wrote[c] = IF c = d THEN w ELSE x.wrote[c]
      BY <2>a
    <3>3. x.op = "accept" /\ x.pc = "own" => w = "JOINED"
      BY DEF OwnMark
    <3>4. Others(y) = Others(x)
      BY <3>2 DEF Others
    <3> HIDE DEF y, w, hit, mark
    <3>5. ASSUME x.op = "accept", x.pc = "own" PROVE Accepting(y)
      <4>1. d = x.dev /\ y.todo = {}
        BY <2>a, <3>1, <3>2, <3>5 DEF Accepting
      <4> QED
        BY <2>a, <3>2, <3>3, <3>5, <4>1 DEF Accepting
    <3>6. ASSUME x.op = "accept", x.pc = "others" PROVE Accepting(y)
      <4>1. d # x.dev /\ UserOf[d] = UserOf[x.dev] /\ x.dev \in Devices
        BY <2>a, <3>1, <3>6 DEF Accepting, Others
      <4>2. y.wrote[x.dev] = "JOINED"
        BY <2>a, <3>2, <3>6, <4>1 DEF Accepting
      <4>3. \A c \in Devices : y.wrote[c] # None => UserOf[c] = UserOf[x.dev]
        BY <2>a, <3>2, <3>6, <4>1 DEF Accepting
      <4> QED
        BY <2>a, <3>2, <3>4, <3>6, <4>2, <4>3 DEF Accepting
    <3> QED
      BY <3>1, <3>2, <3>5, <3>6, <1>b, <1>c
  <2> QED
    BY <1>2, <2>1, <2>2, <2>3, <2>4, <2>5 DEF Proceed
<1>3. ASSUME NEW t \in Txs, Fail(t) PROVE \A s \in Txs : Accepting(tx'[s])
  BY <1>3, <1>f DEF Fail
<1>4. Crash => \A s \in Txs : Accepting(tx'[s])
  BY <1>d DEF Crash
<1>5. Handle \/ TimePasses \/ CloseGroup \/ (\E r \in later : HandlerFails(r)) \/ UNCHANGED vars
        => tx' = tx
  BY DEF Handle, ScheduleTimeout, Reschedule, ClearTimeout, TimePasses, CloseGroup, HandlerFails, vars
<1>6. ASSUME NEW rung, NEW busy, Invite(rung, busy) PROVE tx' = tx
  BY <1>6 DEF Invite
<1> QED
  BY <1>1, <1>2, <1>3, <1>4, <1>5, <1>6 DEF Next

\* While a call rings, nobody but the caller is in it, and before that nobody.
OnlyCaller == /\ session.status = "none" => Joined = {}
              /\ session.status = "RINGING" => Joined \subseteq {Caller}

\* The promise counts as the model does.
LEMMA SameCount == \A S : Promise!Cardinality(S) = Cardinality(S)
<1> QED
  BY Zenon DEF Promise!Cardinality, Cardinality

\* A commit that is in time is a step of the promise.
LEMMA CommitKeepsPromise ==
  ASSUME TypeOK, Consistent, OnlyCaller, NEW t \in Txs, ~tx[t].late,
         InTime(tx[t]), Sound(tx[t]), Accepting(tx[t]), Commit(t)
  PROVE  Promise!Kept /\ OnlyCaller'
<1> DEFINE x == tx[t]
<1> USE DEF TxStates
<1>a. x \in TxStates /\ UNCHANGED <<direct, group>> /\ part' = View(t) /\ session' = SessionAfter(x)
  BY DEF TypeOK, TxOK, Commit
<1>b. Joined' = JoinedBy(x, part) /\ (x.op # "accept" => Joined' \subseteq Joined)
  BY <1>a, JoinedFits
<1>c. /\ x.pc \in {"others", "counted"} /\ x.seen = session.status
      /\ session.status \in {"RINGING", "ONGOING"}
  BY <1>a DEF Commit, Finished, InTime, UpToDate, TypeOK, CallOK
<1>d. Promise!Open
  BY <1>c DEF Promise!Open
<1>e. IsFiniteSet(Joined) /\ IsFiniteSet(Joined')
  BY <1>b, CallAssumption, FS_Subset DEF CallAssumption, Joined, Having, JoinedBy
<1>1. CASE x.op = "accept"
  <2> DEFINE d == x.dev
  <2>1. ~EndsCall(x) /\ x.pc = "counted" /\ d \in Devices /\ CanAccept(d)
    BY <1>1, <1>c DEF EndsCall, Commit, Finished, Sound
  <2>2. session'.status = "ONGOING" /\ records' = records
    BY <1>1, <1>a, <2>1 DEF SessionAfter, Commit, RecordsAfter
  <2>3. x.wrote[d] = "JOINED" /\ \A c \in Devices : x.wrote[c] # None => UserOf[c] = UserOf[d]
    BY <1>1, <2>1 DEF Accepting
  <2>4. \A c \in Devices : x.wrote[c] = "JOINED" => c = d
    BY <1>1 DEF Sound
  <2>5. \A c \in Joined : x.wrote[c] = None
    BY <2>1, <2>3 DEF CanAccept, Joined, Having
  <2>n. None # "JOINED"
    BY NoneIsNoStatus DEF Statuses, Live
  <2>6. Joined' = Joined \cup {d}
    <3>1. Joined \subseteq JoinedBy(x, part) /\ d \in JoinedBy(x, part)
      BY <2>1, <2>3, <2>5, <2>n DEF Joined, Having, JoinedBy
    <3>2. JoinedBy(x, part) \subseteq Joined \cup {d}
      BY <2>4 DEF Joined, Having, JoinedBy
    <3> QED
      BY <1>b, <3>1, <3>2
  <2>7. Promise!Answer(d)
    BY <1>a, <1>d, <2>1, <2>2, <2>6, SameCount DEF Promise!Answer, CanAccept
  <2>8. OnlyCaller'
    BY <2>2 DEF OnlyCaller
  <2> QED
    BY <2>1, <2>7, <2>8 DEF Promise!Kept
<1>2. CASE x.op # "accept" /\ ~EndsCall(x)
  <2>1. records' = records /\ Joined' \subseteq Joined
    BY <1>2, <1>b DEF Commit, RecordsAfter
  <2>2. session'.status = session.status
    <3>1. CASE x.op = "timeout"
      <4>1. x.count > 1 /\ x.pc = "counted"
        BY <1>a, <1>2, <3>1 DEF EndsCall, Commit, Finished, ClearsOthers
      <4>2. x.count = Cardinality(Joined')
        BY <1>b, <4>1 DEF Sound
      <4>3. Cardinality(Joined') <= Cardinality(Joined) /\ Cardinality(Joined') \in Nat
            /\ Cardinality(Joined) \in Nat
        BY <1>e, <2>1, FS_Subset, FS_CardinalityType
      <4>4. session.status # "RINGING"
        <5> SUFFICES ASSUME Joined \subseteq {Caller} PROVE FALSE
          BY DEF OnlyCaller
        <5>1. IsFiniteSet({Caller}) /\ Cardinality({Caller}) = 1
          BY FS_Singleton
        <5>2. Cardinality(Joined) <= 1
          BY <5>1, FS_Subset
        <5> QED
          BY <4>1, <4>2, <4>3, <5>2
      <4>5. session'.status = "ONGOING"
        BY <1>a, <1>2, <3>1 DEF SessionAfter
      <4> QED
        BY <1>c, <4>4, <4>5
    <3>2. CASE x.op # "timeout"
      BY <1>a, <1>c, <1>2, <3>2 DEF SessionAfter
    <3> QED
      BY <3>1, <3>2
  <2>3. Promise!Leave
    BY <1>a, <2>1, <2>2 DEF Promise!Leave
  <2>4. OnlyCaller'
    BY <2>1, <2>2 DEF OnlyCaller
  <2> QED
    BY <2>3, <2>4 DEF Promise!Kept
<1>3. CASE x.op # "accept" /\ EndsCall(x)
  <2> DEFINE o == Outcome(x)
  <2>1. /\ session'.status = "ENDED" /\ Joined' \subseteq Joined
        /\ records' = IF group = "empty" THEN records ELSE Append(records, o)
    BY <1>3, <1>a, <1>b, AfterFields DEF Commit, RecordsAfter
  <2>2. o \in {"rejected", "timeout", "busy", "failed", "cancelled", "completed"}
    BY DEF Outcome
  <2>3. (o = "cancelled" => session.status = "RINGING") /\ (o = "rejected" => direct)
        /\ (o = "timeout" => x.op = "timeout") /\ (o = "busy" => x.op = "busy")
    BY <1>3, <1>c DEF Outcome, EndsCall
  <2>4. ASSUME x.pc = "others" PROVE Joined' = {}
    <3>1. x.op \in {"timeout", "busy"} /\ x.todo = {}
      BY <1>3, <2>4 DEF Commit, Finished, ClearsOthers
    <3> QED
      BY <1>b, <2>4, <3>1 DEF Sound, JoinedBy, Live
  <2>5. x.op \in {"timeout", "busy"} => x.pc = "others"
    BY <1>3 DEF Commit, Finished, ClearsOthers, EndsCall
  <2>6. Promise!Remain(o, Joined')
    <3>1. CASE x.pc = "others"
      <4>1. Joined' = {} /\ Cardinality(Joined') = 0
        BY <2>4, <3>1, FS_EmptySet
      <4> QED
        BY <4>1, SameCount DEF Promise!Remain
    <3>2. CASE x.pc = "counted"
      <4>1. x.count = Cardinality(Joined') /\ x.op \notin {"timeout", "busy"}
        BY <1>b, <2>5, <3>2 DEF Sound
      <4>2. x.count <= IF direct THEN 0 ELSE 1
        BY <1>3, <1>a, <4>1 DEF EndsCall
      <4> QED
        BY <2>3, <4>1, <4>2, SameCount DEF Promise!Remain
    <3> QED
      BY <1>c, <3>1, <3>2
  <2> HIDE DEF o
  <2>7. Promise!End(o)
    BY <1>a, <1>d, <2>1, <2>3, <2>6 DEF Promise!End
  <2>8. OnlyCaller'
    BY <2>1 DEF OnlyCaller
  <2> QED
    BY <2>2, <2>7, <2>8 DEF Promise!Kept
<1> QED
  BY <1>1, <1>2, <1>3

\* However operations overlap, until one commits after a late read, a call does what
\* CallPromise says and nothing else: every step of the code is one of its steps or
\* changes nothing it shows.
THEOREM CallKeepsPromise ==
  ASSUME MaxJoined > 0 PROVE Spec => CallPromiseKept
<1> DEFINE shown == <<direct, session.status, Joined, records, group = "empty", raced>>
           Inv == RowInv /\ (~raced => OnlyCaller) /\ \A t \in Txs : Accepting(tx[t])
<1>1. Init => Inv /\ Promise!Init
  <2> SUFFICES ASSUME Init PROVE Inv /\ Promise!Init
    OBVIOUS
  <2>1. Joined = {} /\ RowInv
    BY InitRows DEF Init, Joined, Having
  <2>2. direct \in BOOLEAN /\ session.status = "none" /\ records = <<>>
        /\ group = "active" /\ raced = FALSE
    BY CallAssumption DEF Init, CallAssumption
  <2>3. \A t \in Txs : Accepting(tx[t])
    BY DEF Init, Accepting, Idle
  <2> QED
    BY <2>1, <2>2, <2>3 DEF OnlyCaller, Promise!Init
<1>2. TypeOK /\ Inv /\ [Next]_vars => Inv' /\ [Promise!Next]_shown
  <2> SUFFICES ASSUME TypeOK, Inv, [Next]_vars
               PROVE  (~raced' => OnlyCaller') /\ [Promise!Next]_shown
    BY KeepRows, AcceptsGoOn
  <2> SUFFICES ASSUME ~raced' PROVE OnlyCaller' /\ [Promise!Next]_shown
    BY DEF Promise!Next
  <2>1. AllInTime /\ AllSound
    BY DEF RowInv
  <2>2. CASE UNCHANGED call
    BY <2>2 DEF call, OnlyCaller, Joined, Having
  <2>3. ASSUME NEW rung \in SUBSET (Devices \ {Caller}), NEW busy, Invite(rung, busy)
        PROVE  OnlyCaller' /\ Promise!Ring /\ UNCHANGED raced
    <3>1. /\ session.status = "none" /\ session'.status = "RINGING"
          /\ UNCHANGED <<direct, records, group, raced>>
      BY <2>3 DEF Invite, TypeOK, CallOK
    <3>2. Joined' = {Caller}
      BY <2>3, CallAssumption DEF CallAssumption, Invite, Joined, Having
    <3> QED
      BY <3>1, <3>2 DEF OnlyCaller, Promise!Ring
  <2>c. ASSUME NEW t \in Txs, Commit(t) \/ CommitLeave(t)
        PROVE  ~tx[t].late /\ UNCHANGED raced /\ Consistent /\ OnlyCaller
    <3>1. raced' = (raced \/ tx[t].late)
      BY <2>c DEF Commit, CommitLeave, CommitTx
    <3>2. ~raced /\ ~tx[t].late
      BY <3>1
    <3>3. raced \in BOOLEAN /\ raced' \in BOOLEAN
      BY <2>c, CommitTxType DEF TypeOK, CallOK, Commit, CommitLeave
    <3> QED
      BY <3>2, <3>3 DEF RowInv
  <2>4. ASSUME NEW t \in Txs, Commit(t)
        PROVE  OnlyCaller' /\ Promise!Kept /\ UNCHANGED raced
    BY <2>1, <2>4, <2>c, CommitKeepsPromise DEF AllInTime, AllSound
  <2>5. ASSUME NEW t \in Txs, CommitLeave(t)
        PROVE  OnlyCaller' /\ Promise!Leave /\ UNCHANGED raced
    <3>1. /\ UNCHANGED <<direct, session, records, group>> /\ part' = View(t)
          /\ tx[t].op # "accept"
      BY <2>5 DEF CommitLeave, OnlyLeaves
    <3>2. Sound(tx[t])
      BY <2>1, <2>5, <2>c DEF AllSound
    <3>3. Joined' \subseteq Joined
      BY <2>5, <2>c, <3>1, <3>2, JoinedFits
    <3> QED
      BY <2>5, <2>c, <3>1, <3>3 DEF OnlyCaller, Promise!Leave
  <2>6. CASE CloseGroup
    <3>1. UNCHANGED <<direct, session, part, records, raced>> /\ group = "active"
      BY <2>6 DEF CloseGroup
    <3>2. UNCHANGED Joined /\ OnlyCaller'
      BY <2>c, <3>1 DEF OnlyCaller, Joined, Having, RowInv
    <3>3. CASE group' = "empty"
      BY <3>1, <3>2, <3>3 DEF Promise!Desert, Promise!Next, Promise!Kept
    <3>4. CASE group' = "disbanded"
      <4>1. (group' = "empty") = (group = "empty")
        BY <3>1, <3>4
      <4> QED
        BY <3>1, <3>2, <4>1
    <3> QED
      BY <2>6, <3>2, <3>3, <3>4 DEF CloseGroup
  <2> QED
    BY <2>2, <2>3, <2>4, <2>5, <2>6, OthersKeepCall DEF Promise!Next, Promise!Kept
<1> QED
  BY <1>1, <1>2, TypeCorrect, PTL DEF Spec, CallPromiseKept, Promise!Spec, Promise!vars
=============================================================================
