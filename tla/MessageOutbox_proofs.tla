------------------------ MODULE MessageOutbox_proofs ------------------------
(***************************************************************************)
(* Proofs about MessageOutbox, for every set of events, users and workers  *)
(* and every bound on the faults.                                          *)
(***************************************************************************)
EXTENDS MessageOutbox, TLAPS

-----------------------------------------------------------------------------
(* What the statements of the repository keep. *)

\* One more fault of some kind.
LEMMA SpendType ==
  ASSUME used \in [Faults -> Nat], NEW k \in Faults, Spend(k)
  PROVE  used' \in [Faults -> Nat]
BY DEF Spend

\* The three UPDATEs that end a job leave well-typed columns.
LEMMA MarkType ==
  ASSUME TableOK, NEW e \in Events, NEW n \in Nat,
         MarkDispatched(e) \/ MarkRetry(e, n) \/ MarkDead(e, n)
  PROVE  TableOK'
<1> USE DEF TableOK, Status, Settled, Stamp
<1>1. CASE MarkDispatched(e)
  BY <1>1 DEF MarkDispatched, table
<1>2. CASE MarkRetry(e, n)
  BY <1>2 DEF MarkRetry, table
<1>3. CASE MarkDead(e, n)
  BY <1>3 DEF MarkDead, table
<1> QED
  BY <1>1, <1>2, <1>3

\* A claim leaves well-typed columns.
LEMMA LeaseType ==
  ASSUME TableOK, NEW S, Lease(S)
  PROVE  TableOK' /\ S \subseteq Events
BY DEF Lease, Claimable, TableOK, Status, Stamp

\* A worker with a job in hand knows its retry_count.
LEMMA JobType ==
  ASSUME MemoryOK, NEW w \in Workers, pc[w] \in {"probe", "mark", "catch"}
  PROVE  job[w] \in Events /\ snap[w][job[w]] \in Nat
BY DEF MemoryOK

-----------------------------------------------------------------------------
\* The columns and the memory of the workers always hold values of their types.
THEOREM TypeCorrect == Spec => []TypeOK
<1> USE OutboxAssumption
<1>1. Init => TypeOK
  BY DEF Init, TypeOK, TableOK, MemoryOK, LinksOK, PastOK, Status, Settled, Stamp, Steps, Ops, Faults
<1>2. TypeOK /\ [Next]_vars => TypeOK'
  <2> SUFFICES ASSUME TypeOK, [Next]_vars PROVE TypeOK'
    OBVIOUS
  <2>k. {"crash", "db", "reply", "overrun", "link"} \subseteq Faults
    BY DEF Faults
  <2>a. UNCHANGED memory => MemoryOK'
    BY DEF TypeOK, MemoryOK, memory
  <2>b. UNCHANGED table => TableOK'
    BY DEF TypeOK, TableOK, table
  <2>c. UNCHANGED links => LinksOK'
    BY DEF TypeOK, LinksOK, links
  <2>d. UNCHANGED past => PastOK'
    BY DEF TypeOK, PastOK, past
  <2>1. ASSUME NEW e \in Events, InsertEvent(e) PROVE TypeOK'
    <3>1. TableOK'
      BY <2>1 DEF InsertEvent, TypeOK, TableOK, Status
    <3> QED
      BY <2>1, <3>1, <2>a, <2>c, <2>d DEF InsertEvent, TypeOK
  <2>2. ASSUME NEW e \in Events, Purge(e) PROVE TypeOK'
    <3>1. TableOK'
      BY <2>2 DEF Purge, TypeOK, TableOK, Status
    <3> QED
      BY <2>2, <3>1, <2>a, <2>c, <2>d DEF Purge, TypeOK
  <2>3. ASSUME NEW e \in Events, RetryFallsDue(e) PROVE TypeOK'
    <3>1. TableOK'
      BY <2>3 DEF RetryFallsDue, TypeOK, TableOK, Stamp
    <3> QED
      BY <2>3, <3>1, <2>a, <2>c, <2>d DEF RetryFallsDue, TypeOK
  <2>4. ASSUME NEW e \in Events, LeaseLapses(e) PROVE TypeOK'
    <3>1. TableOK'
      BY <2>4 DEF LeaseLapses, TypeOK, TableOK, Stamp
    <3>2. used' \in [Faults -> Nat]
      BY <2>4, <2>k, SpendType DEF LeaseLapses, TypeOK
    <3> QED
      BY <2>4, <3>1, <3>2, <2>a, <2>c, <2>d DEF LeaseLapses, TypeOK
  <2>5. ASSUME NEW w \in Workers, Start(w) PROVE TypeOK'
    <3>1. MemoryOK'
      BY <2>5 DEF Start, TypeOK, MemoryOK, Steps
    <3> QED
      BY <2>5, <3>1, <2>b, <2>c, <2>d DEF Start, TypeOK
  <2>6. ASSUME NEW w \in Workers, Stop(w) PROVE TypeOK'
    <3>1. MemoryOK'
      BY <2>6 DEF Stop, TypeOK, MemoryOK
    <3>2. used' \in [Faults -> Nat]
      BY <2>6, <2>k, SpendType DEF Stop, TypeOK
    <3> QED
      BY <2>6, <3>1, <3>2, <2>b, <2>c, <2>d DEF Stop, TypeOK
  <2>7. ASSUME NEW w \in Workers, DropNode(w),
               timer' \in [Workers -> BOOLEAN], used' \in [Faults -> Nat]
        PROVE TypeOK'
    <3>1. MemoryOK'
      BY <2>7 DEF DropNode, TypeOK, MemoryOK, Steps, Ops
    <3>2. LinksOK'
      BY <2>7 DEF DropNode, TypeOK, LinksOK
    <3> QED
      BY <2>7, <3>1, <3>2, <2>b, <2>d DEF DropNode, TypeOK
  <2>8. ASSUME NEW w \in Workers, Exit(w) PROVE TypeOK'
    BY <2>8, <2>7 DEF Exit, TypeOK, MemoryOK
  <2>9. ASSUME NEW w \in Workers, Crash(w) PROVE TypeOK'
    <3>1. timer' \in [Workers -> BOOLEAN]
      BY <2>9 DEF Crash, TypeOK, MemoryOK
    <3>2. used' \in [Faults -> Nat]
      BY <2>9, <2>k, SpendType DEF Crash, TypeOK
    <3> QED
      BY <2>9, <2>7, <3>1, <3>2 DEF Crash
  <2>10. ASSUME NEW w \in Workers, ClaimPending(w) PROVE TypeOK'
    <3>1. PICK S \in SUBSET Claimable :
            /\ Lease(S)
            /\ \/ /\ pc' = [pc EXCEPT ![w] = "loop"]
                  /\ batch' = [batch EXCEPT ![w] = S]
                  /\ snap' = [snap EXCEPT ![w] = Snapshot(S)]
                  /\ UNCHANGED used
               \/ Spend("reply") /\ UNCHANGED <<pc, batch, snap>>
      BY <2>10 DEF ClaimPending
    <3>2. TableOK' /\ S \subseteq Events
      BY <3>1, LeaseType DEF TypeOK
    <3>3. Snapshot(S) \in [Events -> Nat]
      BY DEF Snapshot, TypeOK, TableOK
    <3>4. MemoryOK'
      <4>1. snap' \in [Workers -> [Events -> Nat]]
        BY <3>1, <3>3 DEF TypeOK, MemoryOK
      <4>2. batch' \in [Workers -> SUBSET Events] /\ pc' \in [Workers -> Steps]
        BY <3>1, <3>2 DEF TypeOK, MemoryOK, Steps
      <4>3. \A v \in Workers : pc'[v] \in {"probe", "mark", "catch"} <=> job'[v] # NoJob
        BY <2>10, <3>1 DEF ClaimPending, TypeOK, MemoryOK
      <4> QED
        BY <2>10, <4>1, <4>2, <4>3 DEF ClaimPending, TypeOK, MemoryOK
    <3>5. used' \in [Faults -> Nat]
      BY <3>1, <2>k, SpendType DEF TypeOK
    <3> QED
      BY <2>10, <3>2, <3>4, <3>5, <2>c, <2>d DEF ClaimPending, TypeOK
  <2>11. ASSUME NEW w \in Workers, NEW e \in Events, HandlerThrows(w, e) PROVE TypeOK'
    <3>1. MemoryOK'
      BY <2>11 DEF HandlerThrows, Take, TypeOK, MemoryOK, Steps
    <3>2. PastOK'
      BY <2>11 DEF HandlerThrows, Take, TypeOK, PastOK
    <3> QED
      BY <2>11, <3>1, <3>2, <2>b, <2>c DEF HandlerThrows, TypeOK
  <2>12. ASSUME NEW w \in Workers, NEW e \in Events, DispatchToUser(w, e) PROVE TypeOK'
    <3>1. MemoryOK'
      <4>1. batch' \in [Workers -> SUBSET Events] /\ job' = [job EXCEPT ![w] = e]
        BY <2>12 DEF DispatchToUser, Take, TypeOK, MemoryOK
      <4>2. op' \in [Workers -> Ops]
        BY <2>12 DEF DispatchToUser, TypeOK, MemoryOK, Ops
      <4>3. PICK p \in {"mark", "probe"} : pc' = [pc EXCEPT ![w] = p]
        BY <2>12 DEF DispatchToUser
      <4> QED
        BY <2>12, <4>1, <4>2, <4>3 DEF DispatchToUser, TypeOK, MemoryOK, Steps
    <3>2. PICK b : reached' = [reached EXCEPT ![e] = @ \/ w \in sockets[Target[e]] \/ b]
      BY <2>12, Zenon DEF DispatchToUser
    <3>3. reached' \in [Events -> BOOLEAN]
      BY <3>2 DEF TypeOK, PastOK
    <3>4. PastOK'
      BY <2>12, <3>3 DEF DispatchToUser, Take, TypeOK, PastOK
    <3> QED
      BY <2>12, <3>1, <3>4, <2>b, <2>c DEF DispatchToUser, TypeOK
  <2>13. ASSUME NEW w \in Workers, NEW e \in Events, RunSystemJob(w, e) PROVE TypeOK'
    <3>1. MemoryOK'
      BY <2>13 DEF RunSystemJob, Take, TypeOK, MemoryOK, Steps, Ops
    <3>2. PastOK'
      BY <2>13 DEF RunSystemJob, Take, TypeOK, PastOK
    <3> QED
      BY <2>13, <3>1, <3>2, <2>b, <2>c DEF RunSystemJob, TypeOK
  <2>14. ASSUME NEW w \in Workers, ProbePresence(w) PROVE TypeOK'
    <3>1. MemoryOK'
      BY <2>14 DEF ProbePresence, TypeOK, MemoryOK, Steps, Ops
    <3>2. PastOK'
      BY <2>14 DEF ProbePresence, TypeOK, PastOK
    <3>3. used' \in [Faults -> Nat]
      BY <2>14, <2>k, SpendType DEF ProbePresence, TypeOK
    <3> QED
      BY <2>14, <3>1, <3>2, <3>3, <2>b, <2>c DEF ProbePresence, TypeOK
  <2>15. ASSUME NEW w \in Workers, MarkRow(w) PROVE TypeOK'
    <3>1. job[w] \in Events /\ snap[w][job[w]] + 1 \in Nat
      BY <2>15, JobType DEF MarkRow, TypeOK
    <3>2. TableOK'
      BY <2>15, <3>1, <2>b, MarkType DEF MarkRow, Outcome, TypeOK
    <3>3. MemoryOK'
      BY <2>15, <3>1 DEF MarkRow, TypeOK, MemoryOK, Steps
    <3>4. used' \in [Faults -> Nat]
      BY <2>15, <2>k, SpendType DEF MarkRow, TypeOK
    <3> QED
      BY <2>15, <3>2, <3>3, <3>4, <2>c, <2>d DEF MarkRow, TypeOK
  <2>16. ASSUME NEW w \in Workers, MarkFailure(w) PROVE TypeOK'
    <3>1. job[w] \in Events /\ snap[w][job[w]] + 1 \in Nat
      BY <2>16, JobType DEF MarkFailure, TypeOK
    <3>2. TableOK'
      BY <2>16, <3>1, <2>b, MarkType DEF MarkFailure, Failure, TypeOK
    <3>3. MemoryOK'
      BY <2>16 DEF MarkFailure, TypeOK, MemoryOK, Steps
    <3>4. used' \in [Faults -> Nat]
      BY <2>16, <2>k, SpendType DEF MarkFailure, TypeOK
    <3> QED
      BY <2>16, <3>2, <3>3, <3>4, <2>c, <2>d DEF MarkFailure, TypeOK
  <2>17. ASSUME NEW w \in Workers, EndTick(w) PROVE TypeOK'
    <3>1. MemoryOK'
      BY <2>17 DEF EndTick, TypeOK, MemoryOK, Steps
    <3> QED
      BY <2>17, <3>1, <2>b, <2>c, <2>d DEF EndTick, TypeOK
  <2>18. ASSUME NEW u \in Users, NEW w \in Workers, Connect(u, w) PROVE TypeOK'
    <3>1. LinksOK'
      BY <2>18 DEF Connect, TypeOK, LinksOK
    <3>2. used' \in [Faults -> Nat]
      BY <2>18, <2>k, SpendType DEF Connect, TypeOK
    <3> QED
      BY <2>18, <3>1, <3>2, <2>a, <2>b, <2>d DEF Connect, TypeOK
  <2>19. ASSUME NEW u \in Users, NEW w \in Workers, Disconnect(u, w) PROVE TypeOK'
    <3>1. LinksOK'
      BY <2>19 DEF Disconnect, TypeOK, LinksOK
    <3>2. used' \in [Faults -> Nat]
      BY <2>19, <2>k, SpendType DEF Disconnect, TypeOK
    <3> QED
      BY <2>19, <3>1, <3>2, <2>a, <2>b, <2>d DEF Disconnect, TypeOK
  <2>20. ASSUME NEW u \in Users, RegisterPresence(u) PROVE TypeOK'
    <3>1. LinksOK'
      BY <2>20 DEF RegisterPresence, TypeOK, LinksOK
    <3> QED
      BY <2>20, <3>1, <2>a, <2>b, <2>d DEF RegisterPresence, TypeOK
  <2>21. ASSUME NEW u \in Users, UnregisterPresence(u) PROVE TypeOK'
    <3>1. LinksOK'
      BY <2>21 DEF UnregisterPresence, TypeOK, LinksOK
    <3> QED
      BY <2>21, <3>1, <2>a, <2>b, <2>d DEF UnregisterPresence, TypeOK
  <2>22. CASE UNCHANGED vars
    BY <2>22, <2>a, <2>b, <2>c, <2>d DEF vars, TypeOK
  <2> QED
    BY <2>1, <2>2, <2>3, <2>4, <2>5, <2>6, <2>8, <2>9, <2>10, <2>11, <2>12, <2>13,
       <2>14, <2>15, <2>16, <2>17, <2>18, <2>19, <2>20, <2>21, <2>22 DEF Next, Work, RunJob
<1> QED
  BY <1>1, <1>2, PTL DEF Spec

-----------------------------------------------------------------------------
(* The invariant that no fault breaks. *)

RowsEarned == Recoverable /\ RunsCounted /\ ReasonKnown /\ WriteOffEarned /\ DeathEarned

\* A handler run adds to the attempts of its event and hands the job to the
\* worker; the rows stay as they are.
LEMMA TakeKeeps ==
  ASSUME TypeOK, RowsEarned, NEW w \in Workers, NEW e \in Events,
         Take(w, e), UNCHANGED <<table, snap>>,
         \A d \in Events : (reached[d] => reached'[d]) /\ (seenOnline[d] => seenOnline'[d]),
         pc' \in [Workers -> Steps], \A v \in Workers \ {w} : pc'[v] = pc[v] /\ op'[v] = op[v],
         pc'[w] = "mark" => reached'[e]
  PROVE  RowsEarned'
<1> USE DEF TypeOK, TableOK, MemoryOK, PastOK, RowsEarned
<1>1. /\ attempts' = [attempts EXCEPT ![e] = @ + 1] /\ job' = [job EXCEPT ![w] = e]
      /\ \A d \in Events : attempts'[d] \in Nat /\ attempts[d] <= attempts'[d]
      /\ attempts'[e] = attempts[e] + 1
  BY DEF Take
<1>2. Recoverable'
  BY DEF Recoverable, table
<1>3. RunsCounted'
  <2>1. \A d \in Events : retryCount'[d] <= attempts'[d]
    BY <1>1 DEF RunsCounted, table
  <2>2. \A v \in Workers, d \in Events : snap'[v][d] <= attempts'[d]
    BY <1>1 DEF RunsCounted
  <2>3. ASSUME NEW v \in Workers, job'[v] # NoJob PROVE snap'[v][job'[v]] < attempts'[job'[v]]
    <3>1. CASE v = w
      BY <1>1, <3>1 DEF RunsCounted
    <3>2. CASE v # w
      BY <1>1, <2>3, <3>2 DEF RunsCounted
    <3> QED
      BY <3>1, <3>2
  <2> QED
    BY <2>1, <2>2, <2>3 DEF RunsCounted
<1>4. ReasonKnown'
  <2> SUFFICES ASSUME NEW v \in Workers, pc'[v] = "mark", op'[v] = "dispatched"
      PROVE reached'[job'[v]] \/ seenOnline'[job'[v]] \/ attempts'[job'[v]] > Window
    BY DEF ReasonKnown
  <2>1. CASE v = w
    BY <1>1, <2>1
  <2>2. CASE v # w
    BY <1>1, <2>2, OutboxAssumption DEF ReasonKnown
  <2> QED
    BY <2>1, <2>2
<1>5. WriteOffEarned'
  BY <1>1, OutboxAssumption DEF WriteOffEarned, table
<1>6. DeathEarned'
  BY <1>1, OutboxAssumption DEF DeathEarned, table
<1> QED
  BY <1>2, <1>3, <1>4, <1>5, <1>6

\* The UPDATE that settles or postpones an event with the count of a worker
\* that ran it: no matter what the row had become in the meantime.
LEMMA MarkKeeps ==
  ASSUME TypeOK, RowsEarned, NEW e \in Events, NEW n \in Nat, n <= attempts[e],
         \/ /\ MarkDispatched(e)
            /\ reached[e] \/ seenOnline[e] \/ attempts[e] > Window
         \/ MarkRetry(e, n)
         \/ MarkDead(e, n) /\ Exhausted(n),
         UNCHANGED past
  PROVE  /\ Recoverable' /\ WriteOffEarned' /\ DeathEarned'
         /\ \A d \in Events : retryCount'[d] <= attempts'[d]
<1> USE OutboxAssumption DEF TypeOK, TableOK, PastOK, past, RowsEarned, RunsCounted, Recoverable,
    WriteOffEarned, DeathEarned, table
<1>1. CASE status[e] = "purged"
  BY <1>1 DEF MarkDispatched, MarkRetry, MarkDead
<1>2. CASE status[e] # "purged" /\ MarkDispatched(e) /\ (reached[e] \/ seenOnline[e] \/ attempts[e] > Window)
  BY <1>2 DEF MarkDispatched
<1>3. CASE status[e] # "purged" /\ MarkRetry(e, n)
  BY <1>3 DEF MarkRetry
<1>4. CASE status[e] # "purged" /\ MarkDead(e, n) /\ Exhausted(n)
  BY <1>4 DEF MarkDead, Exhausted
<1> QED
  BY <1>1, <1>2, <1>3, <1>4

\* No row is ever stranded, written off early or given up early.
THEOREM AnyFaultSafe == Spec => []AnyInv
<1> USE OutboxAssumption
<1>1. Init => RowsEarned
  BY DEF Init, RowsEarned, Recoverable, RunsCounted, ReasonKnown, WriteOffEarned, DeathEarned
<1>2. TypeOK /\ TypeOK' /\ RowsEarned /\ [Next]_vars => RowsEarned'
  <2> SUFFICES ASSUME TypeOK, TypeOK', RowsEarned, [Next]_vars PROVE RowsEarned'
    OBVIOUS
  <2>a. UNCHANGED <<table, memory, past>> => RowsEarned'
    BY DEF table, memory, past, RowsEarned, Recoverable, RunsCounted, ReasonKnown,
           WriteOffEarned, DeathEarned
  <2>b. ASSUME NEW e \in Events,
               UNCHANGED <<retryCount, memory, past>>,
               \A d \in Events \ {e} : /\ status'[d] = status[d]
                                      /\ nextRetryAt'[d] = nextRetryAt[d]
                                      /\ leaseExpiresAt'[d] = leaseExpiresAt[d],
               status'[e] \in {status[e], "PENDING", "purged"},
               nextRetryAt'[e] \in {nextRetryAt[e], "past"},
               leaseExpiresAt'[e] \in {leaseExpiresAt[e], "past"}
        PROVE  RowsEarned'
    <3>1. Recoverable' /\ WriteOffEarned' /\ DeathEarned'
      BY <2>b DEF RowsEarned, Recoverable, WriteOffEarned, DeathEarned, past
    <3> QED
      BY <2>b, <3>1 DEF RowsEarned, RunsCounted, ReasonKnown, memory, past
  <2>1. ASSUME NEW e \in Events, InsertEvent(e) PROVE RowsEarned'
    BY <2>1, <2>b DEF InsertEvent, TypeOK, TableOK
  <2>2. ASSUME NEW e \in Events, Purge(e) PROVE RowsEarned'
    BY <2>2, <2>b DEF Purge, TypeOK, TableOK
  <2>3. ASSUME NEW e \in Events, RetryFallsDue(e) PROVE RowsEarned'
    BY <2>3, <2>b DEF RetryFallsDue, TypeOK, TableOK
  <2>4. ASSUME NEW e \in Events, LeaseLapses(e) PROVE RowsEarned'
    BY <2>4, <2>b DEF LeaseLapses, TypeOK, TableOK
  <2>5. ASSUME NEW w \in Workers, Start(w) \/ Stop(w) \/ EndTick(w) PROVE RowsEarned'
    <3>1. UNCHANGED <<table, snap, job, op, past>>
      BY <2>5 DEF Start, Stop, EndTick
    <3>2. \A v \in Workers : pc'[v] = "mark" => pc[v] = "mark"
      BY <2>5 DEF Start, Stop, EndTick, TypeOK, MemoryOK
    <3> QED
      BY <3>1, <3>2 DEF RowsEarned, Recoverable, RunsCounted, ReasonKnown, WriteOffEarned,
                        DeathEarned, table, past
  <2>6. ASSUME NEW w \in Workers, DropNode(w) PROVE RowsEarned'
    <3>1. Recoverable' /\ WriteOffEarned' /\ DeathEarned'
      BY <2>6 DEF DropNode, RowsEarned, Recoverable, WriteOffEarned, DeathEarned, table, past
    <3>2. RunsCounted'
      BY <2>6 DEF DropNode, RowsEarned, RunsCounted, table, past, TypeOK, MemoryOK, PastOK
    <3>3. ReasonKnown'
      BY <2>6 DEF DropNode, RowsEarned, ReasonKnown, past, TypeOK, MemoryOK
    <3> QED
      BY <3>1, <3>2, <3>3 DEF RowsEarned
  <2>7. ASSUME NEW w \in Workers, ClaimPending(w) PROVE RowsEarned'
    <3>1. PICK S \in SUBSET Claimable :
            /\ Lease(S)
            /\ \/ /\ pc' = [pc EXCEPT ![w] = "loop"]
                  /\ batch' = [batch EXCEPT ![w] = S]
                  /\ snap' = [snap EXCEPT ![w] = Snapshot(S)]
                  /\ UNCHANGED used
               \/ Spend("reply") /\ UNCHANGED <<pc, batch, snap>>
      BY <2>7 DEF ClaimPending
    <3>2. Recoverable' /\ WriteOffEarned' /\ DeathEarned'
      BY <2>7, <3>1 DEF ClaimPending, Lease, RowsEarned, Recoverable, WriteOffEarned, DeathEarned,
                        past, TypeOK, TableOK
    <3>3. \A e \in Events : Snapshot(S)[e] <= attempts[e]
      BY DEF Snapshot, RowsEarned, RunsCounted, TypeOK, TableOK, PastOK
    <3>4. job[w] = NoJob
      BY <2>7 DEF ClaimPending, TypeOK, MemoryOK
    <3>5. RunsCounted'
      <4>1. \A v \in Workers, e \in Events : snap'[v][e] <= attempts[e]
        BY <3>1, <3>3 DEF RowsEarned, RunsCounted, TypeOK, MemoryOK
      <4>2. \A v \in Workers : job[v] # NoJob => snap'[v] = snap[v]
        BY <3>1, <3>4 DEF TypeOK, MemoryOK
      <4> QED
        BY <2>7, <3>1, <4>1, <4>2 DEF ClaimPending, Lease, RowsEarned, RunsCounted, past
    <3>6. ReasonKnown'
      BY <2>7, <3>1 DEF ClaimPending, RowsEarned, ReasonKnown, past, TypeOK, MemoryOK
    <3> QED
      BY <3>2, <3>5, <3>6 DEF RowsEarned
  <2>8. ASSUME NEW w \in Workers, NEW e \in Events, HandlerThrows(w, e) PROVE RowsEarned'
    BY <2>8, TakeKeeps DEF HandlerThrows, TypeOK, MemoryOK
  <2>9. ASSUME NEW w \in Workers, NEW e \in Events, DispatchToUser(w, e) PROVE RowsEarned'
    <3>1. PICK b : reached' = [reached EXCEPT ![e] = @ \/ w \in sockets[Target[e]] \/ b]
      BY <2>9, Zenon DEF DispatchToUser
    <3>2. /\ \A d \in Events : reached[d] => reached'[d]
          /\ w \in sockets[Target[e]] => reached'[e]
      BY <3>1 DEF TypeOK, PastOK
    <3>3. pc'[w] = "mark" => reached'[e]
      BY <2>9, <3>2 DEF DispatchToUser, TypeOK, MemoryOK
    <3>4. \A v \in Workers \ {w} : pc'[v] = pc[v] /\ op'[v] = op[v]
      BY <2>9 DEF DispatchToUser, TypeOK, MemoryOK
    <3> QED
      BY <2>9, <3>2, <3>3, <3>4, TakeKeeps DEF DispatchToUser, TypeOK, MemoryOK
  <2>10. ASSUME NEW w \in Workers, NEW e \in Events, RunSystemJob(w, e) PROVE RowsEarned'
    <3>1. /\ \A d \in Events : reached[d] => reached'[d]
          /\ reached'[e]
      BY <2>10 DEF RunSystemJob, TypeOK, PastOK
    <3>2. \A v \in Workers \ {w} : pc'[v] = pc[v] /\ op'[v] = op[v]
      BY <2>10 DEF RunSystemJob, TypeOK, MemoryOK
    <3> QED
      BY <2>10, <3>1, <3>2, TakeKeeps DEF RunSystemJob, TypeOK, MemoryOK
  <2>11. ASSUME NEW w \in Workers, ProbePresence(w) PROVE RowsEarned'
    <3>1. job[w] \in Events /\ snap[w][job[w]] \in Nat /\ snap[w][job[w]] + 1 <= attempts[job[w]]
      BY <2>11, JobType DEF ProbePresence, TypeOK, MemoryOK, PastOK, RowsEarned, RunsCounted
    <3>2. \A e \in Events : seenOnline[e] => seenOnline'[e]
      BY <2>11 DEF ProbePresence, TypeOK, PastOK
    <3>3. op'[w] = "dispatched" => seenOnline'[job[w]] \/ attempts[job[w]] > Window
      BY <2>11, <3>1 DEF ProbePresence, Patient, TypeOK, MemoryOK, PastOK
    <3>4. ReasonKnown'
      BY <2>11, <3>2, <3>3 DEF ProbePresence, RowsEarned, ReasonKnown, TypeOK, MemoryOK
    <3>5. Recoverable' /\ DeathEarned' /\ RunsCounted' /\ WriteOffEarned'
      BY <2>11, <3>2 DEF ProbePresence, RowsEarned, Recoverable, DeathEarned, RunsCounted,
                         WriteOffEarned, table
    <3> QED
      BY <3>4, <3>5 DEF RowsEarned
  <2>12. ASSUME NEW w \in Workers, MarkRow(w) PROVE RowsEarned'
    <3>1. job[w] \in Events /\ snap[w][job[w]] + 1 \in Nat /\ snap[w][job[w]] + 1 <= attempts[job[w]]
      BY <2>12, JobType DEF MarkRow, TypeOK, MemoryOK, PastOK, RowsEarned, RunsCounted
    <3>2. UNCHANGED <<snap, op, past>> /\ (Outcome(w) \/ UNCHANGED table)
      BY <2>12 DEF MarkRow
    <3>3. /\ Recoverable' /\ WriteOffEarned' /\ DeathEarned'
          /\ \A d \in Events : retryCount'[d] <= attempts'[d]
      <4>1. CASE Outcome(w)
        BY <2>12, <3>1, <3>2, <4>1, MarkKeeps DEF MarkRow, Outcome, RowsEarned, ReasonKnown
      <4>2. CASE UNCHANGED table
        BY <3>2, <4>2 DEF table, past, RowsEarned, Recoverable, WriteOffEarned, DeathEarned, RunsCounted
      <4> QED
        BY <3>2, <4>1, <4>2
    <3>4. \A v \in Workers : job'[v] \in {job[v], NoJob} /\ (pc'[v] = "mark" => pc[v] = "mark" /\ job'[v] = job[v])
      BY <2>12 DEF MarkRow, TypeOK, MemoryOK
    <3> QED
      BY <3>2, <3>3, <3>4 DEF RowsEarned, RunsCounted, ReasonKnown, past
  <2>13. ASSUME NEW w \in Workers, MarkFailure(w) PROVE RowsEarned'
    <3>1. job[w] \in Events /\ snap[w][job[w]] + 1 \in Nat /\ snap[w][job[w]] + 1 <= attempts[job[w]]
      BY <2>13, JobType DEF MarkFailure, TypeOK, MemoryOK, PastOK, RowsEarned, RunsCounted
    <3>2. UNCHANGED <<snap, op, past>> /\ (Failure(w) \/ UNCHANGED table)
      BY <2>13 DEF MarkFailure
    <3>3. /\ Recoverable' /\ WriteOffEarned' /\ DeathEarned'
          /\ \A d \in Events : retryCount'[d] <= attempts'[d]
      <4>1. CASE Failure(w)
        BY <3>1, <3>2, <4>1, MarkKeeps DEF Failure
      <4>2. CASE UNCHANGED table
        BY <3>2, <4>2 DEF table, past, RowsEarned, Recoverable, WriteOffEarned, DeathEarned, RunsCounted
      <4> QED
        BY <3>2, <4>1, <4>2
    <3>4. \A v \in Workers : job'[v] \in {job[v], NoJob} /\ (pc'[v] = "mark" => pc[v] = "mark" /\ job'[v] = job[v])
      BY <2>13 DEF MarkFailure, TypeOK, MemoryOK
    <3> QED
      BY <3>2, <3>3, <3>4 DEF RowsEarned, RunsCounted, ReasonKnown, past
  <2>14. ASSUME NEW u \in Users, NEW w \in Workers, Connect(u, w) \/ Disconnect(u, w)
         PROVE RowsEarned'
    BY <2>14, <2>a DEF Connect, Disconnect
  <2>15. ASSUME NEW u \in Users, RegisterPresence(u) \/ UnregisterPresence(u) PROVE RowsEarned'
    BY <2>15, <2>a DEF RegisterPresence, UnregisterPresence
  <2>16. CASE UNCHANGED vars
    BY <2>16, <2>a DEF vars
  <2> QED
    BY <2>1, <2>2, <2>3, <2>4, <2>5, <2>6, <2>7, <2>8, <2>9, <2>10, <2>11, <2>12, <2>13,
       <2>14, <2>15, <2>16 DEF Next, Work, RunJob, Exit, Crash
<1>3. TypeOK /\ RowsEarned => AnyInv
  BY DEF AnyInv, RowsEarned
<1> QED
  BY <1>1, <1>2, <1>3, TypeCorrect, PTL DEF Spec

\* No row is stranded, whatever fails.
COROLLARY NoRowStranded == Spec => []Recoverable
<1>1. AnyInv => Recoverable
  BY DEF AnyInv
<1> QED
  BY <1>1, AnyFaultSafe, PTL

\* No event is written off without a reason, whatever fails.
COROLLARY WriteOffsEarned == Spec => []WriteOffEarned
<1>1. AnyInv => WriteOffEarned
  BY DEF AnyInv
<1> QED
  BY <1>1, AnyFaultSafe, PTL

\* No event is given up before MaxRetryCount runs, whatever fails.
COROLLARY DeathsEarned == Spec => []DeathEarned
<1>1. AnyInv => DeathEarned
  BY DEF AnyInv
<1> QED
  BY <1>1, AnyFaultSafe, PTL

-----------------------------------------------------------------------------
(* What holds as long as no lease runs out under a worker and no UPDATE     *)
(* commits behind the back of its worker.                                   *)

Timely == MaxOverruns = 0 /\ MaxLostReplies = 0

RowsHeld == BatchTidy /\ HeldIsLeased /\ SingleConsumer

\* Such faults then never happen.
LEMMA NoSuchFault ==
  ASSUME Timely, TypeOK
  PROVE  ~Spend("reply") /\ ~Spend("overrun")
BY DEF Timely, Spend, Limit, TypeOK, Faults

\* A step that changes the memory of no worker but w, and no row that another
\* worker holds, keeps the rows held if it keeps what w holds.
LEMMA HeldKeeps ==
  ASSUME TypeOK, RowsHeld, NEW w \in Workers,
         \A v \in Workers \ {w} : /\ pc'[v] = pc[v] /\ batch'[v] = batch[v]
                                 /\ job'[v] = job[v] /\ snap'[v] = snap[v],
         \A v \in Workers \ {w} : \A e \in Held(v) :
            /\ status'[e] = status[e] /\ leaseExpiresAt'[e] = leaseExpiresAt[e]
            /\ retryCount'[e] = retryCount[e] /\ e \notin Held(w)',
         \A e \in Held(w)' : /\ status'[e] = "PROCESSING" /\ leaseExpiresAt'[e] = "future"
                             /\ snap'[w][e] = retryCount'[e],
         job'[w] \notin batch'[w],
         pc'[w] \in {"down", "idle"} => batch'[w] = {}
  PROVE  RowsHeld'
<1>1. \A v \in Workers \ {w} : Held(v)' = Held(v)
  BY DEF Held
<1>2. BatchTidy'
  BY DEF RowsHeld, BatchTidy
<1>3. HeldIsLeased'
  <2> SUFFICES ASSUME NEW v \in Workers, NEW e \in Held(v)'
      PROVE /\ status'[e] = "PROCESSING" /\ leaseExpiresAt'[e] = "future"
            /\ snap'[v][e] = retryCount'[e]
    BY DEF HeldIsLeased
  <2>1. CASE v = w
    BY <2>1
  <2>2. CASE v # w
    BY <1>1, <2>2 DEF RowsHeld, HeldIsLeased
  <2> QED
    BY <2>1, <2>2
<1>4. SingleConsumer'
  <2> SUFFICES ASSUME NEW u \in Workers, NEW v \in Workers, u # v, NEW e,
                      e \in Held(u)', e \in Held(v)'
      PROVE FALSE
    BY DEF SingleConsumer
  <2>1. CASE u # w /\ v # w
    BY <1>1, <2>1 DEF RowsHeld, SingleConsumer
  <2>2. CASE u = w \/ v = w
    BY <1>1, <2>2
  <2> QED
    BY <2>1, <2>2
<1> QED
  BY <1>2, <1>3, <1>4 DEF RowsHeld

\* A worker that takes a job out of its batch still holds the same jobs.
LEMMA TakeHolds ==
  ASSUME TypeOK, RowsHeld, NEW w \in Workers, NEW e \in Events, Take(w, e),
         UNCHANGED <<table, snap>>,
         \A v \in Workers \ {w} : pc'[v] = pc[v], pc'[w] \in {"probe", "mark", "catch"}
  PROVE  RowsHeld'
<1>1. /\ job'[w] = e /\ batch'[w] = batch[w] \ {e} /\ e \in batch[w] /\ job[w] = NoJob
      /\ \A v \in Workers \ {w} : job'[v] = job[v] /\ batch'[v] = batch[v]
  BY DEF Take, TypeOK, MemoryOK
<1>2. e # NoJob
  BY OutboxAssumption
<1>3. Held(w)' = Held(w)
  BY <1>1, <1>2 DEF Held
<1>4. \A v \in Workers \ {w} : \A d \in Held(v) : d \notin Held(w)'
  BY <1>3 DEF RowsHeld, SingleConsumer
<1>5. \A d \in Held(w)' : /\ status'[d] = "PROCESSING" /\ leaseExpiresAt'[d] = "future"
                          /\ snap'[w][d] = retryCount'[d]
  BY <1>3 DEF table, RowsHeld, HeldIsLeased
<1> QED
  BY <1>1, <1>4, <1>5, HeldKeeps DEF table

\* The UPDATEs touch one row.
LEMMA MarkIsLocal ==
  ASSUME TableOK, NEW e \in Events, NEW n,
         MarkDispatched(e) \/ MarkRetry(e, n) \/ MarkDead(e, n) \/ UNCHANGED table
  PROVE  \A d \in Events \ {e} : /\ status'[d] = status[d] /\ retryCount'[d] = retryCount[d]
                                /\ leaseExpiresAt'[d] = leaseExpiresAt[d]
BY DEF MarkDispatched, MarkRetry, MarkDead, TableOK, table

\* Rows held by other workers are none of those of w.
LEMMA OthersApart ==
  ASSUME RowsHeld, NEW w \in Workers, NEW v \in Workers \ {w}, NEW e \in Held(v)
  PROVE  e \notin Held(w)
BY DEF RowsHeld, SingleConsumer

\* The lease makes one worker the only consumer of an event, which it holds
\* as it claimed it.
THEOREM TimelySafe == ASSUME Timely PROVE Spec => []TimelyInv
<1> USE OutboxAssumption
<1>1. Init => RowsHeld
  BY DEF Init, RowsHeld, BatchTidy, HeldIsLeased, SingleConsumer, Held
<1>2. TypeOK /\ TypeOK' /\ RowsHeld /\ [Next]_vars => RowsHeld'
  <2> SUFFICES ASSUME TypeOK, TypeOK', RowsHeld, [Next]_vars PROVE RowsHeld'
    OBVIOUS
  <2>a. UNCHANGED <<table, memory>> => RowsHeld'
    BY DEF table, memory, RowsHeld, BatchTidy, HeldIsLeased, SingleConsumer, Held
  <2>b. ASSUME UNCHANGED memory,
               \A w \in Workers : \A e \in Held(w) :
                  /\ status'[e] = status[e] /\ leaseExpiresAt'[e] = leaseExpiresAt[e]
                  /\ retryCount'[e] = retryCount[e]
        PROVE  RowsHeld'
    <3>1. \A w \in Workers : Held(w)' = Held(w)
      BY <2>b DEF Held, memory
    <3> QED
      BY <2>b, <3>1 DEF memory, RowsHeld, BatchTidy, HeldIsLeased, SingleConsumer
  <2>c. \A w \in Workers : \A e \in Held(w) :
           e \in Events /\ status[e] = "PROCESSING" /\ leaseExpiresAt[e] = "future"
    BY DEF RowsHeld, HeldIsLeased, Held, TypeOK, MemoryOK
  <2>1. ASSUME NEW e \in Events, InsertEvent(e) PROVE RowsHeld'
    BY <2>1, <2>b, <2>c DEF InsertEvent, TypeOK, TableOK
  <2>2. ASSUME NEW e \in Events, Purge(e) PROVE RowsHeld'
    BY <2>2, <2>b, <2>c DEF Purge, Settled, TypeOK, TableOK
  <2>3. ASSUME NEW e \in Events, RetryFallsDue(e) PROVE RowsHeld'
    BY <2>3, <2>b, <2>c DEF RetryFallsDue
  <2>4. ASSUME NEW e \in Events, LeaseLapses(e) PROVE RowsHeld'
    <3>1. \A w \in Workers : e \notin Held(w)
      BY <2>4, NoSuchFault DEF LeaseLapses
    <3> QED
      BY <2>4, <2>b, <2>c, <3>1 DEF LeaseLapses, TypeOK, TableOK
  <2>5. ASSUME NEW w \in Workers, Start(w) \/ Stop(w) PROVE RowsHeld'
    <3>1. UNCHANGED <<table, snap, job, batch>>
      BY <2>5 DEF Start, Stop
    <3>2. \A v \in Workers : pc'[v] \in {"down", "idle"} => pc[v] \in {"down", "idle"}
      BY <2>5 DEF Start, Stop, TypeOK, MemoryOK
    <3> QED
      BY <3>1, <3>2 DEF table, RowsHeld, BatchTidy, HeldIsLeased, SingleConsumer, Held
  <2>6. ASSUME NEW w \in Workers, DropNode(w) PROVE RowsHeld'
    <3>1. Held(w)' = {} /\ job'[w] \notin batch'[w] /\ batch'[w] = {}
      BY <2>6 DEF DropNode, Held, TypeOK, MemoryOK
    <3>2. \A v \in Workers \ {w} : /\ pc'[v] = pc[v] /\ batch'[v] = batch[v]
                                  /\ job'[v] = job[v] /\ snap'[v] = snap[v]
      BY <2>6 DEF DropNode, TypeOK, MemoryOK
    <3> QED
      BY <2>6, <3>1, <3>2, HeldKeeps DEF DropNode, table
  <2>7. ASSUME NEW w \in Workers, ClaimPending(w) PROVE RowsHeld'
    <3>1. PICK S \in SUBSET Claimable :
            /\ Lease(S) /\ pc' = [pc EXCEPT ![w] = "loop"]
            /\ batch' = [batch EXCEPT ![w] = S] /\ snap' = [snap EXCEPT ![w] = Snapshot(S)]
      BY <2>7, NoSuchFault DEF ClaimPending
    <3>2. job[w] = NoJob /\ job' = job
      BY <2>7 DEF ClaimPending, TypeOK, MemoryOK
    <3>3. Held(w)' = S /\ S \subseteq Events
      BY <3>1, <3>2 DEF Held, TypeOK, MemoryOK, Claimable
    <3>4. \A v \in Workers \ {w} : \A e \in Held(v) : e \notin S
      BY <2>c DEF Claimable
    <3>5. \A v \in Workers \ {w} : /\ pc'[v] = pc[v] /\ batch'[v] = batch[v]
                                  /\ job'[v] = job[v] /\ snap'[v] = snap[v]
      BY <3>1, <3>2 DEF TypeOK, MemoryOK
    <3>6. \A e \in S : /\ status'[e] = "PROCESSING" /\ leaseExpiresAt'[e] = "future"
                       /\ snap'[w][e] = retryCount'[e]
      BY <3>1, <3>3 DEF Lease, Snapshot, TypeOK, MemoryOK
    <3>7. \A v \in Workers \ {w} : \A e \in Held(v) :
            /\ status'[e] = status[e] /\ leaseExpiresAt'[e] = leaseExpiresAt[e]
            /\ retryCount'[e] = retryCount[e]
      BY <2>c, <3>1, <3>4 DEF Lease
    <3>8. job'[w] \notin batch'[w] /\ pc'[w] = "loop"
      BY <3>1, <3>2, <3>3 DEF TypeOK, MemoryOK
    <3> QED
      BY <3>3, <3>4, <3>5, <3>6, <3>7, <3>8, HeldKeeps
  <2>8. ASSUME NEW w \in Workers, NEW e \in Events, HandlerThrows(w, e) PROVE RowsHeld'
    BY <2>8, TakeHolds DEF HandlerThrows, TypeOK, MemoryOK
  <2>9. ASSUME NEW w \in Workers, NEW e \in Events, DispatchToUser(w, e) PROVE RowsHeld'
    <3>1. /\ pc'[w] \in {"probe", "mark", "catch"}
          /\ \A v \in Workers \ {w} : pc'[v] = pc[v]
      BY <2>9 DEF DispatchToUser, TypeOK, MemoryOK
    <3> QED
      BY <2>9, <3>1, TakeHolds DEF DispatchToUser
  <2>10. ASSUME NEW w \in Workers, NEW e \in Events, RunSystemJob(w, e) PROVE RowsHeld'
    BY <2>10, TakeHolds DEF RunSystemJob, TypeOK, MemoryOK
  <2>11. ASSUME NEW w \in Workers, ProbePresence(w) PROVE RowsHeld'
    <3>1. UNCHANGED <<table, batch, snap, job>>
      BY <2>11 DEF ProbePresence
    <3>2. \A v \in Workers : pc'[v] \in {"down", "idle"} => pc[v] \in {"down", "idle"}
      BY <2>11 DEF ProbePresence, TypeOK, MemoryOK
    <3> QED
      BY <3>1, <3>2 DEF table, RowsHeld, BatchTidy, HeldIsLeased, SingleConsumer, Held
  <2>12. ASSUME NEW w \in Workers, MarkRow(w) PROVE RowsHeld'
    <3>1. job[w] \in Events /\ job[w] # NoJob
      BY <2>12, JobType DEF MarkRow, TypeOK
    <3>2. CASE UNCHANGED table /\ pc' = [pc EXCEPT ![w] = "catch"] /\ UNCHANGED job
      <4>1. \A v \in Workers : pc'[v] \in {"down", "idle"} => pc[v] \in {"down", "idle"}
        BY <3>2 DEF TypeOK, MemoryOK
      <4> QED
        BY <2>12, <3>2, <4>1 DEF MarkRow, table, RowsHeld, BatchTidy, HeldIsLeased, SingleConsumer, Held
    <3>3. CASE Outcome(w) /\ pc' = [pc EXCEPT ![w] = "loop"] /\ job' = [job EXCEPT ![w] = NoJob]
      <4>1. UNCHANGED <<batch, snap>>
        BY <2>12 DEF MarkRow
      <4>2. /\ Held(w)' = batch[w] /\ job[w] \in Held(w) /\ batch[w] \subseteq Held(w)
            /\ job[w] \notin batch[w] /\ batch[w] \subseteq Events
        BY <3>1, <3>3, <4>1 DEF Held, TypeOK, MemoryOK, RowsHeld, BatchTidy
      <4>3. \A d \in Events \ {job[w]} :
               /\ status'[d] = status[d] /\ retryCount'[d] = retryCount[d]
               /\ leaseExpiresAt'[d] = leaseExpiresAt[d]
        BY <3>1, <3>3, MarkIsLocal DEF Outcome, TypeOK
      <4>4. \A v \in Workers \ {w} : \A e \in Held(v) : e \notin Held(w)
        BY OthersApart
      <4>5. \A e \in batch[w] : /\ status'[e] = "PROCESSING" /\ leaseExpiresAt'[e] = "future"
                                /\ snap'[w][e] = retryCount'[e]
        BY <4>1, <4>2, <4>3 DEF RowsHeld, HeldIsLeased
      <4>6. /\ \A v \in Workers \ {w} : pc'[v] = pc[v] /\ job'[v] = job[v]
            /\ job'[w] = NoJob /\ pc'[w] = "loop"
        BY <3>3 DEF TypeOK, MemoryOK
      <4>7. \A v \in Workers \ {w} : \A e \in Held(v) :
              /\ status'[e] = status[e] /\ leaseExpiresAt'[e] = leaseExpiresAt[e]
              /\ retryCount'[e] = retryCount[e] /\ e \notin Held(w)'
        BY <2>c, <4>2, <4>3, <4>4
      <4> QED
        BY <4>1, <4>2, <4>5, <4>6, <4>7, HeldKeeps
    <3> QED
      BY <2>12, <3>2, <3>3, NoSuchFault DEF MarkRow
  <2>13. ASSUME NEW w \in Workers, MarkFailure(w) PROVE RowsHeld'
    <3>1. job[w] \in Events /\ job[w] # NoJob
      BY <2>13, JobType DEF MarkFailure, TypeOK
    <3>2. /\ Failure(w) \/ UNCHANGED table
          /\ UNCHANGED snap /\ job' = [job EXCEPT ![w] = NoJob]
          /\ \/ pc' = [pc EXCEPT ![w] = "loop"] /\ UNCHANGED batch
             \/ pc' = [pc EXCEPT ![w] = "idle"] /\ batch' = [batch EXCEPT ![w] = {}]
      BY <2>13 DEF MarkFailure
    <3>3. /\ job[w] \in Held(w) /\ batch[w] \subseteq Held(w)
          /\ job[w] \notin batch[w] /\ batch[w] \subseteq Events
      BY <3>1 DEF Held, TypeOK, MemoryOK, RowsHeld, BatchTidy
    <3>4. /\ \A v \in Workers \ {w} : pc'[v] = pc[v] /\ job'[v] = job[v] /\ batch'[v] = batch[v]
          /\ job'[w] = NoJob /\ batch'[w] \in {batch[w], {}}
          /\ pc'[w] \in {"down", "idle"} => batch'[w] = {}
      BY <3>2 DEF TypeOK, MemoryOK
    <3>5. Held(w)' = batch'[w] /\ Held(w)' \subseteq batch[w]
      BY <3>4 DEF Held
    <3>6. \A d \in Events \ {job[w]} :
             /\ status'[d] = status[d] /\ retryCount'[d] = retryCount[d]
             /\ leaseExpiresAt'[d] = leaseExpiresAt[d]
      BY <3>1, <3>2, MarkIsLocal DEF Failure, TypeOK
    <3>7. \A v \in Workers \ {w} : \A e \in Held(v) : e \notin Held(w)
      BY OthersApart
    <3>8. \A e \in Held(w)' : /\ status'[e] = "PROCESSING" /\ leaseExpiresAt'[e] = "future"
                              /\ snap'[w][e] = retryCount'[e]
      BY <3>2, <3>3, <3>5, <3>6 DEF RowsHeld, HeldIsLeased
    <3>9. \A v \in Workers \ {w} : \A e \in Held(v) :
            /\ status'[e] = status[e] /\ leaseExpiresAt'[e] = leaseExpiresAt[e]
            /\ retryCount'[e] = retryCount[e] /\ e \notin Held(w)'
      BY <2>c, <3>3, <3>5, <3>6, <3>7
    <3>10. job'[w] \notin batch'[w]
      BY <3>3, <3>4 DEF TypeOK, MemoryOK
    <3> QED
      BY <3>2, <3>4, <3>8, <3>9, <3>10, HeldKeeps
  <2>14. ASSUME NEW w \in Workers, EndTick(w) PROVE RowsHeld'
    <3>1. UNCHANGED <<table, batch, snap, job>>
      BY <2>14 DEF EndTick
    <3>2. \A v \in Workers : pc'[v] \in {"down", "idle"} => pc[v] \in {"down", "idle"} \/ batch[v] = {}
      BY <2>14 DEF EndTick, TypeOK, MemoryOK
    <3> QED
      BY <3>1, <3>2 DEF table, RowsHeld, BatchTidy, HeldIsLeased, SingleConsumer, Held
  <2>15. ASSUME NEW u \in Users, NEW w \in Workers, Connect(u, w) \/ Disconnect(u, w)
         PROVE RowsHeld'
    BY <2>15, <2>a DEF Connect, Disconnect
  <2>16. ASSUME NEW u \in Users, RegisterPresence(u) \/ UnregisterPresence(u) PROVE RowsHeld'
    BY <2>16, <2>a DEF RegisterPresence, UnregisterPresence
  <2>17. CASE UNCHANGED vars
    BY <2>17, <2>a DEF vars
  <2> QED
    BY <2>1, <2>2, <2>3, <2>4, <2>5, <2>6, <2>7, <2>8, <2>9, <2>10, <2>11, <2>12, <2>13,
       <2>14, <2>15, <2>16, <2>17 DEF Next, Work, RunJob, Exit, Crash
<1>3. TypeOK /\ RowsHeld => TimelyInv
  BY DEF TimelyInv, RowsHeld
<1> QED
  BY <1>1, <1>2, <1>3, TypeCorrect, PTL DEF Spec

\* One consumer per event.
COROLLARY OneConsumer == ASSUME Timely PROVE Spec => []SingleConsumer
<1>1. TimelyInv => SingleConsumer
  BY DEF TimelyInv
<1> QED
  BY <1>1, TimelySafe, PTL

-----------------------------------------------------------------------------
(* What every step does to the rows, and the promise of the outbox. *)

\* The row a worker is about to mark: claimed by it, and run at least once.
LEMMA RowInHand ==
  ASSUME TimelyInv, AnyInv, NEW w \in Workers, pc[w] \in {"probe", "mark", "catch"}
  PROVE  /\ job[w] \in Events /\ status[job[w]] = "PROCESSING"
         /\ snap[w][job[w]] \in Nat /\ retryCount[job[w]] = snap[w][job[w]]
         /\ attempts[job[w]] \in Nat /\ attempts[job[w]] > 0
<1>1. job[w] \in Events /\ job[w] # NoJob /\ snap[w][job[w]] \in Nat
  BY JobType, OutboxAssumption DEF TimelyInv, TypeOK
<1>2. job[w] \in Held(w)
  BY <1>1 DEF Held
<1> QED
  BY <1>1, <1>2 DEF TimelyInv, AnyInv, HeldIsLeased, RunsCounted, TypeOK, PastOK

\* One of the three UPDATEs that end the job of w, with the count w computed.
Mark(w) == \/ MarkDispatched(job[w])
           \/ MarkRetry(job[w], snap[w][job[w]] + 1)
           \/ MarkDead(job[w], snap[w][job[w]] + 1)

\* The steps, as far as the rows can tell them apart.
LEMMA StepKinds ==
  ASSUME [Next]_vars
  PROVE  \/ UNCHANGED <<status, retryCount, attempts>>
         \/ \E w \in Workers, e \in Events : Take(w, e) /\ UNCHANGED <<status, retryCount>>
         \/ \E e \in Events : InsertEvent(e) \/ Purge(e)
         \/ \E S \in SUBSET Claimable : Lease(S) /\ UNCHANGED attempts
         \/ \E w \in Workers : pc[w] \in {"mark", "catch"} /\ Mark(w) /\ UNCHANGED attempts
<1>1. ASSUME NEW e \in Events, RetryFallsDue(e) \/ LeaseLapses(e)
      PROVE UNCHANGED <<status, retryCount, attempts>>
  BY <1>1 DEF RetryFallsDue, LeaseLapses, past
<1>2. ASSUME NEW w \in Workers, Start(w) \/ Stop(w) \/ Exit(w) \/ Crash(w)
      PROVE UNCHANGED <<status, retryCount, attempts>>
  BY <1>2 DEF Start, Stop, Exit, Crash, DropNode, table, past
<1>3. ASSUME NEW w \in Workers, ClaimPending(w)
      PROVE \E S \in SUBSET Claimable : Lease(S) /\ UNCHANGED attempts
  BY <1>3 DEF ClaimPending, past
<1>4. ASSUME NEW w \in Workers, NEW e \in Events,
             HandlerThrows(w, e) \/ DispatchToUser(w, e) \/ RunSystemJob(w, e)
      PROVE Take(w, e) /\ UNCHANGED <<status, retryCount>>
  BY <1>4 DEF HandlerThrows, DispatchToUser, RunSystemJob, table
<1>5. ASSUME NEW w \in Workers, ProbePresence(w) \/ EndTick(w)
      PROVE UNCHANGED <<status, retryCount, attempts>>
  BY <1>5 DEF ProbePresence, EndTick, table, past
<1>6. ASSUME NEW w \in Workers, MarkRow(w)
      PROVE pc[w] \in {"mark", "catch"} /\ UNCHANGED attempts /\ (Mark(w) \/ UNCHANGED table)
  BY <1>6 DEF MarkRow, Outcome, Mark, past
<1>7. ASSUME NEW w \in Workers, MarkFailure(w)
      PROVE pc[w] \in {"mark", "catch"} /\ UNCHANGED attempts /\ (Mark(w) \/ UNCHANGED table)
  BY <1>7 DEF MarkFailure, Failure, Mark, past
<1>8. ASSUME NEW u \in Users, NEW w \in Workers,
             Connect(u, w) \/ Disconnect(u, w) \/ RegisterPresence(u) \/ UnregisterPresence(u)
      PROVE UNCHANGED <<status, retryCount, attempts>>
  BY <1>8 DEF Connect, Disconnect, RegisterPresence, UnregisterPresence, table, past
<1>9. ASSUME NEW u \in Users, RegisterPresence(u) \/ UnregisterPresence(u)
      PROVE UNCHANGED <<status, retryCount, attempts>>
  BY <1>9 DEF RegisterPresence, UnregisterPresence, table, past
<1>10. UNCHANGED vars => UNCHANGED <<status, retryCount, attempts>>
  BY DEF vars, table, past
<1>11. UNCHANGED table => UNCHANGED <<status, retryCount>>
  BY DEF table
<1>12. CASE \E w \in Workers : MarkRow(w) \/ MarkFailure(w)
  BY <1>6, <1>7, <1>11, <1>12
<1>13. CASE \E w \in Workers : ClaimPending(w)
  BY <1>3, <1>13
<1> QED
  BY <1>1, <1>2, <1>4, <1>5, <1>8, <1>9, <1>10, <1>12, <1>13 DEF Next, Work, RunJob

\* A worker that marks its job changes that row only, from PROCESSING, and
\* adds to its retry_count if it changes it.
LEMMA MarkEffect ==
  ASSUME TimelyInv, AnyInv, NEW w \in Workers, pc[w] \in {"mark", "catch"}, Mark(w)
  PROVE  /\ \E s \in Settled \cup {"RETRY"} : status' = [status EXCEPT ![job[w]] = s]
         /\ \A e \in Events : retryCount'[e] >= retryCount[e]
<1>1. /\ job[w] \in Events /\ status[job[w]] = "PROCESSING"
      /\ snap[w][job[w]] \in Nat /\ retryCount[job[w]] = snap[w][job[w]]
  BY RowInHand
<1>2. retryCount \in [Events -> Nat]
  BY DEF TimelyInv, TypeOK, TableOK
<1>3. CASE MarkDispatched(job[w])
  BY <1>1, <1>2, <1>3 DEF MarkDispatched, Settled
<1>4. CASE MarkRetry(job[w], snap[w][job[w]] + 1)
  BY <1>1, <1>2, <1>4 DEF MarkRetry
<1>5. CASE MarkDead(job[w], snap[w][job[w]] + 1)
  BY <1>1, <1>2, <1>5 DEF MarkDead, Settled
<1> QED
  BY <1>3, <1>4, <1>5 DEF Mark

\* A settled row is only ever purged.
THEOREM SettledStays == ASSUME Timely PROVE Spec => SettledIsFinal
<1>1. TimelyInv /\ AnyInv /\ [Next]_vars =>
        [\A e \in Events : status[e] \in Settled => status'[e] \in {status[e], "purged"}]_vars
  <2> SUFFICES ASSUME TimelyInv, AnyInv, [Next]_vars, NEW e \in Events, status[e] \in Settled
      PROVE status'[e] \in {status[e], "purged"}
    OBVIOUS
  <2> USE DEF TimelyInv, TypeOK, TableOK
  <2>1. CASE UNCHANGED status
    BY <2>1
  <2>2. CASE \E d \in Events : InsertEvent(d) \/ Purge(d)
    BY <2>2 DEF InsertEvent, Purge, Settled
  <2>3. CASE \E S \in SUBSET Claimable : Lease(S)
    BY <2>3 DEF Lease, Claimable, Settled
  <2>4. CASE \E w \in Workers : pc[w] \in {"mark", "catch"} /\ Mark(w)
    <3>1. PICK w \in Workers : pc[w] \in {"mark", "catch"} /\ Mark(w)
      BY <2>4
    <3>2. job[w] # e
      BY <3>1, RowInHand DEF Settled
    <3> QED
      BY <3>1, <3>2, MarkEffect
  <2> QED
    BY <2>1, <2>2, <2>3, <2>4, StepKinds
<1> QED
  BY <1>1, TimelySafe, AnyFaultSafe, PTL DEF Spec, SettledIsFinal

\* The retry budget of an event is never given back.
THEOREM RetriesCount == ASSUME Timely PROVE Spec => RetryCountGrows
<1>1. TimelyInv /\ AnyInv /\ [Next]_vars => [\A e \in Events : retryCount'[e] >= retryCount[e]]_vars
  <2> SUFFICES ASSUME TimelyInv, AnyInv, [Next]_vars, NEW e \in Events
      PROVE retryCount'[e] >= retryCount[e]
    OBVIOUS
  <2>1. UNCHANGED retryCount => retryCount'[e] >= retryCount[e]
    BY DEF TimelyInv, TypeOK, TableOK
  <2>2. CASE \E d \in Events : InsertEvent(d) \/ Purge(d)
    BY <2>1, <2>2 DEF InsertEvent, Purge
  <2>3. CASE \E S \in SUBSET Claimable : Lease(S)
    BY <2>1, <2>3 DEF Lease
  <2>4. CASE \E w \in Workers : pc[w] \in {"mark", "catch"} /\ Mark(w)
    BY <2>4, MarkEffect
  <2> QED
    BY <2>1, <2>2, <2>3, <2>4, StepKinds
<1> QED
  BY <1>1, TimelySafe, AnyFaultSafe, PTL DEF Spec, RetryCountGrows

\* The outbox implements its promise: handlers run for owed events only, and
\* every event is settled once.
THEOREM KeepsPromise == ASSUME Timely PROVE Spec => PromiseKept
<1>1. Init => Promise!Init
  BY DEF Init, Promise!Init, Debt, Settled
<1>2. TimelyInv /\ AnyInv /\ [Next]_vars => [Promise!Next]_<<Debt, attempts>>
  <2> SUFFICES ASSUME TimelyInv, AnyInv, [Next]_vars
      PROVE Promise!Next \/ UNCHANGED <<Debt, attempts>>
    OBVIOUS
  <2> USE DEF TimelyInv, TypeOK, TableOK, PastOK
  <2>1. CASE UNCHANGED <<status, attempts>>
    BY <2>1 DEF Debt
  <2>2. CASE \E w \in Workers, e \in Events : Take(w, e) /\ UNCHANGED status
    <3>1. PICK w \in Workers, e \in Events : Take(w, e) /\ UNCHANGED status
      BY <2>2
    <3>2. status[e] = "PROCESSING"
      BY <3>1 DEF Take, HeldIsLeased, Held
    <3>3. Debt' = Debt /\ Debt[e] = "owed"
      BY <3>1, <3>2 DEF Debt, Settled
    <3>4. attempts' = [attempts EXCEPT ![e] = @ + 1]
      BY <3>1 DEF Take
    <3> QED
      BY <3>3, <3>4 DEF Promise!Next, Promise!Run
  <2>3. ASSUME NEW e \in Events, InsertEvent(e) PROVE Promise!Accept(e)
    BY <2>3 DEF InsertEvent, past, Debt, Settled, Promise!Accept, Promise!Become
  <2>4. ASSUME NEW e \in Events, Purge(e) PROVE Promise!Forget(e)
    BY <2>4 DEF Purge, past, Debt, Settled, Promise!Forget, Promise!Become
  <2>5. CASE \E S \in SUBSET Claimable : Lease(S) /\ UNCHANGED attempts
    BY <2>5 DEF Lease, Claimable, Debt, Settled
  <2>6. CASE \E w \in Workers : pc[w] \in {"mark", "catch"} /\ Mark(w) /\ UNCHANGED attempts
    <3>1. PICK w \in Workers : pc[w] \in {"mark", "catch"} /\ Mark(w) /\ UNCHANGED attempts
      BY <2>6
    <3>2. PICK s \in Settled \cup {"RETRY"} : status' = [status EXCEPT ![job[w]] = s]
      BY <3>1, MarkEffect
    <3>3. job[w] \in Events /\ status[job[w]] = "PROCESSING" /\ attempts[job[w]] > 0
      BY <3>1, RowInHand
    <3>4. CASE s = "RETRY"
      BY <3>1, <3>2, <3>3, <3>4 DEF Debt, Settled
    <3>5. CASE s \in Settled
      <4>1. Debt[job[w]] = "owed" /\ Debt' = [Debt EXCEPT ![job[w]] = "settled"]
        BY <3>2, <3>3, <3>5 DEF Debt, Settled
      <4> QED
        BY <3>1, <3>3, <4>1 DEF Promise!Next, Promise!Settle, Promise!Become
    <3> QED
      BY <3>4, <3>5
  <2> QED
    BY <2>1, <2>2, <2>3, <2>4, <2>5, <2>6, StepKinds DEF Promise!Next
<1> QED
  BY <1>1, <1>2, TimelySafe, AnyFaultSafe, PTL DEF Spec, PromiseKept, Promise!Spec
=============================================================================
