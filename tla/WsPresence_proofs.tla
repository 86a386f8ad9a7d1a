--------------------------- MODULE WsPresence_proofs ---------------------------
(***************************************************************************)
(* Theorems about WsPresence, for any devices, nodes and sockets and any   *)
(* number of faults.                                                       *)
(***************************************************************************)
EXTENDS WsPresence, TLAPS

-----------------------------------------------------------------------------
(* Types *)

Socks  == {"none", "open", "dead", "closed"}
Pcs    == {"off", "init", "joining", "replacing", "registering", "ready", "gone"}
Beats  == {"none", "hset", "set"}
Sweeps == {"none", "read", "hdel", "del", "done"}
Scans  == [step : {"off", "due", "hdel", "del"}, ghosts : SUBSET Devices]
OldOK  == \A c \in Conns : pc[c] = "replacing" => old[c] # None
RestOK == rushed \in BOOLEAN /\ used \in [Faults -> Nat]

LEMMA Words ==
  /\ Socks = {"none", "open", "dead", "closed"}
  /\ Pcs = {"off", "init", "joining", "replacing", "registering", "ready", "gone"}
  /\ Beats = {"none", "hset", "set"}
  /\ Sweeps = {"none", "read", "hdel", "del", "done"}
BY DEF Socks, Pcs, Beats, Sweeps

ConnTypes == /\ pc \in [Conns -> Pcs] /\ old \in [Conns -> Conns \cup {None}]
             /\ map \in [Nodes -> [Devices -> Conns \cup {None}]]
             /\ beat \in [Conns -> Beats] /\ sweep \in [Conns -> Sweeps]
NetTypes == at \in [Conns -> Nodes] /\ sock \in [Conns -> Socks] /\ event \subseteq Conns

LEMMA TypeParts == TypeOK <=> NetTypes /\ ConnTypes /\ RedisOK /\ OldOK /\ RestOK
BY DEF TypeOK, NetOK, ConnOK, NetTypes, ConnTypes, OldOK, RestOK, Socks, Pcs, Beats, Sweeps

LEMMA SpendType ==
  ASSUME RestOK, NEW k \in Faults, Spend(k)
  PROVE  used' \in [Faults -> Nat]
BY DEF RestOK, Spend

LEMMA SlotType ==
  ASSUME PresenceAssumption, NetTypes, ConnTypes, NEW c \in Conns
  PROVE  at[c] \in Nodes /\ DeviceOf[c] \in Devices /\ Slot(c) \in Conns \cup {None}
BY DEF PresenceAssumption, NetTypes, ConnTypes, Slot

LEMMA SetSlotType ==
  ASSUME PresenceAssumption, NetTypes, ConnTypes, NEW c \in Conns,
         NEW x \in Conns \cup {None}, SetSlot(c, x)
  PROVE  map' \in [Nodes -> [Devices -> Conns \cup {None}]]
<1>1. at[c] \in Nodes /\ DeviceOf[c] \in Devices
  BY SlotType
<1>2. [map[at[c]] EXCEPT ![DeviceOf[c]] = x] \in [Devices -> Conns \cup {None}]
  BY <1>1 DEF ConnTypes
<1>3. map' = [map EXCEPT ![at[c]] = [map[at[c]] EXCEPT ![DeviceOf[c]] = x]]
  BY DEF SetSlot
<1>4. QED
  BY <1>1, <1>2, <1>3 DEF ConnTypes

LEMMA JoinType ==
  ASSUME PresenceAssumption, NetTypes, ConnTypes, NEW c \in Conns, Join(c)
  PROVE  /\ map' \in [Nodes -> [Devices -> Conns \cup {None}]]
         /\ pc' \in [Conns -> Pcs] /\ beat' \in [Conns -> Beats]
         /\ \A b \in Conns : pc'[b] = "replacing" => pc[b] = "replacing" /\ b # c
<1>1. map' \in [Nodes -> [Devices -> Conns \cup {None}]]
  BY SetSlotType DEF Join
<1>2. pc' \in [Conns -> Pcs] /\ beat' \in [Conns -> Beats]
  BY Words DEF Join, ConnTypes
<1>3. \A b \in Conns : pc'[b] = "replacing" => pc[b] = "replacing" /\ b # c
  BY DEF Join, ConnTypes
<1>4. QED
  BY <1>1, <1>2, <1>3

LEMMA BeatEndsType ==
  ASSUME ConnTypes, NEW c \in Conns, BeatEnds(c)
  PROVE  /\ pc' \in [Conns -> Pcs] /\ beat' \in [Conns -> Beats]
         /\ \A b \in Conns : pc'[b] = "replacing" => pc[b] = "replacing"
         /\ \A b \in Conns : pc'[b] = pc[b] \/ (b = c /\ pc[b] = "registering" /\ pc'[b] = "ready")
BY Words DEF BeatEnds, ConnTypes

LEMMA ShutType ==
  ASSUME NetTypes, NEW c \in Conns, Shut(c)
  PROVE  sock' \in [Conns -> Socks] /\ event' \subseteq Conns
BY Words DEF NetTypes, Shut

LEMMA UnregisterType ==
  ASSUME ConnTypes, NEW c \in Conns, Unregister(c)
  PROVE  sweep' \in [Conns -> Sweeps]
BY Words DEF ConnTypes, Unregister

LEMMA NoteStaleType ==
  ASSUME RedisOK, NoteStale
  PROVE  stale' \subseteq Devices
BY DEF RedisOK, NoteStale

LEMMA Kept ==
  ASSUME TypeOK
  PROVE  /\ UNCHANGED net => NetTypes'
         /\ UNCHANGED redis => RedisOK'
         /\ UNCHANGED <<rushed, used>> => RestOK'
         /\ UNCHANGED <<pc, old>> => OldOK'
         /\ UNCHANGED <<pc, old, map, beat, sweep>> => ConnTypes'
<1>1. NetTypes /\ ConnTypes /\ RedisOK /\ OldOK /\ RestOK
  BY TypeParts
<1>2. UNCHANGED net => NetTypes'
  BY <1>1 DEF net, NetTypes
<1>3. UNCHANGED redis => RedisOK'
  BY <1>1 DEF redis, RedisOK
<1>4. UNCHANGED <<pc, old, map, beat, sweep>> => ConnTypes'
  BY <1>1 DEF ConnTypes
<1>5. UNCHANGED <<pc, old>> => OldOK'
  BY <1>1 DEF OldOK
<1>6. QED
  BY <1>1, <1>2, <1>3, <1>4, <1>5 DEF RestOK

LEMMA SetUpType ==
  ASSUME PresenceAssumption, TypeOK, NEW c \in Conns, Connect(c) \/ Refuse(c) \/ SetUp(c)
  PROVE  TypeOK'
<1>1. NetTypes /\ ConnTypes /\ RedisOK /\ OldOK /\ RestOK
  BY TypeParts
<1>2. SUFFICES NetTypes' /\ ConnTypes' /\ RedisOK' /\ OldOK' /\ RestOK'
  BY DEF TypeOK, NetOK, ConnOK, NetTypes, ConnTypes, OldOK, RestOK, Socks, Pcs, Beats, Sweeps
<1>3. CASE Connect(c)
  <2>1. NetTypes'
    BY <1>1, <1>3, Words DEF Connect, NetTypes
  <2>2. ConnTypes' /\ OldOK'
    BY <1>1, <1>3, Words DEF Connect, ConnTypes, OldOK
  <2>3. rushed' \in BOOLEAN
    BY <1>3, Zenon DEF Connect
  <2>4. QED
    BY <1>1, <1>3, <2>1, <2>2, <2>3, Kept DEF Connect, RestOK
<1>4. CASE Refuse(c)
  <2>1. NetTypes'
    BY <1>1, <1>4, Words DEF Refuse, NetTypes
  <2>2. ConnTypes' /\ OldOK'
    BY <1>1, <1>4, Words DEF Refuse, ConnTypes, OldOK
  <2>3. QED
    BY <1>1, <1>4, <2>1, <2>2, Kept DEF Refuse
<1>5. CASE ReadPrevious(c)
  <2>1. ConnTypes' /\ OldOK'
    BY <1>1, <1>5, Words DEF ReadPrevious, ConnTypes, OldOK
  <2>2. RedisOK'
    BY <1>1, <1>5, NoteStaleType DEF ReadPrevious, RedisOK
  <2>3. QED
    BY <1>1, <1>5, <2>1, <2>2, Kept DEF ReadPrevious
<1>6. CASE Enter(c)
  <2>1. ConnTypes' /\ OldOK'
    BY <1>1, <1>6, JoinType DEF Enter, ConnTypes, OldOK
  <2>2. QED
    BY <1>1, <1>6, <2>1, Kept DEF Enter
<1>7. CASE Replace(c)
  <2>1. Slot(c) \in Conns
    BY <1>1, <1>7, SlotType DEF Replace
  <2>2. map' \in [Nodes -> [Devices -> Conns \cup {None}]]
    BY <1>1, <1>7, SetSlotType DEF Replace
  <2>3. sweep' \in [Conns -> Sweeps]
    BY <1>1, <1>7, <2>1, UnregisterType DEF Replace
  <2>4. pc' = [pc EXCEPT ![c] = "replacing"] /\ old' = [old EXCEPT ![c] = Slot(c)]
    BY <1>7 DEF Replace
  <2>5. ConnTypes' /\ OldOK'
    <3> DEFINE x == Slot(c)
    <3>1. x \in Conns /\ x # None /\ beat' = beat
      BY <1>7, <2>1 DEF Replace, PresenceAssumption
    <3>2. old' = [old EXCEPT ![c] = x]
      BY <2>4
    <3> HIDE DEF x
    <3>3. ConnTypes'
      BY <1>1, <2>2, <2>3, <2>4, <3>1, <3>2, Words DEF ConnTypes
    <3>4. OldOK'
      BY <1>1, <2>4, <3>1, <3>2 DEF ConnTypes, OldOK
    <3>5. QED
      BY <3>3, <3>4
  <2>6. QED
    BY <1>1, <1>7, <2>5, Kept DEF Replace
<1>8. CASE TakeOver(c)
  <2>1. old[c] \in Conns
    BY <1>1, <1>8 DEF TakeOver, ConnTypes, OldOK
  <2>2. NetTypes'
    BY <1>1, <1>8, <2>1, ShutType DEF TakeOver, NetTypes
  <2>3. /\ map' \in [Nodes -> [Devices -> Conns \cup {None}]]
        /\ pc' \in [Conns -> Pcs] /\ beat' \in [Conns -> Beats]
        /\ \A b \in Conns : pc'[b] = "replacing" => pc[b] = "replacing" /\ b # c
    BY <1>1, <1>8, JoinType DEF TakeOver
  <2>4. old' = [old EXCEPT ![c] = None] /\ sweep' = sweep
    BY <1>8 DEF TakeOver
  <2>5. ConnTypes' /\ OldOK'
    BY <1>1, <2>3, <2>4 DEF ConnTypes, OldOK
  <2>6. QED
    BY <1>1, <1>8, <2>2, <2>5, Kept DEF TakeOver
<1>9. QED
  BY <1>3, <1>4, <1>5, <1>6, <1>7, <1>8 DEF SetUp

LEMMA BeatType ==
  ASSUME PresenceAssumption, TypeOK, NEW c \in Conns, Write(c) \/ BeatFails(c) \/ Ping(c)
  PROVE  TypeOK'
<1>1. NetTypes /\ ConnTypes /\ RedisOK /\ OldOK /\ RestOK
  BY TypeParts
<1>2. SUFFICES NetTypes' /\ ConnTypes' /\ RedisOK' /\ OldOK' /\ RestOK'
  BY DEF TypeOK, NetOK, ConnOK, NetTypes, ConnTypes, OldOK, RestOK, Socks, Pcs, Beats, Sweeps
<1>a. at[c] \in Nodes /\ DeviceOf[c] \in Devices
  BY <1>1, SlotType
<1>3. CASE WriteRegistry(c)
  <2>1. RedisOK'
    BY <1>1, <1>3, <1>a DEF WriteRegistry, RedisOK
  <2>2. ConnTypes' /\ OldOK'
    BY <1>1, <1>3, Words DEF WriteRegistry, ConnTypes, OldOK, conn
  <2>3. QED
    BY <1>3, <2>1, <2>2, Kept DEF WriteRegistry
<1>4. CASE WriteKey(c)
  <2>1. RedisOK'
    BY <1>1, <1>4, <1>a DEF WriteKey, RedisOK
  <2>2. ConnTypes' /\ OldOK'
    BY <1>1, <1>4, BeatEndsType DEF WriteKey, ConnTypes, OldOK
  <2>3. QED
    BY <1>4, <2>1, <2>2, Kept DEF WriteKey
<1>5. CASE BeatFails(c)
  <2>1. "error" \in Faults
    BY DEF Faults
  <2>2. used' \in [Faults -> Nat]
    BY <1>1, <1>5, <2>1, SpendType DEF BeatFails
  <2>3. ConnTypes' /\ OldOK'
    BY <1>1, <1>5, BeatEndsType DEF BeatFails, ConnTypes, OldOK
  <2>4. QED
    BY <1>1, <1>5, <2>2, <2>3, Kept DEF BeatFails, RestOK
<1>6. CASE Ping(c)
  <2>1. ConnTypes' /\ OldOK'
    BY <1>1, <1>6, Words DEF Ping, ConnTypes, OldOK, conn
  <2>2. QED
    BY <1>6, <2>1, Kept DEF Ping
<1>7. QED
  BY <1>3, <1>4, <1>5, <1>6 DEF Write

LEMMA ExpelType ==
  ASSUME PresenceAssumption, TypeOK, NEW c \in Conns, Expel(c)
  PROVE  TypeOK'
<1>1. NetTypes /\ ConnTypes /\ RedisOK /\ OldOK /\ RestOK
  BY TypeParts
<1>2. SUFFICES NetTypes' /\ ConnTypes' /\ RedisOK' /\ OldOK' /\ RestOK'
  BY DEF TypeOK, NetOK, ConnOK, NetTypes, ConnTypes, OldOK, RestOK, Socks, Pcs, Beats, Sweeps
<1>3. map' \in [Nodes -> [Devices -> Conns \cup {None}]]
  BY <1>1, SetSlotType DEF Expel
<1>4. sweep' \in [Conns -> Sweeps]
  BY <1>1, UnregisterType DEF Expel
<1>5. NetTypes'
  BY <1>1, ShutType DEF Expel, NetTypes
<1>6. ConnTypes' /\ OldOK'
  BY <1>1, <1>3, <1>4 DEF Expel, ConnTypes, OldOK, conn
<1>7. QED
  BY <1>5, <1>6, Kept DEF Expel

LEMMA LossType ==
  ASSUME PresenceAssumption, TypeOK, NEW c \in Conns,
         \/ Die(c) \/ Close(c) \/ HandleClose(c) \/ HeartbeatCheck(c) \/ DropClient(c)
         \/ Sweep(c) \/ SweepFails(c) \/ SendFailsLate(c)
  PROVE  TypeOK'
<1>1. NetTypes /\ ConnTypes /\ RedisOK /\ OldOK /\ RestOK
  BY TypeParts
<1>2. SUFFICES ASSUME ~(HeartbeatCheck(c) \/ DropClient(c))
               PROVE  NetTypes' /\ ConnTypes' /\ RedisOK' /\ OldOK' /\ RestOK'
  BY ExpelType DEF HeartbeatCheck, DropClient,
         TypeOK, NetOK, ConnOK, NetTypes, ConnTypes, OldOK, RestOK, Socks, Pcs, Beats, Sweeps
<1>a. DeviceOf[c] \in Devices
  BY <1>1, SlotType
<1>3. CASE Die(c)
  BY <1>1, <1>3, Words, Kept DEF Die, NetTypes, conn
<1>4. CASE Close(c)
  <2>1. NetTypes'
    BY <1>1, <1>4, ShutType DEF Close, NetTypes
  <2>2. QED
    BY <1>4, <2>1, Kept DEF Close, conn
<1>5. CASE HandleClose(c)
  <2>1. map' \in [Nodes -> [Devices -> Conns \cup {None}]] /\ sweep' \in [Conns -> Sweeps]
    BY <1>1, <1>5, SetSlotType, UnregisterType DEF HandleClose, ConnTypes
  <2>2. ConnTypes' /\ OldOK'
    BY <1>1, <1>5, <2>1 DEF HandleClose, ConnTypes, OldOK, conn
  <2>3. NetTypes'
    BY <1>1, <1>5 DEF HandleClose, NetTypes
  <2>4. QED
    BY <1>5, <2>2, <2>3, Kept DEF HandleClose
<1>6. CASE SweepRead(c)
  <2>1. RedisOK'
    BY <1>1, <1>6, NoteStaleType DEF SweepRead, RedisOK
  <2>2. ConnTypes' /\ OldOK'
    BY <1>1, <1>6, Words DEF SweepRead, ConnTypes, OldOK, conn
  <2>3. QED
    BY <1>6, <2>1, <2>2, Kept DEF SweepRead
<1>7. CASE SweepRegistry(c)
  <2>1. RedisOK'
    BY <1>1, <1>7, <1>a DEF SweepRegistry, RedisOK
  <2>2. ConnTypes' /\ OldOK'
    BY <1>1, <1>7, Words DEF SweepRegistry, ConnTypes, OldOK, conn
  <2>3. QED
    BY <1>7, <2>1, <2>2, Kept DEF SweepRegistry
<1>8. CASE SweepKey(c)
  <2>1. RedisOK'
    BY <1>1, <1>8, <1>a DEF SweepKey, RedisOK
  <2>2. ConnTypes' /\ OldOK'
    BY <1>1, <1>8, Words DEF SweepKey, ConnTypes, OldOK, conn
  <2>3. QED
    BY <1>8, <2>1, <2>2, Kept DEF SweepKey
<1>9. CASE SweepFails(c)
  <2>1. "error" \in Faults
    BY DEF Faults
  <2>2. used' \in [Faults -> Nat]
    BY <1>1, <1>9, <2>1, SpendType DEF SweepFails
  <2>3. ConnTypes' /\ OldOK'
    BY <1>1, <1>9, Words DEF SweepFails, ConnTypes, OldOK, conn
  <2>4. QED
    BY <1>1, <1>9, <2>2, <2>3, Kept DEF SweepFails, RestOK
<1>10. CASE SendFailsLate(c)
  <2>1. "error" \in Faults
    BY DEF Faults
  <2>2. used' \in [Faults -> Nat]
    BY <1>1, <1>10, <2>1, SpendType DEF SendFailsLate
  <2>3. sweep' \in [Conns -> Sweeps]
    BY <1>1, <1>10, UnregisterType DEF SendFailsLate
  <2>4. ConnTypes' /\ OldOK'
    BY <1>1, <1>10, <2>3 DEF SendFailsLate, ConnTypes, OldOK, conn
  <2>5. NetTypes'
    BY <1>1, <1>10, ShutType DEF SendFailsLate, NetTypes
  <2>6. QED
    BY <1>1, <1>10, <2>2, <2>4, <2>5, Kept DEF SendFailsLate, RestOK
<1>11. QED
  BY <1>2, <1>3, <1>4, <1>5, <1>6, <1>7, <1>8, <1>9, <1>10 DEF Sweep

LEMMA UnscannedType ==
  /\ Unscanned \in Scans
  /\ [Unscanned EXCEPT !.step = "due"] \in Scans
BY DEF Unscanned, Scans

\* The steps of reconcileNodeCounter.
LEMMA ReconcileType ==
  ASSUME RedisOK, RestOK, NEW n \in Nodes, Reconcile(n)
  PROVE  RedisOK' /\ used' \in [Faults -> Nat]
<1>1. /\ reg \in [Devices -> Nodes \cup {None}] /\ key \in [Devices -> BOOLEAN]
      /\ stale \subseteq Devices /\ scan \in [Nodes -> Scans]
  BY DEF RedisOK, Scans
<1>2. SUFFICES /\ reg' \in [Devices -> Nodes \cup {None}] /\ key' \in [Devices -> BOOLEAN]
               /\ stale' \subseteq Devices /\ scan' \in [Nodes -> Scans]
               /\ used' \in [Faults -> Nat]
  BY DEF RedisOK, Scans
<1>u. used \in [Faults -> Nat]
  BY DEF RestOK
<1>3. CASE ScanRead(n)
  <2> DEFINE ghosts == {d \in Devices : reg[d] = n /\ ~key[d]}
  <2>1. [step |-> "hdel", ghosts |-> ghosts] \in Scans
    BY DEF Scans
  <2>2. scan' \in [Nodes -> Scans]
    BY <1>1, <1>3, <2>1, UnscannedType DEF ScanRead
  <2>3. QED
    BY <1>1, <1>3, <1>u, <2>2 DEF ScanRead
<1>4. CASE ScanRegistry(n)
  <2>1. [scan[n] EXCEPT !.step = "del"] \in Scans
    BY <1>1 DEF Scans
  <2>2. scan' \in [Nodes -> Scans]
    BY <1>1, <1>4, <2>1 DEF ScanRegistry
  <2>3. reg' \in [Devices -> Nodes \cup {None}]
    BY <1>1, <1>4 DEF ScanRegistry
  <2>4. "error" \in Faults
    BY DEF Faults
  <2>5. used' \in [Faults -> Nat]
    BY <1>4, <1>u, <2>4, SpendType DEF ScanRegistry
  <2>6. QED
    BY <1>1, <1>4, <2>2, <2>3, <2>5 DEF ScanRegistry
<1>5. CASE ScanKey(n)
  <2>1. scan' \in [Nodes -> Scans]
    BY <1>1, <1>5, UnscannedType DEF ScanKey
  <2>2. key' \in [Devices -> BOOLEAN]
    BY <1>1, <1>5 DEF ScanKey
  <2>3. QED
    BY <1>1, <1>5, <1>u, <2>1, <2>2 DEF ScanKey
<1>6. QED
  BY <1>3, <1>4, <1>5 DEF Reconcile

LEMMA InitType ==
  ASSUME PresenceAssumption, Init
  PROVE  TypeOK
<1>1. NetTypes
  BY Words DEF Init, NetTypes
<1>2. ConnTypes /\ OldOK
  BY Words DEF Init, ConnTypes, OldOK
<1>3. RedisOK /\ RestOK
  BY UnscannedType DEF Init, RedisOK, RestOK, Scans
<1>4. QED
  BY <1>1, <1>2, <1>3, TypeParts

LEMMA CrashType ==
  ASSUME PresenceAssumption, TypeOK, NEW n \in Nodes, Crash(n)
  PROVE  TypeOK'
<1>1. NetTypes /\ ConnTypes /\ RedisOK /\ OldOK /\ RestOK
  BY TypeParts
<1>2. SUFFICES NetTypes' /\ ConnTypes' /\ RedisOK' /\ OldOK' /\ RestOK'
  BY DEF TypeOK, NetOK, ConnOK, NetTypes, ConnTypes, OldOK, RestOK, Socks, Pcs, Beats, Sweeps
<1> DEFINE mine == {c \in Conns : at[c] = n /\ pc[c] # "off"}
<1>3. /\ sock' = [c \in Conns |-> IF c \in mine THEN "closed" ELSE sock[c]]
      /\ event' = event \ mine
      /\ pc' = [c \in Conns |-> IF c \in mine THEN "gone" ELSE pc[c]]
      /\ old' = [c \in Conns |-> IF c \in mine THEN None ELSE old[c]]
      /\ map' = [map EXCEPT ![n] = [d \in Devices |-> None]]
      /\ beat' = [c \in Conns |-> IF c \in mine THEN "none" ELSE beat[c]]
      /\ sweep' = [c \in Conns |-> IF c \in mine THEN "none" ELSE sweep[c]]
      /\ at' = at
  BY DEF Crash
<1> HIDE DEF mine
<1>4. NetTypes'
  BY <1>1, <1>3, Words DEF NetTypes
<1>5. ConnTypes' /\ OldOK'
  BY <1>1, <1>3, Words DEF ConnTypes, OldOK
<1>6. "crash" \in Faults
  BY DEF Faults
<1>7. used' \in [Faults -> Nat]
  BY <1>1, <1>6, SpendType DEF Crash
<1>8. RedisOK' /\ rushed' = rushed
  BY <1>1, UnscannedType DEF Crash, RedisOK, Scans
<1>9. QED
  BY <1>1, <1>4, <1>5, <1>7, <1>8 DEF RestOK

LEMMA NextType ==
  ASSUME PresenceAssumption, TypeOK, [Next]_vars
  PROVE  TypeOK'
<1>1. NetTypes /\ ConnTypes /\ RedisOK /\ OldOK /\ RestOK
  BY TypeParts
<1>2. SUFFICES ASSUME ~(NetTypes' /\ ConnTypes' /\ RedisOK' /\ OldOK' /\ RestOK') PROVE TypeOK'
  BY DEF TypeOK, NetOK, ConnOK, NetTypes, ConnTypes, OldOK, RestOK, Socks, Pcs, Beats, Sweeps
<1>3. ASSUME NEW d \in Devices, CollectStale(d) \/ KeyExpires(d) PROVE FALSE
  <2>1. RedisOK'
    BY <1>1, <1>3 DEF CollectStale, KeyExpires, RedisOK
  <2>2. QED
    BY <1>2, <1>3, <2>1, Kept DEF CollectStale, KeyExpires, conn
<1>4. ASSUME NEW n \in Nodes, Reconcile(n) PROVE FALSE
  <2>1. RedisOK' /\ used' \in [Faults -> Nat]
    BY <1>1, <1>4, ReconcileType DEF RestOK
  <2>2. UNCHANGED <<net, conn, map, beat, sweep, rushed>>
    BY <1>4 DEF Reconcile, ScanRead, ScanRegistry, ScanKey
  <2>3. NetTypes' /\ ConnTypes' /\ OldOK'
    BY <1>1, <2>2 DEF net, conn, NetTypes, ConnTypes, OldOK
  <2>4. QED
    BY <1>1, <1>2, <2>1, <2>2, <2>3 DEF RestOK
<1>5. CASE UNCHANGED vars
  BY <1>2, <1>5, Kept DEF vars, conn
<1>6. QED
  BY <1>3, <1>4, <1>5, SetUpType, BeatType, LossType, CrashType DEF Next

\* Sockets, the memory of the nodes and the keys hold values of their types.
THEOREM TypeCorrect == Spec => []TypeOK
<1> USE PresenceAssumption
<1>1. Init => TypeOK
  BY InitType
<1>2. TypeOK /\ [Next]_vars => TypeOK'
  BY NextType
<1>3. QED
  BY <1>1, <1>2, PTL DEF Spec

-----------------------------------------------------------------------------
(* NoOrphan is not inductive: a socket can lose its slot to a newcomer, and  *)
(* what then terminates it is the newcomer's own set-up.                     *)

InMap == {"registering", "ready"}

\* The slot of a device, at a node, holds a socket of that device and node.
SlotsHold == \A n \in Nodes, d \in Devices :
  map[n][d] # None =>
     at[map[n][d]] = n /\ DeviceOf[map[n][d]] = d /\ pc[map[n][d]] \in InMap

\* A client that is being replaced had the slot of the one that replaces it.
OldsHold == \A b \in Conns :
  old[b] # None =>
     /\ pc[b] = "replacing" /\ pc[old[b]] \in InMap
     /\ at[old[b]] = at[b] /\ DeviceOf[old[b]] = DeviceOf[b]

\* A close event comes from a socket that is closed.
EventsLate == \A c \in event : sock[c] = "closed"

\* A socket that was never opened is not being set up.
Fresh == \A c \in Conns : sock[c] = "none" => pc[c] = "off"

\* One socket of a device is set up at a time.
OneSetUp == \A b, c \in Conns :
  SettingUp(b) /\ SettingUp(c) /\ DeviceOf[b] = DeviceOf[c] => b = c

\* So nobody takes the slot from the one that has just emptied it,
SlotKept == \A b \in Conns : pc[b] = "replacing" => Slot(b) = None

\* and no open socket is lost.
Reached == \A c \in Conns :
  sock[c] = "open" /\ pc[c] \in InMap => Slot(c) = c \/ \E b \in Conns : old[b] = c

Inv == /\ SlotsHold /\ OldsHold /\ EventsLate /\ Fresh
       /\ ~rushed => OneSetUp /\ SlotKept /\ Reached

LEMMA SlotSet ==
  ASSUME PresenceAssumption, TypeOK, NEW c \in Conns, NEW x, SetSlot(c, x), UNCHANGED at
  PROVE  /\ \A n \in Nodes, d \in Devices :
              map'[n][d] = IF n = at[c] /\ d = DeviceOf[c] THEN x ELSE map[n][d]
         /\ \A b \in Conns :
              Slot(b)' = IF at[b] = at[c] /\ DeviceOf[b] = DeviceOf[c] THEN x ELSE Slot(b)
<1>1. NetTypes /\ ConnTypes
  BY TypeParts
<1>2. \A b \in Conns : at[b] \in Nodes /\ DeviceOf[b] \in Devices
  BY <1>1, SlotType
<1>3. \A n \in Nodes, d \in Devices :
        map'[n][d] = IF n = at[c] /\ d = DeviceOf[c] THEN x ELSE map[n][d]
  BY <1>1, <1>2 DEF ConnTypes, SetSlot
<1>4. QED
  BY <1>2, <1>3 DEF Slot

LEMMA QuietSafe ==
  ASSUME Inv, UNCHANGED <<at, sock, event, pc, old, map, rushed>>
  PROVE  Inv'
BY DEF Inv, SlotsHold, OldsHold, EventsLate, Fresh, OneSetUp, SlotKept, Reached, Slot, SettingUp

\* A connection that begins, or ends before it is in the map.
LEMMA BeginSafe ==
  ASSUME PresenceAssumption, TypeOK, Inv, NEW c \in Conns,
         \/ Connect(c) \/ Refuse(c) \/ ReadPrevious(c) \/ Die(c) \/ Close(c)
         \/ SendFailsLate(c)
  PROVE  Inv'
<1>a. UNCHANGED <<at, old, map>>
  BY DEF Connect, Refuse, ReadPrevious, Die, Close, SendFailsLate, Shut, net, conn
<1>1. /\ UNCHANGED <<at, old, map>>
      /\ \A b \in Conns : Slot(b)' = Slot(b)
  BY <1>a DEF Slot
<1>b. /\ sock \in [Conns -> Socks] /\ pc \in [Conns -> Pcs]
      /\ sock[c] = "none" => pc[c] = "off"
  BY TypeParts DEF NetTypes, ConnTypes, Inv, Fresh
<1>2. /\ \A b \in Conns \ {c} : sock'[b] = sock[b] /\ pc'[b] = pc[b]
      /\ sock'[c] = "open" => sock[c] = "open" \/ pc'[c] = "init"
      /\ sock'[c] # "none" \/ (sock[c] = "none" /\ pc'[c] = pc[c])
      /\ pc[c] \in InMap \/ pc[c] = "replacing" => pc'[c] = pc[c]
      /\ pc'[c] \in InMap \/ pc'[c] = "replacing" => pc'[c] = pc[c]
  <2>1. CASE Connect(c)
    BY <1>b, <2>1 DEF Connect, InMap
  <2>2. CASE Refuse(c)
    BY <1>b, <2>2 DEF Refuse, InMap
  <2>3. CASE ReadPrevious(c)
    BY <1>b, <2>3 DEF ReadPrevious, InMap, net
  <2>4. CASE Die(c)
    BY <1>b, <2>4 DEF Die, conn
  <2>5. CASE Close(c)
    BY <1>b, <2>5 DEF Close, Shut, conn
  <2>6. CASE SendFailsLate(c)
    BY <1>b, <2>6, Words DEF SendFailsLate, Shut, conn
  <2>7. QED
    BY <2>1, <2>2, <2>3, <2>4, <2>5, <2>6
<1>c. Fresh'
  BY <1>2 DEF Inv, Fresh
<1>3. SlotsHold'
  BY <1>1, <1>2, TypeParts DEF Inv, SlotsHold, ConnTypes
<1>4. OldsHold'
  BY <1>1, <1>2, TypeParts DEF Inv, OldsHold, ConnTypes
<1>5. EventsLate'
  BY TypeParts DEF Inv, EventsLate, Connect, Refuse, ReadPrevious, Die, Close, SendFailsLate,
                    Shut, net, NetTypes
<1>6. ASSUME ~rushed' PROVE ~rushed /\ OneSetUp'
  <2>1. CASE Connect(c)
    <3>1. ~rushed /\ \A b \in Peers(c) : ~SettingUp(b)
      BY <1>6, <2>1 DEF Connect
    <3>2. \A b \in Conns \ {c} : DeviceOf[b] = DeviceOf[c] => ~SettingUp(b)'
      BY <1>2, <3>1 DEF Peers, SettingUp
    <3>3. QED
      BY <1>2, <3>1, <3>2 DEF Inv, OneSetUp, SettingUp
  <2>2. CASE ~Connect(c)
    <3>1. ~rushed /\ (SettingUp(c)' => SettingUp(c))
      BY <1>6, <2>2, TypeParts DEF Refuse, ReadPrevious, Die, Close, SendFailsLate, conn, SettingUp, ConnTypes
    <3>2. QED
      BY <1>2, <3>1 DEF Inv, OneSetUp, SettingUp
  <2>3. QED
    BY <2>1, <2>2
<1>7. ASSUME ~rushed' PROVE SlotKept'
  BY <1>1, <1>2, <1>6, <1>7 DEF Inv, SlotKept
<1>8. ASSUME ~rushed' PROVE Reached'
  BY <1>1, <1>2, <1>6, <1>8 DEF Inv, Reached, InMap
<1>9. QED
  BY <1>c, <1>3, <1>4, <1>5, <1>6, <1>7, <1>8 DEF Inv

\* A registration that ends only makes the connection ready.
LEMMA BeatEndsSafe ==
  ASSUME PresenceAssumption, TypeOK, Inv, NEW c \in Conns, BeatEnds(c),
         UNCHANGED <<net, old, map, rushed>>
  PROVE  Inv'
<1>1. \A b \in Conns : pc'[b] = pc[b] \/ (pc[b] = "registering" /\ pc'[b] = "ready")
  BY TypeParts, BeatEndsType
<1>2. UNCHANGED <<at, sock, event, old, map, rushed>> /\ \A b \in Conns : Slot(b)' = Slot(b)
  BY DEF net, Slot
<1>3. SlotsHold' /\ OldsHold' /\ EventsLate' /\ Fresh'
  BY <1>1, <1>2, TypeParts DEF Inv, SlotsHold, OldsHold, EventsLate, Fresh, InMap, ConnTypes
<1>4. OneSetUp => OneSetUp'
  BY <1>1, <1>2 DEF OneSetUp, SettingUp
<1>5. SlotKept => SlotKept'
  BY <1>1, <1>2 DEF SlotKept
<1>6. Reached => Reached'
  BY <1>1, <1>2 DEF Reached, InMap
<1>7. QED
  BY <1>2, <1>3, <1>4, <1>5, <1>6 DEF Inv

\* A client that leaves the map has a closed socket.
LEMMA LeaveSafe ==
  ASSUME PresenceAssumption, TypeOK, Inv, NEW c \in Conns,
         Slot(c) = c, SetSlot(c, None), sock'[c] = "closed",
         UNCHANGED <<at, conn, rushed>>,
         \A b \in Conns \ {c} : sock'[b] = sock[b],
         event' \subseteq event \cup {c}
  PROVE  Inv'
<1>1. /\ \A n \in Nodes, d \in Devices :
           map'[n][d] = IF n = at[c] /\ d = DeviceOf[c] THEN None ELSE map[n][d]
      /\ \A b \in Conns :
           Slot(b)' = IF at[b] = at[c] /\ DeviceOf[b] = DeviceOf[c] THEN None ELSE Slot(b)
  BY SlotSet
<1>2. UNCHANGED <<at, pc, old, rushed>>
  BY DEF conn
<1>3. SlotsHold'
  BY <1>1, <1>2 DEF Inv, SlotsHold
<1>4. OldsHold'
  BY <1>2 DEF Inv, OldsHold
<1>5. EventsLate'
  BY TypeParts DEF Inv, EventsLate, NetTypes
<1>a. Fresh'
  BY <1>2 DEF Inv, Fresh
<1>6. OneSetUp => OneSetUp'
  BY <1>2 DEF OneSetUp, SettingUp
<1>7. SlotKept => SlotKept'
  BY <1>1, <1>2 DEF SlotKept
<1>8. Reached => Reached'
  <2>1. SUFFICES ASSUME Reached, NEW b \in Conns, sock'[b] = "open", pc'[b] \in InMap
                 PROVE  Slot(b)' = b \/ \E a \in Conns : old'[a] = b
    BY DEF Reached
  <2>2. b # c /\ sock[b] = "open" /\ pc[b] \in InMap
    BY <1>2, <2>1
  <2>3. Slot(b) = b => ~(at[b] = at[c] /\ DeviceOf[b] = DeviceOf[c])
    BY <2>2 DEF Slot
  <2>4. QED
    BY <1>1, <1>2, <2>1, <2>2, <2>3 DEF Reached
<1>9. QED
  BY <1>a, <1>2, <1>3, <1>4, <1>5, <1>6, <1>7, <1>8 DEF Inv

\* The client in the slot leaves it to the one that is being set up.
LEMMA ReplaceSafe ==
  ASSUME PresenceAssumption, TypeOK, Inv, NEW c \in Conns, Replace(c)
  PROVE  Inv'
<1>1. /\ \A n \in Nodes, d \in Devices :
           map'[n][d] = IF n = at[c] /\ d = DeviceOf[c] THEN None ELSE map[n][d]
      /\ \A b \in Conns :
           Slot(b)' = IF at[b] = at[c] /\ DeviceOf[b] = DeviceOf[c] THEN None ELSE Slot(b)
  BY SlotSet DEF Replace, net
<1>2. UNCHANGED <<at, sock, event, rushed>>
  BY DEF Replace, net
<1> DEFINE x == Slot(c)
<1>3. /\ x \in Conns /\ at[x] = at[c] /\ DeviceOf[x] = DeviceOf[c] /\ pc[x] \in InMap
      /\ pc[c] = "joining"
  BY TypeParts, SlotType DEF Replace, Inv, SlotsHold, Slot
<1>4. /\ pc' = [pc EXCEPT ![c] = "replacing"] /\ old' = [old EXCEPT ![c] = x]
      /\ \A b \in Conns : Slot(b) = IF at[b] = at[c] /\ DeviceOf[b] = DeviceOf[c] THEN x ELSE Slot(b)
  BY DEF Replace, Slot
<1> HIDE DEF x
<1>5. /\ pc'[c] = "replacing" /\ \A b \in Conns \ {c} : pc'[b] = pc[b]
      /\ old'[c] = x /\ \A b \in Conns \ {c} : old'[b] = old[b]
      /\ old[c] = None \/ pc[c] = "replacing"
  BY <1>4, TypeParts DEF ConnTypes, Inv, OldsHold
<1>6. SlotsHold'
  BY <1>1, <1>2, <1>3, <1>5, TypeParts DEF Inv, SlotsHold, InMap, ConnTypes
<1>7. OldsHold'
  BY <1>2, <1>3, <1>5, TypeParts DEF Inv, OldsHold, InMap, ConnTypes
<1>8. EventsLate' /\ Fresh'
  BY <1>2, <1>3, <1>5 DEF Inv, EventsLate, Fresh
<1>9. OneSetUp => OneSetUp'
  BY <1>3, <1>5 DEF OneSetUp, SettingUp
<1>10. SlotKept => SlotKept'
  BY <1>1, <1>5 DEF SlotKept
<1>11. PresenceAssumption /\ Reached => Reached'
  <2>1. SUFFICES ASSUME Reached, NEW b \in Conns, sock'[b] = "open", pc'[b] \in InMap
                 PROVE  Slot(b)' = b \/ \E a \in Conns : old'[a] = b
    BY DEF Reached
  <2>2. b # c /\ sock[b] = "open" /\ pc[b] \in InMap
    BY <1>2, <1>5, <2>1 DEF InMap
  <2>3. CASE b = x
    BY <1>5, <2>3
  <2>4. CASE b # x
    <3>1. Slot(b) = b => Slot(b)' = b
      BY <1>1, <1>4, <2>4
    <3>2. \A a \in Conns : old[a] = b => old'[a] = b
      BY <1>3, <1>5 DEF PresenceAssumption
    <3>3. QED
      BY <2>1, <2>2, <3>1, <3>2 DEF Reached
  <2>5. QED
    BY <2>3, <2>4
<1>12. QED
  BY <1>2, <1>6, <1>7, <1>8, <1>9, <1>10, <1>11 DEF Inv

\* A connection enters the map, in an empty slot or in the one it has emptied.
LEMMA JoinSafe ==
  ASSUME PresenceAssumption, TypeOK, Inv, NEW c \in Conns, Enter(c) \/ TakeOver(c)
  PROVE  Inv'
<1>1. Join(c) /\ UNCHANGED <<at, rushed>>
  BY DEF Enter, TakeOver, net
<1>2. /\ \A n \in Nodes, d \in Devices :
           map'[n][d] = IF n = at[c] /\ d = DeviceOf[c] THEN c ELSE map[n][d]
      /\ \A b \in Conns :
           Slot(b)' = IF at[b] = at[c] /\ DeviceOf[b] = DeviceOf[c] THEN c ELSE Slot(b)
  BY <1>1, SlotSet DEF Join
<1>3. /\ pc[c] \in {"joining", "replacing"} /\ pc'[c] = "registering"
      /\ \A b \in Conns \ {c} : pc'[b] = pc[b]
  BY <1>1, TypeParts DEF Enter, TakeOver, Join, ConnTypes
<1>4. \A b \in Conns \ {c} : old'[b] = old[b]
  BY TypeParts DEF Enter, TakeOver, ConnTypes
<1>5. old'[c] = None
  BY TypeParts DEF Enter, TakeOver, ConnTypes, Inv, OldsHold
<1>6. \A b \in Conns : \/ sock'[b] = sock[b] /\ (b \in event' => b \in event)
                       \/ sock'[b] = "closed" /\ b = old[c]
  BY TypeParts DEF Enter, TakeOver, Shut, net, NetTypes
<1>7. \A b \in Conns : sock'[b] = "open" => b # old[c] /\ sock[b] = "open"
  <2>1. CASE Enter(c)
    BY <2>1, TypeParts DEF Enter, net, Inv, OldsHold, ConnTypes, PresenceAssumption
  <2>2. CASE TakeOver(c)
    BY <2>2, TypeParts DEF TakeOver, Shut, NetTypes
  <2>3. QED
    BY <2>1, <2>2
<1>8. SlotsHold'
  BY <1>1, <1>2, <1>3, TypeParts DEF Inv, SlotsHold, InMap, ConnTypes
<1>9. OldsHold'
  BY <1>1, <1>3, <1>4, <1>5, TypeParts DEF Inv, OldsHold, InMap, ConnTypes
<1>10. EventsLate' /\ Fresh'
  <2>1. event' \subseteq Conns
    BY TypeParts DEF Enter, TakeOver, Shut, net, NetTypes, ConnTypes, OldOK
  <2>2. \A b \in Conns : sock'[b] = "none" => sock[b] = "none"
    BY <1>6
  <2>3. QED
    BY <1>3, <1>6, <2>1, <2>2 DEF Inv, EventsLate, Fresh
<1>11. OneSetUp => OneSetUp'
  BY <1>3 DEF OneSetUp, SettingUp
<1>12. ASSUME OneSetUp, SlotKept PROVE SlotKept' /\ Slot(c) = None
  <2>1. Slot(c) = None
    BY <1>12 DEF Enter, TakeOver, SlotKept
  <2>2. \A b \in Conns \ {c} : DeviceOf[b] = DeviceOf[c] => pc[b] # "replacing"
    BY <1>3, <1>12 DEF OneSetUp, SettingUp
  <2>3. QED
    BY <1>2, <1>3, <1>12, <2>1, <2>2 DEF SlotKept
<1>13. ASSUME OneSetUp, SlotKept, Reached PROVE Reached'
  <2>1. SUFFICES ASSUME NEW b \in Conns, b # c, sock'[b] = "open", pc'[b] \in InMap
                 PROVE  Slot(b)' = b \/ \E a \in Conns : old'[a] = b
    BY <1>2, <1>3 DEF Reached
  <2>2. sock[b] = "open" /\ pc[b] \in InMap /\ b # old[c]
    BY <1>3, <1>7, <2>1
  <2>3. CASE Slot(b) = b
    <3>1. ~(at[b] = at[c] /\ DeviceOf[b] = DeviceOf[c])
      BY <1>12, <1>13, <2>3 DEF Slot, PresenceAssumption
    <3>2. QED
      BY <1>2, <2>3, <3>1
  <2>4. CASE \E a \in Conns : old[a] = b
    BY <1>4, <2>2, <2>4
  <2>5. QED
    BY <1>13, <2>2, <2>3, <2>4 DEF Reached
<1>14. QED
  BY <1>1, <1>8, <1>9, <1>10, <1>11, <1>12, <1>13 DEF Inv

LEMMA CrashSafe ==
  ASSUME PresenceAssumption, TypeOK, Inv, NEW n \in Nodes, Crash(n)
  PROVE  Inv'
<1> DEFINE mine == {c \in Conns : at[c] = n /\ pc[c] # "off"}
<1>1. /\ sock' = [c \in Conns |-> IF c \in mine THEN "closed" ELSE sock[c]]
      /\ event' = event \ mine
      /\ pc' = [c \in Conns |-> IF c \in mine THEN "gone" ELSE pc[c]]
      /\ old' = [c \in Conns |-> IF c \in mine THEN None ELSE old[c]]
      /\ map' = [map EXCEPT ![n] = [d \in Devices |-> None]]
      /\ UNCHANGED <<at, rushed>>
  BY DEF Crash
<1>2. \A c \in Conns : (pc[c] # "off" /\ at[c] = n) <=> c \in mine
  OBVIOUS
<1> HIDE DEF mine
<1>3. \A m \in Nodes, d \in Devices : map'[m][d] = IF m = n THEN None ELSE map[m][d]
  BY <1>1, TypeParts DEF ConnTypes
<1>4. \A c \in Conns : Slot(c)' = IF at[c] = n THEN None ELSE Slot(c)
  BY <1>1, <1>3, TypeParts, SlotType DEF Slot
<1>5. SlotsHold'
  BY <1>1, <1>2, <1>3, TypeParts DEF Inv, SlotsHold, ConnTypes
<1>6. OldsHold'
  BY <1>1, <1>2, TypeParts DEF Inv, OldsHold, ConnTypes, InMap
<1>7. EventsLate' /\ Fresh'
  BY <1>1, <1>2, TypeParts DEF Inv, EventsLate, Fresh, NetTypes
<1>8. OneSetUp => OneSetUp'
  BY <1>1 DEF OneSetUp, SettingUp
<1>9. SlotKept => SlotKept'
  BY <1>1, <1>4 DEF SlotKept
<1>10. Reached => Reached'
  <2>1. SUFFICES ASSUME Reached, NEW c \in Conns, sock'[c] = "open", pc'[c] \in InMap
                 PROVE  Slot(c)' = c \/ \E a \in Conns : old'[a] = c
    BY DEF Reached
  <2>2. sock[c] = "open" /\ pc[c] \in InMap /\ at[c] # n
    BY <1>1, <1>2, <2>1 DEF InMap
  <2>3. \A a \in Conns : old[a] = c => a \notin mine
    BY <1>2, <2>2, TypeParts DEF Inv, OldsHold, PresenceAssumption
  <2>4. QED
    BY <1>1, <1>4, <2>1, <2>2, <2>3 DEF Reached
<1>11. QED
  BY <1>1, <1>5, <1>6, <1>7, <1>8, <1>9, <1>10 DEF Inv

LEMMA NextSafe ==
  ASSUME PresenceAssumption, TypeOK, Inv, [Next]_vars
  PROVE  Inv'
<1>1. ASSUME NEW c \in Conns, WriteKey(c) \/ BeatFails(c) PROVE Inv'
  BY <1>1, BeatEndsSafe DEF WriteKey, BeatFails
<1>2. ASSUME NEW c \in Conns, HandleClose(c) PROVE Inv'
  <2>1. CASE pc[c] = "ready" /\ Slot(c) = c
    <3>1. sock'[c] = "closed"
      BY <1>2 DEF HandleClose, Inv, EventsLate
    <3>2. QED
      BY <1>2, <2>1, <3>1, LeaveSafe DEF HandleClose
  <2>2. CASE ~(pc[c] = "ready" /\ Slot(c) = c)
    <3>1. UNCHANGED <<at, sock, conn, map, rushed>> /\ event' = event \ {c}
      BY <1>2, <2>2 DEF HandleClose
    <3>2. QED
      BY <3>1 DEF Inv, SlotsHold, OldsHold, EventsLate, Fresh, OneSetUp, SlotKept, Reached,
                  Slot, SettingUp, conn
  <2>3. QED
    BY <2>1, <2>2
<1>3. ASSUME NEW c \in Conns, HeartbeatCheck(c) \/ DropClient(c) PROVE Inv'
  <2>1. Expel(c)
    BY <1>3 DEF HeartbeatCheck, DropClient
  <2>2. /\ sock'[c] = "closed" /\ \A b \in Conns \ {c} : sock'[b] = sock[b]
        /\ event' \subseteq event \cup {c}
    BY <2>1, TypeParts DEF Expel, Shut, NetTypes
  <2>3. QED
    BY <2>1, <2>2, LeaveSafe DEF Expel
<1>4. ASSUME NEW c \in Conns,
             WriteRegistry(c) \/ Ping(c) \/ Sweep(c) \/ SweepFails(c)
      PROVE  Inv'
  BY <1>4, QuietSafe DEF WriteRegistry, Ping, Sweep, SweepRead, SweepRegistry, SweepKey,
                         SweepFails, net, conn
<1>5. ASSUME NEW d \in Devices, CollectStale(d) \/ KeyExpires(d) PROVE Inv'
  BY <1>5, QuietSafe DEF CollectStale, KeyExpires, net, conn
<1>6. ASSUME NEW n \in Nodes, Reconcile(n) PROVE Inv'
  BY <1>6, QuietSafe DEF Reconcile, ScanRead, ScanRegistry, ScanKey, net, conn
<1>7. CASE UNCHANGED vars
  BY <1>7, QuietSafe DEF vars, net, conn
<1>8. QED
  BY <1>1, <1>2, <1>3, <1>4, <1>5, <1>6, <1>7,
     BeginSafe, ReplaceSafe, JoinSafe, CrashSafe DEF Next, SetUp, Write

\* Unless two sockets of a device are set up at once, a socket that is open and
\* set up is in the map of its node or about to be terminated by the one that
\* takes its slot.
THEOREM NobodyOrphaned == Spec => []NoOrphan
<1> USE PresenceAssumption
<1>1. Init => Inv
  <2>1. SUFFICES ASSUME Init PROVE Inv
    OBVIOUS
  <2>2. SlotsHold /\ OldsHold /\ EventsLate /\ Fresh
    BY <2>1 DEF Init, SlotsHold, OldsHold, EventsLate, Fresh
  <2>3. OneSetUp /\ SlotKept /\ Reached
    BY <2>1 DEF Init, OneSetUp, SlotKept, Reached, SettingUp, InMap
  <2>4. QED
    BY <2>2, <2>3 DEF Inv
<1>2. TypeOK /\ Inv /\ [Next]_vars => Inv'
  BY NextSafe
<1>3. Inv => NoOrphan
  BY DEF Inv, Reached, NoOrphan, InMap
<1>4. QED
  BY <1>1, <1>2, <1>3, TypeCorrect, PTL DEF Spec

=============================================================================
