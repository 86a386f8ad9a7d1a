------------------------------ MODULE WsPresence ------------------------------
(***************************************************************************)
(* The WebSocket connections of one user and the presence derived from     *)
(* them: the map of clients of each node (WsServer) and the keys in Redis  *)
(* (WebSocketPresenceManager).  What runs between two awaits is one        *)
(* action; setting a connection up, a heartbeat and the cleanup of a       *)
(* client take several, and they interleave on a node and across nodes.    *)
(*                                                                         *)
(* A client pings well within the idle timeout, and that is shorter than   *)
(* the TTL of a key: a socket that answers is neither swept nor forgotten. *)
(* The announcement of a change to other users only reads this state and   *)
(* is left out.                                                            *)
(***************************************************************************)
EXTENDS Naturals, FiniteSets

CONSTANTS
  Devices,     \* device ids of the user
  Nodes,       \* server processes
  Conns,       \* sockets, each used once
  DeviceOf,    \* device that opens the socket
  None,
  MaxErrors,   \* calls that fail: of a heartbeat, of a cleanup, a send
  MaxCrashes   \* nodes that die

ASSUME PresenceAssumption ==
  /\ DeviceOf \in [Conns -> Devices]
  /\ None \notin Conns /\ None \notin Nodes
  /\ MaxErrors \in Nat /\ MaxCrashes \in Nat

VARIABLES
  at,         \* node that accepts each socket
  sock,       \* state of each socket, as the network has it
  event,      \* sockets whose close event has not been handled yet
  pc,         \* where initAuthenticatedConnection is
  old,        \* the client that is being replaced
  map,        \* clients of each node: the connection in the slot of a device
  beat,       \* the Redis write a heartbeat or a registration is at
  sweep,      \* the step unregisterClient is at
  reg, key,   \* Redis: registry of devices, short-lived key of each
  stale,      \* registry entries a reader found without a key
  scan,       \* the step reconcileNodeCounter of each node is at, and the
              \* devices it found
  rushed,     \* history: were two sockets of a device set up at once?
  used        \* faults used up

net   == <<at, sock, event>>
conn  == <<pc, old>>
redis == <<reg, key, stale, scan>>
vars  == <<net, conn, map, beat, sweep, redis, rushed, used>>

Faults == {"error", "crash"}
Limit  == [error |-> MaxErrors, crash |-> MaxCrashes]
Spend(k) == used[k] < Limit[k] /\ used' = [used EXCEPT ![k] = @ + 1]

Peers(c)     == {b \in Conns \ {c} : DeviceOf[b] = DeviceOf[c]}
SettingUp(c) == pc[c] \in {"init", "joining", "replacing", "registering"}
Slot(c)      == map[at[c]][DeviceOf[c]]
SetSlot(c, x) == map' = [map EXCEPT ![at[c]][DeviceOf[c]] = x]

\* getOnlineDeviceIds: a registered device with a key.  A reader also removes,
\* later, the entries it found without one.
Online    == \E d \in Devices : reg[d] # None /\ key[d]
NoteStale == stale' = stale \cup {d \in Devices : reg[d] # None /\ ~key[d]}

Unscanned == [step |-> "off", ghosts |-> {}]

Init ==
  /\ at \in [Conns -> Nodes]
  /\ sock = [c \in Conns |-> "none"] /\ event = {}
  /\ pc = [c \in Conns |-> "off"] /\ old = [c \in Conns |-> None]
  /\ map = [n \in Nodes |-> [d \in Devices |-> None]]
  /\ beat = [c \in Conns |-> "none"] /\ sweep = [c \in Conns |-> "none"]
  /\ reg = [d \in Devices |-> None] /\ key = [d \in Devices |-> FALSE]
  /\ stale = {} /\ scan = [n \in Nodes |-> Unscanned]
  /\ rushed = FALSE /\ used = [k \in Faults |-> 0]

-----------------------------------------------------------------------------
(* Setting a connection up: initAuthenticatedConnection *)

Connect(c) ==
  /\ sock[c] = "none"
  /\ sock' = [sock EXCEPT ![c] = "open"]
  /\ pc' = [pc EXCEPT ![c] = "init"]
  /\ rushed' = (rushed \/ \E b \in Peers(c) : SettingUp(b))
  /\ UNCHANGED <<at, event, old, map, beat, sweep, redis, used>>

\* The session is refused, or a query fails: the node closes the socket.
Refuse(c) ==
  /\ pc[c] = "init"
  /\ pc' = [pc EXCEPT ![c] = "gone"]
  /\ sock' = [sock EXCEPT ![c] = "closed"]
  /\ event' = event \ {c}
  /\ UNCHANGED <<at, old, map, beat, sweep, redis, rushed, used>>

\* getPresenceSummary, for the announcement.
ReadPrevious(c) ==
  /\ pc[c] = "init"
  /\ pc' = [pc EXCEPT ![c] = "joining"]
  /\ NoteStale
  /\ UNCHANGED <<net, old, map, beat, sweep, reg, key, scan, rushed, used>>

\* The client enters the map, and registerPresence begins.
Join(c) ==
  /\ SetSlot(c, c)
  /\ pc' = [pc EXCEPT ![c] = "registering"]
  /\ beat' = [beat EXCEPT ![c] = "hset"]

Enter(c) ==
  /\ pc[c] = "joining" /\ Slot(c) = None
  /\ Join(c)
  /\ UNCHANGED <<net, old, sweep, redis, rushed, used>>

\* unregisterClient up to its first await.
Unregister(c) == sweep' = [sweep EXCEPT ![c] = "read"]

\* Mutant: which client is being replaced is looked up again afterwards.
ReplaceForgets(c) ==
  /\ pc[c] = "joining" /\ Slot(c) # None
  /\ pc' = [pc EXCEPT ![c] = "replacing"]
  /\ SetSlot(c, None)
  /\ Unregister(Slot(c))
  /\ UNCHANGED <<net, old, beat, redis, rushed, used>>

\* The slot is taken: the client in it leaves the map and is unregistered.
Replace(c) ==
  /\ pc[c] = "joining" /\ Slot(c) # None
  /\ pc' = [pc EXCEPT ![c] = "replacing"]
  /\ old' = [old EXCEPT ![c] = Slot(c)]
  /\ SetSlot(c, None)
  /\ Unregister(Slot(c))
  /\ UNCHANGED <<net, beat, redis, rushed, used>>

\* terminate() or close(): the close event comes later, and once.
Shut(c) ==
  /\ sock' = [sock EXCEPT ![c] = "closed"]
  /\ event' = IF sock[c] \in {"open", "dead"} THEN event \cup {c} ELSE event

\* Mutant: the socket that was replaced is not terminated.
TakeOverLeaving(c) ==
  /\ pc[c] = "replacing" /\ sweep[old[c]] = "done"
  /\ old' = [old EXCEPT ![c] = None]
  /\ Join(c)
  /\ UNCHANGED <<net, sweep, redis, rushed, used>>

\* That cleanup was awaited; now the old socket is terminated and the slot
\* taken, whoever has it by now.
TakeOver(c) ==
  /\ pc[c] = "replacing" /\ sweep[old[c]] = "done"
  /\ Shut(old[c])
  /\ old' = [old EXCEPT ![c] = None]
  /\ Join(c)
  /\ UNCHANGED <<at, sweep, redis, rushed, used>>

-----------------------------------------------------------------------------
(* registerPresence and refreshPresence *)

\* The connection is ready when its registration ends, even in an error.
BeatEnds(c) ==
  /\ beat' = [beat EXCEPT ![c] = "none"]
  /\ pc' = [pc EXCEPT ![c] = IF @ = "registering" THEN "ready" ELSE @]

BeatFails(c) ==
  /\ beat[c] # "none" /\ Spend("error")
  /\ BeatEnds(c)
  /\ UNCHANGED <<net, old, map, sweep, redis, rushed>>

\* Mutant: a heartbeat renews the key only.
WriteRegistryNot(c) ==
  /\ beat[c] = "hset"
  /\ beat' = [beat EXCEPT ![c] = "set"]
  /\ reg' = IF pc[c] = "ready" THEN reg ELSE [reg EXCEPT ![DeviceOf[c]] = at[c]]
  /\ UNCHANGED <<net, conn, map, sweep, key, stale, scan, rushed, used>>

WriteRegistry(c) ==
  /\ beat[c] = "hset"
  /\ reg' = [reg EXCEPT ![DeviceOf[c]] = at[c]]
  /\ beat' = [beat EXCEPT ![c] = "set"]
  /\ UNCHANGED <<net, conn, map, sweep, key, stale, scan, rushed, used>>

WriteKey(c) ==
  /\ beat[c] = "set"
  /\ key' = [key EXCEPT ![DeviceOf[c]] = TRUE]
  /\ BeatEnds(c)
  /\ UNCHANGED <<net, old, map, sweep, reg, stale, scan, rushed, used>>

\* handlePing, of any socket that is open.  (One that finds both keys changes
\* nothing.)
Ping(c) ==
  /\ pc[c] = "ready" /\ sock[c] = "open" /\ beat[c] = "none"
  /\ reg[DeviceOf[c]] # at[c] \/ ~key[DeviceOf[c]]
  /\ beat' = [beat EXCEPT ![c] = "hset"]
  /\ UNCHANGED <<net, conn, map, sweep, redis, rushed, used>>

-----------------------------------------------------------------------------
(* Losing a connection *)

\* The peer is gone and the node does not know.
Die(c) ==
  /\ sock[c] = "open" /\ sock' = [sock EXCEPT ![c] = "dead"]
  /\ UNCHANGED <<at, event, conn, map, beat, sweep, redis, rushed, used>>

\* The socket closes or errs.
Close(c) ==
  /\ sock[c] \in {"open", "dead"} /\ Shut(c)
  /\ UNCHANGED <<at, conn, map, beat, sweep, redis, rushed, used>>

\* The close event: nothing while the connection is being set up, and nothing
\* when the slot is not its own any more.
HandleClose(c) ==
  /\ c \in event
  /\ event' = event \ {c}
  /\ IF pc[c] = "ready" /\ Slot(c) = c
     THEN SetSlot(c, None) /\ Unregister(c)
     ELSE UNCHANGED <<map, sweep>>
  /\ UNCHANGED <<at, sock, conn, beat, redis, rushed, used>>

\* Has the client been silent for heartbeatTimeoutMs?
Silent(c) == sock[c] \in {"dead", "closed"}

\* A client leaves the map, is unregistered, and its socket is shut.
Expel(c) ==
  /\ Slot(c) = c
  /\ SetSlot(c, None) /\ Shut(c) /\ Unregister(c)
  /\ UNCHANGED <<at, conn, beat, redis, rushed, used>>

\* The scan of startHeartbeatCheck.
HeartbeatCheck(c) == Silent(c) /\ Expel(c)

\* A send that fails, or a session that is revoked.
DropClient(c) == sock[c] \in {"open", "dead"} /\ Expel(c)

\* The callback of a send that failed does the same when it comes after the
\* client has left the map, whoever has the slot by now.
SendFailsLate(c) ==
  /\ pc[c] = "ready" /\ Slot(c) # c /\ sweep[c] \in {"none", "done"} /\ Spend("error")
  /\ Shut(c) /\ Unregister(c)
  /\ UNCHANGED <<at, conn, map, beat, redis, rushed>>

\* unregisterClient goes on: presence is read, then entry and key of the
\* device are deleted, whoever wrote them last.
SweepRead(c) ==
  /\ sweep[c] = "read"
  /\ sweep' = [sweep EXCEPT ![c] = "hdel"]
  /\ NoteStale
  /\ UNCHANGED <<net, conn, map, beat, reg, key, scan, rushed, used>>

SweepRegistry(c) ==
  /\ sweep[c] = "hdel"
  /\ reg' = [reg EXCEPT ![DeviceOf[c]] = None]
  /\ sweep' = [sweep EXCEPT ![c] = "del"]
  /\ UNCHANGED <<net, conn, map, beat, key, stale, scan, rushed, used>>

SweepKey(c) ==
  /\ sweep[c] = "del"
  /\ key' = [key EXCEPT ![DeviceOf[c]] = FALSE]
  /\ sweep' = [sweep EXCEPT ![c] = "done"]
  /\ UNCHANGED <<net, conn, map, beat, reg, stale, scan, rushed, used>>

SweepFails(c) ==
  /\ sweep[c] \in {"read", "hdel", "del"} /\ Spend("error")
  /\ sweep' = [sweep EXCEPT ![c] = "done"]
  /\ UNCHANGED <<net, conn, map, beat, redis, rushed>>

\* The hdel of a reader that found an entry without a key.
CollectStale(d) ==
  /\ d \in stale
  /\ stale' = stale \ {d}
  /\ reg' = [reg EXCEPT ![d] = None]
  /\ UNCHANGED <<net, conn, map, beat, sweep, key, scan, rushed, used>>

\* The TTL of a key that no client renews any more.
KeyExpires(d) ==
  /\ key[d]
  /\ \A c \in Conns : DeviceOf[c] = d => ~(sock[c] = "open" /\ pc[c] = "ready")
  /\ key' = [key EXCEPT ![d] = FALSE]
  /\ UNCHANGED <<net, conn, map, beat, sweep, reg, stale, scan, rushed, used>>

\* A node dies: its memory and its sockets are gone.  When it starts again it
\* is to look for the devices it left registered.
Crash(n) ==
  LET mine == {c \in Conns : at[c] = n /\ pc[c] # "off"}
      Gone(f, x) == [c \in Conns |-> IF c \in mine THEN x ELSE f[c]]
  IN
  /\ mine # {} /\ Spend("crash")
  /\ sock' = Gone(sock, "closed") /\ event' = event \ mine
  /\ pc' = Gone(pc, "gone") /\ old' = Gone(old, None)
  /\ map' = [map EXCEPT ![n] = [d \in Devices |-> None]]
  /\ beat' = Gone(beat, "none") /\ sweep' = Gone(sweep, "none")
  /\ scan' = [scan EXCEPT ![n] = [Unscanned EXCEPT !.step = "due"]]
  /\ UNCHANGED <<at, reg, key, stale, rushed>>

\* reconcileNodeCounter, beside the first connections: devices registered for
\* this node without a key are noted, then removed; an error is ignored.
ScanRead(n) ==
  LET ghosts == {d \in Devices : reg[d] = n /\ ~key[d]}
  IN
  /\ scan[n].step = "due"
  /\ scan' = [scan EXCEPT ![n] = IF ghosts = {} THEN Unscanned
                                 ELSE [step |-> "hdel", ghosts |-> ghosts]]
  /\ UNCHANGED <<net, conn, map, beat, sweep, reg, key, stale, rushed, used>>

ScanRegistry(n) ==
  /\ scan[n].step = "hdel"
  /\ scan' = [scan EXCEPT ![n].step = "del"]
  /\ \/ reg' = [d \in Devices |-> IF d \in scan[n].ghosts THEN None ELSE reg[d]]
        /\ UNCHANGED used
     \/ UNCHANGED reg /\ Spend("error")
  /\ UNCHANGED <<net, conn, map, beat, sweep, key, stale, rushed>>

\* Their keys are deleted too, should they have any by now.
ScanKey(n) ==
  /\ scan[n].step = "del"
  /\ scan' = [scan EXCEPT ![n] = Unscanned]
  /\ key' = [d \in Devices |-> key[d] /\ d \notin scan[n].ghosts]
  /\ UNCHANGED <<net, conn, map, beat, sweep, reg, stale, rushed, used>>

-----------------------------------------------------------------------------
SetUp(c) == ReadPrevious(c) \/ Enter(c) \/ Replace(c) \/ TakeOver(c)
Write(c) == WriteRegistry(c) \/ WriteKey(c)
Sweep(c) == SweepRead(c) \/ SweepRegistry(c) \/ SweepKey(c)
Reconcile(n) == ScanRead(n) \/ ScanRegistry(n) \/ ScanKey(n)

Next ==
  \/ \E c \in Conns : \/ Connect(c) \/ Refuse(c) \/ SetUp(c) \/ Write(c) \/ BeatFails(c)
                      \/ Ping(c) \/ Die(c) \/ Close(c) \/ HandleClose(c)
                      \/ HeartbeatCheck(c) \/ DropClient(c) \/ SendFailsLate(c)
                      \/ Sweep(c) \/ SweepFails(c)
  \/ \E d \in Devices : CollectStale(d) \/ KeyExpires(d)
  \/ \E n \in Nodes : Crash(n) \/ Reconcile(n)

Spec == Init /\ [][Next]_vars

\* What a node began goes on, its scan and Redis's clock tick, and clients
\* that are there ping.
Fairness ==
  /\ \A c \in Conns :
       /\ WF_vars(SetUp(c)) /\ WF_vars(Write(c)) /\ WF_vars(Ping(c))
       /\ WF_vars(HandleClose(c)) /\ WF_vars(HeartbeatCheck(c)) /\ WF_vars(Sweep(c))
  /\ \A d \in Devices : WF_vars(CollectStale(d)) /\ WF_vars(KeyExpires(d))

FairSpec == Spec /\ Fairness

-----------------------------------------------------------------------------
(* Properties *)

NetOK == /\ at \in [Conns -> Nodes]
         /\ sock \in [Conns -> {"none", "open", "dead", "closed"}]
         /\ event \subseteq Conns

ConnOK == /\ pc \in [Conns -> {"off", "init", "joining", "replacing", "registering", "ready", "gone"}]
          /\ old \in [Conns -> Conns \cup {None}]
          /\ map \in [Nodes -> [Devices -> Conns \cup {None}]]
          /\ beat \in [Conns -> {"none", "hset", "set"}]
          /\ sweep \in [Conns -> {"none", "read", "hdel", "del", "done"}]

RedisOK == /\ reg \in [Devices -> Nodes \cup {None}] /\ key \in [Devices -> BOOLEAN]
           /\ stale \subseteq Devices
           /\ scan \in [Nodes -> [step : {"off", "due", "hdel", "del"}, ghosts : SUBSET Devices]]

\* Sockets, memory and keys hold values of their types, and a connection that
\* replaces one knows which.
TypeOK == /\ NetOK /\ ConnOK /\ RedisOK
          /\ \A c \in Conns : pc[c] = "replacing" => old[c] # None
          /\ rushed \in BOOLEAN /\ used \in [Faults -> Nat]

\* Messages are delivered to this socket.
Linked(c) == Slot(c) = c /\ sock[c] = "open"

\* Unless two sockets of a device are set up at once, one that is open and set
\* up is in the map of its node, or the one that takes its slot is about to
\* terminate it: no socket stays open that nothing is delivered to.
NoOrphan ==
  ~rushed => \A c \in Conns :
     sock[c] = "open" /\ pc[c] = "ready" =>
        Slot(c) = c \/ \E b \in Conns : old[b] = c

\* In the end presence tells the truth: the user is online just when a socket
\* is linked.  Keys wiped by the cleanup of an older socket, half-open sockets,
\* failed writes, dead nodes and closes during the set-up all heal.
PresenceHeals == <>[](~rushed => (Online <=> \E c \in Conns : Linked(c)))

=============================================================================
