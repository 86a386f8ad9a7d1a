--------------------------- MODULE ConversationLog ---------------------------
(***************************************************************************)
(* One group conversation in PostgreSQL: the rows of conversations,        *)
(* conversation_members, conversation_user_state and messages, and the     *)
(* delivery events that saveMessage and the group mutations put into       *)
(* message_outbox.  Requests run concurrently as READ COMMITTED            *)
(* transactions.  A transaction is modelled at the points where another    *)
(* one can get in between: the reads it decides upon, each row lock it     *)
(* waits for, and its commit, which publishes all it wrote.  The UPDATE    *)
(* that allocates a sequence locks the conversation row until then.        *)
(***************************************************************************)
EXTENDS Integers, FiniteSets

CONSTANTS
  Users,      \* all users
  Owner,      \* who creates the group
  Founders,   \* its first members, Owner included
  Cids,       \* client_message_id values
  Txs,        \* how many requests the server runs at a time
  Ops,        \* bound: the kinds of request this instance issues
  InviteAll,  \* settings.invite_permission = "all_members"
  MaxOps,     \* bound: requests in a behaviour
  None        \* SQL NULL: no lock holder, no client id, the system as sender

MEMBER == 0  ADMIN == 1  OWNER == 2

LogAssumption ==
  /\ Owner \in Founders /\ Founders \subseteq Users /\ IsFiniteSet(Users)
  /\ InviteAll \in BOOLEAN /\ MaxOps \in Nat
  /\ None \notin Users \cup Cids \cup Txs
ASSUME LogAssumption

VARIABLES
  conv,      \* the row of conversations
  member,    \* conversation_members
  ustate,    \* conversation_user_state
  log,       \* messages
  sent,      \* chat.message.deliver events written: <<seq, user>>
  convLock,  \* who holds the lock of the conversation row
  rowLock,   \* who holds the lock of each conversation_members row
  tx,        \* what each transaction has read
  burnt,     \* history: sequences spent on a send that was a duplicate
  ops,       \* requests so far
  overlap    \* history: two requests have run at a time

rows  == <<conv, member, ustate, log, sent, burnt>>
locks == <<convLock, rowLock>>
vars  == <<rows, locks, tx, ops, overlap>>

Larger(a, b) == IF a >= b THEN a ELSE b     \* SQL GREATEST

Active == {u \in Users : member[u].active}
Saved(u, c) == \E e \in log : e.sender = u /\ e.cid = c
Holds(t) == {u \in Users : rowLock[u] = t}

Idle == [pc |-> "idle", op |-> "none", user |-> None, peer |-> None,
         cid |-> None, role |-> MEMBER, audience |-> {}, head |-> 0, seq |-> 0]

(* createConversation: the group starts with its own system message, which *)
(* every founder has read.                                                 *)
Init ==
  /\ conv = [seq |-> 1, last |-> 1, owner |-> Owner, deleted |-> FALSE]
  /\ member = [u \in Users |->
                 [active |-> u \in Founders,
                  role   |-> IF u = Owner THEN OWNER ELSE MEMBER,
                  join   |-> IF u \in Founders THEN 1 ELSE 0,
                  leave  |-> 0]]
  /\ ustate = [u \in Users |->
                 LET n == IF u \in Founders THEN 1 ELSE 0
                 IN  [read |-> n, delivered |-> n, unread |-> 0, hidden |-> 0]]
  /\ log = {[seq |-> 1, sender |-> None, cid |-> None]}
  /\ sent = {} /\ burnt = {} /\ ops = 0 /\ overlap = FALSE
  /\ convLock = None /\ rowLock = [u \in Users |-> None]
  /\ tx = [t \in Txs |-> Idle]

----------------------------------------------------------------------------
(* The reads of a request, with the checks the code makes on them.  What a *)
(* transaction remembers here may be stale when it writes.                 *)

Begin(t, request) ==
  /\ tx[t].pc = "idle" /\ ops < MaxOps /\ request.op \in Ops
  /\ tx' = [tx EXCEPT ![t] = request]
  /\ ops' = ops + 1
  /\ overlap' = (overlap \/ \E s \in Txs \ {t} : tx[s].pc # "idle")
  /\ UNCHANGED <<rows, locks>>

Request(op, u, v) ==
  [pc |-> "read", op |-> op, user |-> u, peer |-> v,
   cid |-> None, role |-> MEMBER, audience |-> {}, head |-> 0, seq |-> 0]

AudienceOfOthers(u) == Active \ {u}
Audience(u) == Active

BeginSend(t, u, c) ==
  /\ ~conv.deleted /\ u \in Active /\ ~Saved(u, c)
  /\ Begin(t, [Request("send", u, None) EXCEPT !.cid = c, !.audience = Audience(u)])

InGroup(u) == ~conv.deleted /\ u \in Active

CanInvite(u) == InviteAll \/ member[u].role >= ADMIN

BeginAdd(t, u, v, r) ==
  /\ InGroup(u) /\ CanInvite(u) /\ v \notin Active
  /\ r = ADMIN => member[u].role = OWNER
  /\ Begin(t, [Request("add", u, v) EXCEPT !.role = r])

AlwaysLeaves(u) == TRUE
MayLeave(u) == ~(member[u].role = OWNER /\ Cardinality(Active) > 1)

BeginLeave(t, u) ==
  /\ InGroup(u) /\ MayLeave(u)
  /\ Begin(t, Request("leave", u, u))

CanRemove(u, v) ==
  /\ member[u].role >= ADMIN /\ member[v].role # OWNER
  /\ member[u].role < OWNER => member[v].role < ADMIN

BeginRemove(t, u, v) ==
  /\ InGroup(u) /\ v \in Active \ {u} /\ CanRemove(u, v)
  /\ Begin(t, Request("remove", u, v))

BeginRole(t, u, v, r) ==
  /\ InGroup(u) /\ v \in Active \ {u} /\ member[u].role = OWNER
  /\ member[v].role \notin {OWNER, r}
  /\ Begin(t, [Request("role", u, v) EXCEPT !.role = r])

BeginTransfer(t, u, v) ==
  /\ InGroup(u) /\ v \in Active \ {u} /\ member[u].role = OWNER
  /\ Begin(t, Request("transfer", u, v))

BeginDisband(t, u) ==
  /\ InGroup(u) /\ member[u].role = OWNER
  /\ Begin(t, Request("disband", u, None))

(* getReadFastState answers a request that would not advance last_read_seq *)
(* itself.  Nothing here looks at is_deleted.                              *)
BeginRead(t, u, n) ==
  /\ u \in Active /\ ustate[u].read < n /\ n <= conv.seq
  /\ Begin(t, [Request("read", u, None) EXCEPT !.seq = n, !.head = conv.seq])

BeginHide(t, u) ==
  /\ InGroup(u)
  /\ Begin(t, [Request("hide", u, None) EXCEPT !.head = conv.seq])

----------------------------------------------------------------------------
(* Row locks.  Role changes, joins and transfers update member rows before *)
(* they take the sequence; sends and departures do so afterwards.          *)

RowsFirstSend(x) == CASE x.op \in {"role", "add"} -> {x.peer}
                      [] x.op = "transfer"        -> {x.peer, x.user}
                      [] x.op = "send"            -> {x.user}
                      [] OTHER                    -> {}
RowsFirst(x) == CASE x.op \in {"role", "add"} -> {x.peer}
                  [] x.op = "transfer"        -> {x.peer, x.user}
                  [] OTHER                    -> {}

(* join_seq is set in the transaction that inserts the row.                *)
ExistingRows == {u \in Users : member[u].join > 0}
RowsAfter(x) == CASE x.op = "send"                -> ExistingRows
                  [] x.op \in {"leave", "remove"} -> {x.peer}
                  [] OTHER                        -> {}

(* UPDATE conversation_members ... WHERE left_at IS NULL, or the upsert of *)
(* an invitation.  Without a row to update the request fails (Rollback).   *)
LockRow(t, u) ==
  /\ tx[t].pc = "read" /\ u \in RowsFirst(tx[t]) \ Holds(t)
  /\ tx[t].op = "transfer" /\ u = tx[t].user => tx[t].peer \in Holds(t)
  /\ tx[t].op = "add" \/ u \in Active
  /\ rowLock[u] = None
  /\ rowLock' = [rowLock EXCEPT ![u] = t]
  /\ UNCHANGED <<rows, convLock, tx, ops, overlap>>

(* UPDATE conversations SET message_seq = message_seq + 1 ... RETURNING:   *)
(* it waits for the row, and is_deleted plays no part.                     *)
Sequenced == {"send", "add", "leave", "remove", "role", "transfer"}
RowNotWaitedFor == TRUE
RowFree == convLock = None

TakeSequence(t) ==
  /\ tx[t].pc = "read" /\ tx[t].op \in Sequenced
  /\ RowsFirst(tx[t]) \subseteq Holds(t)
  /\ RowFree
  /\ convLock' = t
  /\ tx' = [tx EXCEPT ![t].pc = "seq", ![t].seq = conv.seq + 1]
  /\ UNCHANGED <<rows, rowLock, ops, overlap>>

RowsGranted(t) == \A u \in RowsAfter(tx[t]) : rowLock[u] \in {None, t}

(* The end of a transaction releases its locks.                            *)
End(t) ==
  /\ tx' = [tx EXCEPT ![t] = Idle]
  /\ convLock' = IF convLock = t THEN None ELSE convLock
  /\ rowLock' = [u \in Users |-> IF rowLock[u] = t THEN None ELSE rowLock[u]]
  /\ UNCHANGED <<ops, overlap>>

(* A BusinessError after a check under lock, a deadlock victim, a failing  *)
(* statement, a dead server: nothing was written.                          *)
RollbackKeepsSequence(t) ==
  /\ tx[t].pc # "idle" /\ End(t)
  /\ conv' = IF tx[t].pc = "seq" THEN [conv EXCEPT !.seq = tx[t].seq] ELSE conv
  /\ UNCHANGED <<member, ustate, log, sent, burnt>>
Rollback(t) == tx[t].pc # "idle" /\ End(t) /\ UNCHANGED rows

----------------------------------------------------------------------------
(* What a new message does to a user state: applyMessageDeliveryStates and *)
(* upsertConversationUserStates have the same rule.  An absent row behaves *)
(* like one of zeros.                                                      *)
DeliveredCounts(s, reads, n) ==
  LET delivered == Larger(s.delivered, n)
      read == IF reads THEN Larger(s.read, n) ELSE s.read
  IN  [s EXCEPT !.delivered = delivered, !.read = read, !.unread = @ + 1]
Delivered(s, reads, n) ==
  LET delivered == Larger(s.delivered, n)
      read == IF reads THEN Larger(s.read, n) ELSE s.read
  IN  [s EXCEPT !.delivered = delivered, !.read = read,
                !.unread = IF reads THEN 0 ELSE Larger(0, delivered - read)]

(* A message enters the log: the pointer of the conversation moves to it,  *)
(* the audience gets events and states.                                    *)
Append(entry, audience, readers) ==
  /\ log' = log \cup {entry}
  /\ sent' = sent \cup ({entry.seq} \X audience)
  /\ ustate' = [u \in Users |-> IF u \in audience
                                THEN Delivered(ustate[u], u \in readers, entry.seq)
                                ELSE ustate[u]]
  /\ UNCHANGED burnt

(* INSERT ... ON CONFLICT (sender_id, client_message_id): a row that got   *)
(* there since the first look is returned instead, without any delivery.   *)
NoConflict(u, c) == FALSE
Conflict(u, c) == Saved(u, c)

(* The members that were read before the sequence was taken get it.        *)
SaveMessage(t) ==
  LET x == tx[t] IN
  /\ x.op = "send" /\ x.pc = "seq" /\ ~Conflict(x.user, x.cid) /\ RowsGranted(t)
  /\ Append([seq |-> x.seq, sender |-> x.user, cid |-> x.cid], x.audience, {x.user})
  /\ conv' = [conv EXCEPT !.seq = x.seq, !.last = x.seq]
  /\ UNCHANGED member
  /\ End(t)

SaveDuplicate(t) ==
  LET x == tx[t] IN
  /\ x.op = "send" /\ x.pc = "seq" /\ Conflict(x.user, x.cid)
  /\ conv' = [conv EXCEPT !.seq = x.seq]
  /\ burnt' = burnt \cup {x.seq}
  /\ UNCHANGED <<member, ustate, log, sent>>
  /\ End(t)

(* upsertMembers and setMemberJoinSequence.                                *)
Joined(x) == [active |-> TRUE, role |-> x.role, join |-> x.seq, leave |-> 0]

(* What a group mutation does to the member rows.                          *)
MembersAfter(x) ==
  CASE x.op = "add"  -> [member EXCEPT ![x.peer] = Joined(x)]
    [] x.op \in {"leave", "remove"} ->
                        [member EXCEPT ![x.peer].active = FALSE, ![x.peer].leave = x.seq]
    [] x.op = "role" -> [member EXCEPT ![x.peer].role = x.role]
    [] x.op = "transfer" ->
                        [member EXCEPT ![x.peer].role = OWNER, ![x.user].role = ADMIN]
    [] OTHER         -> member
Notified(after) == {u \in Users : after[u].active}

(* addConversationMembers, leaveConversation, removeConversationMember,    *)
(* updateConversationMemberRole and transferConversationOwner, with        *)
(* finishGroupMutation: the members are read again, under the lock.        *)
MutateGroup(t) ==
  LET x == tx[t] IN
  /\ x.op \in Sequenced \ {"send"} /\ x.pc = "seq" /\ RowsGranted(t)
  /\ x.op \in {"leave", "remove"} => x.peer \in Active
  /\ member' = MembersAfter(x)
  /\ Append([seq |-> x.seq, sender |-> None, cid |-> None],
            Notified(member'),
            IF x.op = "add" THEN {x.user, x.peer} ELSE {x.user})
  /\ conv' = [conv EXCEPT !.seq = x.seq, !.last = x.seq,
                          !.owner = IF x.op = "transfer" THEN x.peer ELSE @]
  /\ End(t)

Disband(t) ==
  /\ tx[t].op = "disband" /\ convLock = None /\ ~conv.deleted
  /\ conv' = [conv EXCEPT !.deleted = TRUE]
  /\ UNCHANGED <<member, ustate, log, sent, burnt>>
  /\ End(t)

(* The UPDATE works on the current row, but the message_seq it subtracts   *)
(* from comes from the snapshot its statement began with.                  *)
AfterReadUnclamped(s, n, head) ==
  LET read == Larger(s.read, n) IN [s EXCEPT !.read = read, !.unread = head - read]
AfterRead(s, n, head) ==
  LET read == Larger(s.read, n)
  IN  [s EXCEPT !.read = read, !.unread = Larger(0, head - read)]
MarkConversationRead(t) ==
  LET x == tx[t] IN
  /\ x.op = "read"
  /\ ustate' = [ustate EXCEPT ![x.user] = AfterRead(@, x.seq, x.head)]
  /\ UNCHANGED <<conv, member, log, sent, burnt>>
  /\ End(t)

HideConversation(t) ==
  LET x == tx[t] IN
  /\ x.op = "hide"
  /\ ustate' = [ustate EXCEPT ![x.user].hidden = Larger(@, x.head), ![x.user].unread = 0]
  /\ UNCHANGED <<conv, member, log, sent, burnt>>
  /\ End(t)

Start(t) ==
  \E u \in Users :
    \/ \E c \in Cids : BeginSend(t, u, c)
    \/ \E v \in Users : \/ \E r \in {MEMBER, ADMIN} : BeginAdd(t, u, v, r)
                        \/ \E r \in {MEMBER, ADMIN} : BeginRole(t, u, v, r)
                        \/ BeginRemove(t, u, v)
                        \/ BeginTransfer(t, u, v)
    \/ BeginLeave(t, u) \/ BeginDisband(t, u) \/ BeginHide(t, u)
    \/ \E n \in 1 .. conv.seq : BeginRead(t, u, n)

Proceed(t) ==
  \/ \E u \in Users : LockRow(t, u)
  \/ TakeSequence(t)
  \/ SaveMessage(t) \/ SaveDuplicate(t) \/ MutateGroup(t) \/ Disband(t)
  \/ MarkConversationRead(t) \/ HideConversation(t)
  \/ Rollback(t)

Next == \E t \in Txs : Start(t) \/ Proceed(t)
Spec == Init /\ [][Next]_vars

----------------------------------------------------------------------------
(* PROPERTIES *)

TxRecord == [pc : {"idle", "read", "seq"},
             op : Sequenced \cup {"disband", "read", "hide", "none"},
             user : Users \cup {None}, peer : Users \cup {None},
             cid : Cids \cup {None}, role : {MEMBER, ADMIN, OWNER},
             audience : SUBSET Users, head : Nat, seq : Nat]
Entry == [seq : Nat, sender : Users \cup {None}, cid : Cids \cup {None}]

(* The rows, locks and transaction records have their columns' types.      *)
TypeOK ==
  /\ conv \in [seq : Nat, last : Nat, owner : Users, deleted : BOOLEAN]
  /\ member \in [Users -> [active : BOOLEAN, role : {MEMBER, ADMIN, OWNER},
                           join : Nat, leave : Nat]]
  /\ ustate \in [Users -> [read : Nat, delivered : Nat, unread : Nat, hidden : Nat]]
  /\ log \subseteq Entry
  /\ sent \subseteq Nat \X Users
  /\ burnt \subseteq Nat
  /\ convLock \in Txs \cup {None}
  /\ rowLock \in [Users -> Txs \cup {None}]
  /\ tx \in [Txs -> TxRecord]
  /\ ops \in 0 .. MaxOps
  /\ overlap \in BOOLEAN

(* Messages become visible in the order of their sequences: whoever has    *)
(* read the log up to n never misses one below n (messages/delta pages by  *)
(* afterSequence).  The lock that nextConversationSequence keeps to the    *)
(* commit is what this rests on.                                           *)
CommitOrder ==
  [][\A new \in log' \ log : \A old \in log : old.seq < new.seq]_vars

(* The log is what LogPromise says, step by step, whatever transactions    *)
(* race, roll back or are repeated: with two numbers taken at once, or a   *)
(* watermark written from a stale read, a commit would be no such step.    *)
Promise == INSTANCE LogPromise WITH head <- conv.seq, shown <- log, events <- sent,
                                    state <- ustate
LogPromiseKept == Promise!Spec

(* A number without a message was spent on a send that turned out to be a  *)
(* duplicate: a failed transaction leaves no hole that a client's          *)
(* calculateContiguousSyncSequence would stop at for ever.                 *)
HolesAreDuplicates ==
  {e.seq : e \in log} = (1 .. conv.seq) \ burnt

(* However requests and retries interleave, a client_message_id of a       *)
(* sender has one message (saveMessage looks first, inserts later).        *)
OneMessagePerClientId ==
  \A d, e \in log : d.cid # None /\ d.cid = e.cid /\ d.sender = e.sender => d = e

(* The transactional outbox: no event is of a message that was rolled back *)
(* or folded into an earlier one, and a user's message has an event for    *)
(* his own devices.                                                        *)
EventsMatchLog ==
  /\ {d[1] : d \in sent} \subseteq {e.seq : e \in log}
  /\ \A e \in log : e.sender # None => <<e.seq, e.sender>> \in sent

(* last_message_id names the message with the highest sequence, whichever  *)
(* transactions raced and whatever was a duplicate.                        *)
PointerIsNewest ==
  /\ \E e \in log : e.seq = conv.last
  /\ \A e \in log : e.seq <= conv.last

(* No interleaving of reads, deliveries and hiding inflates a badge: the   *)
(* unread count never exceeds what lies between last_read_seq and the end  *)
(* of the log, and no watermark is ahead of the log.                       *)
UnreadWithin(u) ==
  /\ ustate[u].read <= conv.seq
  /\ ustate[u].delivered <= conv.seq
  /\ ustate[u].hidden <= conv.seq
  /\ ustate[u].unread <= conv.seq - ustate[u].read
UnreadNeverOvercounts == \A u \in Users : UnreadWithin(u)

(* last_read_seq, last_delivered_seq and hidden_before_seq never move      *)
(* back, though every one of them is written from stale reads.             *)
WatermarksGrow ==
  [][\A u \in Users : /\ ustate[u].read <= ustate'[u].read
                      /\ ustate[u].delivered <= ustate'[u].delivered
                      /\ ustate[u].hidden <= ustate'[u].hidden]_vars

(* The visible history of a member begins with a message that announced    *)
(* him: join_seq is the sequence of a system message, even when two        *)
(* invitations of him race.                                                *)
JoinIsAnnounced ==
  \A u \in Active : \E e \in log : e.seq = member[u].join /\ e.sender = None

(* Who waits for whom: a transaction that needs a lock another one holds.  *)
WaitsFor(s, t) ==
  \/ /\ tx[s].pc = "read"
     /\ \E u \in RowsFirst(tx[s]) \ Holds(s) : rowLock[u] = t
  \/ /\ tx[s].pc = "read" /\ tx[s].op \in Sequenced
     /\ RowsFirst(tx[s]) \subseteq Holds(s) /\ convLock = t
  \/ /\ tx[s].pc = "seq"
     /\ \E u \in RowsAfter(tx[s]) : rowLock[u] = t

(* Sends and departures never deadlock with one another: the database has  *)
(* to break a cycle only when a role change, a transfer or an invitation,  *)
(* which lock rows in the other order, is part of it.                      *)
SendersNeverDeadlock ==
  \A s, t \in Txs :
    s # t /\ WaitsFor(s, t) /\ WaitsFor(t, s)
      => {tx[s].op, tx[t].op} \cap {"role", "add", "transfer"} # {}

(* What the proofs need besides: the shape of a transaction that is under  *)
(* way, and that only its holder stands between the lock and the counter.  *)
WithPeer == {"add", "leave", "remove", "role", "transfer"}
Shape(x) ==
  /\ x.pc = "idle" <=> x.op = "none"
  /\ x.pc # "idle" => x.user \in Users
  /\ x.op \in WithPeer => x.peer \in Users
  /\ x.op = "send" => x.cid \in Cids /\ x.user \in x.audience
  /\ x.op = "read" => x.seq <= x.head
  /\ x.pc = "seq" => x.op \in Sequenced
TxShape == \A t \in Txs : Shape(tx[t])
HeadsPast == \A t \in Txs : tx[t].head <= conv.seq
OneSequencer ==
  \A t \in Txs : tx[t].pc = "seq" => convLock = t /\ tx[t].seq = conv.seq + 1
HeldRows ==
  \A u \in Users : rowLock[u] # None => u \in RowsFirst(tx[rowLock[u]])
BurntPast == burnt \subseteq 1 .. conv.seq

(* docs/architecture/conversation-group.md, 10: a group has one owner, the *)
(* one conversations.owner_id names.                                       *)
OneOwner ==
  Active # {} => {u \in Active : member[u].role = OWNER} = {conv.owner}

(* join_seq and leave_seq bound what a member takes part in: no message    *)
(* after leave_seq is delivered to one who left, and a message later than  *)
(* the join of a member has a delivery event for him.                      *)
AudienceIsExact ==
  /\ \A d \in sent : ~member[d[2]].active => d[1] < member[d[2]].leave
  /\ \A e \in log, u \in Active : member[u].join < e.seq => <<e.seq, u>> \in sent

(* As long as requests take turns, each leaves the group with its one      *)
(* owner, whatever transfers, departures and role changes came before.     *)
(* (With two at a time OneOwner fails: run log_owner.)                     *)
OneOwnerInTurn == ~overlap => OneOwner

(* As long as requests take turns, every message reaches exactly those who *)
(* were members when it was written.                                       *)
AudienceInTurn == ~overlap => AudienceIsExact
=============================================================================
