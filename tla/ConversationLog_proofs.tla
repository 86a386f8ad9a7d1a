----------------------- MODULE ConversationLog_proofs -----------------------
(***************************************************************************)
(* Theorems about ConversationLog, for any users, clients, transactions    *)
(* and any number of requests.  Base /\ Rest is the inductive invariant.   *)
(***************************************************************************)
EXTENDS ConversationLog, FiniteSetTheorems, TLAPS

USE DEF MEMBER, ADMIN, OWNER

(* A request that starts only fills in the record of its transaction.      *)
LEMMA StartFacts ==
  ASSUME LogAssumption, TypeOK, NEW t \in Txs, Start(t)
  PROVE  /\ tx[t].pc = "idle" /\ ops < MaxOps /\ ops' = ops + 1 /\ overlap' \in BOOLEAN
         /\ UNCHANGED <<rows, locks>>
         /\ \E x \in TxRecord : /\ tx' = [tx EXCEPT ![t] = x]
                                /\ x.pc = "read" /\ Shape(x) /\ x.head <= conv.seq
<1> USE DEF LogAssumption
<1>i. Idle \in TxRecord /\ conv.seq \in Nat
  BY DEF Idle, TxRecord, TypeOK, Sequenced
<1>b. ASSUME NEW x \in TxRecord, x.pc = "read", Shape(x), x.head <= conv.seq, Begin(t, x)
      PROVE  /\ tx[t].pc = "idle" /\ ops < MaxOps /\ ops' = ops + 1 /\ overlap' \in BOOLEAN
             /\ UNCHANGED <<rows, locks>>
             /\ \E y \in TxRecord : /\ tx' = [tx EXCEPT ![t] = y]
                                    /\ y.pc = "read" /\ Shape(y) /\ y.head <= conv.seq
  BY <1>b DEF Begin, TypeOK
<1>1. PICK u \in Users :
        \/ \E c \in Cids : BeginSend(t, u, c)
        \/ \E v \in Users : \/ \E r \in {MEMBER, ADMIN} : BeginAdd(t, u, v, r)
                            \/ \E r \in {MEMBER, ADMIN} : BeginRole(t, u, v, r)
                            \/ BeginRemove(t, u, v)
                            \/ BeginTransfer(t, u, v)
        \/ BeginLeave(t, u) \/ BeginDisband(t, u) \/ BeginHide(t, u)
        \/ \E n \in 1 .. conv.seq : BeginRead(t, u, n)
  BY DEF Start
<1>2. ASSUME NEW c \in Cids, BeginSend(t, u, c) PROVE
        \E x \in TxRecord : x.pc = "read" /\ Shape(x) /\ x.head <= conv.seq /\ Begin(t, x)
  <2> DEFINE x == [Request("send", u, None) EXCEPT !.cid = c, !.audience = Audience(u)]
  <2> DEFINE y == [Request("send", u, None) EXCEPT !.cid = c]
  <2>a. y \in TxRecord /\ y.pc = "read" /\ y.head = 0
    BY DEF Request, TxRecord, Sequenced
  <2>b. x = [y EXCEPT !.audience = Audience(u)] /\ Audience(u) \in SUBSET Users
    BY DEF Audience, Active
  <2> HIDE DEF x, y
  <2>c. x \in TxRecord /\ x.pc = "read" /\ x.head = 0
    BY <2>a, <2>b DEF TxRecord
  <2>1. x \in TxRecord /\ x.pc = "read" /\ x.head <= conv.seq
    BY <1>i, <2>c
  <2> USE DEF x
  <2>2. Shape(x)
    <3>1. u \in Audience(u) BY <1>2 DEF BeginSend, Audience
    <3>2. QED BY <3>1 DEF Request, Shape, WithPeer, Sequenced
  <2>3. QED BY <2>1, <2>2, <1>2 DEF BeginSend
<1>3. ASSUME NEW v \in Users, NEW r \in {MEMBER, ADMIN}, BeginAdd(t, u, v, r) PROVE
        \E x \in TxRecord : x.pc = "read" /\ Shape(x) /\ x.head <= conv.seq /\ Begin(t, x)
  <2> DEFINE x == [Request("add", u, v) EXCEPT !.role = r]
  <2>1. x \in TxRecord /\ x.pc = "read" /\ x.head <= conv.seq
    BY <1>i DEF Request, TxRecord, Sequenced
  <2>2. Shape(x)
    BY DEF Request, Shape, WithPeer, Sequenced
  <2>3. QED BY <2>1, <2>2, <1>3 DEF BeginAdd
<1>4. ASSUME NEW v \in Users, NEW r \in {MEMBER, ADMIN}, BeginRole(t, u, v, r) PROVE
        \E x \in TxRecord : x.pc = "read" /\ Shape(x) /\ x.head <= conv.seq /\ Begin(t, x)
  <2> DEFINE x == [Request("role", u, v) EXCEPT !.role = r]
  <2>1. x \in TxRecord /\ x.pc = "read" /\ x.head <= conv.seq
    BY <1>i DEF Request, TxRecord, Sequenced
  <2>2. Shape(x)
    BY DEF Request, Shape, WithPeer, Sequenced
  <2>3. QED BY <2>1, <2>2, <1>4 DEF BeginRole
<1>5. ASSUME NEW op \in {"remove", "transfer", "leave"}, NEW v \in Users,
             Begin(t, Request(op, u, v)) PROVE
        \E x \in TxRecord : x.pc = "read" /\ Shape(x) /\ x.head <= conv.seq /\ Begin(t, x)
  <2> DEFINE x == Request(op, u, v)
  <2>1. x \in TxRecord /\ x.pc = "read" /\ x.head <= conv.seq
    BY <1>i DEF Request, TxRecord, Sequenced
  <2>2. Shape(x)
    BY DEF Request, Shape, WithPeer, Sequenced
  <2>3. QED BY <2>1, <2>2, <1>5
<1>6. ASSUME BeginDisband(t, u) PROVE
        \E x \in TxRecord : x.pc = "read" /\ Shape(x) /\ x.head <= conv.seq /\ Begin(t, x)
  <2> DEFINE x == Request("disband", u, None)
  <2>1. x \in TxRecord /\ x.pc = "read" /\ x.head <= conv.seq
    BY <1>i DEF Request, TxRecord, Sequenced
  <2>2. Shape(x)
    BY DEF Request, Shape, WithPeer, Sequenced
  <2>3. QED BY <2>1, <2>2, <1>6 DEF BeginDisband
<1>7. ASSUME BeginHide(t, u) PROVE
        \E x \in TxRecord : x.pc = "read" /\ Shape(x) /\ x.head <= conv.seq /\ Begin(t, x)
  <2> DEFINE x == [Request("hide", u, None) EXCEPT !.head = conv.seq]
  <2>1. x \in TxRecord /\ x.pc = "read" /\ x.head <= conv.seq
    BY <1>i DEF Request, TxRecord, Sequenced
  <2>2. Shape(x)
    BY DEF Request, Shape, WithPeer, Sequenced
  <2>3. QED BY <2>1, <2>2, <1>7 DEF BeginHide
<1>8. ASSUME NEW n \in 1 .. conv.seq, BeginRead(t, u, n) PROVE
        \E x \in TxRecord : x.pc = "read" /\ Shape(x) /\ x.head <= conv.seq /\ Begin(t, x)
  <2> DEFINE x == [Request("read", u, None) EXCEPT !.seq = n, !.head = conv.seq]
  <2>0. n \in Nat /\ n <= conv.seq BY <1>i
  <2> DEFINE y == [Request("read", u, None) EXCEPT !.seq = n]
  <2>a. y \in TxRecord /\ y.pc = "read"
    BY <2>0 DEF Request, TxRecord, Sequenced
  <2>b. x = [y EXCEPT !.head = conv.seq]
    OBVIOUS
  <2> HIDE DEF x, y
  <2>1. x \in TxRecord /\ x.pc = "read" /\ x.head <= conv.seq
    BY <1>i, <2>a, <2>b DEF TxRecord
  <2> USE DEF x
  <2>2. Shape(x)
    BY <2>0 DEF Request, Shape, WithPeer, Sequenced
  <2>3. QED BY <2>1, <2>2, <1>8 DEF BeginRead
<1>9. \E x \in TxRecord : x.pc = "read" /\ Shape(x) /\ x.head <= conv.seq /\ Begin(t, x)
  BY <1>1, <1>2, <1>3, <1>4, <1>5, <1>6, <1>7, <1>8
     DEF BeginRemove, BeginTransfer, BeginLeave
<1>10. QED BY <1>9, <1>b

(* The end of a transaction: its record is blank, its locks are free.      *)
LEMMA EndTypes ==
  ASSUME LogAssumption, TypeOK, NEW t \in Txs, End(t)
  PROVE  /\ tx' \in [Txs -> TxRecord] /\ ops' \in 0 .. MaxOps /\ overlap' \in BOOLEAN
         /\ convLock' \in Txs \cup {None} /\ rowLock' \in [Users -> Txs \cup {None}]
         /\ tx'[t] = Idle /\ \A s \in Txs \ {t} : tx'[s] = tx[s]
         /\ convLock = t => convLock' = None
         /\ convLock # t => convLock' = convLock
         /\ \A u \in Users : rowLock'[u] = IF rowLock[u] = t THEN None ELSE rowLock[u]
<1>1. Idle \in TxRecord
  BY DEF LogAssumption, Idle, TxRecord, Sequenced
<1>2. QED BY <1>1 DEF TypeOK, End

(* Delivering a message keeps the user states counters.                    *)
UserState == [read : Nat, delivered : Nat, unread : Nat, hidden : Nat]

LEMMA DeliveredIsState ==
  ASSUME NEW s \in UserState, NEW reads \in BOOLEAN, NEW n \in Nat
  PROVE  /\ Delivered(s, reads, n) \in UserState
         /\ Delivered(s, reads, n).read = IF reads THEN Larger(s.read, n) ELSE s.read
         /\ Delivered(s, reads, n).delivered = Larger(s.delivered, n)
         /\ Delivered(s, reads, n).hidden = s.hidden
         /\ Delivered(s, reads, n).unread =
              IF reads THEN 0 ELSE Larger(0, Larger(s.delivered, n) - s.read)
<1>1. Larger(s.delivered, n) \in Nat /\ Larger(s.read, n) \in Nat
  BY DEF UserState, Larger
<1>2. Larger(0, Larger(s.delivered, n) - s.read) \in Nat
      /\ Larger(0, Larger(s.delivered, n) - Larger(s.read, n)) \in Nat
  BY <1>1 DEF UserState, Larger
<1>3. QED BY <1>1, <1>2 DEF Delivered, UserState

LEMMA AppendTypes ==
  ASSUME TypeOK, NEW entry \in Entry, NEW audience \in SUBSET Users,
         NEW readers, Append(entry, audience, readers)
  PROVE  /\ ustate' \in [Users -> UserState] /\ log' \subseteq Entry
         /\ sent' \subseteq Nat \X Users /\ burnt' \subseteq Nat
         /\ \A u \in Users : ustate'[u] = IF u \in audience
              THEN Delivered(ustate[u], u \in readers, entry.seq) ELSE ustate[u]
<1>1. entry.seq \in Nat BY DEF Entry
<1>2. ASSUME NEW u \in Users
      PROVE  Delivered(ustate[u], u \in readers, entry.seq) \in UserState
             /\ ustate[u] \in UserState
  BY <1>1, DeliveredIsState, (u \in readers) \in BOOLEAN DEF TypeOK, UserState
<1>3. ustate' \in [Users -> UserState]
  BY <1>2 DEF Append
<1>4. QED BY <1>1, <1>3 DEF Append, TypeOK

MemberRow == [active : BOOLEAN, role : {MEMBER, ADMIN, OWNER}, join : Nat, leave : Nat]

LEMMA MembersAfterTypes ==
  ASSUME TypeOK, NEW x \in TxRecord, Shape(x), x.op \in WithPeer, x.pc = "seq"
  PROVE  MembersAfter(x) \in [Users -> MemberRow]
<1>0. member \in [Users -> MemberRow] BY DEF TypeOK, MemberRow
<1>1. x.peer \in Users /\ x.user \in Users /\ x.seq \in Nat /\ x.role \in {MEMBER, ADMIN, OWNER}
  BY DEF Shape, TxRecord
<1>2. CASE x.op = "add"
  BY <1>1, <1>2, <1>0 DEF MembersAfter, Joined, MemberRow
<1>3. CASE x.op \in {"leave", "remove"}
  <2> DEFINE gone == [member EXCEPT ![x.peer].active = FALSE]
  <2>1. gone \in [Users -> MemberRow]
    BY <1>0, <1>1 DEF MemberRow
  <2>2. MembersAfter(x) = [gone EXCEPT ![x.peer].leave = x.seq]
    BY <1>3 DEF MembersAfter
  <2> HIDE DEF gone
  <2>3. QED BY <1>1, <2>1, <2>2 DEF MemberRow
<1>4. CASE x.op = "role"
  BY <1>1, <1>4, <1>0 DEF MembersAfter, Joined, MemberRow
<1>5. CASE x.op = "transfer"
  <2> DEFINE crowned == [member EXCEPT ![x.peer].role = OWNER]
  <2>1. crowned \in [Users -> MemberRow]
    BY <1>0, <1>1 DEF MemberRow
  <2>2. MembersAfter(x) = [crowned EXCEPT ![x.user].role = ADMIN]
    BY <1>5 DEF MembersAfter
  <2> HIDE DEF crowned
  <2>3. QED BY <1>1, <2>1, <2>2 DEF MemberRow
<1>6. QED BY <1>2, <1>3, <1>4, <1>5 DEF WithPeer

Base == TypeOK /\ TxShape /\ HeadsPast /\ OneSequencer /\ HeldRows /\ BurntPast

(* A commit that adds a message: what the rest of the proof needs of the   *)
(* two actions that do so.                                                 *)
Grows(t, e, audience, readers) ==
  /\ tx[t].pc = "seq" /\ End(t)
  /\ e.seq = conv.seq + 1 /\ Append(e, audience, readers)
  /\ conv' \in [seq : Nat, last : Nat, owner : Users, deleted : BOOLEAN]
  /\ conv'.seq = e.seq /\ conv'.last = e.seq
  /\ member' \in [Users -> MemberRow]
  /\ \A u \in Users : member'[u].active =>
       \/ member[u].active /\ member'[u].join = member[u].join
       \/ member'[u].join = e.seq /\ e.sender = None
  /\ \/ e.sender = None /\ e.cid = None
     \/ e.sender \in audience /\ e.sender # None /\ e.cid # None /\ ~Saved(e.sender, e.cid)

ConvRow == [seq : Nat, last : Nat, owner : Users, deleted : BOOLEAN]

LEMMA SaveGrows ==
  ASSUME LogAssumption, Base, NEW t \in Txs, SaveMessage(t)
  PROVE  \E e \in Entry, A \in SUBSET Users, R \in SUBSET Users : Grows(t, e, A, R)
<1> DEFINE x == tx[t]
           e == [seq |-> x.seq, sender |-> x.user, cid |-> x.cid]
<1> USE DEF Base
<1>1. x \in TxRecord /\ Shape(x) /\ x.op = "send" /\ x.pc = "seq"
  BY DEF SaveMessage, TypeOK, TxShape
<1>2. x.user \in Users /\ x.cid \in Cids /\ x.user \in x.audience /\ x.seq = conv.seq + 1
      /\ x.audience \in SUBSET Users /\ conv.seq \in Nat
  BY <1>1 DEF Shape, OneSequencer, TxRecord, TypeOK
<1>3. e \in Entry /\ e.seq = conv.seq + 1 /\ e.sender = x.user /\ e.cid = x.cid
  BY <1>2 DEF Entry
<1>4. conv' = [conv EXCEPT !.seq = x.seq, !.last = x.seq]
  BY DEF SaveMessage
<1>5. conv' \in [seq : Nat, last : Nat, owner : Users, deleted : BOOLEAN]
      /\ conv'.seq = x.seq /\ conv'.last = x.seq
  <2>1. conv \in ConvRow /\ x.seq \in Nat
    BY <1>2 DEF TypeOK, ConvRow
  <2> DEFINE b == [conv EXCEPT !.seq = x.seq]
  <2>2. b \in ConvRow /\ b.seq = x.seq BY <2>1 DEF ConvRow
  <2>3. conv' = [b EXCEPT !.last = x.seq] BY <1>4
  <2> HIDE DEF x, b
  <2>4. QED BY <2>1, <2>2, <2>3 DEF ConvRow
<1>6. Append(e, x.audience, {x.user}) /\ End(t) /\ ~Saved(x.user, x.cid)
      /\ member' = member
  BY DEF SaveMessage, Conflict
<1>7. member' \in [Users -> MemberRow] /\ x.user # None /\ x.cid # None
  BY <1>2, <1>6 DEF TypeOK, MemberRow, LogAssumption
<1>8. \A u \in Users : member'[u].active =>
       \/ member[u].active /\ member'[u].join = member[u].join
       \/ member'[u].join = e.seq /\ e.sender = None
  BY <1>6
<1> HIDE DEF e, x
<1>9. Grows(t, e, x.audience, {x.user})
  BY <1>1, <1>2, <1>3, <1>5, <1>6, <1>7, <1>8 DEF Grows, x
<1>10. QED BY <1>2, <1>3, <1>9

LEMMA MutationGrows ==
  ASSUME LogAssumption, Base, NEW t \in Txs, MutateGroup(t)
  PROVE  \E e \in Entry, A \in SUBSET Users, R \in SUBSET Users : Grows(t, e, A, R)
<1> DEFINE x == tx[t]
           e == [seq |-> x.seq, sender |-> None, cid |-> None]
           A == {u \in Users : member'[u].active}
           R == IF x.op = "add" THEN {x.user, x.peer} ELSE {x.user}
<1> USE DEF Base
<1>1. x \in TxRecord /\ Shape(x) /\ x.op \in WithPeer /\ x.pc = "seq"
  BY DEF MutateGroup, TypeOK, TxShape, Sequenced, WithPeer
<1>2. x.user \in Users /\ x.peer \in Users /\ x.seq = conv.seq + 1 /\ conv.seq \in Nat
  BY <1>1 DEF Shape, OneSequencer, TypeOK
<1>3. e \in Entry /\ e.seq = conv.seq + 1 /\ e.sender = None /\ e.cid = None
  BY <1>2 DEF Entry
<1>4. member' = MembersAfter(x) /\ Append(e, A, R) /\ End(t)
  BY DEF MutateGroup, Notified
<1>5. conv' = [conv EXCEPT !.seq = x.seq, !.last = x.seq,
                           !.owner = IF x.op = "transfer" THEN x.peer ELSE @]
  BY DEF MutateGroup
<1>6. conv' \in [seq : Nat, last : Nat, owner : Users, deleted : BOOLEAN]
      /\ conv'.seq = x.seq /\ conv'.last = x.seq
  <2> DEFINE d == [conv EXCEPT !.seq = x.seq, !.last = x.seq]
             w == IF x.op = "transfer" THEN x.peer ELSE conv.owner
  <2>0. conv \in ConvRow /\ x.seq \in Nat /\ w \in Users
    BY <1>2 DEF TypeOK, ConvRow
  <2>2. conv' = [d EXCEPT !.owner = w] BY <1>5
  <2> DEFINE b == [conv EXCEPT !.seq = x.seq]
  <2>3. b \in ConvRow /\ b.seq = x.seq BY <2>0 DEF ConvRow
  <2>4. d = [b EXCEPT !.last = x.seq] OBVIOUS
  <2> HIDE DEF d, w, x, b
  <2>1. d \in ConvRow /\ d.seq = x.seq /\ d.last = x.seq
    BY <2>0, <2>3, <2>4 DEF ConvRow
  <2>5. QED BY <2>0, <2>1, <2>2 DEF ConvRow
<1>7. member' \in [Users -> MemberRow]
  BY <1>1, <1>4, MembersAfterTypes
<1>8. ASSUME NEW u \in Users, member'[u].active
      PROVE  \/ member[u].active /\ member'[u].join = member[u].join
             \/ member'[u].join = x.seq
  <2>0. member \in [Users -> MemberRow] BY DEF TypeOK, MemberRow
  <2>1. CASE x.op = "add"
    BY <1>2, <1>4, <1>8, <2>0, <2>1 DEF MembersAfter, Joined
  <2>2. CASE x.op \in {"leave", "remove"}
    <3>1. u # x.peer => member'[u] = member[u]
      BY <1>2, <1>4, <2>0, <2>2 DEF MembersAfter
    <3>2. member'[x.peer].active = FALSE
      BY <1>2, <1>4, <2>0, <2>2 DEF MembersAfter, Joined, MemberRow
    <3>3. QED BY <1>8, <3>1, <3>2
  <2>3. CASE x.op = "role"
    BY <1>2, <1>4, <1>8, <2>0, <2>3 DEF MembersAfter, Joined, MemberRow
  <2>4. CASE x.op = "transfer"
    <3> DEFINE crowned == [member EXCEPT ![x.peer].role = OWNER]
    <3>1. crowned \in [Users -> MemberRow] /\ crowned[u].active = member[u].active
          /\ crowned[u].join = member[u].join
      BY <1>2, <2>0 DEF MemberRow
    <3>2. member' = [crowned EXCEPT ![x.user].role = ADMIN]
      BY <1>4, <2>4 DEF MembersAfter
    <3> HIDE DEF crowned
    <3>3. member'[u].active = crowned[u].active /\ member'[u].join = crowned[u].join
      BY <1>2, <3>1, <3>2 DEF MemberRow
    <3>4. QED BY <1>8, <3>1, <3>3
  <2>5. QED BY <1>1, <2>1, <2>2, <2>3, <2>4 DEF WithPeer
<1>9. A \in SUBSET Users /\ R \in SUBSET Users
  BY <1>2
<1>10. x.pc = "seq" BY <1>1
<1>11. \A u \in Users : member'[u].active =>
         \/ member[u].active /\ member'[u].join = member[u].join
         \/ member'[u].join = e.seq /\ e.sender = None
  BY <1>3, <1>2, <1>8
<1> HIDE DEF e, A, R
<1>12. Grows(t, e, A, R)
  BY <1>2, <1>3, <1>4, <1>6, <1>7, <1>10, <1>11 DEF Grows
<1>13. QED BY <1>3, <1>9, <1>12

RowsTyped ==
  /\ conv \in ConvRow /\ member \in [Users -> MemberRow]
  /\ ustate \in [Users -> UserState] /\ log \subseteq Entry
  /\ sent \subseteq Nat \X Users /\ burnt \subseteq Nat
TxTyped ==
  /\ convLock \in Txs \cup {None} /\ rowLock \in [Users -> Txs \cup {None}]
  /\ tx \in [Txs -> TxRecord] /\ ops \in 0 .. MaxOps /\ overlap \in BOOLEAN

LEMMA TypeSplit == TypeOK <=> RowsTyped /\ TxTyped
BY DEF TypeOK, RowsTyped, TxTyped, ConvRow, MemberRow, UserState

(* A step that takes no lock and commits nothing.                          *)
LEMMA BaseStart ==
  ASSUME LogAssumption, Base, NEW t \in Txs, Start(t)
  PROVE  Base'
<1> USE DEF Base
<1>1. PICK x \in TxRecord : /\ tx' = [tx EXCEPT ![t] = x]
                            /\ x.pc = "read" /\ Shape(x) /\ x.head <= conv.seq
  BY StartFacts
<1>2. /\ UNCHANGED <<rows, locks>> /\ tx[t].pc = "idle"
      /\ ops < MaxOps /\ ops' = ops + 1 /\ overlap' \in BOOLEAN
  BY StartFacts
<1>t. tx \in [Txs -> TxRecord] /\ ops \in 0 .. MaxOps /\ MaxOps \in Nat
  BY DEF TypeOK, LogAssumption
<1>a. tx'[t] = x /\ \A s \in Txs \ {t} : tx'[s] = tx[s]
  BY <1>1, <1>t
<1>3. TypeOK'
  <2>1. tx' \in [Txs -> TxRecord] BY <1>1, <1>t
  <2>2. ops' \in 0 .. MaxOps BY <1>2, <1>t
  <2>3. RowsTyped' BY <1>2, TypeSplit DEF rows, RowsTyped
  <2>4. TxTyped' BY <1>2, <2>1, <2>2, TypeSplit DEF locks, TxTyped
  <2>5. QED BY <2>3, <2>4, TypeSplit DEF TypeOK, RowsTyped, TxTyped, ConvRow, MemberRow, UserState
<1>4. TxShape' BY <1>1, <1>a DEF TxShape
<1>5. HeadsPast' BY <1>1, <1>2, <1>a DEF HeadsPast, rows
<1>6. OneSequencer' BY <1>1, <1>2, <1>a DEF OneSequencer, rows, locks
<1>7. HeldRows'
  <2> SUFFICES ASSUME NEW u \in Users, rowLock[u] # None
               PROVE  u \in RowsFirst(tx'[rowLock[u]])
    BY <1>2 DEF HeldRows, locks, RowsFirst
  <2>1. rowLock[u] \in Txs /\ u \in RowsFirst(tx[rowLock[u]]) BY DEF TypeOK, HeldRows
  <2>2. tx[t].op = "none" BY <1>2 DEF TxShape, Shape
  <2>3. rowLock[u] # t BY <2>1, <2>2 DEF RowsFirst
  <2>4. QED BY <1>a, <2>1, <2>3
<1>8. BurntPast' BY <1>2 DEF BurntPast, rows
<1>9. QED BY <1>3, <1>4, <1>5, <1>6, <1>7, <1>8

LEMMA BaseLock ==
  ASSUME LogAssumption, Base, NEW t \in Txs, NEW u \in Users, LockRow(t, u)
  PROVE  Base'
<1> USE DEF Base
<1>1. UNCHANGED <<conv, member, ustate, log, sent, burnt, convLock, tx, ops, overlap>>
      /\ rowLock' = [rowLock EXCEPT ![u] = t] /\ u \in RowsFirst(tx[t])
  BY DEF LockRow, rows
<1>2. TypeOK' BY <1>1 DEF TypeOK
<1>3. TxShape' /\ HeadsPast' /\ OneSequencer' /\ BurntPast'
  BY <1>1 DEF TxShape, HeadsPast, OneSequencer, BurntPast
<1>4. HeldRows'
  BY <1>1 DEF HeldRows, TypeOK, RowsFirst
<1>5. QED BY <1>2, <1>3, <1>4

LEMMA BaseTake ==
  ASSUME LogAssumption, Base, NEW t \in Txs, TakeSequence(t)
  PROVE  Base'
<1> USE DEF Base
<1>1. UNCHANGED <<conv, member, ustate, log, sent, burnt, rowLock, ops, overlap>>
      /\ convLock = None /\ convLock' = t
      /\ tx[t].pc = "read" /\ tx[t].op \in Sequenced
      /\ tx' = [tx EXCEPT ![t].pc = "seq", ![t].seq = conv.seq + 1]
  BY DEF TakeSequence, RowFree, rows
<1>t. tx \in [Txs -> TxRecord] /\ conv.seq \in Nat BY DEF TypeOK
<1>2. /\ tx' \in [Txs -> TxRecord] /\ \A s \in Txs \ {t} : tx'[s] = tx[s]
      /\ tx'[t].pc = "seq" /\ tx'[t].seq = conv.seq + 1
      /\ tx'[t].op = tx[t].op /\ tx'[t].user = tx[t].user /\ tx'[t].peer = tx[t].peer
      /\ tx'[t].cid = tx[t].cid /\ tx'[t].audience = tx[t].audience
      /\ tx'[t].head = tx[t].head
  <2> DEFINE mid == [tx EXCEPT ![t].pc = "seq"]
  <2>1. /\ mid \in [Txs -> TxRecord] /\ \A s \in Txs \ {t} : mid[s] = tx[s]
        /\ mid[t].pc = "seq"
        /\ mid[t].op = tx[t].op /\ mid[t].user = tx[t].user /\ mid[t].peer = tx[t].peer
        /\ mid[t].cid = tx[t].cid /\ mid[t].audience = tx[t].audience
        /\ mid[t].head = tx[t].head
    BY <1>t DEF TxRecord
  <2>2. tx' = [mid EXCEPT ![t].seq = conv.seq + 1] BY <1>1
  <2> HIDE DEF mid
  <2>3. QED BY <1>t, <2>1, <2>2 DEF TxRecord
<1>3. TypeOK' BY <1>1, <1>2 DEF TypeOK
<1>4. Shape(tx'[t])
  BY <1>1, <1>2 DEF TxShape, Shape, Sequenced
<1>5. TxShape' BY <1>2, <1>4 DEF TxShape
<1>6. HeadsPast' BY <1>1, <1>2 DEF HeadsPast
<1>7. OneSequencer' BY <1>1, <1>2 DEF OneSequencer, LogAssumption
<1>8. HeldRows'
  <2> SUFFICES ASSUME NEW v \in Users, rowLock[v] # None
               PROVE  v \in RowsFirst(tx'[rowLock[v]])
    BY <1>1 DEF HeldRows, RowsFirst
  <2>1. rowLock[v] \in Txs /\ v \in RowsFirst(tx[rowLock[v]]) BY DEF TypeOK, HeldRows
  <2>2. RowsFirst(tx'[t]) = RowsFirst(tx[t]) BY <1>2 DEF RowsFirst
  <2>3. QED BY <1>2, <2>1, <2>2
<1>9. BurntPast' BY <1>1 DEF BurntPast
<1>10. QED BY <1>3, <1>5, <1>6, <1>7, <1>8, <1>9

(* Any end of a transaction: only who held the sequence may have moved the *)
(* counter.                                                                *)
LEMMA BaseEnd ==
  ASSUME LogAssumption, Base, NEW t \in Txs, End(t), RowsTyped', BurntPast',
         conv'.seq >= conv.seq, convLock # t => conv'.seq = conv.seq
  PROVE  Base'
<1> USE DEF Base
<1>1. /\ TxTyped' /\ tx'[t] = Idle /\ \A s \in Txs \ {t} : tx'[s] = tx[s]
      /\ convLock = t => convLock' = None
      /\ convLock # t => convLock' = convLock
      /\ \A u \in Users : rowLock'[u] = IF rowLock[u] = t THEN None ELSE rowLock[u]
  BY EndTypes DEF TxTyped
<1>2. TypeOK'
  BY <1>1 DEF TypeOK, RowsTyped, TxTyped, ConvRow, MemberRow, UserState
<1>3. Shape(Idle) /\ Idle.head = 0 /\ Idle.pc = "idle"
  BY DEF Shape, Idle, WithPeer, Sequenced
<1>4. TxShape' BY <1>1, <1>3 DEF TxShape
<1>5. HeadsPast'
  <2>1. \A s \in Txs : tx[s].head \in Nat BY DEF TypeOK, TxRecord
  <2>2. conv.seq \in Nat /\ conv'.seq \in Nat BY DEF TypeOK, RowsTyped, ConvRow
  <2>3. QED BY <1>1, <1>3, <2>1, <2>2 DEF HeadsPast
<1>6. OneSequencer'
  <2> SUFFICES ASSUME NEW s \in Txs, tx'[s].pc = "seq"
               PROVE  convLock' = s /\ tx'[s].seq = conv'.seq + 1
    BY DEF OneSequencer
  <2>1. s # t /\ tx'[s] = tx[s] BY <1>1, <1>3
  <2>2. QED BY <1>1, <2>1 DEF OneSequencer
<1>7. HeldRows'
  <2> SUFFICES ASSUME NEW u \in Users, rowLock'[u] # None
               PROVE  u \in RowsFirst(tx'[rowLock'[u]])
    BY DEF HeldRows, RowsFirst
  <2>1. rowLock[u] # t /\ rowLock'[u] = rowLock[u] /\ rowLock[u] \in Txs
    BY <1>1 DEF TypeOK
  <2>2. QED BY <1>1, <2>1 DEF HeldRows
<1>8. QED BY <1>2, <1>4, <1>5, <1>6, <1>7

Rest ==
  /\ HolesAreDuplicates /\ OneMessagePerClientId /\ EventsMatchLog
  /\ PointerIsNewest /\ UnreadNeverOvercounts /\ JoinIsAnnounced

(* No message of the log is past the counter.                              *)
LEMMA LogPast ==
  ASSUME TypeOK, HolesAreDuplicates, NEW e \in log
  PROVE  e.seq \in Nat /\ 1 <= e.seq /\ e.seq <= conv.seq
<1>1. e.seq \in 1 .. conv.seq BY DEF HolesAreDuplicates
<1>2. QED BY <1>1 DEF TypeOK, Entry

(* A message that enters the log.                                          *)
LEMMA GrowthKeeps ==
  ASSUME LogAssumption, Base, Rest, NEW t \in Txs, NEW e \in Entry,
         NEW A \in SUBSET Users, NEW R \in SUBSET Users, Grows(t, e, A, R)
  PROVE  Base' /\ Rest'
<1> USE DEF Base, Rest
<1>n. conv.seq \in Nat /\ conv'.seq = conv.seq + 1 /\ e.seq = conv.seq + 1
      /\ conv'.last = conv.seq + 1
  BY DEF Grows, TypeOK
<1>a. Append(e, A, R) /\ log' = log \cup {e} /\ burnt' = burnt
      /\ sent' = sent \cup ({e.seq} \X A)
  BY DEF Grows, Append
<1>b. /\ ustate' \in [Users -> UserState] /\ log' \subseteq Entry
      /\ sent' \subseteq Nat \X Users /\ burnt' \subseteq Nat
      /\ \A u \in Users : ustate'[u] = IF u \in A
              THEN Delivered(ustate[u], u \in R, e.seq) ELSE ustate[u]
  BY <1>a, AppendTypes
<1>c. tx[t].pc = "seq" /\ convLock = t /\ End(t) BY DEF Grows, OneSequencer
<1>1. RowsTyped'
  BY <1>b DEF Grows, RowsTyped, ConvRow
<1>2. BurntPast' BY <1>n, <1>a DEF BurntPast
<1>3. Base' BY <1>1, <1>2, <1>c, <1>n, BaseEnd
<1>4. HolesAreDuplicates'
  <2>1. {d.seq : d \in log'} = {d.seq : d \in log} \cup {e.seq} BY <1>a
  <2>2. 1 .. conv'.seq = (1 .. conv.seq) \cup {conv.seq + 1} BY <1>n
  <2>3. conv.seq + 1 \notin burnt BY <1>n DEF BurntPast
  <2>4. QED BY <1>a, <1>n, <2>1, <2>2, <2>3 DEF HolesAreDuplicates
<1>5. OneMessagePerClientId'
  <2> SUFFICES ASSUME NEW d \in log', NEW f \in log',
                      d.cid # None, d.cid = f.cid, d.sender = f.sender
               PROVE  d = f
    BY DEF OneMessagePerClientId
  <2>1. CASE d \in log /\ f \in log BY <2>1 DEF OneMessagePerClientId
  <2>2. CASE d = e /\ f \in log BY <2>2 DEF Grows, Saved
  <2>3. CASE d \in log /\ f = e BY <2>3 DEF Grows, Saved
  <2>4. QED BY <1>a, <2>1, <2>2, <2>3
<1>6. EventsMatchLog'
  <2>1. ASSUME NEW d \in sent' PROVE \E f \in log' : f.seq = d[1]
    <3>1. CASE d \in sent BY <1>a, <3>1 DEF EventsMatchLog
    <3>2. CASE d \in {e.seq} \X A BY <1>a, <3>2
    <3>3. QED BY <1>a, <3>1, <3>2
  <2>2. ASSUME NEW f \in log', f.sender # None PROVE <<f.seq, f.sender>> \in sent'
    <3>1. CASE f \in log BY <1>a, <2>2, <3>1 DEF EventsMatchLog
    <3>2. CASE f = e BY <1>a, <2>2, <3>2 DEF Grows
    <3>3. QED BY <1>a, <3>1, <3>2
  <2>3. QED BY <2>1, <2>2 DEF EventsMatchLog
<1>7. PointerIsNewest'
  <2>1. \A f \in log : f.seq <= conv.seq BY LogPast
  <2>2. \A f \in log : f.seq \in Nat BY LogPast
  <2>3. QED BY <1>a, <1>n, <2>1, <2>2 DEF PointerIsNewest
<1>8. UnreadNeverOvercounts'
  <2> SUFFICES ASSUME NEW u \in Users PROVE UnreadWithin(u)'
    BY DEF UnreadNeverOvercounts
  <2>1. ustate[u] \in UserState /\ UnreadWithin(u)
    BY DEF TypeOK, UserState, UnreadNeverOvercounts
  <2>2. CASE u \notin A
    BY <1>b, <1>n, <2>1, <2>2 DEF UnreadWithin, UserState
  <2>3. CASE u \in A
    <3> DEFINE s == ustate[u]  b == u \in R  d == Delivered(s, b, e.seq)
    <3>2. ustate'[u] = d BY <1>b, <2>3
    <3>0. e.seq \in Nat /\ b \in BOOLEAN /\ s \in UserState BY <1>n, <2>1
    <3>4. s.read <= conv.seq /\ s.delivered <= conv.seq /\ s.hidden <= conv.seq
      BY <2>1 DEF UnreadWithin
    <3> HIDE DEF b, s
    <3>1. /\ d.read = IF b THEN Larger(s.read, e.seq) ELSE s.read
          /\ d.delivered = Larger(s.delivered, e.seq)
          /\ d.hidden = s.hidden
          /\ d.unread = IF b THEN 0 ELSE Larger(0, Larger(s.delivered, e.seq) - s.read)
      BY <3>0, DeliveredIsState
    <3> HIDE DEF d
    <3>3. QED BY <1>n, <3>0, <3>1, <3>2, <3>4 DEF UnreadWithin, UserState, Larger
  <2>4. QED BY <2>2, <2>3
<1>9. JoinIsAnnounced'
  <2> SUFFICES ASSUME NEW u \in Users, member'[u].active
               PROVE  \E f \in log' : f.seq = member'[u].join /\ f.sender = None
    BY DEF JoinIsAnnounced, Active
  <2>1. CASE member[u].active /\ member'[u].join = member[u].join
    BY <1>a, <2>1 DEF JoinIsAnnounced, Active
  <2>2. CASE member'[u].join = e.seq /\ e.sender = None
    BY <1>a, <2>2
  <2>3. QED BY <2>1, <2>2 DEF Grows
<1>10. QED BY <1>3, <1>4, <1>5, <1>6, <1>7, <1>8, <1>9

(* A send that is folded into an earlier one only spends its sequence.     *)
LEMMA DuplicateKeeps ==
  ASSUME LogAssumption, Base, Rest, NEW t \in Txs, SaveDuplicate(t)
  PROVE  Base' /\ Rest'
<1> USE DEF Base, Rest
<1>1. /\ UNCHANGED <<member, ustate, log, sent>> /\ End(t)
      /\ conv' = [conv EXCEPT !.seq = tx[t].seq] /\ burnt' = burnt \cup {tx[t].seq}
  BY DEF SaveDuplicate
<1>2. tx[t].seq = conv.seq + 1 /\ convLock = t BY DEF SaveDuplicate, OneSequencer
<1>3. conv.seq \in Nat /\ conv'.seq = conv.seq + 1 /\ conv'.last = conv.last /\ conv' \in ConvRow
      /\ burnt' = burnt \cup {conv.seq + 1}
  BY <1>1, <1>2 DEF TypeOK, ConvRow
<1>4. RowsTyped' BY <1>1, <1>3 DEF RowsTyped, TypeOK, MemberRow, UserState
<1>5. BurntPast'
  <2>1. \A n \in burnt : n \in 1 .. conv'.seq BY <1>3 DEF BurntPast
  <2>2. conv.seq + 1 \in 1 .. conv'.seq BY <1>3
  <2>3. QED BY <1>3, <2>1, <2>2 DEF BurntPast
<1>6. Base' BY <1>1, <1>2, <1>3, <1>4, <1>5, BaseEnd
<1>7. HolesAreDuplicates'
  <2>1. 1 .. conv'.seq = (1 .. conv.seq) \cup {conv.seq + 1} BY <1>3
  <2>2. conv.seq + 1 \notin 1 .. conv.seq BY <1>3
  <2>3. QED BY <1>1, <1>3, <2>1, <2>2 DEF HolesAreDuplicates
<1>8. OneMessagePerClientId' /\ EventsMatchLog' /\ JoinIsAnnounced'
  BY <1>1 DEF OneMessagePerClientId, EventsMatchLog, JoinIsAnnounced, Active
<1>9. PointerIsNewest' BY <1>1, <1>3 DEF PointerIsNewest
<1>10. UnreadNeverOvercounts'
  <2>1. \A u \in Users : ustate[u] \in UserState BY DEF TypeOK, UserState
  <2>2. QED BY <1>1, <1>3, <2>1 DEF UnreadNeverOvercounts, UnreadWithin, UserState
<1>11. QED BY <1>6, <1>7, <1>8, <1>9, <1>10

(* Steps that leave the log and the counter alone.                         *)
Quiet ==
  /\ UNCHANGED <<member, ustate, log, sent, burnt>>
  /\ conv' \in ConvRow /\ conv'.seq = conv.seq /\ conv'.last = conv.last

LEMMA QuietKeeps ==
  ASSUME Rest, Quiet PROVE Rest'
BY DEF Rest, Quiet, HolesAreDuplicates, OneMessagePerClientId, EventsMatchLog, PointerIsNewest,
       UnreadNeverOvercounts, UnreadWithin, JoinIsAnnounced, Active

LEMMA QuietTyped ==
  ASSUME TypeOK, Quiet PROVE RowsTyped'
BY DEF TypeOK, Quiet, RowsTyped, MemberRow, UserState

(* A step that rewrites the state row of one user.                         *)
LEMMA UserStepKeeps ==
  ASSUME LogAssumption, Base, Rest, NEW t \in Txs, End(t),
         UNCHANGED <<conv, member, log, sent, burnt>>,
         NEW v \in Users, NEW s \in UserState, ustate' = [ustate EXCEPT ![v] = s],
         s.read <= conv.seq, s.delivered <= conv.seq, s.hidden <= conv.seq,
         s.unread <= conv.seq - s.read
  PROVE  Base' /\ Rest'
<1> USE DEF Base, Rest
<1>1. ustate \in [Users -> UserState] /\ conv.seq \in Nat BY DEF TypeOK, UserState
<1>2. ustate' \in [Users -> UserState] /\ ustate'[v] = s
      /\ \A u \in Users \ {v} : ustate'[u] = ustate[u]
  BY <1>1
<1>3. RowsTyped' BY <1>2 DEF RowsTyped, TypeOK, ConvRow, MemberRow
<1>4. Base' BY <1>1, <1>3, BaseEnd DEF BurntPast
<1>5. HolesAreDuplicates' /\ OneMessagePerClientId' /\ EventsMatchLog' /\ PointerIsNewest'
      /\ JoinIsAnnounced'
  BY DEF HolesAreDuplicates, OneMessagePerClientId, EventsMatchLog, PointerIsNewest,
         JoinIsAnnounced, Active
<1>6. UnreadNeverOvercounts'
  BY <1>2 DEF UnreadNeverOvercounts, UnreadWithin
<1>7. QED BY <1>4, <1>5, <1>6

LEMMA MarkReadKeeps ==
  ASSUME LogAssumption, Base, Rest, NEW t \in Txs, MarkConversationRead(t)
  PROVE  Base' /\ Rest'
<1> DEFINE x == tx[t]  v == x.user  old == ustate[v]  s == AfterRead(old, x.seq, x.head)
<1> USE DEF Base, Rest
<1>1. x.op = "read" /\ End(t) /\ UNCHANGED <<conv, member, log, sent, burnt>>
      /\ ustate' = [ustate EXCEPT ![v] = s]
  BY DEF MarkConversationRead
<1>2. x \in TxRecord /\ Shape(x) /\ x.head <= conv.seq /\ conv.seq \in Nat
  BY DEF TypeOK, TxShape, HeadsPast
<1>3. v \in Users /\ x.seq \in Nat /\ x.head \in Nat /\ x.seq <= x.head
  BY <1>1, <1>2 DEF Shape, TxRecord
<1>4. old \in UserState /\ UnreadWithin(v)
  BY <1>3 DEF TypeOK, UserState, UnreadNeverOvercounts
<1> HIDE DEF x, v, old
<1>5. /\ s \in UserState /\ s.read = Larger(old.read, x.seq)
      /\ s.unread = Larger(0, x.head - Larger(old.read, x.seq))
      /\ s.delivered = old.delivered /\ s.hidden = old.hidden
  <2>1. Larger(old.read, x.seq) \in Nat /\ Larger(0, x.head - Larger(old.read, x.seq)) \in Nat
    BY <1>3, <1>4 DEF Larger, UserState
  <2>2. QED BY <1>4, <2>1 DEF AfterRead, UserState
<1> HIDE DEF s
<1>6. old.read <= conv.seq /\ old.delivered <= conv.seq /\ old.hidden <= conv.seq
  BY <1>4 DEF UnreadWithin, old
<1>7. /\ s.read <= conv.seq /\ s.delivered <= conv.seq /\ s.hidden <= conv.seq
      /\ s.unread <= conv.seq - s.read
  BY <1>2, <1>3, <1>4, <1>5, <1>6 DEF Larger, UserState
<1>8. QED BY <1>1, <1>3, <1>5, <1>7, UserStepKeeps

LEMMA HideKeeps ==
  ASSUME LogAssumption, Base, Rest, NEW t \in Txs, HideConversation(t)
  PROVE  Base' /\ Rest'
<1> DEFINE x == tx[t]  v == x.user  old == ustate[v]
           s == [old EXCEPT !.hidden = Larger(@, x.head), !.unread = 0]
<1> USE DEF Base, Rest
<1>2. x \in TxRecord /\ Shape(x) /\ x.head <= conv.seq /\ conv.seq \in Nat /\ x.op = "hide"
  BY DEF TypeOK, TxShape, HeadsPast, HideConversation
<1>3. v \in Users /\ x.head \in Nat
  BY <1>2 DEF Shape, TxRecord
<1>4. old \in UserState /\ UnreadWithin(v) /\ ustate \in [Users -> UserState]
  BY <1>3 DEF TypeOK, UserState, UnreadNeverOvercounts
<1>1. End(t) /\ UNCHANGED <<conv, member, log, sent, burnt>>
      /\ ustate' = [ustate EXCEPT ![v] = s]
  <2> DEFINE mid == [ustate EXCEPT ![v].hidden = Larger(@, x.head)]
             half == [old EXCEPT !.hidden = Larger(@, x.head)]
  <2>1. ustate' = [mid EXCEPT ![v].unread = 0]
    BY DEF HideConversation
  <2>2. mid = [ustate EXCEPT ![v] = half] OBVIOUS
  <2>3. s = [half EXCEPT !.unread = 0] OBVIOUS
  <2> HIDE DEF x, v, mid, half, s
  <2>4. ustate' = [ustate EXCEPT ![v] = s]
    BY <1>3, <1>4, <2>1, <2>2, <2>3
  <2>5. QED BY <2>4 DEF HideConversation
<1> HIDE DEF x, v
<1>5. /\ s \in UserState /\ s.read = old.read /\ s.unread = 0
      /\ s.delivered = old.delivered /\ s.hidden = Larger(old.hidden, x.head)
  <2> DEFINE half == [old EXCEPT !.hidden = Larger(@, x.head)]
  <2>0. Larger(old.hidden, x.head) \in Nat BY <1>3, <1>4 DEF Larger, UserState
  <2>1. half \in UserState /\ half.read = old.read /\ half.delivered = old.delivered
        /\ half.hidden = Larger(old.hidden, x.head)
    BY <1>4, <2>0 DEF UserState
  <2>2. s = [half EXCEPT !.unread = 0] OBVIOUS
  <2> HIDE DEF half, s, old
  <2>3. QED BY <2>1, <2>2 DEF UserState
<1>6. old.read <= conv.seq /\ old.delivered <= conv.seq /\ old.hidden <= conv.seq
  BY <1>4 DEF UnreadWithin
<1> HIDE DEF s, old
<1>7. /\ s.read <= conv.seq /\ s.delivered <= conv.seq /\ s.hidden <= conv.seq
      /\ s.unread <= conv.seq - s.read
  BY <1>2, <1>3, <1>4, <1>5, <1>6 DEF Larger, UserState
<1>8. QED BY <1>1, <1>3, <1>5, <1>7, UserStepKeeps

(* The invariant is inductive: one step per action.                        *)
LEMMA LogInvStep ==
  ASSUME LogAssumption, Base, Rest, [Next]_vars
  PROVE  Base' /\ Rest'
<1> USE DEF Base
<1>c. conv \in ConvRow BY DEF TypeOK, ConvRow
<1>1. CASE UNCHANGED vars
  <2>1. Quiet BY <1>1, <1>c DEF vars, rows, Quiet
  <2>2. Base' BY <1>1 DEF vars, rows, locks, TypeOK, TxShape, HeadsPast, OneSequencer,
                          HeldRows, RowsFirst, BurntPast
  <2>3. QED BY <2>1, <2>2, QuietKeeps
<1>2. ASSUME NEW t \in Txs, Start(t) PROVE Base' /\ Rest'
  <2>1. UNCHANGED <<rows, locks>> BY <1>2, StartFacts
  <2>2. Quiet BY <2>1, <1>c DEF rows, Quiet
  <2>3. QED BY <1>2, <2>2, BaseStart, QuietKeeps
<1>3. ASSUME NEW t \in Txs, NEW u \in Users, LockRow(t, u) PROVE Base' /\ Rest'
  <2>1. Quiet BY <1>3, <1>c DEF LockRow, rows, Quiet
  <2>2. QED BY <1>3, <2>1, BaseLock, QuietKeeps
<1>4. ASSUME NEW t \in Txs, TakeSequence(t) PROVE Base' /\ Rest'
  <2>1. Quiet BY <1>4, <1>c DEF TakeSequence, rows, Quiet
  <2>2. QED BY <1>4, <2>1, BaseTake, QuietKeeps
<1>5. ASSUME NEW t \in Txs, End(t), Quiet PROVE Base' /\ Rest'
  <2>1. RowsTyped' BY <1>5, QuietTyped
  <2>2. conv.seq \in Nat /\ BurntPast' BY <1>5, <1>c DEF Quiet, ConvRow, BurntPast
  <2>3. Base' BY <1>5, <2>1, <2>2, BaseEnd DEF Quiet
  <2>4. QED BY <1>5, <2>3, QuietKeeps
<1>6. ASSUME NEW t \in Txs, Rollback(t) PROVE Base' /\ Rest'
  BY <1>5, <1>6, <1>c DEF Rollback, rows, Quiet
<1>7. ASSUME NEW t \in Txs, Disband(t) PROVE Base' /\ Rest'
  <2>1. conv' \in ConvRow /\ conv'.seq = conv.seq /\ conv'.last = conv.last
    BY <1>7, <1>c DEF Disband, ConvRow
  <2>2. QED BY <1>5, <1>7, <2>1 DEF Disband, Quiet
<1>8. ASSUME NEW t \in Txs, SaveMessage(t) \/ MutateGroup(t) PROVE Base' /\ Rest'
  BY <1>8, SaveGrows, MutationGrows, GrowthKeeps
<1>9. QED
  BY <1>1, <1>2, <1>3, <1>4, <1>6, <1>7, <1>8, DuplicateKeeps, MarkReadKeeps, HideKeeps
     DEF Next, Proceed

LEMMA LogInvInit ==
  ASSUME LogAssumption, Init PROVE Base /\ Rest
<1> USE DEF LogAssumption
<1>1. /\ conv \in ConvRow /\ conv.seq = 1 /\ conv.last = 1
      /\ log = {[seq |-> 1, sender |-> None, cid |-> None]} /\ sent = {} /\ burnt = {}
      /\ convLock = None /\ ops = 0 /\ overlap = FALSE
      /\ rowLock = [u \in Users |-> None] /\ tx = [t \in Txs |-> Idle]
  BY DEF Init, ConvRow
<1>2. member \in [Users -> MemberRow]
      /\ \A u \in Users : member[u].active => member[u].join = 1
  <2> DEFINE row(u) == [active |-> u \in Founders,
                        role   |-> IF u = Owner THEN OWNER ELSE MEMBER,
                        join   |-> IF u \in Founders THEN 1 ELSE 0,
                        leave  |-> 0]
  <2>1. member = [u \in Users |-> row(u)] BY DEF Init
  <2>2. \A u \in Users : row(u) \in MemberRow /\ (row(u).active => row(u).join = 1)
    <3> TAKE u \in Users
    <3>1. (u \in Founders) \in BOOLEAN OBVIOUS
    <3>2. (IF u = Owner THEN OWNER ELSE MEMBER) \in {MEMBER, ADMIN, OWNER} OBVIOUS
    <3>3. QED BY <3>1, <3>2 DEF MemberRow
  <2> HIDE DEF row
  <2>3. QED BY <2>1, <2>2
<1>3. \A u \in Users :
        /\ ustate[u] \in UserState
        /\ ustate[u].read <= 1 /\ ustate[u].delivered <= 1 /\ ustate[u].hidden <= 1
        /\ ustate[u].unread <= 1 - ustate[u].read
  BY DEF Init, UserState
<1>4. ustate \in [Users -> UserState]
  <2>1. ustate = [u \in Users |-> ustate[u]] BY DEF Init
  <2>2. QED BY <1>3, <2>1
<1>5. Idle \in TxRecord /\ Shape(Idle) /\ Idle.head = 0 /\ Idle.pc = "idle"
  BY DEF Idle, TxRecord, Shape, Sequenced, WithPeer
<1>6. TypeOK
  <2>1. log \subseteq Entry BY <1>1 DEF Entry
  <2>2. RowsTyped BY <1>1, <1>2, <1>4, <2>1 DEF RowsTyped
  <2>3. TxTyped
    <3>1. tx \in [Txs -> TxRecord] /\ rowLock \in [Users -> Txs \cup {None}]
      BY <1>1, <1>5
    <3>2. ops \in 0 .. MaxOps
      <4>1. ops = 0 BY <1>1
      <4>2. QED BY <4>1
    <3>3. overlap \in BOOLEAN
      <4>1. overlap = FALSE BY DEF Init
      <4>2. QED BY <4>1, Zenon
    <3>4. convLock \in Txs \cup {None}
      <4>1. convLock = None BY <1>1
      <4>2. QED BY <4>1
    <3>5. QED BY <3>1, <3>2, <3>3, <3>4 DEF TxTyped
  <2>4. QED BY <2>2, <2>3, TypeSplit
<1>7. TxShape /\ HeadsPast /\ OneSequencer /\ HeldRows /\ BurntPast
  BY <1>1, <1>5 DEF TxShape, HeadsPast, OneSequencer, HeldRows, BurntPast
<1>8. HolesAreDuplicates
  BY <1>1 DEF HolesAreDuplicates
<1>9. OneMessagePerClientId /\ EventsMatchLog /\ PointerIsNewest
  BY <1>1 DEF OneMessagePerClientId, EventsMatchLog, PointerIsNewest
<1>10. UnreadNeverOvercounts
  BY <1>1, <1>3 DEF UnreadNeverOvercounts, UnreadWithin
<1>11. JoinIsAnnounced
  BY <1>1, <1>2 DEF JoinIsAnnounced, Active
<1>12. QED BY <1>6, <1>7, <1>8, <1>9, <1>10, <1>11 DEF Base, Rest

(* The inductive invariant holds of every behaviour.                       *)
THEOREM Invariant == Spec => [](Base /\ Rest)
<1>1. Init => Base /\ Rest BY LogInvInit, LogAssumption
<1>2. Base /\ Rest /\ [Next]_vars => (Base /\ Rest)'
  BY LogInvStep, LogAssumption
<1>3. QED BY <1>1, <1>2, PTL DEF Spec

(* The rows and the transactions keep their types.                         *)
THEOREM TypeCorrect == Spec => []TypeOK
BY Invariant, PTL DEF Base

(* Only duplicate sends leave holes in the sequence.                       *)
THEOREM LogIsDense == Spec => []HolesAreDuplicates
BY Invariant, PTL DEF Rest

(* A client_message_id has one message, however retries interleave.        *)
THEOREM SendsAreIdempotent == Spec => []OneMessagePerClientId
BY Invariant, PTL DEF Rest

(* Delivery events and messages commit together.                           *)
THEOREM OutboxIsTransactional == Spec => []EventsMatchLog
BY Invariant, PTL DEF Rest

(* last_message_id is the newest message.                                  *)
THEOREM PointerIsRight == Spec => []PointerIsNewest
BY Invariant, PTL DEF Rest

(* No interleaving inflates an unread count.                               *)
THEOREM UnreadIsBounded == Spec => []UnreadNeverOvercounts
BY Invariant, PTL DEF Rest

(* A member's visible history starts with the message that announced him.  *)
THEOREM JoinIsRight == Spec => []JoinIsAnnounced
BY Invariant, PTL DEF Rest

(* A cycle of two waiting transactions needs one that locks rows first.    *)
THEOREM SendersAreFree == Spec => []SendersNeverDeadlock
<1>1. ASSUME Base PROVE SendersNeverDeadlock
  <2> SUFFICES ASSUME NEW s \in Txs, NEW t \in Txs, s # t, WaitsFor(s, t), WaitsFor(t, s),
                      tx[s].op \notin {"role", "add", "transfer"},
                      tx[t].op \notin {"role", "add", "transfer"}
               PROVE  FALSE
    BY DEF SendersNeverDeadlock
  <2>1. RowsFirst(tx[s]) = {} /\ RowsFirst(tx[t]) = {} BY DEF RowsFirst
  <2>2. s # None /\ t # None BY LogAssumption DEF LogAssumption
  <2>3. \A u \in Users : rowLock[u] # s /\ rowLock[u] # t
    BY <1>1, <2>1, <2>2 DEF Base, HeldRows
  <2>r. RowsAfter(tx[s]) \subseteq Users /\ RowsAfter(tx[t]) \subseteq Users
    BY <1>1 DEF RowsAfter, ExistingRows, Base, TxShape, Shape, WithPeer
  <2>4. convLock = t /\ convLock = s
    BY <2>1, <2>3, <2>r DEF WaitsFor
  <2>5. QED BY <2>4
<1>2. QED BY <1>1, Invariant, PTL

(* Messages become visible in the order of their sequences.                *)
THEOREM CommitsInOrder == Spec => CommitOrder
<1>1. ASSUME Base, Rest, [Next]_vars
      PROVE  [\A new \in log' \ log : \A old \in log : old.seq < new.seq]_vars
  <2> SUFFICES ASSUME Next, NEW new \in log' \ log, NEW old \in log
               PROVE  old.seq < new.seq
    BY <1>1
  <2>1. PICK t \in Txs : Start(t) \/ Proceed(t) BY DEF Next
  <2>2. SaveMessage(t) \/ MutateGroup(t)
    <3>1. Start(t) => log' = log BY <1>1, StartFacts, LogAssumption DEF Base, rows
    <3>2. QED
      BY <2>1, <3>1 DEF Proceed, LockRow, TakeSequence, Rollback, Disband, SaveDuplicate,
                   MarkConversationRead, HideConversation, rows
  <2>3. PICK e \in Entry, A \in SUBSET Users, R \in SUBSET Users : Grows(t, e, A, R)
    BY <1>1, <2>2, SaveGrows, MutationGrows, LogAssumption
  <2>4. new = e /\ e.seq = conv.seq + 1 BY <2>3 DEF Grows, Append
  <2>5. old.seq \in Nat /\ old.seq <= conv.seq BY <1>1, LogPast DEF Base, Rest
  <2>6. conv.seq \in Nat BY <1>1 DEF Base, TypeOK
  <2>7. QED BY <2>4, <2>5, <2>6
<1>2. QED BY <1>1, Invariant, PTL DEF Spec, CommitOrder

(* No step moves a watermark of a user back.                               *)
Forward(u) == /\ ustate[u].read <= ustate'[u].read
              /\ ustate[u].delivered <= ustate'[u].delivered
              /\ ustate[u].hidden <= ustate'[u].hidden

LEMMA MovesForward ==
  ASSUME Base, Rest, Next, NEW u \in Users PROVE Forward(u)
<1>0. ustate[u] \in UserState /\ ustate \in [Users -> UserState] /\ LogAssumption
  BY LogAssumption DEF Base, TypeOK, UserState
<1>1. PICK t \in Txs : Start(t) \/ Proceed(t) BY DEF Next
<1>2. CASE ustate'[u] = ustate[u]
  BY <1>0, <1>2 DEF Forward, UserState
<1>3. CASE SaveMessage(t) \/ MutateGroup(t)
  <2>1. PICK e \in Entry, A \in SUBSET Users, R \in SUBSET Users : Grows(t, e, A, R)
    BY <1>0, <1>3, SaveGrows, MutationGrows
  <2>2. Append(e, A, R) /\ e.seq \in Nat /\ (u \in R) \in BOOLEAN
    BY <2>1 DEF Grows, Entry
  <2>3. CASE u \notin A BY <1>0, <1>2, <2>2, <2>3 DEF Append
  <2>4. CASE u \in A
    <3> DEFINE s == ustate[u]  b == u \in R  d == Delivered(s, b, e.seq)
    <3>1. ustate'[u] = d BY <2>2, <2>4 DEF Append
    <3>0. s \in UserState /\ b \in BOOLEAN /\ e.seq \in Nat BY <1>0, <2>2
    <3>4. Forward(u) <=> /\ s.read <= ustate'[u].read
                         /\ s.delivered <= ustate'[u].delivered
                         /\ s.hidden <= ustate'[u].hidden
      BY DEF Forward
    <3> HIDE DEF b, s
    <3>2. /\ d.read = IF b THEN Larger(s.read, e.seq) ELSE s.read
          /\ d.delivered = Larger(s.delivered, e.seq)
          /\ d.hidden = s.hidden
      BY <3>0, DeliveredIsState
    <3> HIDE DEF d
    <3>3. QED BY <3>0, <3>1, <3>2, <3>4 DEF UserState, Larger
  <2>5. QED BY <2>3, <2>4
<1>4. CASE MarkConversationRead(t)
  <2>1. CASE u = tx[t].user
    <3> DEFINE s == AfterRead(ustate[u], tx[t].seq, tx[t].head)
    <3>1. ustate'[u] = s BY <1>0, <1>4, <2>1 DEF MarkConversationRead
    <3>2. tx[t].seq \in Nat BY DEF Base, TypeOK, TxRecord
    <3>3. s.read = Larger(ustate[u].read, tx[t].seq) /\ s.delivered = ustate[u].delivered
          /\ s.hidden = ustate[u].hidden
      BY <1>0 DEF AfterRead, UserState
    <3> HIDE DEF s
    <3>4. QED BY <1>0, <3>1, <3>2, <3>3 DEF Forward, UserState, Larger
  <2>2. CASE u # tx[t].user
    BY <1>0, <1>2, <1>4, <2>2 DEF MarkConversationRead
  <2>3. QED BY <2>1, <2>2
<1>5. CASE HideConversation(t)
  <2> DEFINE v == tx[t].user  head == tx[t].head
             mid == [ustate EXCEPT ![v].hidden = Larger(@, head)]
  <2>1. ustate' = [mid EXCEPT ![v].unread = 0] BY <1>5 DEF HideConversation
  <2>2. head \in Nat BY DEF Base, TypeOK, TxRecord
  <2>3. /\ mid[u].read = ustate[u].read /\ mid[u].delivered = ustate[u].delivered
        /\ ustate[u].hidden <= mid[u].hidden
        /\ DOMAIN mid = Users /\ mid[u] \in UserState
    <3>1. CASE u = v BY <1>0, <2>2, <3>1 DEF UserState, Larger
    <3>2. CASE u # v BY <1>0, <3>2 DEF UserState
    <3>3. QED BY <3>1, <3>2
  <2> HIDE DEF v, head, mid
  <2>4. /\ ustate'[u].read = mid[u].read /\ ustate'[u].delivered = mid[u].delivered
        /\ ustate'[u].hidden = mid[u].hidden
    <3>1. CASE u = v BY <2>1, <2>3, <3>1 DEF UserState
    <3>2. CASE u # v BY <2>1, <2>3, <3>2 DEF UserState
    <3>3. QED BY <3>1, <3>2
  <2>5. QED BY <1>0, <2>3, <2>4 DEF Forward, UserState
<1>6. CASE Start(t)
  BY <1>0, <1>2, <1>6, StartFacts DEF Base, rows
<1>7. QED
  BY <1>1, <1>2, <1>3, <1>4, <1>5, <1>6
     DEF Proceed, LockRow, TakeSequence, Rollback, Disband, SaveDuplicate, rows

(* No watermark of a user moves back.                                      *)
THEOREM WatermarksNeverRegress == Spec => WatermarksGrow
<1>1. Base /\ Rest /\ [Next]_vars => [\A u \in Users : Forward(u)]_vars
  BY MovesForward
<1>2. QED BY <1>1, Invariant, PTL DEF Spec, WatermarksGrow, Forward

(* The steps of the log, as steps of LogPromise.                           *)
LEMMA GrowthPosts ==
  ASSUME LogAssumption, Base, Rest, Base', Rest', \A u \in Users : Forward(u), NEW t \in Txs,
         NEW e \in Entry, NEW A \in SUBSET Users, NEW R \in SUBSET Users, Grows(t, e, A, R)
  PROVE  Promise!Post(e.sender, e.cid, A)
<1>1. e = [seq |-> conv.seq + 1, sender |-> e.sender, cid |-> e.cid] /\ conv.seq \in Nat
  BY DEF Grows, Entry, Base, TypeOK
<1>2. Promise!New(e.sender, e.cid) /\ (e.sender # None => e.sender \in A)
  BY DEF Grows, Promise!New, Saved
<1>3. conv'.seq = conv.seq + 1 /\ log' = log \cup {e} /\ sent' = sent \cup ({conv.seq + 1} \X A)
  BY DEF Grows, Append
<1>4. ASSUME NEW u \in A PROVE ustate'[u].delivered = conv.seq + 1
  <2> DEFINE s == ustate[u]  b == u \in R
  <2>1. s \in UserState /\ s.delivered <= conv.seq /\ b \in BOOLEAN /\ e.seq \in Nat
    BY DEF Base, Rest, TypeOK, UserState, UnreadNeverOvercounts, UnreadWithin, Entry
  <2>2. ustate'[u] = Delivered(s, b, e.seq)
    BY DEF Grows, Append
  <2> HIDE DEF s, b
  <2>3. ustate'[u].delivered = Larger(s.delivered, e.seq)
    BY <2>1, <2>2, DeliveredIsState
  <2> QED
    BY <1>1, <2>1, <2>3 DEF Larger, UserState
<1>5. Promise!Moves(A)
  <2>1. ustate' \in [Users -> Promise!State]
    BY DEF Base, TypeOK, Promise!State
  <2>2. \A u \in A : Promise!Forward(ustate[u], ustate'[u]) /\ Promise!Within(ustate'[u], conv'.seq)
    BY DEF Forward, Rest, UnreadNeverOvercounts, UnreadWithin, Promise!Forward, Promise!Within
  <2>3. \A u \in Users \ A : ustate'[u] = ustate[u]
    BY DEF Grows, Append
  <2> QED
    BY <2>1, <2>2, <2>3 DEF Promise!Moves
<1> QED
  BY <1>1, <1>2, <1>3, <1>4, <1>5 DEF Promise!Post

LEMMA DuplicateRepeats ==
  ASSUME LogAssumption, Base, NEW t \in Txs, SaveDuplicate(t)
  PROVE  Promise!Repeat
<1> DEFINE x == tx[t]
<1>1. x.cid \in Cids /\ x.seq = conv.seq + 1 /\ conv.seq \in Nat /\ Saved(x.user, x.cid)
  BY DEF Base, SaveDuplicate, TxShape, Shape, OneSequencer, TypeOK, Conflict
<1>2. \E e \in log : e.cid # None
  BY <1>1 DEF Saved, LogAssumption
<1>3. conv'.seq = conv.seq + 1 /\ UNCHANGED <<log, sent, ustate>>
  BY <1>1 DEF SaveDuplicate, Base, TypeOK
<1> QED
  BY <1>2, <1>3 DEF Promise!Repeat

LEMMA StateStepProgresses ==
  ASSUME LogAssumption, Base, Rest, Base', Rest', \A u \in Users : Forward(u), NEW t \in Txs,
         MarkConversationRead(t) \/ HideConversation(t)
  PROVE  \E u \in Users : Promise!Progress(u)
<1> DEFINE v == tx[t].user
<1>1. v \in Users
  BY DEF MarkConversationRead, HideConversation, Base, TxShape, Shape
<1>2. UNCHANGED <<conv, log, sent>> /\ \A u \in Users \ {v} : ustate'[u] = ustate[u]
  BY DEF MarkConversationRead, HideConversation, Base, TypeOK
<1>3. ustate' \in [Users -> Promise!State]
  BY DEF Base, TypeOK, Promise!State
<1>4. Promise!Forward(ustate[v], ustate'[v]) /\ Promise!Within(ustate'[v], conv'.seq)
  BY <1>1 DEF Forward, Rest, UnreadNeverOvercounts, UnreadWithin, Promise!Forward, Promise!Within
<1>5. Promise!Moves({v})
  BY <1>2, <1>3, <1>4 DEF Promise!Moves
<1> QED
  BY <1>1, <1>2, <1>5 DEF Promise!Progress

(* The log is what LogPromise says, for every group, and however requests  *)
(* overlap, fail or are repeated: what commits is a post under the next    *)
(* number, a repeat, or the progress of one user.                          *)
THEOREM LogKeepsPromise == Spec => LogPromiseKept
<1> DEFINE shows == <<conv.seq, log, sent, ustate>>
<1>1. Init /\ Base /\ Rest => Promise!Init
  BY DEF Init, Base, Rest, TypeOK, UnreadNeverOvercounts, UnreadWithin, Promise!Init,
         Promise!State, Promise!Within
<1>2. Base /\ Rest /\ (Base /\ Rest)' /\ [Next]_vars => [Promise!Next]_shows
  <2> SUFFICES ASSUME Base, Rest, Base', Rest', [Next]_vars PROVE [Promise!Next]_shows
    OBVIOUS
  <2>0. LogAssumption
    BY LogAssumption
  <2>1. CASE UNCHANGED vars
    BY <2>1 DEF vars, rows
  <2>2. CASE Next
    <3>1. \A u \in Users : Forward(u)
      BY <2>2, MovesForward
    <3>2. PICK t \in Txs : Start(t) \/ Proceed(t)
      BY <2>2 DEF Next
    <3>3. CASE Start(t)
      BY <2>0, <3>3, StartFacts DEF Base, rows
    <3>4. CASE SaveMessage(t) \/ MutateGroup(t)
      <4>1. PICK e \in Entry, A \in SUBSET Users, R \in SUBSET Users : Grows(t, e, A, R)
        BY <2>0, <3>4, SaveGrows, MutationGrows
      <4>2. Promise!Post(e.sender, e.cid, A)
        BY <2>0, <3>1, <4>1, GrowthPosts
      <4>3. e.sender \in Users \cup {None} /\ e.cid \in Cids \cup {None}
        BY DEF Entry
      <4> QED
        BY <4>2, <4>3 DEF Promise!Next
    <3>5. CASE SaveDuplicate(t)
      BY <2>0, <3>5, DuplicateRepeats DEF Promise!Next
    <3>6. CASE MarkConversationRead(t) \/ HideConversation(t)
      BY <2>0, <3>1, <3>6, StateStepProgresses DEF Promise!Next
    <3>7. CASE Disband(t)
      BY <3>7 DEF Disband, Base, TypeOK
    <3> QED
      BY <3>2, <3>3, <3>4, <3>5, <3>6, <3>7 DEF Proceed, LockRow, TakeSequence, Rollback, rows
  <2> QED
    BY <2>1, <2>2
<1> QED
  BY <1>1, <1>2, Invariant, PTL DEF Spec, LogPromiseKept, Promise!Spec
----------------------------------------------------------------------------
(* Requests that take turns.  What a request read still holds when it      *)
(* writes, since nobody else has written.                                  *)
StillTrue(x) ==
  /\ x.op = "send" => x.audience = Active
  /\ x.op = "add" => x.peer \notin Active /\ x.role # OWNER /\ Active # {}
  /\ x.op = "leave" => x.peer = x.user /\ MayLeave(x.user)
  /\ x.op = "remove" => member[x.peer].role # OWNER
  /\ x.op = "role" => member[x.peer].role # OWNER /\ x.role # OWNER
  /\ x.op = "transfer" => /\ {x.user, x.peer} \subseteq Active /\ x.user # x.peer
                          /\ member[x.user].role = OWNER

Running(t) == tx[t].pc # "idle"

Turn ==
  ~overlap => /\ OneOwner /\ AudienceIsExact
              /\ \A t \in Txs : Running(t) => StillTrue(tx[t])
              /\ \A s, t \in Txs : Running(s) /\ Running(t) => s = t

(* A request that starts has just read what it relies on.                  *)
LEMMA StartReads ==
  ASSUME LogAssumption, TypeOK, NEW t \in Txs, Start(t)
  PROVE  /\ StillTrue(tx'[t]) /\ \A s \in Txs \ {t} : tx'[s] = tx[s]
         /\ overlap' = (overlap \/ \E s \in Txs \ {t} : tx[s].pc # "idle")
         /\ UNCHANGED <<conv, member, sent, log>>
<1> DEFINE Goal == /\ StillTrue(tx'[t]) /\ \A s \in Txs \ {t} : tx'[s] = tx[s]
                   /\ overlap' = (overlap \/ \E s \in Txs \ {t} : tx[s].pc # "idle")
                   /\ UNCHANGED <<conv, member, sent, log>>
<1>0. tx \in [Txs -> TxRecord] BY DEF TypeOK
<1>b. ASSUME NEW x, StillTrue(x), Begin(t, x) PROVE Goal
  BY <1>0, <1>b DEF Begin, rows
<1> HIDE DEF Goal
<1>1. PICK u \in Users :
        \/ \E c \in Cids : BeginSend(t, u, c)
        \/ \E v \in Users : \/ \E r \in {MEMBER, ADMIN} : BeginAdd(t, u, v, r)
                            \/ \E r \in {MEMBER, ADMIN} : BeginRole(t, u, v, r)
                            \/ BeginRemove(t, u, v)
                            \/ BeginTransfer(t, u, v)
        \/ BeginLeave(t, u) \/ BeginDisband(t, u) \/ BeginHide(t, u)
        \/ \E n \in 1 .. conv.seq : BeginRead(t, u, n)
  BY DEF Start
<1>2. ASSUME NEW c \in Cids, BeginSend(t, u, c) PROVE Goal
  <2> DEFINE x == [Request("send", u, None) EXCEPT !.cid = c, !.audience = Audience(u)]
  <2>1. x.op = "send" /\ x.audience = Audience(u) BY DEF Request
  <2>2. StillTrue(x) BY <2>1 DEF StillTrue, Audience
  <2>3. Begin(t, x) BY <1>2 DEF BeginSend
  <2> HIDE DEF x
  <2>4. QED BY <1>b, <2>2, <2>3
<1>3. ASSUME NEW v \in Users, NEW r \in {MEMBER, ADMIN}, BeginAdd(t, u, v, r) PROVE Goal
  <2> DEFINE x == [Request("add", u, v) EXCEPT !.role = r]
  <2>1. x.op = "add" /\ x.peer = v /\ x.role = r BY DEF Request
  <2>2. StillTrue(x) BY <1>3, <2>1 DEF StillTrue, BeginAdd, InGroup
  <2>3. QED BY <1>b, <1>3, <2>2 DEF BeginAdd
<1>4. ASSUME NEW v \in Users, NEW r \in {MEMBER, ADMIN}, BeginRole(t, u, v, r) PROVE Goal
  <2> DEFINE x == [Request("role", u, v) EXCEPT !.role = r]
  <2>1. x.op = "role" /\ x.peer = v /\ x.role = r BY DEF Request
  <2>2. StillTrue(x) BY <1>4, <2>1 DEF StillTrue, BeginRole
  <2>3. QED BY <1>b, <1>4, <2>2 DEF BeginRole
<1>5. ASSUME NEW v \in Users, BeginRemove(t, u, v) PROVE Goal
  <2>1. StillTrue(Request("remove", u, v)) BY <1>5 DEF StillTrue, BeginRemove, CanRemove, Request
  <2>2. QED BY <1>b, <1>5, <2>1 DEF BeginRemove
<1>6. ASSUME NEW v \in Users, BeginTransfer(t, u, v) PROVE Goal
  <2>1. StillTrue(Request("transfer", u, v)) BY <1>6 DEF StillTrue, BeginTransfer, InGroup, Request
  <2>2. QED BY <1>b, <1>6, <2>1 DEF BeginTransfer
<1>7. ASSUME BeginLeave(t, u) PROVE Goal
  <2>1. StillTrue(Request("leave", u, u)) BY <1>7 DEF StillTrue, BeginLeave, Request
  <2>2. QED BY <1>b, <1>7, <2>1 DEF BeginLeave
<1>8. ASSUME BeginDisband(t, u) PROVE Goal
  <2>1. StillTrue(Request("disband", u, None)) BY DEF StillTrue, Request
  <2>2. QED BY <1>b, <1>8, <2>1 DEF BeginDisband
<1>9. ASSUME BeginHide(t, u) PROVE Goal
  <2>1. StillTrue([Request("hide", u, None) EXCEPT !.head = conv.seq]) BY DEF StillTrue, Request
  <2>2. QED BY <1>b, <1>9, <2>1 DEF BeginHide
<1>10. ASSUME NEW n \in 1 .. conv.seq, BeginRead(t, u, n) PROVE Goal
  <2>1. StillTrue([Request("read", u, None) EXCEPT !.seq = n, !.head = conv.seq])
    BY DEF StillTrue, Request
  <2>2. QED BY <1>b, <1>10, <2>1 DEF BeginRead
<1>11. Goal BY <1>1, <1>2, <1>3, <1>4, <1>5, <1>6, <1>7, <1>8, <1>9, <1>10
<1>12. QED BY <1>11 DEF Goal

(* What a group mutation makes of each row.                                *)
LEMMA RowsAfterMutation ==
  ASSUME TypeOK, NEW x \in TxRecord, Shape(x), x.op \in WithPeer, NEW u \in Users
  PROVE  LET r == MembersAfter(x)[u] IN
         /\ x.op = "add" => IF u = x.peer THEN r.active /\ r.role = x.role /\ r.join = x.seq
                                          ELSE r = member[u]
         /\ x.op \in {"leave", "remove"} =>
              IF u = x.peer THEN ~r.active /\ r.leave = x.seq ELSE r = member[u]
         /\ x.op \in {"role", "transfer"} =>
              r.active = member[u].active /\ r.join = member[u].join /\ r.leave = member[u].leave
         /\ x.op = "role" => r.role = IF u = x.peer THEN x.role ELSE member[u].role
         /\ x.op = "transfer" /\ x.user # x.peer =>
              r.role = IF u = x.user THEN ADMIN ELSE IF u = x.peer THEN OWNER ELSE member[u].role
<1> DEFINE r == MembersAfter(x)[u]
<1>0. member \in [Users -> MemberRow] BY DEF TypeOK, MemberRow
<1>p. x.peer \in Users /\ x.user \in Users /\ x.pc # "idle"
  BY DEF Shape, WithPeer
<1>1. CASE x.op = "add"
  BY <1>0, <1>1, <1>p DEF MembersAfter, Joined
<1>2. CASE x.op \in {"leave", "remove"}
  <2> DEFINE gone == [member EXCEPT ![x.peer].active = FALSE]
  <2>1. MembersAfter(x) = [gone EXCEPT ![x.peer].leave = x.seq] BY <1>2 DEF MembersAfter
  <2>2. /\ DOMAIN gone = Users /\ gone[x.peer].active = FALSE /\ gone[x.peer] \in MemberRow
        /\ u # x.peer => gone[u] = member[u]
    BY <1>0, <1>p DEF MemberRow
  <2> HIDE DEF gone
  <2>3. CASE u = x.peer
    <3>1. MembersAfter(x)[u] = [gone[u] EXCEPT !.leave = x.seq] BY <2>1, <2>2, <2>3
    <3>2. MembersAfter(x)[u].active = gone[u].active /\ MembersAfter(x)[u].leave = x.seq
      BY <2>2, <2>3, <3>1 DEF MemberRow
    <3>3. QED BY <1>2, <2>2, <2>3, <3>2
  <2>4. CASE u # x.peer
    <3>1. MembersAfter(x)[u] = gone[u] BY <2>1, <2>2, <2>4
    <3>2. QED BY <1>2, <2>2, <2>4, <3>1
  <2>5. QED BY <2>3, <2>4
<1>3. CASE x.op = "role"
  BY <1>0, <1>3, <1>p DEF MembersAfter, MemberRow
<1>4. CASE x.op = "transfer"
  <2> DEFINE crowned == [member EXCEPT ![x.peer].role = OWNER]
  <2>1. MembersAfter(x) = [crowned EXCEPT ![x.user].role = ADMIN] BY <1>4 DEF MembersAfter
  <2>2. /\ DOMAIN crowned = Users /\ crowned[u] \in MemberRow
        /\ crowned[u].active = member[u].active /\ crowned[u].join = member[u].join
        /\ crowned[u].leave = member[u].leave
        /\ crowned[u].role = IF u = x.peer THEN OWNER ELSE member[u].role
    BY <1>0, <1>p DEF MemberRow
  <2> HIDE DEF crowned
  <2>3. /\ MembersAfter(x)[u].active = crowned[u].active
        /\ MembersAfter(x)[u].join = crowned[u].join
        /\ MembersAfter(x)[u].leave = crowned[u].leave
        /\ MembersAfter(x)[u].role = IF u = x.user THEN ADMIN ELSE crowned[u].role
    BY <1>p, <2>1, <2>2 DEF MemberRow
  <2>4. QED BY <1>4, <2>2, <2>3
<1>5. QED BY <1>1, <1>2, <1>3, <1>4 DEF WithPeer

(* A mutation whose reads still hold leaves one owner.                     *)
LEMMA OneOwnerStays ==
  ASSUME LogAssumption, Base, NEW t \in Txs, MutateGroup(t), StillTrue(tx[t]), OneOwner
  PROVE  OneOwner'
<1> DEFINE x == tx[t]
<1>1. x \in TxRecord /\ Shape(x) /\ x.op \in WithPeer
  BY DEF MutateGroup, Base, TypeOK, TxShape, Sequenced, WithPeer
<1>2. x.peer \in Users /\ x.user \in Users /\ x.pc # "idle"
  BY <1>1 DEF Shape, WithPeer
<1>3. member' = MembersAfter(x) /\ conv \in ConvRow
      /\ conv' = [conv EXCEPT !.seq = x.seq, !.last = x.seq,
                              !.owner = IF x.op = "transfer" THEN x.peer ELSE @]
  BY DEF MutateGroup, Base, TypeOK, ConvRow
<1>4. conv'.owner = IF x.op = "transfer" THEN x.peer ELSE conv.owner
  BY <1>3 DEF ConvRow
<1>5. SUFFICES ASSUME Active' # {}
               PROVE  {u \in Active' : member'[u].role = OWNER} = {conv'.owner}
  BY DEF OneOwner
<1>6. StillTrue(x) /\ TypeOK BY DEF Base
<1>7. \A u \in Users : member[u].active => Active # {}
  BY DEF Active
<1>8. CASE x.op = "add"
  <2>1. \A u \in Users : u \in Active' /\ member'[u].role = OWNER
                           <=> u \in Active /\ member[u].role = OWNER
    BY <1>1, <1>3, <1>6, <1>8, RowsAfterMutation DEF Active, StillTrue
  <2>2. QED BY <1>4, <1>6, <1>8, <2>1 DEF Active, OneOwner, StillTrue
<1>9. CASE x.op \in {"leave", "remove"}
  <2>1. \A u \in Users : u \in Active' <=> u \in Active \ {x.peer}
    BY <1>1, <1>3, <1>6, <1>9, RowsAfterMutation DEF Active
  <2>2. \A u \in Users \ {x.peer} : member'[u] = member[u]
    BY <1>1, <1>3, <1>6, <1>9, RowsAfterMutation
  <2>3. member[x.peer].role # OWNER
    <3>1. CASE x.op = "remove" BY <1>6, <3>1 DEF StillTrue
    <3>2. CASE x.op = "leave"
      <4>1. x.peer = x.user /\ MayLeave(x.user) BY <1>6, <3>2 DEF StillTrue
      <4>2. x.peer \in Active BY <3>2 DEF MutateGroup
      <4>3. PICK v \in Active : v # x.peer BY <1>5, <2>1 DEF Active
      <4>4. IsFiniteSet(Active) BY FS_Subset DEF LogAssumption, Active
      <4>5. Cardinality({v, x.peer}) = 2
        <5>1. Cardinality({x.peer}) = 1 /\ IsFiniteSet({x.peer}) BY FS_Singleton
        <5>2. {v, x.peer} = {x.peer} \cup {v} OBVIOUS
        <5>3. Cardinality({x.peer} \cup {v}) = Cardinality({x.peer}) + 1
          BY <4>3, <5>1, FS_AddElement
        <5>4. QED BY <5>1, <5>2, <5>3
      <4>6. Cardinality(Active) \in Nat /\ 2 <= Cardinality(Active)
        BY <4>2, <4>3, <4>4, <4>5, FS_Subset, FS_CardinalityType
      <4>7. QED BY <4>1, <4>6 DEF MayLeave
    <3>3. QED BY <1>9, <3>1, <3>2
  <2>4. \A u \in Users : u \in Active' /\ member'[u].role = OWNER
                           <=> u \in Active /\ member[u].role = OWNER
    BY <2>1, <2>2, <2>3
  <2>5. Active # {} BY <1>5, <2>1 DEF Active
  <2>6. QED BY <1>4, <1>9, <2>4, <2>5 DEF Active, OneOwner
<1>10. CASE x.op = "role"
  <2>1. \A u \in Users : u \in Active' /\ member'[u].role = OWNER
                           <=> u \in Active /\ member[u].role = OWNER
    BY <1>1, <1>3, <1>6, <1>10, RowsAfterMutation DEF Active, StillTrue
  <2>2. Active # {}
    BY <1>1, <1>3, <1>5, <1>6, <1>10, RowsAfterMutation DEF Active
  <2>3. QED BY <1>4, <1>10, <2>1, <2>2 DEF Active, OneOwner
<1>11. CASE x.op = "transfer"
  <2>1. {x.user, x.peer} \subseteq Active /\ x.user # x.peer /\ member[x.user].role = OWNER
    BY <1>6, <1>11 DEF StillTrue
  <2>2. conv.owner = x.user BY <2>1 DEF OneOwner
  <2>3. \A u \in Users : u \in Active <=> u \in Active'
    BY <1>1, <1>3, <1>6, <1>11, RowsAfterMutation DEF Active
  <2>4. \A u \in Users : member'[u].role = IF u = x.user THEN ADMIN
                                           ELSE IF u = x.peer THEN OWNER ELSE member[u].role
    BY <1>1, <1>3, <1>6, <1>11, <2>1, RowsAfterMutation
  <2>5. \A u \in Active : member[u].role = OWNER => u = x.user
    BY <2>1, <2>2 DEF OneOwner
  <2>6. \A u \in Users : u \in Active' /\ member'[u].role = OWNER <=> u = x.peer
    BY <2>1, <2>3, <2>4, <2>5
  <2>7. QED BY <1>2, <1>4, <1>11, <2>6 DEF Active
<1>12. QED BY <1>1, <1>8, <1>9, <1>10, <1>11 DEF WithPeer

(* A new message that reaches just the members keeps every audience exact. *)
LEMMA AudienceStays ==
  ASSUME LogAssumption, Base, Rest, NEW t \in Txs, SaveMessage(t) \/ MutateGroup(t),
         StillTrue(tx[t]), AudienceIsExact
  PROVE  AudienceIsExact'
<1> DEFINE x == tx[t]
<1>0. /\ x \in TxRecord /\ Shape(x) /\ TypeOK /\ conv.seq \in Nat /\ x.seq = conv.seq + 1
      /\ sent \subseteq Nat \X Users
  BY DEF SaveMessage, MutateGroup, Base, TypeOK, TxShape, OneSequencer
<1>1. /\ sent' = sent \cup ({x.seq} \X Active') /\ Active' \subseteq Users
      /\ \A e \in log' : e \in log \/ e.seq = x.seq
  <2>1. CASE SaveMessage(t)
    <3>1. x.op = "send" /\ member' = member
          /\ Append([seq |-> x.seq, sender |-> x.user, cid |-> x.cid], x.audience, {x.user})
      BY <2>1 DEF SaveMessage
    <3>2. x.audience = Active /\ Active' = Active BY <3>1 DEF StillTrue, Active
    <3>3. QED BY <3>1, <3>2 DEF Append, Active
  <2>2. CASE MutateGroup(t)
    <3>1. Notified(member') = Active' /\ Active' \subseteq Users BY DEF Notified, Active
    <3>2. \E readers : Append([seq |-> x.seq, sender |-> None, cid |-> None],
                              Notified(member'), readers)
      BY <2>2 DEF MutateGroup
    <3>3. QED BY <3>1, <3>2 DEF Append
  <2>3. QED BY <2>1, <2>2
<1>2. \A e \in log : e.seq \in Nat /\ e.seq <= conv.seq
  BY LogPast DEF Base, Rest
<1>3. \A d \in sent : d[1] \in Nat /\ d[2] \in Users /\ d[1] <= conv.seq
  <2> SUFFICES ASSUME NEW d \in sent PROVE d[1] \in Nat /\ d[2] \in Users /\ d[1] <= conv.seq
    OBVIOUS
  <2>1. d[1] \in {e.seq : e \in log} BY DEF Rest, EventsMatchLog
  <2>2. QED BY <1>0, <1>2, <2>1
<1>4. ASSUME NEW u \in Users
      PROVE  /\ ~member'[u].active => \/ ~member[u].active /\ member'[u].leave = member[u].leave
                                      \/ member'[u].leave = x.seq
             /\ member'[u].active => \/ member[u].active /\ member'[u].join = member[u].join
                                     \/ member'[u].join = x.seq
  <2>1. CASE SaveMessage(t) BY <2>1 DEF SaveMessage
  <2>2. CASE MutateGroup(t)
    <3>1. member' = MembersAfter(x) /\ x.op \in WithPeer
      BY <1>0, <2>2 DEF MutateGroup, Sequenced, WithPeer
    <3>2. QED BY <1>0, <3>1, RowsAfterMutation DEF WithPeer
  <2>3. QED BY <2>1, <2>2
<1>5. ASSUME NEW d \in sent', ~member'[d[2]].active PROVE d[1] < member'[d[2]].leave
  <2>1. CASE d \in sent
    BY <1>0, <1>3, <1>4, <1>5, <2>1 DEF AudienceIsExact
  <2>2. CASE d \in {x.seq} \X Active'
    BY <1>5, <2>2 DEF Active
  <2>3. QED BY <1>1, <2>1, <2>2
<1>6. ASSUME NEW e \in log', NEW u \in Active', member'[u].join < e.seq
      PROVE  <<e.seq, u>> \in sent'
  <2>1. CASE e \in log
    <3>1. u \in Users /\ member'[u].active BY DEF Active
    <3>2. member[u].active /\ member'[u].join = member[u].join
      BY <1>0, <1>2, <1>4, <1>6, <2>1, <3>1
    <3>3. <<e.seq, u>> \in sent BY <1>6, <2>1, <3>1, <3>2 DEF AudienceIsExact, Active
    <3>4. QED BY <1>1, <3>3
  <2>2. CASE e.seq = x.seq BY <1>1, <2>2
  <2>3. QED BY <1>1, <2>1, <2>2
<1>7. QED BY <1>5, <1>6 DEF AudienceIsExact

(* Taking turns is inductive: one step per kind of action.                 *)
LEMMA TurnStep ==
  ASSUME LogAssumption, Base, Rest, Turn, [Next]_vars
  PROVE  Turn'
<1>0. TypeOK /\ tx \in [Txs -> TxRecord] /\ overlap \in BOOLEAN BY DEF Base, TypeOK
<1>1. CASE UNCHANGED vars
  BY <1>1 DEF vars, rows, Turn, OneOwner, AudienceIsExact, Active, Running, StillTrue, MayLeave
<1>2. SUFFICES ASSUME NEW t \in Txs, Start(t) \/ Proceed(t), ~overlap' PROVE Turn'
  BY <1>1 DEF Next, Turn
<1>3. CASE Start(t)
  <2>1. /\ StillTrue(tx'[t]) /\ \A s \in Txs \ {t} : tx'[s] = tx[s]
        /\ overlap' = (overlap \/ \E s \in Txs \ {t} : tx[s].pc # "idle")
        /\ UNCHANGED <<conv, member, sent, log>>
    BY <1>0, <1>3, StartReads
  <2>2. ~overlap /\ \A s \in Txs \ {t} : ~Running(s)
    BY <1>2, <2>1 DEF Running
  <2>3. \A s \in Txs \ {t} : ~(tx'[s].pc # "idle") BY <2>1, <2>2 DEF Running
  <2>4. OneOwner' /\ AudienceIsExact'
    BY <2>1, <2>2 DEF Turn, OneOwner, AudienceIsExact, Active
  <2>5. StillTrue(tx[t])'
    BY <2>1 DEF StillTrue, Active, MayLeave
  <2>6. QED BY <2>3, <2>4, <2>5 DEF Turn, Running
<1>4. ASSUME UNCHANGED <<conv, member, sent, log, overlap>>,
             tx'[t].pc # "idle", tx[t].pc # "idle",
             \A s \in Txs : s # t => tx'[s] = tx[s],
             StillTrue(tx[t]) => StillTrue(tx'[t])
      PROVE  Turn'
  <2>1. ~overlap BY <1>2, <1>4
  <2>2. OneOwner' /\ AudienceIsExact'
    BY <1>4, <2>1 DEF Turn, OneOwner, AudienceIsExact, Active
  <2>3. \A s \in Txs : StillTrue(tx'[s]) => StillTrue(tx[s])'
    BY <1>4 DEF StillTrue, Active, MayLeave
  <2>4. \A s \in Txs : Running(s)' <=> Running(s) BY <1>4 DEF Running
  <2>5. QED BY <1>4, <2>1, <2>2, <2>3, <2>4 DEF Turn
<1>5. ASSUME NEW u \in Users, LockRow(t, u) PROVE Turn'
  BY <1>4, <1>5 DEF LockRow, rows
<1>6. CASE TakeSequence(t)
  <2>1. tx'[t] = [tx[t] EXCEPT !.pc = "seq", !.seq = conv.seq + 1] /\ tx[t] \in TxRecord
    BY <1>0, <1>6 DEF TakeSequence
  <2>2. /\ tx'[t].pc = "seq" /\ tx'[t].op = tx[t].op /\ tx'[t].user = tx[t].user
        /\ tx'[t].peer = tx[t].peer /\ tx'[t].role = tx[t].role
        /\ tx'[t].audience = tx[t].audience
    BY <2>1 DEF TxRecord
  <2>3. StillTrue(tx[t]) => StillTrue(tx'[t]) BY <2>2 DEF StillTrue
  <2>4. QED BY <1>0, <1>4, <1>6, <2>2, <2>3 DEF TakeSequence, rows
<1>7. ASSUME End(t), tx[t].pc # "idle", OneOwner', AudienceIsExact' PROVE Turn'
  <2>1. ~overlap /\ tx' = [tx EXCEPT ![t] = Idle] BY <1>2, <1>7 DEF End
  <2>2. \A s \in Txs : ~Running(s)'
    BY <1>0, <1>7, <2>1 DEF Turn, Running, Idle
  <2>3. QED BY <1>7, <2>2 DEF Turn
<1>8. ASSUME tx[t].op # "none" PROVE tx[t].pc # "idle"
  BY <1>8 DEF Base, TxShape, Shape
<1>9. ASSUME End(t), tx[t].pc # "idle", UNCHANGED <<member, log, sent>>,
             conv'.owner = conv.owner
      PROVE  Turn'
  <2>1. ~overlap BY <1>2, <1>9 DEF End
  <2>2. OneOwner' /\ AudienceIsExact'
    BY <1>9, <2>1 DEF Turn, OneOwner, AudienceIsExact, Active
  <2>3. QED BY <1>7, <1>9, <2>2
<1>10. CASE Rollback(t) BY <1>9, <1>10 DEF Rollback, rows
<1>11. CASE Disband(t)
  <2>1. conv'.owner = conv.owner BY <1>0, <1>11 DEF Disband, TypeOK
  <2>2. QED BY <1>8, <1>9, <1>11, <2>1 DEF Disband
<1>12. CASE MarkConversationRead(t) BY <1>8, <1>9, <1>12 DEF MarkConversationRead
<1>13. CASE HideConversation(t) BY <1>8, <1>9, <1>13 DEF HideConversation
<1>14. CASE SaveDuplicate(t)
  <2>1. conv'.owner = conv.owner BY <1>0, <1>14 DEF SaveDuplicate, TypeOK
  <2>2. QED BY <1>8, <1>9, <1>14, <2>1 DEF SaveDuplicate
<1>15. CASE SaveMessage(t) \/ MutateGroup(t)
  <2>1. End(t) /\ tx[t].pc # "idle" BY <1>15 DEF SaveMessage, MutateGroup
  <2>2. ~overlap BY <1>2, <2>1 DEF End
  <2>3. StillTrue(tx[t]) /\ OneOwner /\ AudienceIsExact BY <2>1, <2>2 DEF Turn, Running
  <2>4. AudienceIsExact' BY <1>15, <2>3, AudienceStays
  <2>5. CASE MutateGroup(t) BY <1>7, <2>1, <2>3, <2>4, <2>5, OneOwnerStays
  <2>6. CASE SaveMessage(t)
    <3>1. conv'.owner = conv.owner /\ member' = member
      BY <1>0, <2>6 DEF SaveMessage, TypeOK
    <3>2. OneOwner' BY <2>3, <3>1 DEF OneOwner, Active
    <3>3. QED BY <1>7, <2>1, <2>4, <3>2
  <2>7. QED BY <1>15, <2>5, <2>6
<1>16. QED
  BY <1>2, <1>3, <1>5, <1>6, <1>10, <1>11, <1>12, <1>13, <1>14, <1>15 DEF Proceed

LEMMA TurnInit ==
  ASSUME LogAssumption, Init PROVE Turn
<1>1. \A u \in Users : (u \in Active <=> u \in Founders)
                       /\ (member[u].role = OWNER <=> u = Owner)
  <2> SUFFICES ASSUME NEW u \in Users
               PROVE  /\ (u \in Active <=> u \in Founders)
                      /\ (member[u].role = OWNER <=> u = Owner)
    OBVIOUS
  <2> DEFINE b == u \in Founders
  <2>1. member[u] = [active |-> b, role |-> IF u = Owner THEN OWNER ELSE MEMBER,
                     join   |-> IF b THEN 1 ELSE 0, leave |-> 0]
    BY DEF Init
  <2>2. b \in BOOLEAN OBVIOUS
  <2> HIDE DEF b
  <2>3. member[u].active = b /\ (member[u].role = OWNER <=> u = Owner)
    BY <2>1, <2>2
  <2>4. QED BY <2>3 DEF Active, b
<1>2. OneOwner BY <1>1 DEF Init, OneOwner, LogAssumption, Active
<1>3. AudienceIsExact
  <2>1. sent = {} /\ \A e \in log : e.seq = 1 BY DEF Init
  <2>2. \A u \in Active : member[u].join = 1 BY DEF Init, Active
  <2>3. QED BY <2>1, <2>2 DEF AudienceIsExact
<1>4. \A t \in Txs : ~Running(t) BY DEF Init, Running, Idle
<1>5. QED BY <1>2, <1>3, <1>4 DEF Turn

LEMMA AlwaysTurn == Spec => []Turn
<1>1. Init => Turn BY TurnInit, LogAssumption
<1>2. Base /\ Rest /\ Turn /\ [Next]_vars => Turn' BY TurnStep, LogAssumption
<1>3. QED BY <1>1, <1>2, Invariant, PTL DEF Spec

(* Requests that take turns leave a group with the one owner its row names *)
(* (transferConversationOwner, leaveConversation, updateConversationMemberRole). *)
THEOREM TurnsKeepOneOwner == Spec => []OneOwnerInTurn
<1>1. Turn => OneOwnerInTurn BY DEF Turn, OneOwnerInTurn
<1>2. QED BY <1>1, AlwaysTurn, PTL

(* Requests that take turns deliver every message to exactly the members   *)
(* it was written for (saveMessage, finishGroupMutation).                  *)
THEOREM TurnsReachMembers == Spec => []AudienceInTurn
<1>1. Turn => AudienceInTurn BY DEF Turn, AudienceInTurn
<1>2. QED BY <1>1, AlwaysTurn, PTL
=============================================================================
