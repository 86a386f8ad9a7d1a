------------------------- MODULE ClientArrival_proofs -------------------------
(***************************************************************************)
(* NewestArrives of ClientSync, for any number of handlers, any page size  *)
(* and any bounds.  Top is the newest message the device has, or need not  *)
(* have; it never falls.  Whoever knows of a newer one, in the row or in a *)
(* copy of it, also has it marked for a fetch, and the row does know of    *)
(* what was listed, unless a fetch in pages is under way.                  *)
(***************************************************************************)
EXTENDS ClientSync_proofs

-----------------------------------------------------------------------------
(* What the device has, and what the rows say of it *)

Low == Larger(hidden, concealed)
Top == Larger(Newest(Known), Low)
All == Larger(log, Top)

\* A row that is right about a device with these marks.
Fine(c, low, top, all) ==
  /\ c.floor <= low /\ c.sync <= top /\ c.to <= top /\ c.server <= all
  /\ c.server > top => c.backfill /\ ~c.deleted

LEMMA TopType ==
  ASSUME ClientAssumption, TypeOK
  PROVE  /\ Low \in 0 .. MaxLog /\ Top \in 0 .. MaxLog /\ Known \subseteq 1 .. MaxLog
         /\ hidden <= Low /\ concealed <= Low /\ Low <= Top
         /\ Newest(Known) \in 0 .. MaxLog /\ Newest(Known) <= Top
         /\ \A s \in Known : s <= Top
         /\ Newest(msgs) \in 0 .. MaxLog /\ \A s \in msgs : s <= Newest(msgs) /\ s <= Top
         /\ \A n \in Nat : Low <= n /\ (\A s \in Known : s <= n) => Top <= n
<1>1. /\ Known \subseteq 1 .. MaxLog /\ Known \subseteq 0 .. MaxLog /\ msgs \subseteq Known
      /\ hidden \in 0 .. MaxLog /\ concealed \in 0 .. MaxLog /\ MaxLog \in Nat
  BY DEF TypeOK, ClientAssumption, Known
<1>2. /\ Newest(Known) \in 0 .. MaxLog
      /\ Known # {} => Newest(Known) \in Known /\ \A t \in Known : t <= Newest(Known)
  BY <1>1, NewestType
<1>3. Known = {} => Newest(Known) = 0
  BY DEF Newest
<1>4. Low \in 0 .. MaxLog /\ hidden <= Low /\ concealed <= Low
  BY <1>1 DEF Low, Larger
<1>5. Top \in 0 .. MaxLog /\ Low <= Top /\ Newest(Known) <= Top
  BY <1>1, <1>2, <1>4 DEF Top, Larger
<1>6. \A s \in Known : s <= Top
  BY <1>1, <1>2, <1>5
<1>7. ASSUME NEW n \in Nat, Low <= n, \A s \in Known : s <= n PROVE Top <= n
  BY <1>2, <1>3, <1>7 DEF Top, Larger
<1>8. Newest(msgs) \in 0 .. MaxLog /\ \A s \in msgs : s <= Newest(msgs)
  <2>1. msgs \subseteq 0 .. MaxLog
    BY <1>1
  <2>2. QED
    BY <2>1, NewestType
<1>9. QED
  BY <1>1, <1>2, <1>4, <1>5, <1>6, <1>7, <1>8

LEMMA TopTypeNext ==
  ASSUME ClientAssumption, TypeOK'
  PROVE  /\ Low' \in 0 .. MaxLog /\ Top' \in 0 .. MaxLog
         /\ hidden' <= Low' /\ concealed' <= Low' /\ Low' <= Top'
         /\ \A s \in Known' : s <= Top'
         /\ \A s \in msgs' : s <= Top'
<1> DEFINE k == Known'
<1>1. /\ k \subseteq 0 .. MaxLog /\ msgs' \subseteq k
      /\ hidden' \in 0 .. MaxLog /\ concealed' \in 0 .. MaxLog /\ MaxLog \in Nat
  BY DEF TypeOK, ClientAssumption, Known
<1>0. Top' = Larger(Newest(k), Low')
  BY DEF Top
<1> HIDE DEF k
<1>2. Newest(k) \in 0 .. MaxLog /\ (k # {} => Newest(k) \in k /\ \A t \in k : t <= Newest(k))
  BY <1>1, NewestType
<1>3. Low' \in 0 .. MaxLog /\ hidden' <= Low' /\ concealed' <= Low'
  BY <1>1 DEF Low, Larger
<1>4. Top' \in 0 .. MaxLog /\ Low' <= Top' /\ Newest(k) <= Top'
  BY <1>0, <1>1, <1>2, <1>3 DEF Larger
<1>5. \A s \in k : s <= Top'
  BY <1>1, <1>2, <1>4
<1>6. QED
  BY <1>1, <1>3, <1>4, <1>5 DEF k

LEMMA FineStays ==
  ASSUME NEW c \in Row, NEW l \in Nat, NEW n \in Nat, NEW k \in Nat, NEW t \in Nat,
         NEW a \in Nat, NEW b \in Nat, l <= k, n <= t, a <= b, Fine(c, l, n, a)
  PROVE  Fine(c, k, t, b)
BY DEF Fine, Row

\* recomputeConversationSyncProgress is right about what is stored.
LEMMA RecomputeFine ==
  ASSUME ClientAssumption, NEW r \in Row, NEW m, m \subseteq 1 .. MaxLog,
         NEW l \in Nat, NEW t \in Nat, NEW all \in Nat, l <= t, t <= all, Fine(r, l, t, all),
         \A s \in m : s <= t
  PROVE  Fine(Recompute(r, m), l, t, all)
<1> DEFINE v == Visible(r, m)
           p == Contiguous(r.floor, v)
           q == TailFrom(v)
           w == Newest(v)
           a == Larger(r.sync, p)
           b == Larger(Larger(r.server, a), w)
           d == b <= r.floor \/ (q > 0 /\ q <= r.floor + 1)
           e == b > Larger(w, r.floor) \/ ~d
<1>1. v \subseteq m /\ v \subseteq 0 .. MaxLog /\ r.floor \in 0 .. MaxLog
  <2>1. v \subseteq m
    BY DEF Visible
  <2>2. 1 .. MaxLog \subseteq 0 .. MaxLog
    BY DEF ClientAssumption
  <2>3. QED
    BY <2>1, <2>2 DEF Row
<1>2. p \in r.floor .. MaxLog /\ \A s \in (r.floor + 1) .. p : s \in v
  BY <1>1, ContiguousIsStored
<1>3. w \in 0 .. MaxLog /\ w <= t
  <2>1. w \in 0 .. MaxLog /\ (v # {} => w \in v)
    BY <1>1, NewestType
  <2>2. v = {} => w = 0
    BY DEF Newest
  <2> HIDE DEF w, v
  <2>3. QED
    BY <1>1, <2>1, <2>2
<1>4. p <= t
  <2> HIDE DEF p, v
  <2>1. CASE p = r.floor
    BY <1>1, <2>1 DEF Fine, Row
  <2>2. CASE p # r.floor
    BY <1>1, <1>2, <2>2, p \in (r.floor + 1) .. p
  <2>3. QED
    BY <2>1, <2>2
<1>5. Recompute(r, m) = [r EXCEPT !.sync = a, !.server = b, !.to = w, !.complete = d, !.backfill = e]
  BY ZenonT(30) DEF Recompute, Reconciled
<1> HIDE DEF p, q, w, v
<1>6. a \in Nat /\ a <= t
  BY <1>1, <1>2, <1>4 DEF Larger, Fine, Row
<1>7. b \in Nat /\ (b > t => b = r.server) /\ b <= all
  BY <1>3, <1>6 DEF Larger, Fine, Row
<1>8. b > t => e
  BY <1>1, <1>3, <1>7 DEF Larger, Fine, Row
<1> HIDE DEF a, b, d, e
<1>9. DEFINE x == [r EXCEPT !.sync = a, !.server = b, !.to = w, !.complete = d, !.backfill = e]
<1>10. x.sync = a /\ x.server = b /\ x.to = w /\ x.floor = r.floor /\ x.deleted = r.deleted
       /\ x.backfill = e
  BY DEF Row
<1> HIDE DEF x
<1>11. Fine(x, l, t, all)
  BY <1>3, <1>6, <1>7, <1>8, <1>10 DEF Fine
<1>12. QED
  BY <1>5, <1>11 DEF x

\* diffConversations is right to mark a row, or not.
LEMMA MergedFine ==
  ASSUME ClientAssumption, NEW r \in Row, NEW n \in 0 .. MaxLog,
         NEW l \in Nat, NEW t \in Nat, NEW all \in Nat, l <= t, n <= all, Fine(r, l, t, all)
  PROVE  Fine(Merged(r, n), l, t, all) /\ Merged(r, n).server >= n
         /\ Merged(r, n).server >= r.server
<1> DEFINE a == Larger(r.sync, r.floor)
           b == Larger(r.server, n)
           d == r.deleted /\ n <= r.floor
           m == [r EXCEPT !.sync = a, !.server = b, !.deleted = d]
           e == ~m.deleted /\ (m.server > Anchor(m) \/ ~m.complete)
<1>1. Merged(r, n) = [m EXCEPT !.backfill = e]
  BY Zenon DEF Merged
<1>2. a \in Nat /\ a <= t /\ b \in Nat /\ b >= n /\ b >= r.server /\ (b > t /\ d => FALSE)
      /\ b <= all
  BY DEF Larger, Fine, Row, ClientAssumption
<1> HIDE DEF a, b, d
<1>3. m.sync = a /\ m.server = b /\ m.deleted = d /\ m.floor = r.floor /\ m.to = r.to
  BY DEF Row
<1>4. Anchor(m) \in Nat /\ Anchor(m) <= t
  BY <1>2, <1>3 DEF Anchor, Larger, Fine, Row
<1>5. b > t => e
  BY <1>2, <1>3, <1>4
<1>6. /\ [m EXCEPT !.backfill = e].sync = a /\ [m EXCEPT !.backfill = e].server = b
      /\ [m EXCEPT !.backfill = e].deleted = d /\ [m EXCEPT !.backfill = e].floor = r.floor
      /\ [m EXCEPT !.backfill = e].to = r.to /\ [m EXCEPT !.backfill = e].backfill = e
  BY <1>3 DEF Row
<1> DEFINE y == [m EXCEPT !.backfill = e]
<1>7. /\ y.sync = a /\ y.server = b /\ y.deleted = d /\ y.floor = r.floor
      /\ y.to = r.to /\ y.backfill = e
  BY <1>6
<1> HIDE DEF m, e, y
<1>8. Fine(y, l, t, all) /\ y.server >= n /\ y.server >= r.server
  BY <1>2, <1>5, <1>7 DEF Fine
<1>9. QED
  BY <1>1, <1>8 DEF y
-----------------------------------------------------------------------------
(* How the marks and the rows move *)

\* The inductive invariant: every copy of the row is right, and so is a handler
\* that is to raise the sequence of the server in its own.
Knowing ==
  /\ Fine(row, Low, Top, All) /\ Fine(excl.next, Low, Top, All)
  /\ Fine(sync.copy, Low, Top, All)
  /\ \A i \in Handlers : /\ Fine(h[i].copy, Low, Top, All)
                         /\ h[i].pc = "stored" => h[i].seq <= Top
  /\ concealed <= log

\* What happens to the messages, and to the row a section is to write.
LEMMA LocalMoves ==
  ASSUME [Next]_vars
  PROVE  /\ \/ UNCHANGED <<Known, excl, hidden>>
            \/ excl' = Free /\ UNCHANGED <<Known, hidden>>
            \/ \E w, m : Recount(w, m)
            \/ \E w, d : Empty(w, d)
         /\ UNCHANGED concealed \/ (concealed' = log /\ UNCHANGED <<Known, hidden>>)
         /\ log' = log \/ (log' = log + 1 /\ UNCHANGED concealed)
<1>a. ASSUME NEW w, NEW new, Upsert(w, new)
      PROVE  UNCHANGED <<Known, excl, hidden>> \/ \E u, m : Recount(u, m)
  BY <1>a DEF Upsert, local, Known
<1>b. UNCHANGED <<msgs, erased>> => UNCHANGED Known
  BY DEF Known
<1>1. ASSUME NEW i \in Handlers, Handle(i)
      PROVE  /\ \/ UNCHANGED <<Known, excl, hidden>>
                \/ \E w, m : Recount(w, m)
                \/ \E w, d : Empty(w, d)
             /\ UNCHANGED concealed \/ (concealed' = log /\ UNCHANGED <<Known, hidden>>)
             /\ log' = log
  <2>1. CASE Store(i) \/ StoreOlder(i)
    BY <2>1, <1>a DEF Store, StoreOlder, server
  <2>2. CASE EndDelete(i) \/ Clear(i)
    BY <2>2 DEF EndDelete, Clear, server
  <2>3. CASE EndPatch(i)
    BY <2>3, <1>a DEF EndPatch, server
  <2>4. CASE ~(Store(i) \/ StoreOlder(i) \/ EndDelete(i) \/ Clear(i) \/ EndPatch(i))
    BY <1>1, <1>b, <2>4 DEF Handle, Receive, WriteBack, BeginTouch, EndTouch, Scroll, FetchOlder,
       ReadToMark, MarkStart, BeginDelete, BeginPatch, HandlerFails, PutBack, local, server
  <2>5. QED
    BY <2>1, <2>2, <2>3, <2>4
<1>2. CASE SyncStep \/ List \/ SyncFails
  <2>1. UNCHANGED server
    BY <1>2 DEF SyncStep, List, SyncFails, ReadRows, Diff, Fetch, StorePage, ReadRow, WriteRow,
                ReadTailed, MarkComplete, Settle
  <2>2. CASE StorePage
    BY <2>1, <2>2, <1>a DEF StorePage, server
  <2>3. CASE ~StorePage
    BY <1>2, <1>b, <2>1, <2>3 DEF SyncStep, List, SyncFails, ReadRows, Diff, Fetch, ReadRow,
                WriteRow, ReadTailed, MarkComplete, Settle, PutBack, local, server
  <2>4. QED
    BY <2>2, <2>3
<1>3. CASE Post \/ WriteRecord \/ Crash \/ UNCHANGED vars
  BY <1>3, <1>b DEF Post, WriteRecord, Crash, local, server, vars
<1>4. QED
  BY <1>1, <1>2, <1>3 DEF Next

\* A clear hides all that was known of.
LEMMA EmptyHides ==
  ASSUME ClientAssumption, TypeOK, NEW w, NEW d, Empty(w, d)
  PROVE  LET c == excl'.next IN
         /\ \A s \in msgs : s <= hidden'
         /\ \A s \in Known : s <= hidden' \/ s \in Known'
         /\ hidden <= hidden' /\ row.server <= hidden' /\ row' = row
         /\ c.floor <= hidden' /\ c.sync <= hidden' /\ c.to <= hidden' /\ c.server <= hidden'
<1> DEFINE c == Cutoff(row, msgs)
<1>1. msgs \subseteq 0 .. MaxLog /\ hidden \in Nat /\ row \in Row
  BY DEF TypeOK, ClientAssumption
<1>2. Newest(msgs) \in Nat /\ \A s \in msgs : s <= Newest(msgs)
  BY TopType DEF ClientAssumption, TypeOK
<1>3. c \in Nat /\ Newest(msgs) <= c /\ row.server <= c
  BY <1>1, <1>2 DEF Cutoff, Anchor, Larger, Row
<1>4. \A s \in msgs : s <= c
  BY <1>1, <1>2, <1>3
<1> HIDE DEF c
<1>5. excl'.next = Blanked(row, c, d) /\ hidden' = Larger(hidden, c) /\ row' = row
  BY DEF Empty, c
<1>6. hidden' \in Nat /\ c <= hidden' /\ hidden <= hidden'
  BY <1>1, <1>3, <1>5 DEF Larger
<1>7. LET b == excl'.next IN b.floor = c /\ b.sync = c /\ b.to = c /\ b.server = row.server
  BY <1>1, <1>5 DEF Blanked, Row
<1>8. row.server \in Nat /\ \A s \in msgs : s \in Nat
  BY <1>1 DEF Row
<1>9. \A s \in Known : s <= hidden' \/ s \in Known'
  <2>1. erased' = {s \in erased : s > c} /\ \A s \in erased : s \in Nat
    BY DEF Empty, c, TypeOK, ClientAssumption
  <2>2. ASSUME NEW s \in erased, s \notin erased' PROVE s <= hidden'
    BY <1>3, <1>6, <2>1, <2>2
  <2>3. \A s \in msgs : s <= hidden'
    BY <1>3, <1>4, <1>6, <1>8
  <2>4. QED
    BY <2>2, <2>3 DEF Known
<1>10. QED
  BY <1>3, <1>4, <1>5, <1>6, <1>7, <1>8, <1>9

\* The marks never fall.
LEMMA MarksRise ==
  ASSUME ClientAssumption, TypeOK, TypeOK', concealed <= log, [Next]_vars
  PROVE  Low <= Low' /\ Top <= Top' /\ All <= All' /\ concealed' <= log'
<1>1. /\ hidden \in Nat /\ concealed \in Nat /\ log \in Nat /\ hidden' \in Nat
      /\ concealed' \in Nat /\ Known \subseteq Nat /\ Known' \subseteq Nat
  BY DEF TypeOK, ClientAssumption, Known
<1>2. concealed <= concealed' /\ concealed' <= log'
  BY <1>1, LocalMoves
<1>3. hidden <= hidden' /\ \A s \in Known : s \in Known' \/ s <= hidden'
  <2>1. ASSUME NEW w, NEW m, Recount(w, m)
        PROVE  hidden <= hidden' /\ \A s \in Known : s \in Known' \/ s <= hidden'
    BY <1>1, <2>1 DEF Recount, Known
  <2>2. ASSUME NEW w, NEW d, Empty(w, d)
        PROVE  hidden <= hidden' /\ \A s \in Known : s \in Known' \/ s <= hidden'
    BY <2>2, EmptyHides
  <2>3. QED
    BY <1>1, <2>1, <2>2, LocalMoves
<1>4. Low <= Low'
  BY <1>1, <1>2, <1>3 DEF Low, Larger
<1>5. /\ Low' \in Nat /\ Top' \in Nat /\ Low' <= Top' /\ hidden' <= Low'
      /\ \A s \in Known' : s <= Top'
  BY TopTypeNext DEF ClientAssumption
<1>6. Low \in Nat
  BY TopType DEF ClientAssumption
<1>7. Low <= Top' /\ \A s \in Known : s <= Top'
  BY <1>1, <1>3, <1>4, <1>5, <1>6
<1>8. Top <= Top' /\ Top \in Nat
  BY <1>4, <1>5, <1>7, TopType DEF ClientAssumption
<1>9. log <= log' /\ log' \in Nat
  BY <1>1, LocalMoves DEF TypeOK, ClientAssumption
<1>10. QED
  BY <1>1, <1>2, <1>4, <1>5, <1>8, <1>9 DEF All, Larger

\* What becomes of the row.
LEMMA RowMoves ==
  ASSUME ClientAssumption, TypeOK, [Next]_vars
  PROVE  \/ row' = row
         \/ WriteRecord \/ Diff \/ WriteRow \/ MarkComplete
         \/ \E i \in Handlers : WriteBack(i) \/ EndTouch(i) \/ MarkStart(i)
<1>1. ASSUME NEW i \in Handlers, Handle(i), ~WriteBack(i), ~EndTouch(i), ~MarkStart(i)
      PROVE  row' = row
  BY <1>1 DEF Handle, Receive, Store, BeginTouch, Scroll, FetchOlder, StoreOlder, ReadToMark,
     BeginDelete, EndDelete, Clear, BeginPatch, EndPatch, HandlerFails, Upsert, Recount, Empty, local
<1>2. ASSUME SyncStep \/ List \/ SyncFails, ~Diff, ~WriteRow, ~MarkComplete PROVE row' = row
  BY <1>2 DEF SyncStep, List, SyncFails, ReadRows, Fetch, StorePage, ReadRow, ReadTailed, Settle,
     Upsert, Recount, local
<1>3. Post \/ Crash \/ UNCHANGED vars => row' = row
  BY DEF Post, Crash, local, vars
<1>4. QED
  BY <1>1, <1>2, <1>3 DEF Next

\* The copies that are held are copies of the row, or none at all.
LEMMA CopyMoves ==
  ASSUME TypeOK, [Next]_vars
  PROVE  /\ sync'.copy \in {sync.copy, row, Blank}
         /\ \A i \in Handlers :
              /\ h'[i].copy \in {h[i].copy, row, Blank}
              /\ h'[i].pc = "stored" => h'[i].seq = h[i].seq /\ (h[i].pc = "stored" \/ Store(i))
<1> DEFINE HOk == \A i \in Handlers :
              /\ h'[i].copy \in {h[i].copy, row, Blank}
              /\ h'[i].pc = "stored" => h'[i].seq = h[i].seq /\ (h[i].pc = "stored" \/ Store(i))
           SOk == sync'.copy \in {sync.copy, row, Blank}
<1>0. HandlersOK /\ SyncOK
  BY TypeParts
<1>a. h' = h => HOk
  OBVIOUS
<1>b. ASSUME NEW i \in Handlers, \A j \in Handlers : j # i => h'[j] = h[j],
             h'[i].copy \in {h[i].copy, row, Blank},
             h'[i].pc = "stored" => h'[i].seq = h[i].seq /\ Store(i)
      PROVE  HOk
  BY <1>b
<1>d. ASSUME NEW i \in Handlers, NEW x, h' = [h EXCEPT ![i] = x]
      PROVE  h'[i] = x /\ \A j \in Handlers : j # i => h'[j] = h[j]
  BY <1>0, <1>d DEF HandlersOK
<1>c. ASSUME NEW i \in Handlers, Ends(i) PROVE HOk
  <2>1. Idle.copy = Blank /\ Idle.pc = "idle"
    BY DEF Idle
  <2>2. h'[i] = Idle /\ \A j \in Handlers : j # i => h'[j] = h[j]
    BY <1>c, <1>d DEF Ends
  <2>3. QED
    BY <2>1, <2>2, <1>b
<1> HIDE DEF HOk
<1>1. ASSUME NEW i \in Handlers, Handle(i) PROVE HOk /\ sync' = sync
  <2>0. sync' = sync
    BY <1>1 DEF Handle, Receive, Store, WriteBack, BeginTouch, EndTouch, Scroll, FetchOlder,
       StoreOlder, ReadToMark, MarkStart, BeginDelete, EndDelete, Clear, BeginPatch, EndPatch, HandlerFails
  <2> SUFFICES HOk
    BY <2>0
  <2>1. ASSUME NEW s \in 1 .. log, Receive(i, s) PROVE HOk
    <3> DEFINE x == [Idle EXCEPT !.pc = "received", !.seq = s, !.copy = row]
    <3>1. x.copy = row /\ x.pc = "received"
      BY DEF Idle
    <3>2. h' = [h EXCEPT ![i] = x]
      BY <2>1 DEF Receive
    <3> HIDE DEF x
    <3>3. h'[i] = x /\ \A j \in Handlers : j # i => h'[j] = h[j]
      BY <3>2, <1>d
    <3> QED
      BY <3>1, <3>3, <1>b
  <2>2. CASE Store(i)
    <3> DEFINE x == [h[i] EXCEPT !.pc = "stored"]
    <3>1. x.copy = h[i].copy /\ x.seq = h[i].seq
      BY <1>0 DEF HandlersOK, HandlerType
    <3>2. h' = [h EXCEPT ![i] = x]
      BY <2>2, <1>0 DEF Store, HandlersOK
    <3> HIDE DEF x
    <3>3. h'[i] = x /\ \A j \in Handlers : j # i => h'[j] = h[j]
      BY <3>2, <1>d
    <3> QED
      BY <2>2, <3>1, <3>3, <1>b
  <2>3. CASE WriteBack(i) \/ MarkStart(i) \/ EndDelete(i) \/ EndPatch(i) \/ HandlerFails(i)
    BY <2>3, <1>c DEF WriteBack, MarkStart, EndDelete, EndPatch, HandlerFails
  <2>4. CASE EndTouch(i) \/ Clear(i)
    BY <2>4, <1>a, <1>c DEF EndTouch, Clear
  <2>5. CASE BeginTouch(i) \/ Scroll(i) \/ ReadToMark(i) \/ BeginDelete(i)
    <3>1. ASSUME NEW x \in {[Idle EXCEPT !.pc = "calling", !.copy = row],
                            [Idle EXCEPT !.pc = "paging", !.seq = Oldest(Visible(row, msgs))],
                            [Idle EXCEPT !.pc = "marking", !.copy = row],
                            [Idle EXCEPT !.pc = "deleting"]}
          PROVE  x.copy \in {row, Blank} /\ x.pc # "stored"
      BY <3>1 DEF Idle
    <3>2. PICK x \in {[Idle EXCEPT !.pc = "calling", !.copy = row],
                      [Idle EXCEPT !.pc = "paging", !.seq = Oldest(Visible(row, msgs))],
                      [Idle EXCEPT !.pc = "marking", !.copy = row],
                      [Idle EXCEPT !.pc = "deleting"]} : h' = [h EXCEPT ![i] = x]
      BY <2>5, Zenon DEF BeginTouch, Scroll, ReadToMark, BeginDelete
    <3>3. h'[i] = x /\ \A j \in Handlers : j # i => h'[j] = h[j]
      BY <3>2, <1>d
    <3> QED
      BY <3>1, <3>3, <1>b
  <2>6. CASE FetchOlder(i)
    <3>1. PICK p, l : h' = [h EXCEPT ![i] = [Idle EXCEPT !.pc = "paged", !.page = p, !.last = l]]
      BY <2>6, Zenon DEF FetchOlder
    <3> DEFINE x == [Idle EXCEPT !.pc = "paged", !.page = p, !.last = l]
    <3>2. h' = [h EXCEPT ![i] = x]
      BY <3>1
    <3>4. x.copy = Blank /\ x.pc = "paged"
      BY DEF Idle
    <3> HIDE DEF x
    <3>3. h'[i] = x /\ \A j \in Handlers : j # i => h'[j] = h[j]
      BY <3>2, <1>d
    <3> QED
      BY <3>3, <3>4, <1>b
  <2>7. CASE StoreOlder(i)
    <3> DEFINE x == IF h[i].last THEN [Idle EXCEPT !.pc = "older"] ELSE Idle
    <3>1. x.copy = Blank /\ x.pc # "stored"
      BY DEF Idle
    <3>2. h' = [h EXCEPT ![i] = x]
      BY <2>7 DEF StoreOlder
    <3> HIDE DEF x
    <3>3. h'[i] = x /\ \A j \in Handlers : j # i => h'[j] = h[j]
      BY <3>2, <1>d
    <3> QED
      BY <3>1, <3>3, <1>b
  <2>8. ASSUME NEW s, BeginPatch(i, s) PROVE HOk
    <3> DEFINE x == [Idle EXCEPT !.pc = "patching", !.seq = s, !.page = {s} \cap msgs]
    <3>1. x.copy = Blank /\ x.pc # "stored"
      BY DEF Idle
    <3>2. h' = [h EXCEPT ![i] = x]
      BY <2>8 DEF BeginPatch
    <3> HIDE DEF x
    <3>3. h'[i] = x /\ \A j \in Handlers : j # i => h'[j] = h[j]
      BY <3>2, <1>d
    <3> QED
      BY <3>1, <3>3, <1>b
  <2> QED
    BY <1>1, <2>0, <2>1, <2>2, <2>3, <2>4, <2>5, <2>6, <2>7, <2>8 DEF Handle
<1>2. CASE SyncStep \/ List \/ SyncFails
  <2>0. HOk
    BY <1>2, <1>a DEF SyncStep, List, SyncFails, ReadRows, Diff, Fetch, StorePage, ReadRow,
       WriteRow, ReadTailed, MarkComplete, Settle
  <2> SUFFICES SOk
    BY <2>0 DEF HOk
  <2>1. ASSUME NEW pc, Finish(pc) PROVE SOk
    BY <2>1 DEF Finish, Asleep
  <2>2. ASSUME NEW m, NEW a, NEW n, NEW b, sync' = Task(m, a, n, b) PROVE SOk
    BY <2>2 DEF Task, Asleep
  <2>3. ASSUME NEW pc, NEW c, Marks(pc, c), c \in {row, Blank} PROVE SOk
    BY <2>3 DEF Marks, Asleep
  <2>4. AfterTask => SOk
    BY <2>1 DEF AfterTask
  <2>5. CASE List \/ SyncFails \/ Diff \/ Settle \/ MarkComplete \/ ReadTailed
    <3>1. List => SOk
      <4>1. sync' = [Asleep EXCEPT !.pc = "listing", !.target = log] => SOk
        BY DEF Asleep
      <4> QED
        BY <4>1, <2>1, Zenon DEF List
    <3>2. SyncFails \/ MarkComplete \/ ReadTailed => SOk
      BY <2>1, <2>3, <2>4, FailedSync DEF MarkComplete, ReadTailed
    <3>3. Diff \/ Settle => SOk
      BY <2>1, <2>2, Zenon DEF Diff, Settle
    <3> QED
      BY <2>5, <3>1, <3>2, <3>3
  <2>6. CASE ReadRows \/ StorePage \/ ReadRow
    BY <2>6, <1>0 DEF ReadRows, StorePage, ReadRow, SyncOK, SyncType
  <2>7. CASE Fetch
    <3>1. PICK p, l : sync' = [sync EXCEPT !.pc = "fetched", !.page = p, !.from = concealed, !.last = l]
      BY <2>7, Zenon DEF Fetch
    <3> QED
      BY <3>1, <1>0 DEF SyncOK, SyncType
  <2>8. CASE WriteRow
    <3>1. sync' = [sync EXCEPT !.pc = "fetching", !.after = Reached, !.page = {},
                     !.last = FALSE, !.from = 0, !.paged = TRUE, !.copy = Blank] => SOk
      BY <1>0 DEF SyncOK, SyncType
    <3> QED
      BY <2>8, <2>3, <2>4, <3>1, Zenon DEF WriteRow, Advance
  <2> QED
    BY <1>2, <2>0, <2>5, <2>6, <2>7, <2>8 DEF SyncStep
<1>3. CASE Crash
  BY <1>3 DEF Crash, Finish, Asleep, Idle, HOk
<1>4. CASE Post \/ WriteRecord \/ UNCHANGED vars
  BY <1>4, <1>a DEF Post, WriteRecord, vars
<1> QED
  BY <1>1, <1>2, <1>3, <1>4 DEF Next, HOk

-----------------------------------------------------------------------------
(* What the sync asks for, and what it has got *)

Fetching == sync.pc \in {"fetching", "fetched", "stored", "written"}

\* The sync asks for what was listed, from what the device has.
Asked ==
  /\ cursor <= All
  /\ Fetching \/ sync.pc \in {"listing", "listed"} => sync.target <= All
  /\ sync.after <= Top
  /\ sync.paged => Fetching /\ sync.mode = "delta"
  /\ sync.from <= concealed

\* A whole tail, and the last page of a delta, bring what was asked for; a page
\* that is stored is on the device.
Got ==
  /\ Paging => IF sync.mode = "tail" THEN cursor <= Larger(Newest(sync.page), Top)
               ELSE sync.last \/ sync.page = {} => sync.target <= Larger(Newest(sync.page), Top)
  /\ sync.pc \in {"stored", "written"} => Newest(sync.page) <= Top
  /\ sync.pc \in {"tailed", "marking"} => cursor <= Top

LEMMA AllType ==
  ASSUME ClientAssumption, TypeOK
  PROVE  All \in Nat /\ Top <= All /\ log <= All
BY TopType DEF All, Larger, TypeOK, ClientAssumption

LEMMA AllTypeNext ==
  ASSUME ClientAssumption, TypeOK'
  PROVE  All' \in Nat /\ Top' <= All' /\ log' <= All'
BY TopTypeNext DEF All, Larger, TypeOK, ClientAssumption

\* A sync that has stored a page knows of nothing it has not.
LEMMA PageStored ==
  ASSUME ClientAssumption, TypeOK, Asked, Got, sync.pc = "written"
  PROVE  /\ Reached \in Nat /\ Reached <= Top
         /\ sync.mode = "delta" /\ Reached = 0 => sync.target <= Top
         /\ sync.mode = "delta" /\ (sync.last \/ sync.page = {} \/ Reached >= sync.target)
              => sync.target <= Top
         /\ sync.mode = "tail" => cursor <= Top
<1>1. SyncOK /\ Top \in Nat /\ cursor \in Nat
  BY TypeParts, TopType DEF TypeOK, ClientAssumption
<1>2. /\ sync.page \subseteq 1 .. MaxLog /\ sync.after \in 0 .. MaxLog /\ MaxLog \in Nat
      /\ sync.target \in Nat
  BY <1>1 DEF SyncOK, SyncType, ClientAssumption
<1>3. /\ Newest(sync.page) \in Nat /\ Newest(sync.page) <= Top /\ sync.after <= Top
      /\ \A s \in sync.page : s <= Newest(sync.page)
  <2>1. sync.page \subseteq 0 .. MaxLog
    BY <1>2
  <2>2. Newest(sync.page) \in 0 .. MaxLog /\ \A s \in sync.page : s <= Newest(sync.page)
    BY <2>1, NewestType
  <2>3. QED
    BY <1>2, <2>2 DEF Got, Asked
<1>4. Larger(Newest(sync.page), Top) = Top
  BY <1>1, <1>3 DEF Larger
<1>5. Reached \in 0 .. MaxLog /\ \A s \in sync.page : s <= Reached
  BY <1>1, ReachedType
<1>6. Reached <= Top
  <2> DEFINE S == sync.page \cup IF sync.mode = "tail" THEN {} ELSE {sync.after}
  <2>1. S \subseteq 0 .. MaxLog
    BY <1>2
  <2>2. \A s \in S : s <= Top
    BY <1>1, <1>2, <1>3
  <2> HIDE DEF S
  <2>3. Newest(S) \in 0 .. MaxLog /\ (S # {} => Newest(S) \in S) /\ (S = {} => Newest(S) = 0)
    BY <2>1, NewestType DEF Newest
  <2>4. Newest(S) <= Top
    BY <1>1, <2>2, <2>3
  <2>5. QED
    BY <2>4 DEF S, Reached
<1>7. Reached = 0 => sync.page = {}
  BY <1>2, <1>5
<1>8. sync.mode = "tail" => cursor <= Top
  BY <1>4 DEF Got, Paging
<1>9. sync.mode = "delta" /\ (sync.last \/ sync.page = {}) => sync.target <= Top
  BY <1>4 DEF Got, Paging
<1>10. QED
  BY <1>1, <1>2, <1>5, <1>6, <1>7, <1>8, <1>9

\* What is stored is on the device, or hidden.
LEMMA StoredIsThere ==
  ASSUME ClientAssumption, TypeOK, TypeOK', Knowing, NEW w, NEW new, new \subseteq Nat,
         Upsert(w, new), Low <= Low', concealed' = concealed
  PROVE  \A s \in new : s <= Top'
<1>1. /\ row \in Row /\ Low \in Nat /\ Low' \in Nat /\ Top' \in Nat /\ Low' <= Top'
      /\ \A s \in msgs' : s <= Top'
  BY TopType, TopTypeNext DEF TypeOK, ClientAssumption
<1>2. row.floor \in Nat /\ row.floor <= Low
  BY <1>1 DEF Knowing, Fine, Row, ClientAssumption
<1>3. ASSUME NEW s \in new PROVE s <= Top'
  <2>1. CASE s \in Visible(row, new)
    <3>1. s \in msgs'
      BY <2>1 DEF Upsert, Recount
    <3>2. QED
      BY <1>1, <3>1
  <2>2. CASE s \notin Visible(row, new)
    <3>1. s <= row.floor /\ s \in Nat
      BY <1>2, <1>3, <2>2 DEF Visible
    <3>2. QED
      BY <1>1, <1>2, <3>1
  <2>3. QED
    BY <2>1, <2>2
<1>4. QED
  BY <1>3

\* Nobody writes a row that is wrong.
LEMMA RowStaysFine ==
  ASSUME ClientAssumption, TypeOK, Knowing, Asked, Got, [Next]_vars
  PROVE  Fine(row', Low, Top, All)
<1>1. /\ Low \in Nat /\ Top \in Nat /\ All \in Nat /\ Low <= Top /\ Top <= All /\ concealed <= Low
      /\ concealed \in Nat
  BY TopType, AllType DEF TypeOK, ClientAssumption
<1>2. /\ row \in Row /\ excl.next \in Row /\ sync.copy \in Row /\ sync.target \in 0 .. MaxLog
      /\ sync.from \in Nat
  BY DEF TypeOK, ClientAssumption
<1>3. CASE row' = row
  BY <1>3 DEF Knowing
<1>4. CASE WriteRecord
  BY <1>4 DEF WriteRecord, Knowing
<1>5. CASE Diff
  <2>1. sync.target <= All /\ Fine(sync.copy, Low, Top, All)
    BY <1>5 DEF Diff, SyncAt, Asked, Knowing
  <2>2. Fine(Merged(sync.copy, sync.target), Low, Top, All)
    BY <1>1, <1>2, <2>1, MergedFine
  <2>3. QED
    BY <1>5, <2>2 DEF Diff, PutBack
<1>6. CASE WriteRow
  <2> DEFINE n == IF sync.mode = "delta" /\ Reached = 0 THEN sync.target ELSE Reached
  <2>1. n \in Nat /\ n <= Top
    BY <1>2, <1>6, PageStored DEF WriteRow, SyncAt
  <2>2. row' = [sync.copy EXCEPT !.server = n]
    BY <1>6 DEF WriteRow
  <2> HIDE DEF n
  <2>3. QED
    BY <1>1, <1>2, <2>1, <2>2 DEF Fine, Knowing, Row
<1>7. CASE MarkComplete
  <2>1. sync.from <= Low
    BY <1>1, <1>2 DEF Asked
  <2>2. row' = [sync.copy EXCEPT !.complete = TRUE, !.floor = Larger(@, sync.from)]
    BY <1>7 DEF MarkComplete, PutBack
  <2>3. QED
    BY <1>1, <1>2, <2>1, <2>2 DEF Fine, Knowing, Row, Larger
<1>8. ASSUME NEW i \in Handlers, WriteBack(i) \/ EndTouch(i) \/ MarkStart(i)
      PROVE  Fine(row', Low, Top, All)
  <2>1. h[i].copy \in Row /\ h[i].seq \in Nat /\ Fine(h[i].copy, Low, Top, All)
    BY DEF TypeOK, Knowing, ClientAssumption
  <2>2. CASE EndTouch(i)
    BY <2>1, <2>2 DEF EndTouch, PutBack
  <2>3. CASE MarkStart(i)
    <3>1. row' = [h[i].copy EXCEPT !.complete = TRUE]
      BY <2>3 DEF MarkStart, PutBack
    <3>2. QED
      BY <2>1, <3>1 DEF Fine, Row
  <2>4. CASE WriteBack(i)
    <3>1. row' = [h[i].copy EXCEPT !.server = Larger(@, h[i].seq)]
      BY <2>4 DEF WriteBack, PutBack
    <3>2. h[i].seq <= Top
      BY <2>4 DEF WriteBack, At, Knowing
    <3>3. QED
      BY <1>1, <2>1, <3>1, <3>2 DEF Fine, Row, Larger
  <2>5. QED
    BY <1>8, <2>2, <2>3, <2>4
<1>9. QED
  BY <1>3, <1>4, <1>5, <1>6, <1>7, <1>8, RowMoves

LEMMA KnowingNext ==
  ASSUME ClientAssumption, TypeOK, TypeOK', Knowing, Asked, Got, [Next]_vars
  PROVE  Knowing'
<1> DEFINE Right(c) == Fine(c, Low', Top', All')
<1>1. /\ Low \in Nat /\ Top \in Nat /\ All \in Nat /\ Low' \in Nat /\ Top' \in Nat /\ All' \in Nat
      /\ Low' <= Top' /\ Top' <= All' /\ hidden' <= Low' /\ \A s \in msgs' : s <= Top'
  BY TopType, TopTypeNext, AllType, AllTypeNext DEF ClientAssumption
<1>2. Low <= Low' /\ Top <= Top' /\ All <= All' /\ concealed' <= log'
  BY MarksRise DEF Knowing
<1>3. ASSUME NEW c \in Row, Fine(c, Low, Top, All) PROVE Right(c)
  BY <1>1, <1>2, <1>3, FineStays
<1>4. /\ row \in Row /\ excl.next \in Row /\ sync.copy \in Row /\ row' \in Row
      /\ hidden' \in Nat /\ msgs' \subseteq 1 .. MaxLog
      /\ \A i \in Handlers : h[i].copy \in Row /\ h[i].seq \in Nat
  BY DEF TypeOK, ClientAssumption
<1>5. Right(row) /\ Right(excl.next) /\ Right(sync.copy) /\ \A i \in Handlers : Right(h[i].copy)
  BY <1>3, <1>4 DEF Knowing
<1>6. Right(row')
  BY <1>3, <1>4, RowStaysFine
<1>7. Right(Blank)
  BY <1>1 DEF Fine, Blank, Added
<1> HIDE DEF Right
<1>8. Right(excl'.next)
  <2>1. CASE excl' = excl
    BY <1>5, <2>1
  <2>2. CASE excl' = Free
    BY <1>7, <2>2 DEF Free
  <2>3. ASSUME NEW w, NEW m, Recount(w, m) PROVE Right(excl'.next)
    <3>1. msgs' = m /\ excl'.next = Recompute(row, m)
      BY <2>3 DEF Recount
    <3>2. Fine(Recompute(row, m), Low', Top', All')
      BY <1>1, <1>4, <1>5, <3>1, RecomputeFine DEF Right
    <3>3. QED
      BY <3>1, <3>2 DEF Right
  <2>4. ASSUME NEW w, NEW d, Empty(w, d) PROVE Right(excl'.next)
    <3> DEFINE c == excl'.next
    <3>1. c.floor <= hidden' /\ c.sync <= hidden' /\ c.to <= hidden' /\ c.server <= hidden'
      BY <2>4, EmptyHides
    <3>2. c.floor \in Nat /\ c.sync \in Nat /\ c.to \in Nat /\ c.server \in Nat
      BY DEF TypeOK, Row, ClientAssumption
    <3> HIDE DEF c
    <3>3. Fine(c, Low', Top', All')
      BY <1>1, <1>4, <3>1, <3>2 DEF Fine
    <3>4. QED
      BY <3>3 DEF Right, c
  <2>5. QED
    BY <2>1, <2>2, <2>3, <2>4, LocalMoves
<1>9. Right(sync'.copy)
  BY <1>5, <1>7, CopyMoves
<1>10. ASSUME NEW i \in Handlers
       PROVE  Right(h'[i].copy) /\ (h'[i].pc = "stored" => h'[i].seq <= Top')
  <2>1. Right(h'[i].copy)
    BY <1>5, <1>7, CopyMoves
  <2>2. ASSUME h'[i].pc = "stored" PROVE h'[i].seq <= Top'
    <3>1. h'[i].seq = h[i].seq /\ (h[i].pc = "stored" \/ Store(i))
      BY <2>2, CopyMoves
    <3>2. CASE h[i].pc = "stored"
      <4>1. h[i].seq <= Top
        BY <3>2 DEF Knowing
      <4>2. QED
        BY <1>1, <1>2, <1>4, <3>1, <4>1
    <3>3. CASE Store(i)
      <4>1. Upsert(i, {h[i].seq}) /\ concealed' = concealed /\ {h[i].seq} \subseteq Nat
        BY <1>4, <3>3 DEF Store, server
      <4>2. QED
        BY <1>2, <3>1, <4>1, StoredIsThere
    <3>4. QED
      BY <3>1, <3>2, <3>3
  <2>3. QED
    BY <2>1, <2>2
<1>11. QED
  BY <1>2, <1>6, <1>8, <1>9, <1>10 DEF Knowing, Right

\* A page of the server brings what was asked for, or there is no such message.
LEMMA PageBrings ==
  ASSUME ClientAssumption, TypeOK, Asked, Fetch
  PROVE  IF sync'.mode = "tail" THEN cursor <= Larger(Newest(sync'.page), Top)
         ELSE sync'.last \/ sync'.page = {} => sync'.target <= Larger(Newest(sync'.page), Top)
<1> DEFINE p == IF sync.mode = "tail" THEN Before(log + 1) ELSE After(sync.after)
           l == \A s \in Shown : s \in p \/ (sync.mode = "delta" /\ s <= sync.after)
<1>1. /\ SyncOK /\ log \in Nat /\ cursor \in Nat /\ concealed \in Nat /\ Top \in Nat
      /\ concealed <= Top /\ PageSize \in Nat \ {0} /\ MaxLog \in Nat /\ log <= MaxLog
  BY TypeParts, TopType DEF TypeOK, ClientAssumption
<1>2. sync.mode \in {"tail", "delta"} /\ sync.target \in Nat /\ sync.after \in Nat
  BY <1>1 DEF SyncOK, SyncType
<1>3. /\ sync'.page = p /\ sync'.last = l /\ sync'.mode = sync.mode /\ sync'.target = sync.target
  <2>1. sync' = [sync EXCEPT !.pc = "fetched", !.page = p, !.from = concealed, !.last = l]
    BY DEF Fetch
  <2> HIDE DEF p, l
  <2>2. QED
    BY <1>1, <2>1 DEF SyncOK, SyncType
<1>4. sync.target <= All /\ cursor <= All /\ sync.after <= Top
  BY DEF Fetch, SyncAt, Asked, Fetching
<1>5. \A n \in Nat : n <= All /\ n > Top => n \in Shown
  BY <1>1 DEF All, Larger, Shown
<1>6. p \subseteq Shown /\ Shown \subseteq 0 .. MaxLog
  BY <1>1 DEF Before, After, Shown
<1>7. Newest(p) \in 0 .. MaxLog /\ \A s \in p : s <= Newest(p)
  <2> HIDE DEF p
  <2> QED
    BY <1>6, NewestType
<1>8. \A n \in Nat : n <= Larger(Newest(p), Top) <=> n <= Newest(p) \/ n <= Top
  <2> HIDE DEF p
  <2> QED
    BY <1>1, <1>7 DEF Larger
<1>9. CASE sync.mode = "tail" /\ cursor > Top
  <2>1. cursor \in Shown
    BY <1>1, <1>4, <1>5, <1>9
  <2>2. log \in Shown /\ cursor <= log
    BY <1>1, <2>1 DEF Shown
  <2>3. log \in Before(log + 1)
    BY <1>1, <2>2 DEF Before, Shown
  <2>4. log <= Newest(p)
    BY <1>7, <1>9, <2>3
  <2> HIDE DEF p
  <2>5. cursor <= Newest(p)
    BY <1>1, <1>7, <2>2, <2>4
  <2>6. QED
    BY <1>1, <1>3, <1>8, <1>9, <2>5
<1>10. CASE sync.mode = "delta" /\ sync.target > Top /\ (l \/ p = {})
  <2>1. sync.target \in Shown /\ sync.target > sync.after
    BY <1>1, <1>2, <1>4, <1>5, <1>10
  <2>2. p # {}
    <3> DEFINE m == Larger(sync.after, concealed) + 1
    <3>1. m \in Nat /\ m <= sync.target /\ m > concealed /\ m > sync.after
      BY <1>1, <1>2, <1>4, <1>10 DEF Larger
    <3>2. m \in Shown
      BY <1>1, <2>1, <3>1 DEF Shown
    <3>3. m <= Larger(sync.after, concealed) + PageSize
      BY <1>1, <1>2 DEF Larger
    <3> HIDE DEF m
    <3>4. m \in After(sync.after)
      BY <3>1, <3>2, <3>3 DEF After
    <3>5. QED
      BY <1>10, <3>4
  <2>3. sync.target \in p
    BY <1>1, <1>2, <1>10, <2>1, <2>2
  <2> HIDE DEF p
  <2>4. QED
    BY <1>2, <1>3, <1>7, <1>8, <1>10, <2>3
<1> HIDE DEF p, l
<1>11. QED
  BY <1>1, <1>2, <1>3, <1>8, <1>9, <1>10

\* The sync asks for nothing any more, or does not yet.
Quiet == sync.pc \in {"idle", "settling", "done"} /\ sync.after = 0 /\ sync.from = 0 /\ ~sync.paged

LEMMA FinishQuiet ==
  ASSUME NEW pc \in {"idle", "settling", "done"}, Finish(pc)
  PROVE  Quiet' /\ sync'.pc = pc
BY DEF Finish, Quiet, Asleep

LEMMA AfterTaskQuiet ==
  ASSUME AfterTask PROVE Quiet'
BY FinishQuiet DEF AfterTask

\* What the sync asks for stays true when the device learns more.
LEMMA WaitingOn ==
  ASSUME ClientAssumption, TypeOK, TypeOK', Knowing, Asked, Got, [Next]_vars,
         sync' = sync, cursor' = cursor
  PROVE  Asked' /\ Got'
<1>1. /\ Top \in Nat /\ Top' \in Nat /\ Top <= Top' /\ All \in Nat /\ All' \in Nat /\ All <= All'
  BY TopType, TopTypeNext, AllType, AllTypeNext, MarksRise DEF Knowing, ClientAssumption
<1>2. /\ cursor \in Nat /\ sync.target \in Nat /\ sync.after \in Nat /\ sync.from \in Nat
      /\ concealed \in Nat /\ log \in Nat /\ concealed' \in Nat /\ sync.page \subseteq 0 .. MaxLog
  BY DEF TypeOK, ClientAssumption
<1>3. concealed <= concealed'
  BY <1>2, LocalMoves DEF Knowing
<1>4. Asked'
  BY <1>1, <1>2, <1>3, sync' = sync, cursor' = cursor DEF Asked, Fetching
<1>5. Newest(sync.page) \in Nat
  BY <1>2, NewestType DEF ClientAssumption
<1>6. \A n \in Nat : n <= Larger(Newest(sync.page), Top) => n <= Larger(Newest(sync.page), Top')
  BY <1>1, <1>5 DEF Larger
<1>7. /\ Paging' <=> Paging
      /\ Newest(sync'.page) = Newest(sync.page)
  BY DEF Paging
<1>8. Paging' => IF sync'.mode = "tail" THEN cursor' <= Larger(Newest(sync'.page), Top')
                 ELSE sync'.last \/ sync'.page = {} => sync'.target <= Larger(Newest(sync'.page), Top')
  BY <1>2, <1>6, <1>7 DEF Got
<1>9. sync'.pc \in {"stored", "written"} => Newest(sync'.page) <= Top'
  BY <1>1, <1>5 DEF Got
<1>10. sync'.pc \in {"tailed", "marking"} => cursor' <= Top'
  BY <1>1, <1>2 DEF Got
<1>11. QED
  BY <1>4, <1>8, <1>9, <1>10 DEF Got

\* What the sync asks for follows from what it knows of.
LEMMA SyncAsks ==
  ASSUME ClientAssumption, TypeOK, TypeOK', Knowing, Asked, Got,
         List \/ SyncStep \/ SyncFails \/ Crash
  PROVE  Asked' /\ Got'
<1>0. [Next]_vars
  BY DEF Next
<1>1. /\ Top \in Nat /\ Top' \in Nat /\ Top <= Top' /\ All \in Nat /\ All' \in Nat /\ All <= All'
      /\ log' <= All' /\ Low <= Low'
  BY <1>0, TopType, TopTypeNext, AllType, AllTypeNext, MarksRise DEF Knowing, ClientAssumption
<1>2. /\ cursor \in Nat /\ sync.target \in Nat /\ sync.after \in Nat /\ sync.from \in Nat
      /\ concealed \in Nat /\ log \in Nat /\ sync.page \subseteq 1 .. MaxLog /\ row \in Row
      /\ sync.copy \in Row /\ MaxLog \in Nat
  BY DEF TypeOK, ClientAssumption
<1>3. SyncOK
  BY TypeParts
<1>4. concealed' = concealed /\ log' = log /\ (~Diff => cursor' = cursor)
  BY DEF List, SyncFails, Crash, SyncStep, ReadRows, Diff, Fetch, StorePage, ReadRow, WriteRow,
         ReadTailed, MarkComplete, Settle, server
<1>5. ASSUME Quiet', cursor' <= All' PROVE Asked' /\ Got'
  BY <1>1, <1>2, <1>4, <1>5 DEF Quiet, Asked, Got, Fetching, Paging
<1>6. cursor <= All'
  BY <1>1, <1>2 DEF Asked
<1>7. CASE List
  <2>1. CASE Finish("settling")
    BY <1>4, <1>5, <1>6, <1>7, <2>1, FinishQuiet DEF List
  <2>2. CASE sync' = [Asleep EXCEPT !.pc = "listing", !.target = log]
    <3>1. /\ sync'.pc = "listing" /\ sync'.target = log /\ sync'.after = 0 /\ sync'.from = 0
          /\ sync'.paged = FALSE
      BY <2>2 DEF Asleep
    <3>2. cursor' = cursor
      BY <1>7 DEF List
    <3>3. QED
      BY <1>1, <1>2, <1>4, <1>6, <3>1, <3>2 DEF Asked, Got, Fetching, Paging
  <2>3. QED
    BY <1>7, <2>1, <2>2 DEF List
<1>8. CASE SyncFails \/ Crash
  <2>1. cursor' = cursor
    BY <1>8 DEF SyncFails, Crash
  <2>2. Quiet'
    BY <1>8, FailedSync, FinishQuiet DEF Crash, Quiet
  <2>3. QED
    BY <1>5, <1>6, <2>1, <2>2
<1>9. CASE ReadRows
  <2>1. sync' = [sync EXCEPT !.pc = "listed", !.copy = row] /\ sync.pc = "listing"
    BY <1>9 DEF ReadRows, SyncAt
  <2>2. /\ sync'.pc = "listed" /\ sync'.target = sync.target /\ sync'.after = sync.after
        /\ sync'.from = sync.from /\ sync'.paged = sync.paged
    BY <1>3, <2>1 DEF SyncOK, SyncType
  <2>3. cursor' = cursor
    BY <1>9 DEF ReadRows
  <2>4. QED
    BY <1>1, <1>2, <1>4, <1>6, <2>1, <2>2, <2>3 DEF Asked, Got, Fetching, Paging
<1>10. ASSUME NEW m \in {"tail", "delta"}, NEW a \in Nat, NEW n \in Nat, NEW b,
              sync' = Task(m, a, n, b), a <= Top, n <= All, cursor' <= All'
       PROVE  Asked' /\ Got'
  <2>1. /\ sync'.pc = "fetching" /\ sync'.target = n /\ sync'.after = a /\ sync'.from = 0
        /\ sync'.paged = FALSE
    BY <1>10 DEF Task, Asleep
  <2>2. QED
    BY <1>1, <1>2, <1>4, <1>10, <2>1 DEF Asked, Got, Fetching, Paging
<1>11. CASE Diff
  <2>1. cursor' = sync.target /\ sync.target <= All /\ cursor' <= All'
    BY <1>1, <1>2, <1>11 DEF Diff, SyncAt, Asked
  <2>2. Anchor(sync.copy) \in Nat /\ Anchor(sync.copy) <= Top
    BY <1>1, <1>2, TopType DEF Anchor, Larger, Knowing, Fine, Row, ClientAssumption
  <2>3. CASE Finish("settling")
    BY <1>5, <2>1, <2>3, FinishQuiet
  <2>4. ASSUME NEW m \in {"tail", "delta"}, sync' = Task(m, Anchor(sync.copy), sync.target, TRUE)
        PROVE  Asked' /\ Got'
    BY <1>2, <1>10, <2>1, <2>2, <2>4
  <2>5. QED
    BY <1>11, <2>3, <2>4, Zenon DEF Diff
<1>12. CASE Fetch
  <2> DEFINE p == IF sync.mode = "tail" THEN Before(log + 1) ELSE After(sync.after)
             l == \A s \in Shown : s \in p \/ (sync.mode = "delta" /\ s <= sync.after)
  <2>1. sync' = [sync EXCEPT !.pc = "fetched", !.page = p, !.from = concealed, !.last = l]
        /\ sync.pc = "fetching" /\ UNCHANGED <<cursor, local, server>>
    BY <1>12 DEF Fetch, SyncAt
  <2> HIDE DEF p, l
  <2>2. /\ sync'.pc = "fetched" /\ sync'.target = sync.target /\ sync'.after = sync.after
        /\ sync'.from = concealed /\ sync'.paged = sync.paged /\ sync'.mode = sync.mode
    BY <1>3, <2>1 DEF SyncOK, SyncType
  <2>3. Top' = Top /\ cursor' = cursor
    BY <2>1 DEF Top, Low, Known, local, server
  <2>4. Asked'
    BY <1>1, <1>2, <1>4, <2>1, <2>2, <2>3 DEF Asked, Fetching
  <2>5. Got'
    BY <1>12, <2>2, <2>3, PageBrings DEF Got, Paging
  <2>6. QED
    BY <2>4, <2>5
<1>13. CASE StorePage \/ ReadRow
  <2>1. /\ sync'.target = sync.target /\ sync'.after = sync.after /\ sync'.page = sync.page
        /\ sync'.from = sync.from /\ sync'.paged = sync.paged /\ sync'.mode = sync.mode
        /\ sync'.last = sync.last /\ sync'.pc \in {"stored", "written"} /\ Paging
        /\ cursor' = cursor
    BY <1>3, <1>13 DEF StorePage, ReadRow, SyncAt, Paging, SyncOK, SyncType
  <2>2. Asked'
    BY <1>1, <1>2, <1>4, <2>1 DEF Asked, Fetching, Paging
  <2>3. sync.page \subseteq 0 .. MaxLog /\ sync.page \subseteq Nat
    BY <1>2
  <2>4. /\ Newest(sync.page) \in Nat /\ (sync.page # {} => Newest(sync.page) \in sync.page)
        /\ (sync.page = {} => Newest(sync.page) = 0)
    BY <2>3, NewestType DEF Newest, ClientAssumption
  <2>5. Newest(sync.page) <= Top'
    <3>1. CASE StorePage
      <4>1. \A s \in sync.page : s <= Top'
        BY <1>1, <1>4, <2>3, <3>1, StoredIsThere DEF StorePage
      <4>2. QED
        BY <1>1, <2>4, <4>1
    <3>2. CASE ReadRow
      BY <1>1, <2>4, <3>2 DEF ReadRow, SyncAt, Got
    <3>3. QED
      BY <1>13, <3>1, <3>2
  <2>6. \A n \in Nat : n <= Larger(Newest(sync.page), Top) => n <= Larger(Newest(sync.page), Top')
    BY <1>1, <2>4 DEF Larger
  <2>7. Got'
    BY <1>2, <2>1, <2>5, <2>6 DEF Got, Paging
  <2>8. QED
    BY <2>2, <2>7
<1>14. CASE WriteRow
  <2>0. sync.pc = "written" /\ cursor' = cursor
    BY <1>14 DEF WriteRow, SyncAt
  <2>1. CASE AfterTask
    BY <1>5, <1>6, <2>0, <2>1, AfterTaskQuiet
  <2>2. CASE sync.mode = "tail" /\ Marks("tailed", Blank)
    <3>1. cursor <= Top
      BY <2>0, <2>2, PageStored
    <3>2. /\ sync'.pc = "tailed" /\ sync'.after = 0 /\ sync'.from = sync.from /\ sync'.paged = FALSE
      BY <2>2 DEF Marks, Asleep
    <3>3. QED
      BY <1>1, <1>2, <1>4, <1>6, <2>0, <3>1, <3>2 DEF Asked, Got, Fetching, Paging
  <2>3. CASE /\ sync.mode = "delta"
             /\ sync' = [sync EXCEPT !.pc = "fetching", !.after = Reached, !.page = {},
                            !.last = FALSE, !.from = 0, !.paged = TRUE, !.copy = Blank]
    <3>1. Reached \in Nat /\ Reached <= Top
      BY <2>0, PageStored
    <3>2. /\ sync'.pc = "fetching" /\ sync'.after = Reached /\ sync'.target = sync.target
          /\ sync'.from = 0 /\ sync'.mode = "delta"
      BY <1>3, <2>3 DEF SyncOK, SyncType
    <3>3. QED
      BY <1>1, <1>2, <1>4, <1>6, <2>0, <3>1, <3>2 DEF Asked, Got, Fetching, Paging
  <2>4. QED
    BY <1>3, <1>14, <2>1, <2>2, <2>3 DEF WriteRow, Advance, SyncOK, SyncType
<1>15. CASE ReadTailed
  <2>1. /\ sync'.pc = "marking" /\ sync'.after = 0 /\ sync'.from = sync.from /\ sync'.paged = FALSE
        /\ sync.pc = "tailed" /\ cursor' = cursor
    BY <1>15 DEF ReadTailed, SyncAt, Marks, Asleep
  <2>2. QED
    BY <1>1, <1>2, <1>4, <1>6, <2>1 DEF Asked, Got, Fetching, Paging
<1>16. CASE MarkComplete
  BY <1>5, <1>6, <1>16, AfterTaskQuiet DEF MarkComplete
<1>17. CASE Settle
  <2>1. cursor' = cursor
    BY <1>17 DEF Settle
  <2>2. row.sync \in Nat /\ row.sync <= Top /\ row.server \in Nat /\ row.server <= All
    BY <1>2 DEF Knowing, Fine, Row, ClientAssumption
  <2>3. CASE Finish("done")
    BY <1>5, <1>6, <2>1, <2>3, FinishQuiet
  <2>4. ASSUME NEW m \in {"tail", "delta"}, sync' = Task(m, row.sync, row.server, FALSE)
        PROVE  Asked' /\ Got'
    BY <1>6, <1>10, <2>1, <2>2, <2>4
  <2>5. QED
    BY <1>17, <2>3, <2>4, Zenon DEF Settle
<1>18. QED
  BY <1>7, <1>8, <1>9, <1>11, <1>12, <1>13, <1>14, <1>15, <1>16, <1>17 DEF SyncStep

-----------------------------------------------------------------------------
(* What the sync owes *)

\* While something listed is missing, the row says so, or a fetch in pages is
\* under way; a fetch goes as far as the last listing; and the sync is not done.
Owes ==
  ~stale /\ ~cut /\ cursor > Top =>
    /\ row.server >= cursor \/ sync.paged
    /\ Fetching => sync.target >= cursor
    /\ ~EndedWell

\* Whatever is written without an undoing knows of as much as the row did.
LEMMA ServerStays ==
  ASSUME ClientAssumption, TypeOK, TypeOK', [Next]_vars, ~stale'
  PROVE  ~stale /\ (~WriteRow => row'.server >= row.server)
<1>1. row.server \in Nat /\ row'.server \in Nat /\ stale \in BOOLEAN
  BY DEF TypeOK, Row, ClientAssumption
<1>2. ASSUME NEW c, NEW n, PutBack(c, n) PROVE ~stale /\ row'.server >= row.server
  <2>1. ~stale /\ ~Undoes(c, n) /\ row' = n
    BY <1>2, Zenon DEF PutBack
  <2>2. ~(n.server < row.server)
    BY <2>1 DEF Undoes
  <2>3. QED
    BY <1>1, <2>1, <2>2
<1>3. CASE row' = row /\ stale' = stale
  BY <1>1, <1>3
<1>4. CASE WriteRecord
  <2>1. ~stale /\ row' = excl.next
        /\ IF excl.kind = "upsert" THEN ~Undoes(excl.next, excl.next)
           ELSE ~(excl.next.server < row.server)
    BY <1>4, Zenon DEF WriteRecord
  <2>2. ~(excl.next.server < row.server)
    BY <2>1 DEF Undoes
  <2>3. QED
    BY <1>1, <2>1, <2>2
<1>5. CASE WriteRow
  BY <1>5 DEF WriteRow
<1>6. CASE Diff \/ MarkComplete \/ \E i \in Handlers : WriteBack(i) \/ EndTouch(i) \/ MarkStart(i)
  BY <1>2, <1>6 DEF Diff, MarkComplete, WriteBack, EndTouch, MarkStart
<1>7. ASSUME row' = row,
             ~(\/ WriteRecord \/ Diff \/ WriteRow \/ MarkComplete
               \/ \E i \in Handlers : WriteBack(i) \/ EndTouch(i) \/ MarkStart(i))
      PROVE  stale' = stale
  <2>1. ASSUME NEW i \in Handlers, Handle(i) PROVE stale' = stale
    BY <1>7, <2>1 DEF Handle, Receive, Store, BeginTouch, Scroll, FetchOlder, StoreOlder,
       ReadToMark, BeginDelete, EndDelete, Clear, BeginPatch, EndPatch, HandlerFails, history
  <2>2. List \/ SyncStep \/ SyncFails => stale' = stale
    BY <1>7 DEF List, SyncStep, SyncFails, ReadRows, Fetch, StorePage, ReadRow, ReadTailed, Settle,
       history
  <2>3. Post \/ Crash \/ UNCHANGED vars => stale' = stale
    BY DEF Post, Crash, history, vars
  <2>4. QED
    BY <1>7, <2>1, <2>2, <2>3 DEF Next
<1>8. QED
  BY <1>3, <1>4, <1>5, <1>6, <1>7, RowMoves

\* Nobody but the sync, and what ends it, moves it.
LEMMA SyncMoves ==
  ASSUME TypeOK, [Next]_vars
  PROVE  /\ UNCHANGED <<sync, cursor, cut>> \/ List \/ SyncStep \/ SyncFails \/ Crash
         /\ ~cut' => ~cut
<1>0. cut \in BOOLEAN
  BY DEF TypeOK
<1>1. ASSUME NEW i \in Handlers, Handle(i) PROVE UNCHANGED <<sync, cursor, cut>>
  BY <1>1 DEF Handle, Receive, Store, WriteBack, BeginTouch, EndTouch, Scroll, FetchOlder,
     StoreOlder, ReadToMark, MarkStart, BeginDelete, EndDelete, Clear, BeginPatch, EndPatch, HandlerFails, PutBack,
     history
<1>2. Post \/ WriteRecord \/ UNCHANGED vars => UNCHANGED <<sync, cursor, cut>>
  BY DEF Post, WriteRecord, vars, history
<1>3. List \/ SyncStep => cut' = cut
  BY DEF List, SyncStep, ReadRows, Diff, Fetch, StorePage, ReadRow, WriteRow, ReadTailed,
     MarkComplete, Settle, PutBack, history
<1>4. (SyncFails \/ Crash) /\ ~cut' => ~cut
  BY <1>0 DEF SyncFails, Crash
<1>5. QED
  BY <1>0, <1>1, <1>2, <1>3, <1>4 DEF Next

LEMMA OwesNext ==
  ASSUME ClientAssumption, TypeOK, TypeOK', Knowing, Asked, Got, Owes, [Next]_vars
  PROVE  Owes'
<1> SUFFICES ASSUME ~stale', ~cut', cursor' > Top'
             PROVE  /\ row'.server >= cursor' \/ sync'.paged
                    /\ Fetching' => sync'.target >= cursor'
                    /\ ~EndedWell'
  BY DEF Owes
<1>1. /\ Top \in Nat /\ Top' \in Nat /\ Top <= Top' /\ cursor \in Nat /\ cursor' \in Nat
      /\ row.server \in Nat /\ row'.server \in Nat /\ sync.target \in Nat /\ row \in Row
      /\ sync.copy \in Row /\ sync.paged \in BOOLEAN
  BY TopType, TopTypeNext, MarksRise DEF Knowing, TypeOK, Row, ClientAssumption
<1>2. ~stale /\ ~cut /\ (~WriteRow => row'.server >= row.server)
  BY ServerStays, SyncMoves
<1>3. SyncOK
  BY TypeParts
<1>4. cursor' = cursor => /\ cursor > Top
                          /\ row.server >= cursor \/ sync.paged
                          /\ Fetching => sync.target >= cursor
                          /\ ~EndedWell
  BY <1>1, <1>2 DEF Owes
<1>5. CASE UNCHANGED <<sync, cursor, cut>> /\ ~WriteRow
  BY <1>1, <1>2, <1>4, <1>5 DEF Fetching, EndedWell
<1>6. CASE List
  <2>1. cursor' = cursor /\ row' = row /\ sync'.pc \in {"listing", "settling"} /\ ~sync.paged
    BY <1>6 DEF List, Finish, Asleep, local, Asked, Fetching
  <2>2. QED
    BY <1>1, <1>4, <2>1 DEF Fetching, EndedWell
<1>7. CASE SyncFails \/ Crash
  <2>1. cursor' = cursor /\ row' = row
    BY <1>7 DEF SyncFails, Crash, local
  <2>2. ~sync.paged
    BY <1>7, <1>1, Zenon DEF SyncFails, Crash
  <2>3. sync'.pc \in {"idle", "done"} /\ (sync'.pc = "done" => sync'.lapsed)
    BY <1>7, FailedSync DEF Crash, Finish, Asleep
  <2>4. QED
    BY <1>1, <1>4, <2>1, <2>2, <2>3 DEF Fetching, EndedWell
<1>8. CASE ReadRows \/ Fetch \/ StorePage \/ ReadRow
  <2>1. /\ cursor' = cursor /\ row' = row /\ sync'.paged = sync.paged
        /\ sync'.target = sync.target /\ (Fetching' => Fetching) /\ sync'.pc # "done"
    <3>1. cursor' = cursor /\ row' = row
      BY <1>8 DEF ReadRows, Fetch, StorePage, ReadRow, Upsert, Recount, local
    <3>2. CASE Fetch
      <4>1. PICK p, l : sync' = [sync EXCEPT !.pc = "fetched", !.page = p, !.from = concealed, !.last = l]
        BY <3>2, Zenon DEF Fetch
      <4>2. QED
        BY <1>3, <3>1, <3>2, <4>1 DEF Fetch, SyncAt, Fetching, SyncOK, SyncType
    <3>3. CASE ReadRows \/ StorePage \/ ReadRow
      BY <1>3, <3>1, <3>3 DEF ReadRows, StorePage, ReadRow, SyncAt, Fetching, SyncOK, SyncType
    <3>4. QED
      BY <1>8, <3>2, <3>3
  <2>2. QED
    BY <1>1, <1>4, <2>1 DEF EndedWell
<1>9. CASE Diff
  <2>1. cursor' = sync.target /\ row' = Merged(sync.copy, sync.target) /\ sync.target <= All
    BY <1>9 DEF Diff, SyncAt, PutBack, Asked
  <2>2. row'.server >= cursor'
    <3>1. sync.target \in 0 .. MaxLog /\ Fine(sync.copy, Low, Top, All)
      BY DEF TypeOK, Knowing
    <3>2. Low \in Nat /\ All \in Nat /\ Low <= Top
      BY TopType, AllType DEF ClientAssumption
    <3>3. QED
      BY <1>1, <2>1, <3>1, <3>2, MergedFine
  <2>3. ASSUME Finish("settling") PROVE sync'.pc = "settling"
    BY <2>3, FinishQuiet
  <2>4. ASSUME NEW m, sync' = Task(m, Anchor(sync.copy), sync.target, TRUE)
        PROVE  sync'.target = sync.target /\ sync'.pc = "fetching"
    BY <2>4 DEF Task, Asleep
  <2>5. Finish("settling") \/ \E m : sync' = Task(m, Anchor(sync.copy), sync.target, TRUE)
    BY <1>9, Zenon DEF Diff
  <2>6. /\ sync'.pc \in {"settling", "fetching"}
        /\ sync'.pc = "fetching" => sync'.target = sync.target
    BY <2>3, <2>4, <2>5
  <2>7. QED
    BY <1>1, <2>1, <2>2, <2>6 DEF Fetching, EndedWell
<1>10. CASE WriteRow
  <2>1. sync.pc = "written" /\ cursor' = cursor /\ Fetching
    BY <1>10 DEF WriteRow, SyncAt, Fetching
  <2>2. sync.mode = "delta" /\ ~(sync.last \/ sync.page = {} \/ Reached >= sync.target)
    BY <1>1, <1>3, <1>4, <2>1, PageStored DEF SyncOK, SyncType
  <2>3. sync' = [sync EXCEPT !.pc = "fetching", !.after = Reached, !.page = {},
                   !.last = FALSE, !.from = 0, !.paged = TRUE, !.copy = Blank]
    BY <1>10, <2>2 DEF WriteRow, Advance
  <2>4. sync'.pc = "fetching" /\ sync'.target = sync.target /\ sync'.paged = TRUE
    BY <1>3, <2>3 DEF SyncOK, SyncType
  <2>5. QED
    BY <1>4, <2>1, <2>4 DEF EndedWell
<1>11. CASE ReadTailed \/ MarkComplete
  <2>1. cursor' = cursor /\ cursor <= Top
    BY <1>11 DEF ReadTailed, MarkComplete, SyncAt, Got
  <2>2. QED
    BY <1>1, <1>4, <2>1
<1>12. CASE Settle
  <2>1. cursor' = cursor /\ row' = row /\ ~sync.paged
    BY <1>12 DEF Settle, SyncAt, local, Asked, Fetching
  <2>2. row.server >= cursor /\ row.server > Top
    BY <1>1, <1>4, <2>1
  <2>3. row.backfill /\ ~row.deleted /\ row.server > Larger(row.sync, row.to)
    BY <1>1, <2>2 DEF Knowing, Fine, Larger, Row
  <2>4. PICK m : sync' = Task(m, row.sync, row.server, FALSE)
    BY <1>12, <2>3, Zenon DEF Settle
  <2>5. sync'.pc = "fetching" /\ sync'.target = row.server
    BY <2>4 DEF Task, Asleep
  <2>6. QED
    BY <2>1, <2>2, <2>5 DEF EndedWell
<1>13. QED
  BY <1>5, <1>6, <1>7, <1>8, <1>9, <1>10, <1>11, <1>12, SyncMoves DEF SyncStep

-----------------------------------------------------------------------------
(* The theorem *)

Arrives == Knowing /\ Asked /\ Got /\ Owes

LEMMA InitArrives ==
  ASSUME ClientAssumption, Init
  PROVE  Arrives
<1>1. /\ log \in Nat /\ concealed = 0 /\ hidden = 0 /\ Known = {} /\ cursor = log
      /\ row = Added(log) /\ excl = Free /\ h = [i \in Handlers |-> Idle]
      /\ sync = Task("tail", 0, log, TRUE)
  BY DEF Init, ClientAssumption, Known
<1>2. Newest(Known) = 0 /\ Low = 0
  BY <1>1 DEF Newest, Low, Larger
<1>3. Top = 0 /\ All = log
  BY <1>1, <1>2 DEF Top, All, Larger
<1>4. Fine(row, Low, Top, All) /\ Fine(Blank, Low, Top, All) /\ row.server = log
  <2>1. /\ row.sync = 0 /\ row.server = log /\ row.to = 0 /\ row.floor = 0
        /\ (log > 0 => row.backfill) /\ ~row.deleted
    BY <1>1 DEF Added
  <2>2. /\ Blank.sync = 0 /\ Blank.server = 0 /\ Blank.to = 0 /\ Blank.floor = 0
    BY DEF Blank, Added
  <2>3. Fine(row, 0, 0, log)
    BY <1>1, <2>1 DEF Fine
  <2>4. Fine(Blank, 0, 0, log)
    BY <1>1, <2>2 DEF Fine
  <2>5. QED
    BY <1>2, <1>3, <2>1, <2>3, <2>4
<1>5. /\ sync.pc = "fetching" /\ sync.after = 0 /\ sync.target = log /\ sync.from = 0
      /\ sync.paged = FALSE /\ sync.copy = Blank
  BY <1>1 DEF Task, Asleep
<1>6. Free.next = Blank /\ Idle.copy = Blank /\ Idle.pc = "idle"
  BY DEF Free, Idle
<1>7. Knowing
  <2>1. \A i \in Handlers : h[i] = Idle
    BY <1>1
  <2>2. excl.next = Blank /\ concealed <= log
    BY <1>1, <1>6
  <2>3. QED
    BY <1>4, <1>5, <1>6, <2>1, <2>2 DEF Knowing
<1>8. Asked /\ Got
  <2>1. cursor <= All /\ log <= All /\ 0 <= Top /\ 0 <= concealed
    BY <1>1, <1>3
  <2>2. Asked
    BY <1>5, <2>1 DEF Asked, Fetching
  <2>3. Got
    BY <1>5 DEF Got, Paging
  <2>4. QED
    BY <2>2, <2>3
<1>9. Owes
  <2>0. log \in Nat /\ cursor = log /\ row.server = log /\ sync.target = log
    BY <1>1, <1>4, <1>5
  <2>1. row.server >= cursor /\ sync.target >= cursor
    BY <2>0
  <2>2. sync.pc # "done"
    BY <1>5
  <2>3. QED
    BY <2>1, <2>2 DEF Owes, EndedWell
<1>10. QED
  BY <1>7, <1>8, <1>9 DEF Arrives

LEMMA ArrivesNext ==
  ASSUME ClientAssumption, TypeOK, TypeOK', Arrives, [Next]_vars
  PROVE  Arrives'
<1>1. Knowing /\ Asked /\ Got /\ Owes
  BY DEF Arrives
<1>2. Knowing' /\ Owes'
  BY <1>1, KnowingNext, OwesNext
<1>3. Asked' /\ Got'
  <2>1. CASE UNCHANGED <<sync, cursor>>
    BY <1>1, <2>1, WaitingOn
  <2>2. CASE List \/ SyncStep \/ SyncFails \/ Crash
    BY <1>1, <2>2, SyncAsks
  <2>3. QED
    BY <2>1, <2>2, SyncMoves
<1>4. QED
  BY <1>2, <1>3 DEF Arrives

\* With the floor of the row over what the user cleared, nothing listed is missing.
LEMMA ArrivesMeans ==
  ASSUME ClientAssumption, TypeOK, Safe, Arrives
  PROVE  NewestArrives
<1> SUFFICES ASSUME EndedWell, ~Blanking, ~torn, ~stale, ~cut
             PROVE  CaughtUp
  BY DEF NewestArrives
<1>1. /\ hidden \in Nat /\ concealed \in Nat /\ row.floor \in Nat /\ Newest(Known) \in Nat
      /\ cursor \in Nat /\ Top \in Nat
  BY TopType DEF TypeOK, Row, ClientAssumption
<1>2. hidden <= row.floor
  BY DEF Safe, Good
<1>3. cursor <= Top
  BY <1>1 DEF Arrives, Owes
<1>4. QED
  BY <1>1, <1>2, <1>3 DEF CaughtUp, Top, Low, Larger

\* A sync that ends well has caught up with every listing, for any number of
\* handlers beside it, any pages and any faults: whoever wrote the row last, it
\* still owed the fetch that the sync then made.
THEOREM SyncCatchesUp == Spec => []NewestArrives
<1> USE ClientAssumption
<1>1. Init => Arrives
  BY InitArrives
<1>2. TypeOK /\ TypeOK' /\ Arrives /\ [Next]_vars => Arrives'
  BY ArrivesNext
<1>3. TypeOK /\ Safe /\ Arrives => NewestArrives
  BY ArrivesMeans
<1>4. QED
  BY <1>1, <1>2, <1>3, AlwaysSafe, PTL DEF Spec
-----------------------------------------------------------------------------
(* The promise of the device *)

\* What is under way to be stored.
Arriving == {sync.page} \cup {h[i].page : i \in Handlers}
            \cup {{h[i].seq} : i \in {j \in Handlers : h[j].pc = "received"}}

\* Nothing is stored, hidden or under way that was not posted.
Posted == /\ hidden <= log /\ \A s \in Known : s <= log
          /\ \A S \in Arriving : \A s \in S : s <= log

\* What is new among the pages and the pushes is posted, or was stored.
LEMMA ArrivingMoves ==
  ASSUME ClientAssumption, TypeOK, [Next]_vars
  PROVE  /\ \A s \in sync'.page : s \in sync.page \/ s <= log
         /\ \A i \in Handlers :
              /\ \A s \in h'[i].page : s \in h[i].page \cup msgs \/ s <= log
              /\ h'[i].pc = "received" => h'[i].seq <= log \/ (h[i].pc = "received" /\ h'[i].seq = h[i].seq)
<1> DEFINE HOk == \A i \in Handlers :
              /\ \A s \in h'[i].page : s \in h[i].page \cup msgs \/ s <= log
              /\ h'[i].pc = "received" => h'[i].seq <= log \/ (h[i].pc = "received" /\ h'[i].seq = h[i].seq)
           SOk == \A s \in sync'.page : s \in sync.page \/ s <= log
<1>0. HandlersOK /\ SyncOK /\ log \in Nat
  BY TypeParts DEF TypeOK, ClientAssumption
<1>a. h' = h => HOk
  OBVIOUS
<1>b. ASSUME NEW i \in Handlers, NEW x, h' = [h EXCEPT ![i] = x], x.page = {} \/ x.page = h[i].page,
             x.pc # "received"
      PROVE  HOk
  BY <1>0, <1>b DEF HandlersOK
<1>c. ASSUME NEW i \in Handlers, Ends(i) PROVE HOk
  BY <1>b, <1>c DEF Ends, Idle
<1>d. \A b : \A s \in Before(b) \cup After(b) : s <= log
  BY <1>0 DEF Before, After, Shown
<1> HIDE DEF HOk
<1>1. ASSUME NEW i \in Handlers, Handle(i) PROVE HOk /\ sync' = sync
  <2>0. sync' = sync
    BY <1>1 DEF Handle, Receive, Store, WriteBack, BeginTouch, EndTouch, Scroll, FetchOlder,
       StoreOlder, ReadToMark, MarkStart, BeginDelete, EndDelete, Clear, BeginPatch, EndPatch, HandlerFails
  <2> SUFFICES HOk
    BY <2>0
  <2>1. ASSUME NEW s \in 1 .. log, Receive(i, s) PROVE HOk
    <3> DEFINE x == [Idle EXCEPT !.pc = "received", !.seq = s, !.copy = row]
    <3>1. x.page = {} /\ x.seq = s /\ s <= log
      BY <1>0 DEF Idle
    <3>2. h' = [h EXCEPT ![i] = x]
      BY <2>1 DEF Receive
    <3> HIDE DEF x
    <3>3. h'[i] = x /\ \A j \in Handlers : j # i => h'[j] = h[j]
      BY <3>2, <1>0 DEF HandlersOK
    <3> QED
      BY <3>1, <3>3 DEF HOk
  <2>2. CASE Store(i)
    <3> DEFINE x == [h[i] EXCEPT !.pc = "stored"]
    <3>1. x.page = h[i].page /\ x.pc # "received"
      BY <1>0 DEF HandlersOK, HandlerType
    <3>2. h' = [h EXCEPT ![i] = x]
      BY <2>2, <1>0 DEF Store, HandlersOK
    <3> HIDE DEF x
    <3> QED
      BY <3>1, <3>2, <1>b
  <2>3. CASE WriteBack(i) \/ MarkStart(i) \/ EndDelete(i) \/ EndPatch(i) \/ HandlerFails(i)
    BY <2>3, <1>c DEF WriteBack, MarkStart, EndDelete, EndPatch, HandlerFails
  <2>4. CASE EndTouch(i) \/ Clear(i)
    BY <2>4, <1>a, <1>c DEF EndTouch, Clear
  <2>5. CASE BeginTouch(i) \/ Scroll(i) \/ ReadToMark(i) \/ BeginDelete(i) \/ StoreOlder(i)
    <3>1. ASSUME NEW x, h' = [h EXCEPT ![i] = x],
                 \/ x = [Idle EXCEPT !.pc = "calling", !.copy = row]
                 \/ x = [Idle EXCEPT !.pc = "paging", !.seq = Oldest(Visible(row, msgs))]
                 \/ x = [Idle EXCEPT !.pc = "marking", !.copy = row]
                 \/ x = [Idle EXCEPT !.pc = "deleting"]
                 \/ x = [Idle EXCEPT !.pc = "older"]
                 \/ x = Idle
          PROVE  HOk
      <4>1. Idle.page = {} /\ Idle.pc = "idle" /\ DOMAIN Idle = {"pc", "seq", "page", "last", "copy"}
        BY DEF Idle
      <4>2. x.page = {} /\ x.pc # "received"
        BY <3>1, <4>1
      <4> QED
        BY <3>1, <4>2, <1>b
    <3> QED
      BY <2>5, <3>1, Zenon DEF BeginTouch, Scroll, ReadToMark, BeginDelete, StoreOlder
  <2>6. CASE FetchOlder(i)
    <3>1. PICK l : h' = [h EXCEPT ![i] = [Idle EXCEPT !.pc = "paged", !.page = Before(h[i].seq), !.last = l]]
      BY <2>6, Zenon DEF FetchOlder
    <3> DEFINE x == [Idle EXCEPT !.pc = "paged", !.page = Before(h[i].seq), !.last = l]
    <3>2. x.page = Before(h[i].seq) /\ x.pc = "paged"
      BY DEF Idle
    <3>3. h' = [h EXCEPT ![i] = x]
      BY <3>1
    <3> HIDE DEF x
    <3>4. h'[i] = x /\ \A j \in Handlers : j # i => h'[j] = h[j]
      BY <3>3, <1>0 DEF HandlersOK
    <3> QED
      BY <3>2, <3>4, <1>d DEF HOk
  <2>7. ASSUME NEW s, BeginPatch(i, s) PROVE HOk
    <3> DEFINE x == [Idle EXCEPT !.pc = "patching", !.seq = s, !.page = {s} \cap msgs]
    <3>1. x.page \subseteq msgs /\ x.pc # "received"
      BY DEF Idle
    <3>2. h' = [h EXCEPT ![i] = x]
      BY <2>7 DEF BeginPatch
    <3> HIDE DEF x
    <3>3. h'[i] = x /\ \A j \in Handlers : j # i => h'[j] = h[j]
      BY <3>2, <1>0 DEF HandlersOK
    <3> QED
      BY <3>1, <3>3 DEF HOk
  <2> QED
    BY <1>1, <2>1, <2>2, <2>3, <2>4, <2>5, <2>6, <2>7 DEF Handle
<1>2. CASE SyncStep \/ List \/ SyncFails
  <2>0. HOk
    BY <1>2, <1>a DEF SyncStep, List, SyncFails, ReadRows, Diff, Fetch, StorePage, ReadRow,
       WriteRow, ReadTailed, MarkComplete, Settle
  <2> SUFFICES SOk
    BY <2>0 DEF HOk
  <2>1. ASSUME sync'.page = {} PROVE SOk
    BY <2>1
  <2>2. ASSUME NEW pc, Finish(pc) PROVE SOk
    BY <2>1, <2>2 DEF Finish, Asleep
  <2>3. ASSUME NEW m, NEW a, NEW n, NEW b, sync' = Task(m, a, n, b) PROVE SOk
    BY <2>1, <2>3 DEF Task, Asleep
  <2>4. ASSUME NEW pc, NEW c, Marks(pc, c) PROVE SOk
    BY <2>1, <2>4 DEF Marks, Asleep
  <2>5. CASE List
    <3>1. sync' = [Asleep EXCEPT !.pc = "listing", !.target = log] => SOk
      BY <2>1 DEF Asleep
    <3> QED
      BY <2>5, <3>1, <2>2, Zenon DEF List
  <2>6. CASE SyncFails \/ MarkComplete \/ ReadTailed
    BY <2>1, <2>6, <2>2, <2>4, FailedSync DEF MarkComplete, ReadTailed, AfterTask
  <2>7. CASE Diff \/ Settle
    BY <2>7, <2>2, <2>3, Zenon DEF Diff, Settle
  <2>8. CASE ReadRows \/ StorePage \/ ReadRow
    BY <2>8, <1>0 DEF ReadRows, StorePage, ReadRow, SyncOK, SyncType
  <2>9. CASE Fetch
    <3>1. PICK p, l : /\ sync' = [sync EXCEPT !.pc = "fetched", !.page = p, !.from = concealed, !.last = l]
                      /\ p = Before(log + 1) \/ p = After(sync.after)
      BY <2>9, Zenon DEF Fetch
    <3>2. sync'.page = p
      BY <3>1, <1>0 DEF SyncOK, SyncType
    <3> QED
      BY <3>1, <3>2, <1>d
  <2>10. CASE WriteRow
    <3>1. sync' = [sync EXCEPT !.pc = "fetching", !.after = Reached, !.page = {},
                     !.last = FALSE, !.from = 0, !.paged = TRUE, !.copy = Blank] => SOk
      BY <2>1, <1>0 DEF SyncOK, SyncType
    <3> QED
      BY <2>10, <3>1, <2>2, <2>4, Zenon DEF WriteRow, Advance, AfterTask
  <2> QED
    BY <1>2, <2>5, <2>6, <2>7, <2>8, <2>9, <2>10 DEF SyncStep
<1>3. CASE Crash
  <2>1. h' = [i \in Handlers |-> Idle] /\ Idle.page = {} /\ Idle.pc = "idle"
    BY <1>3 DEF Crash, Idle
  <2>2. sync'.page = {}
    BY <1>3 DEF Crash, Finish, Asleep
  <2> QED
    BY <2>1, <2>2 DEF HOk
<1>4. CASE Post \/ WriteRecord \/ UNCHANGED vars
  BY <1>4, <1>a DEF Post, WriteRecord, vars
<1>5. QED
  BY <1>1, <1>2, <1>3, <1>4 DEF Next, HOk

\* What a step may do to the messages, and what to the rest of the promise.
LEMMA DeviceMoves ==
  ASSUME TypeOK, [Next]_vars
  PROVE  \/ log' = log + 1 /\ UNCHANGED <<msgs, hidden, torn>>
         \/ (torn => torn') /\ UNCHANGED <<log, msgs, hidden>>
         \/ /\ \E S \in Arriving : msgs' = msgs \cup Visible(row, S)
            /\ UNCHANGED <<log, hidden, torn>>
         \/ (\E s \in Mine : msgs' = msgs \ {s}) /\ UNCHANGED <<log, hidden, torn>>
         \/ (\E w, d : Empty(w, d)) /\ UNCHANGED <<log, torn>>
<1>a. ASSUME NEW w, NEW S, Upsert(w, S)
      PROVE  hidden' = hidden /\ (msgs' = msgs \/ msgs' = msgs \cup Visible(row, S))
  BY <1>a DEF Upsert, Recount, local
<1>b. torn \in BOOLEAN
  BY DEF TypeOK
<1>1. ASSUME NEW i \in Handlers, Handle(i)
      PROVE  /\ UNCHANGED <<log, torn>>
             /\ \/ UNCHANGED <<msgs, hidden>>
                \/ hidden' = hidden /\ \E S \in Arriving : msgs' = msgs \cup Visible(row, S)
                \/ hidden' = hidden /\ \E s \in Mine : msgs' = msgs \ {s}
                \/ \E w, d : Empty(w, d)
  <2>1. CASE Store(i)
    <3>1. {h[i].seq} \in Arriving
      BY <2>1 DEF Arriving, Store, At
    <3>2. Upsert(i, {h[i].seq}) /\ UNCHANGED <<log, torn>>
      BY <2>1 DEF Store, server, history
    <3> QED
      BY <3>1, <3>2, <1>a
  <2>2. CASE StoreOlder(i)
    <3>1. h[i].page \in Arriving
      BY DEF Arriving
    <3>2. Upsert(i, h[i].page) /\ UNCHANGED <<log, torn>>
      BY <2>2 DEF StoreOlder, server, history
    <3> QED
      BY <3>1, <3>2, <1>a
  <2>3. CASE EndDelete(i) \/ Clear(i)
    BY <2>3 DEF EndDelete, Clear, server, history
  <2>4. CASE EndPatch(i)
    <3>0. UNCHANGED <<log, torn>>
      BY <2>4 DEF EndPatch, server, history
    <3>1. CASE h[i].page = {} /\ Recount(i, msgs \ {h[i].seq})
      <4>1. h[i].seq \in Mine \cup {0}
        BY <2>4, <3>1 DEF EndPatch, At, TypeOK
      <4>2. h[i].seq = 0 => msgs \ {h[i].seq} = msgs
        BY DEF TypeOK
      <4> QED
        BY <3>0, <3>1, <4>1, <4>2 DEF Recount
    <3>2. CASE Upsert(i, h[i].page)
      <4>1. h[i].page \in Arriving
        BY DEF Arriving
      <4> QED
        BY <3>0, <3>2, <4>1, <1>a
    <3> QED
      BY <2>4, <3>1, <3>2 DEF EndPatch
  <2>5. CASE ~(Store(i) \/ StoreOlder(i) \/ EndDelete(i) \/ Clear(i) \/ EndPatch(i))
    BY <1>1, <2>5 DEF Handle, Receive, WriteBack, BeginTouch, EndTouch, Scroll, FetchOlder,
       ReadToMark, MarkStart, BeginDelete, BeginPatch, HandlerFails, PutBack, local, server, history
  <2> QED
    BY <2>1, <2>2, <2>3, <2>4, <2>5
<1>2. CASE SyncStep \/ List \/ SyncFails
  <2>1. CASE StorePage
    <3>1. sync.page \in Arriving
      BY DEF Arriving
    <3>2. Upsert("sync", sync.page) /\ UNCHANGED <<log, torn>>
      BY <2>1 DEF StorePage, server, history
    <3> QED
      BY <3>1, <3>2, <1>a
  <2>2. CASE ~StorePage
    BY <1>2, <2>2 DEF SyncStep, List, SyncFails, ReadRows, Diff, Fetch, ReadRow, WriteRow,
       ReadTailed, MarkComplete, Settle, PutBack, local, server, history
  <2> QED
    BY <2>1, <2>2
<1>3. CASE Post \/ UNCHANGED vars
  BY <1>3 DEF Post, local, server, history, vars
<1>4. CASE WriteRecord \/ Crash
  BY <1>b, <1>4 DEF WriteRecord, Crash, server
<1>5. QED
  BY <1>1, <1>2, <1>3, <1>4 DEF Next

\* A clear hides nothing that is yet to come.
LEMMA CutoffPosted ==
  ASSUME ClientAssumption, TypeOK, Knowing, Posted
  PROVE  Cutoff(row, msgs) \in Nat /\ Cutoff(row, msgs) <= log
<1>1. /\ log \in Nat /\ hidden \in Nat /\ concealed \in Nat /\ msgs \subseteq Nat /\ row \in Row
      /\ MaxLog \in Nat
  BY DEF TypeOK, ClientAssumption
<1>2. \A S \in {msgs, Known} : Newest(S) \in Nat /\ Newest(S) <= log
  <2> SUFFICES ASSUME NEW S \in {msgs, Known} PROVE Newest(S) \in Nat /\ Newest(S) <= log
    OBVIOUS
  <2>1. S \subseteq Known /\ S \subseteq 0 .. MaxLog
    BY TopType DEF Known, ClientAssumption
  <2>2. Newest(S) \in 0 .. MaxLog /\ (S # {} => Newest(S) \in S)
    BY <2>1, NewestType
  <2>3. S = {} => Newest(S) = 0
    BY DEF Newest
  <2> QED
    BY <1>1, <2>1, <2>2, <2>3 DEF Posted
<1>3. Low \in Nat /\ Low <= log
  BY <1>1 DEF Low, Larger, Posted, Knowing
<1>4. Top \in Nat /\ Top <= log /\ All = log
  BY <1>1, <1>2, <1>3 DEF Top, All, Larger
<1>5. row.floor <= Low /\ row.sync <= Top /\ row.to <= Top /\ row.server <= All
  BY DEF Knowing, Fine
<1>6. /\ row.floor \in Nat /\ row.sync \in Nat /\ row.to \in Nat /\ row.server \in Nat
      /\ row.floor <= log /\ row.sync <= log /\ row.to <= log /\ row.server <= log
  BY <1>1, <1>3, <1>4, <1>5 DEF Row
<1>7. QED
  BY <1>1, <1>2, <1>6 DEF Cutoff, Anchor, Larger

LEMMA PostedNext ==
  ASSUME ClientAssumption, TypeOK, TypeOK', Knowing, Posted, [Next]_vars
  PROVE  Posted'
<1>1. /\ log \in Nat /\ log' \in Nat /\ hidden \in Nat /\ msgs \subseteq Nat /\ concealed \in Nat
      /\ row \in Row /\ MaxLog \in Nat /\ concealed <= log
  BY DEF TypeOK, ClientAssumption, Knowing
<1>2. log <= log'
  BY <1>1, DeviceMoves DEF Empty
<1>3. \A S \in Arriving' : \A s \in S : s <= log'
  <2>0. /\ sync.page \subseteq Nat /\ sync'.page \subseteq Nat
        /\ \A i \in Handlers : h[i].page \subseteq Nat /\ h'[i].page \subseteq Nat
                              /\ h[i].seq \in Nat /\ h'[i].seq \in Nat
    BY DEF TypeOK, ClientAssumption
  <2>4. \A s \in msgs : s <= log
    BY DEF Posted, Known
  <2>1. \A s \in sync'.page : s <= log'
    <3>1. \A s \in sync.page : s <= log
      BY DEF Posted, Arriving
    <3> QED
      BY <1>1, <1>2, <2>0, <3>1, ArrivingMoves
  <2>2. ASSUME NEW i \in Handlers PROVE \A s \in h'[i].page : s <= log'
    <3>1. \A s \in h[i].page : s <= log
      BY DEF Posted, Arriving
    <3> QED
      BY <1>1, <1>2, <2>0, <2>4, <3>1, ArrivingMoves
  <2>3. ASSUME NEW i \in Handlers, h'[i].pc = "received" PROVE h'[i].seq <= log'
    <3>1. h[i].pc = "received" => h[i].seq <= log
      BY DEF Posted, Arriving
    <3> QED
      BY <1>1, <1>2, <2>0, <2>3, <3>1, ArrivingMoves
  <2> QED
    BY <2>1, <2>2, <2>3 DEF Arriving
<1>4. hidden' <= log' /\ \A s \in msgs' : s <= log'
  <2>0. \A s \in msgs : s <= log
    BY DEF Posted, Known
  <2>1. CASE UNCHANGED <<msgs, hidden>>
    BY <1>1, <1>2, <2>0, <2>1 DEF Posted
  <2>2. CASE /\ \E S \in Arriving : msgs' = msgs \cup Visible(row, S)
             /\ UNCHANGED <<log, hidden, torn>>
    BY <2>0, <2>2 DEF Posted, Visible
  <2>3. ASSUME NEW w, NEW d, Empty(w, d), UNCHANGED <<log, torn>>
        PROVE  hidden' <= log' /\ \A s \in msgs' : s <= log'
    <3>1. Cutoff(row, msgs) <= log /\ Cutoff(row, msgs) \in Nat
      BY CutoffPosted
    <3>2. msgs' = {} /\ hidden' = Larger(hidden, Cutoff(row, msgs))
      BY <2>3 DEF Empty
    <3> QED
      BY <1>1, <2>3, <3>1, <3>2 DEF Posted, Larger
  <2>4. CASE (\E s \in Mine : msgs' = msgs \ {s}) /\ UNCHANGED <<log, hidden, torn>>
    BY <2>0, <2>4 DEF Posted
  <2> QED
    BY <2>1, <2>2, <2>3, <2>4, DeviceMoves
<1>5. \A s \in Known' : s <= log'
  <2>1. \A s \in Known' : s \in Known \/ s \in msgs'
    <3>1. ASSUME NEW w, NEW m, Recount(w, m) PROVE \A s \in Known' : s \in Known \/ s \in msgs'
      BY <3>1 DEF Recount, Known
    <3>2. ASSUME NEW w, NEW d, Empty(w, d) PROVE \A s \in Known' : s \in Known \/ s \in msgs'
      BY <3>2 DEF Empty, Known
    <3> QED
      BY <3>1, <3>2, LocalMoves
  <2>2. \A s \in Known : s <= log'
    <3>1. \A s \in Known : s \in Nat /\ s <= log
      BY TopType DEF ClientAssumption, Posted
    <3> QED
      BY <1>1, <1>2, <3>1
  <2> QED
    BY <1>4, <2>1, <2>2
<1>6. QED
  BY <1>3, <1>4, <1>5 DEF Posted

\* Every step is one of the promise, or does not touch it.
LEMMA StepKeepsPromise ==
  ASSUME ClientAssumption, TypeOK, TypeOK', Safe', Knowing, Posted, [Next]_vars
  PROVE  [Promise!Next]_(Promise!vars)
<1>1. /\ log \in Nat /\ hidden \in Nat /\ msgs \subseteq 1 .. MaxLog /\ row \in Row
      /\ torn \in BOOLEAN /\ torn' \in BOOLEAN /\ MaxLog \in Nat
  BY DEF TypeOK, ClientAssumption
<1>2. CASE log' = log + 1 /\ UNCHANGED <<msgs, hidden, torn>>
  BY <1>2 DEF Promise!Next, Promise!Post
<1>3. CASE (torn => torn') /\ UNCHANGED <<log, msgs, hidden>>
  <2>1. UNCHANGED torn \/ torn' = TRUE
    BY <1>1, <1>3, Zenon
  <2> QED
    BY <1>3, <2>1 DEF Promise!Next, Promise!Excuse, Promise!vars
<1>4. CASE /\ \E S \in Arriving : msgs' = msgs \cup Visible(row, S)
           /\ UNCHANGED <<log, hidden, torn>>
  <2>1. PICK S \in Arriving : msgs' = msgs \cup Visible(row, S)
    BY <1>4
  <2> DEFINE T == Visible(row, S)
  <2>2. T \in SUBSET (1 .. log)
    <3>1. \A s \in T : s <= log
      BY DEF Posted, Visible
    <3>2. T \subseteq 1 .. MaxLog
      BY <2>1 DEF TypeOK
    <3> QED
      BY <1>1, <3>1, <3>2
  <2>3. torn \/ \A s \in T : s > hidden
    <3>1. torn' \/ \A s \in msgs' : s > hidden'
      BY DEF Safe
    <3> QED
      BY <1>4, <2>1, <3>1
  <2> HIDE DEF T
  <2>4. Promise!Store
    BY <1>4, <2>1, <2>2, <2>3 DEF Promise!Store, T
  <2> QED
    BY <2>4 DEF Promise!Next
<1>5. ASSUME NEW w, NEW d, Empty(w, d), UNCHANGED <<log, torn>> PROVE Promise!Clear
  <2>1. hidden <= hidden' /\ \A s \in msgs : s <= hidden'
    BY <1>5, EmptyHides
  <2>2. Posted'
    BY PostedNext
  <2>3. hidden' \in 0 .. log
    BY <1>1, <1>5, <2>2 DEF Posted, TypeOK
  <2>4. msgs' = {}
    BY <1>5 DEF Empty
  <2> QED
    BY <1>5, <2>1, <2>3, <2>4 DEF Promise!Clear
<1>6. CASE (\E s \in Mine : msgs' = msgs \ {s}) /\ UNCHANGED <<log, hidden, torn>>
  BY <1>6 DEF Promise!Next, Promise!Misplace
<1>7. QED
  BY <1>2, <1>3, <1>4, <1>5, <1>6, DeviceMoves DEF Promise!Next, Promise!vars

\* Whatever the handlers, the sync and the crashes do to one another, the device
\* keeps what DevicePromise says, for any number of handlers, any pages and any
\* faults.
THEOREM DeviceKeepsPromise == Spec => DevicePromiseKept
<1> USE ClientAssumption
<1>1. Init => Promise!Init /\ Posted
  <2> SUFFICES ASSUME Init PROVE Promise!Init /\ Posted
    OBVIOUS
  <2>1. log \in Nat /\ msgs = {} /\ Known = {} /\ hidden = 0 /\ torn = FALSE
    BY DEF Init, ClientAssumption, Known
  <2>2. sync.page = {} /\ \A i \in Handlers : h[i].page = {} /\ h[i].pc = "idle"
    BY DEF Init, Task, Asleep, Idle
  <2> QED
    BY <2>1, <2>2 DEF Promise!Init, Posted, Arriving
<1>2. Init => Arrives
  BY InitArrives
<1>3. TypeOK /\ TypeOK' /\ Arrives /\ [Next]_vars => Arrives'
  BY ArrivesNext
<1>4. TypeOK /\ TypeOK' /\ Arrives /\ Posted /\ [Next]_vars => Posted'
  BY PostedNext DEF Arrives
<1>5. TypeOK /\ TypeOK' /\ Safe' /\ Arrives /\ Posted /\ [Next]_vars => [Promise!Next]_(Promise!vars)
  BY StepKeepsPromise DEF Arrives
<1>6. QED
  BY <1>1, <1>2, <1>3, <1>4, <1>5, AlwaysSafe, PTL DEF Spec, DevicePromiseKept, Promise!Spec
=============================================================================
