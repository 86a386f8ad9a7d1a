-------------------------- MODULE ClientSync_proofs --------------------------
(***************************************************************************)
(* Theorems about ClientSync, for any number of handlers, any page size    *)
(* and any bounds.  Safe is what makes the safety properties inductive: no *)
(* copy that a handler, the sync or the exclusive section holds says more  *)
(* than what is stored.                                                    *)
(***************************************************************************)
EXTENDS ClientSync, FiniteSetTheorems, TLAPS

-----------------------------------------------------------------------------
(* Extrema, runs and pages *)

\* A bounded set of numbers has a largest: take one with the fewest above it.
LEMMA MaximumExists ==
  ASSUME NEW n \in Nat, NEW S, S \subseteq 0 .. n, S # {}
  PROVE  \E s \in S : \A t \in S : t <= s
<1> DEFINE Above(s) == {t \in S : s < t}
          T == {Above(s) : s \in S}
<1>1. IsFiniteSet(S)
  <2>1. IsFiniteSet(0 .. n)
    BY FS_Interval
  <2>2. QED
    BY <2>1, FS_Subset
<1>2. IsWellFoundedOn(StrictSubsetOrdering(S), FiniteSubsetsOf(S))
  BY FS_StrictSubsetOrderingWellFounded
<1>3. T \subseteq FiniteSubsetsOf(S)
  <2>1. ASSUME NEW s \in S PROVE Above(s) \in FiniteSubsetsOf(S)
    <3>1. Above(s) \subseteq S
      OBVIOUS
    <3>2. IsFiniteSet(Above(s))
      BY <1>1, <3>1, FS_Subset
    <3>3. QED
      BY <3>1, <3>2 DEF FiniteSubsetsOf
  <2>2. QED
    BY <2>1
<1>4. T # {}
  OBVIOUS
<1>5. PICK A \in T : \A B \in T : ~(<<B, A>> \in StrictSubsetOrdering(S))
  <2> HIDE DEF T
  <2> QED
    BY <1>2, <1>3, <1>4, WFMin
<1>6. PICK s \in S : A = Above(s)
  BY <1>5
<1>7. ASSUME NEW t \in S, s < t PROVE FALSE
  <2>0. s \in Nat /\ t \in Nat
    OBVIOUS
  <2>1. Above(t) \subseteq Above(s)
    <3>1. ASSUME NEW r \in S, t < r PROVE s < r
      <4>1. r \in Nat
        OBVIOUS
      <4>2. QED
        BY <1>7, <2>0, <3>1, <4>1
    <3>2. QED
      BY <3>1
  <2>2. t \in Above(s) /\ t \notin Above(t)
    BY <1>7, <2>0
  <2>3. <<Above(t), Above(s)>> \in StrictSubsetOrdering(S)
    <3>1. Above(t) \in SUBSET S /\ Above(s) \in SUBSET S /\ Above(t) # Above(s)
      BY <2>2
    <3> HIDE DEF Above
    <3>2. QED
      BY <2>1, <3>1 DEF StrictSubsetOrdering
  <2>4. Above(t) \in T
    OBVIOUS
  <2>5. QED
    BY <2>3, <2>4, <1>5, <1>6
<1>8. QED
  <2>1. \A t \in S : t \in Nat /\ s \in Nat
    OBVIOUS
  <2>2. QED
    BY <1>7, <2>1

LEMMA MinimumExists ==
  ASSUME NEW n \in Nat, NEW S, S \subseteq 0 .. n, S # {}
  PROVE  \E s \in S : \A t \in S : s <= t
<1> DEFINE M == {n - s : s \in S}
<1>1. M \subseteq 0 .. n /\ M # {}
  OBVIOUS
<1>2. PICK m \in M : \A k \in M : k <= m
  <2> HIDE DEF M
  <2> QED
    BY <1>1, MaximumExists
<1>3. PICK s \in S : m = n - s
  OBVIOUS
<1>4. ASSUME NEW t \in S PROVE s <= t
  <2>1. n - t \in M /\ n - t <= m
    BY <1>2
  <2>2. QED
    BY <1>3, <2>1
<1>5. QED
  BY <1>4

LEMMA NewestType ==
  ASSUME ClientAssumption, NEW S, S \subseteq 0 .. MaxLog
  PROVE  /\ Newest(S) \in 0 .. MaxLog
         /\ S # {} => Newest(S) \in S /\ \A t \in S : t <= Newest(S)
<1>1. CASE S = {}
  BY <1>1 DEF Newest, ClientAssumption
<1>2. CASE S # {}
  <2>1. \E s \in S : \A t \in S : t <= s
    BY <1>2, MaximumExists DEF ClientAssumption
  <2>2. QED
    BY <1>2, <2>1 DEF Newest
<1>3. QED
  BY <1>1, <1>2

LEMMA OldestType ==
  ASSUME ClientAssumption, NEW S, S \subseteq 0 .. MaxLog
  PROVE  Oldest(S) \in 0 .. MaxLog /\ (S # {} => Oldest(S) \in S)
<1>1. CASE S = {}
  BY <1>1 DEF Oldest, ClientAssumption
<1>2. CASE S # {}
  <2>1. \E s \in S : \A t \in S : s <= t
    BY <1>2, MinimumExists DEF ClientAssumption
  <2>2. QED
    BY <1>2, <2>1 DEF Oldest
<1>3. QED
  BY <1>1, <1>2

\* calculateContiguousSyncSequence never counts a message that is not there.
LEMMA ContiguousIsStored ==
  ASSUME ClientAssumption, NEW f \in 0 .. MaxLog, NEW m
  PROVE  /\ Contiguous(f, m) \in f .. MaxLog
         /\ \A s \in (f + 1) .. Contiguous(f, m) : s \in m
<1> DEFINE S == {n \in f .. MaxLog : \A s \in (f + 1) .. n : s \in m}
<1>1. S \subseteq 0 .. MaxLog
  BY DEF ClientAssumption
<1>2. f \in S
  BY DEF ClientAssumption
<1>3. Newest(S) \in S
  BY <1>1, <1>2, NewestType
<1>4. Contiguous(f, m) = Newest(S)
  BY DEF Contiguous
<1>5. QED
  BY <1>3, <1>4

LEMMA TailType ==
  ASSUME ClientAssumption, NEW m, m \subseteq 0 .. MaxLog
  PROVE  TailFrom(m) \in 0 .. MaxLog
BY OldestType DEF TailFrom

LEMMA PageType ==
  ASSUME TypeOK, ClientAssumption, NEW a
  PROVE  /\ Before(a) \subseteq 1 .. MaxLog /\ After(a) \subseteq 1 .. MaxLog
         /\ \A s \in After(a) : s > a
<1>1. Shown \subseteq 1 .. MaxLog
  BY DEF Shown, TypeOK, ClientAssumption
<1>2. QED
  BY <1>1 DEF Before, After

-----------------------------------------------------------------------------
(* The row *)

\* Everything up to last_sync_sequence of r is in m or below the floor.
Covers(r, m) == \A s \in 1 .. r.sync : s <= r.floor \/ s \in m

LEMMA RecomputeFacts ==
  ASSUME ClientAssumption, NEW r \in Row, NEW m, m \subseteq 1 .. MaxLog, NEW k, m \subseteq k
  PROVE  /\ Recompute(r, m) \in Row
         /\ Recompute(r, m).floor = r.floor
         /\ Covers(r, k) => Covers(Recompute(r, m), k)
<1> DEFINE v == Visible(r, m)
          p == Contiguous(r.floor, v)
          q == TailFrom(v)
          w == Newest(v)
<1>1. v \subseteq 1 .. MaxLog /\ v \subseteq 0 .. MaxLog
  <2>1. v \subseteq m
    BY DEF Visible
  <2>2. 1 .. MaxLog \subseteq 0 .. MaxLog
    BY DEF ClientAssumption
  <2>3. QED
    BY <2>1, <2>2
<1>2. r.floor \in 0 .. MaxLog
  BY DEF Row
<1> HIDE DEF v
<1>3. p \in 0 .. MaxLog /\ \A s \in (r.floor + 1) .. p : s \in v
  BY <1>2, ContiguousIsStored
<1>4. q \in 0 .. MaxLog /\ w \in 0 .. MaxLog
  BY <1>1, TailType, NewestType
<1> HIDE DEF p, q, w
<1>5. Recompute(r, m) = Reconciled(r, q, w, p)
  BY DEF Recompute, p, q, w, v
<1>6. /\ Reconciled(r, q, w, p) \in Row
      /\ Reconciled(r, q, w, p).floor = r.floor
      /\ Reconciled(r, q, w, p).sync = Larger(r.sync, p)
  <2> DEFINE b == Larger(Larger(r.server, Larger(r.sync, p)), w)
             d == b <= r.floor \/ (q > 0 /\ q <= r.floor + 1)
             e == b > Larger(w, r.floor) \/ ~d
  <2>1. Larger(r.sync, p) \in 0 .. MaxLog /\ b \in 0 .. MaxLog
    BY <1>3, <1>4 DEF Larger, Row
  <2>2. d \in BOOLEAN /\ e \in BOOLEAN
    OBVIOUS
  <2>3. Reconciled(r, q, w, p)
          = [r EXCEPT !.sync = Larger(r.sync, p), !.server = b, !.to = w,
                      !.complete = d, !.backfill = e]
    BY ZenonT(30) DEF Reconciled
  <2> HIDE DEF b, d, e
  <2>4. QED
    <3> DEFINE a == Larger(r.sync, p)
               x == [r EXCEPT !.sync = a, !.server = b, !.to = w, !.complete = d, !.backfill = e]
    <3>1. a \in 0 .. MaxLog
      BY <2>1
    <3> HIDE DEF a
    <3>2. x \in Row /\ x.floor = r.floor /\ x.sync = a
      BY <1>4, <2>1, <2>2, <3>1 DEF Row
    <3>3. Reconciled(r, q, w, p) = x
      BY <2>3 DEF a
    <3> HIDE DEF x
    <3>4. QED
      BY <3>2, <3>3 DEF a
<1>7. \A s \in v : s \in k
  BY DEF v, Visible
<1>8. Covers(r, k) => \A s \in 1 .. Larger(r.sync, p) : s <= r.floor \/ s \in k
  BY <1>2, <1>3, <1>7 DEF Covers, Larger, Row
<1>9. QED
  BY <1>5, <1>6, <1>8 DEF Covers

LEMMA VisibleType ==
  ASSUME ClientAssumption, NEW r \in Row, NEW m, m \subseteq 0 .. MaxLog
  PROVE  Visible(r, m) \subseteq 1 .. MaxLog /\ \A s \in Visible(r, m) : s > r.floor
<1>1. r.floor \in 0 .. MaxLog
  BY DEF Row
<1>2. \A s \in Visible(r, m) : s \in 0 .. MaxLog /\ s > r.floor
  BY DEF Visible
<1>3. QED
  BY <1>1, <1>2 DEF ClientAssumption

LEMMA CutoffType ==
  ASSUME ClientAssumption, row \in Row, msgs \subseteq 1 .. MaxLog
  PROVE  Cutoff(row, msgs) \in 0 .. MaxLog
<1>1. msgs \subseteq 0 .. MaxLog
  BY DEF ClientAssumption
<1>a. Newest(msgs) \in 0 .. MaxLog
  BY <1>1, NewestType
<1>2. QED
  BY <1>1, <1>a DEF Cutoff, Anchor, Larger, Row

LEMMA MergedFacts ==
  ASSUME ClientAssumption, NEW r \in Row, NEW n \in 0 .. MaxLog
  PROVE  /\ Merged(r, n) \in Row /\ Merged(r, n).floor = r.floor
         /\ Merged(r, n).sync = Larger(r.sync, r.floor)
<1> DEFINE a == Larger(r.sync, r.floor)
          b == Larger(r.server, n)
          d == r.deleted /\ n <= r.floor
          m == [r EXCEPT !.sync = a, !.server = b, !.deleted = d]
          e == ~m.deleted /\ (m.server > Anchor(m) \/ ~m.complete)
<1>1. a \in 0 .. MaxLog /\ b \in 0 .. MaxLog /\ d \in BOOLEAN /\ e \in BOOLEAN
  BY DEF Row, Larger
<1>2. Merged(r, n) = [m EXCEPT !.backfill = e]
  BY Zenon DEF Merged
<1> HIDE DEF a, b, d, e
<1>3. m \in Row /\ m.floor = r.floor /\ m.sync = a
  BY <1>1 DEF Row
<1> HIDE DEF m
<1>4. [m EXCEPT !.backfill = e] \in Row /\ [m EXCEPT !.backfill = e].floor = m.floor
      /\ [m EXCEPT !.backfill = e].sync = m.sync
  BY <1>1, <1>3 DEF Row
<1>5. QED
  BY <1>2, <1>3, <1>4 DEF a

-----------------------------------------------------------------------------
(* Types *)

Pcs == {"idle", "received", "stored", "calling", "paging", "paged", "older", "marking",
        "deleting", "patching"}
SyncPcs == {"idle", "listing", "listed", "fetching", "fetched", "stored", "written",
            "tailed", "marking", "settling", "done"}
Callers == Handlers \cup {"sync"}

HandlerType == {x \in [pc : Pcs, seq : 0 .. MaxLog, page : SUBSET (1 .. MaxLog),
                       last : BOOLEAN, copy : Row] :
                  x.pc = "patching" /\ x.page = {} => x.seq \in Mine \cup {0}}
SyncType == [pc : SyncPcs, mode : {"tail", "delta"}, after : 0 .. MaxLog,
             target : 0 .. MaxLog, page : SUBSET (1 .. MaxLog), last : BOOLEAN,
             from : 0 .. MaxLog, main : BOOLEAN, paged : BOOLEAN, lapsed : BOOLEAN,
             copy : Row]
ExclType == [kind : {"free", "upsert", "blank"}, by : Callers, next : Row]

HandlersOK == h \in [Handlers -> HandlerType]
SyncOK     == sync \in SyncType
LocalOK    == msgs \subseteq 1 .. MaxLog /\ erased \subseteq Mine /\ row \in Row /\ excl \in ExclType
              /\ hidden \in 0 .. MaxLog
RestOK == /\ log \in 0 .. MaxLog /\ concealed \in 0 .. MaxLog /\ cursor \in 0 .. MaxLog
          /\ torn \in BOOLEAN /\ stale \in BOOLEAN /\ cut \in BOOLEAN
          /\ used \in 0 .. MaxUpsets

LEMMA TypeParts == TypeOK <=> HandlersOK /\ SyncOK /\ RestOK /\ LocalOK
BY Zenon DEF TypeOK, HandlersOK, SyncOK, RestOK, LocalOK, HandlerType, SyncType, ExclType, Pcs,
             SyncPcs, Callers

LEMMA RecordTypes ==
  ASSUME ClientAssumption
  PROVE  Blank \in Row /\ Idle \in HandlerType /\ Asleep \in SyncType /\ Free \in ExclType
<1>1. Blank \in Row
  BY DEF Blank, Added, Row, ClientAssumption
<1>2. QED
  BY <1>1 DEF Idle, Asleep, Free, HandlerType, SyncType, ExclType, Pcs, SyncPcs, Callers,
              ClientAssumption

\* A handler goes on with well-typed values.
LEMMA HandlerGoes ==
  ASSUME HandlersOK, NEW i \in Handlers, NEW x \in HandlerType, h' = [h EXCEPT ![i] = x]
  PROVE  HandlersOK'
BY DEF HandlersOK

LEMMA IdleType ==
  ASSUME ClientAssumption, HandlersOK, NEW i \in Handlers, Ends(i)
  PROVE  HandlersOK'
BY RecordTypes DEF HandlersOK, Ends

LEMMA UpsetType ==
  ASSUME ClientAssumption, used \in 0 .. MaxUpsets, Upset
  PROVE  used' \in 0 .. MaxUpsets
BY DEF Upset, ClientAssumption

LEMMA PutBackType ==
  ASSUME LocalOK, RestOK, NEW o, NEW c \in Row, PutBack(o, c)
  PROVE  LocalOK' /\ stale' \in BOOLEAN /\ torn' = torn /\ cut' = cut
BY Zenon DEF PutBack, LocalOK, RestOK

LEMMA TaskType ==
  ASSUME ClientAssumption, NEW m \in {"tail", "delta"}, NEW a \in 0 .. MaxLog,
         NEW n \in 0 .. MaxLog, NEW b \in BOOLEAN, sync' = Task(m, a, n, b)
  PROVE  SyncOK'
BY RecordTypes DEF Task, SyncOK, SyncType, SyncPcs

LEMMA FinishType ==
  ASSUME ClientAssumption, NEW pc \in SyncPcs, Finish(pc)
  PROVE  SyncOK'
BY RecordTypes DEF Finish, SyncOK, SyncType

\* A sync that fails is over, and says so if it ends well all the same.
LEMMA FailedSync ==
  ASSUME SyncFails
  PROVE  /\ sync'.pc \in {"idle", "done"} /\ (sync'.pc = "done" => sync'.lapsed)
         /\ sync'.after = 0 /\ sync'.from = 0 /\ sync'.paged = FALSE
         /\ sync'.page = {} /\ sync'.copy = Blank
<1>1. CASE sync.main
  <2>1. sync' = Asleep
    BY <1>1 DEF SyncFails
  <2>2. QED
    BY <2>1 DEF Asleep
<1>2. CASE ~sync.main
  <2>1. sync' = [Asleep EXCEPT !.pc = "done", !.lapsed = TRUE]
    BY <1>2 DEF SyncFails
  <2>2. QED
    BY <2>1 DEF Asleep
<1>3. QED
  BY <1>1, <1>2

LEMMA AfterTaskType ==
  ASSUME ClientAssumption, AfterTask
  PROVE  SyncOK'
BY FinishType DEF AfterTask, SyncPcs

LEMMA MarksType ==
  ASSUME ClientAssumption, SyncOK, NEW pc \in SyncPcs, NEW c \in Row, Marks(pc, c)
  PROVE  SyncOK'
BY RecordTypes DEF Marks, SyncOK, SyncType

LEMMA ReachedType ==
  ASSUME ClientAssumption, SyncOK
  PROVE  /\ Reached \in 0 .. MaxLog
         /\ \A s \in sync.page : s <= Reached
<1> DEFINE S == sync.page \cup IF sync.mode = "tail" THEN {} ELSE {sync.after}
<1>1. S \subseteq 0 .. MaxLog
  BY DEF SyncOK, SyncType, ClientAssumption
<1> HIDE DEF S
<1>2. Newest(S) \in 0 .. MaxLog /\ (S # {} => \A s \in S : s <= Newest(S))
  BY <1>1, NewestType
<1>3. Reached = Newest(S) /\ \A s \in sync.page : s \in S
  BY DEF S, Reached
<1>4. QED
  BY <1>2, <1>3

LEMMA EmptyType ==
  ASSUME ClientAssumption, LocalOK, NEW w \in Callers, NEW d \in BOOLEAN, Empty(w, d)
  PROVE  LocalOK'
<1> DEFINE c == Cutoff(row, msgs)
<1>1. c \in 0 .. MaxLog
  BY CutoffType DEF LocalOK
<1> HIDE DEF c
<1>2. Blanked(row, c, d) \in Row
  BY <1>1 DEF Blanked, Row, LocalOK
<1>3. Larger(hidden, c) \in 0 .. MaxLog
  BY <1>1 DEF Larger, LocalOK
<1>4. /\ msgs' = {} /\ erased' \subseteq erased /\ row' = row /\ hidden' = Larger(hidden, c)
      /\ excl' = [kind |-> "blank", by |-> w, next |-> Blanked(row, c, d)]
  BY DEF Empty, c
<1>5. QED
  BY <1>2, <1>3, <1>4 DEF LocalOK, ExclType

LEMMA RecountType ==
  ASSUME ClientAssumption, LocalOK, NEW w \in Callers, NEW m, m \subseteq 1 .. MaxLog,
         msgs \ m \subseteq Mine, Recount(w, m)
  PROVE  LocalOK'
<1>1. Recompute(row, m) \in Row
  BY RecomputeFacts DEF LocalOK
<1>2. QED
  BY <1>1 DEF Recount, LocalOK, ExclType

LEMMA UpsertType ==
  ASSUME ClientAssumption, LocalOK, NEW w \in Callers, NEW new, new \subseteq 0 .. MaxLog,
         Upsert(w, new)
  PROVE  LocalOK'
<1> DEFINE m == msgs \cup Visible(row, new)
<1>1. m \subseteq 1 .. MaxLog /\ msgs \ m \subseteq Mine
  BY VisibleType DEF LocalOK
<1> HIDE DEF m
<1>2. CASE UNCHANGED local
  BY <1>2 DEF local, LocalOK
<1>3. CASE Recount(w, m)
  BY <1>1, <1>3, RecountType
<1>4. QED
  BY <1>2, <1>3 DEF Upsert, m

LEMMA HandleType ==
  ASSUME ClientAssumption, TypeOK, NEW i \in Handlers, Handle(i)
  PROVE  TypeOK'
<1>1. HandlersOK /\ SyncOK /\ RestOK /\ LocalOK
  BY TypeParts
<1>2. SUFFICES HandlersOK' /\ SyncOK' /\ RestOK' /\ LocalOK'
  BY Zenon DEF TypeOK, HandlersOK, SyncOK, RestOK, LocalOK, HandlerType, SyncType, ExclType,
               Pcs, SyncPcs, Callers
<1>a. Idle \in HandlerType /\ row \in Row /\ i \in Callers
  BY <1>1, RecordTypes DEF LocalOK, Callers
<1>b. h[i] \in HandlerType /\ h[i].seq \in 0 .. MaxLog /\ h[i].copy \in Row
      /\ h[i].page \subseteq 1 .. MaxLog
  BY <1>1 DEF HandlersOK, HandlerType
<1>c. sync' = sync => SyncOK'
  BY <1>1 DEF SyncOK
<1>d. UNCHANGED local => LocalOK'
  BY <1>1 DEF local, LocalOK
<1>e. UNCHANGED <<server, cursor, history, used>> => RestOK'
  BY <1>1 DEF server, history, RestOK
<1>f. ASSUME NEW o, NEW c \in Row, PutBack(o, c), UNCHANGED <<server, cursor, used>>
      PROVE  RestOK' /\ LocalOK'
  BY <1>1, <1>f, PutBackType DEF server, RestOK
<1>g. Pcs = {"idle", "received", "stored", "calling", "paging", "paged", "older", "marking",
             "deleting", "patching"}
  BY DEF Pcs
<1>h. Ends(i) => HandlersOK'
  BY <1>1, IdleType
<1>i. ASSUME NEW x \in HandlerType, h' = [h EXCEPT ![i] = x] PROVE HandlersOK'
  BY <1>1, <1>i, HandlerGoes
<1>3. ASSUME NEW s \in 1 .. log, Receive(i, s) PROVE HandlersOK' /\ SyncOK' /\ RestOK' /\ LocalOK'
  <2>1. s \in 0 .. MaxLog
    BY <1>1 DEF RestOK, ClientAssumption
  <2>2. [Idle EXCEPT !.pc = "received", !.seq = s, !.copy = row] \in HandlerType
    BY <1>a, <1>g, <2>1 DEF HandlerType
  <2>3. QED
    BY <1>3, <1>c, <1>d, <1>e, <1>i, <2>2 DEF Receive
<1>4. CASE Store(i)
  <2>1. {h[i].seq} \subseteq 0 .. MaxLog
    BY <1>b
  <2>2. LocalOK'
    BY <1>1, <1>4, <1>a, <2>1, UpsertType DEF Store
  <2>3. HandlersOK'
    BY <1>1, <1>4, <1>g DEF Store, HandlersOK, HandlerType
  <2>4. QED
    BY <1>4, <1>c, <1>e, <2>2, <2>3 DEF Store
<1>5. CASE WriteBack(i)
  <2> DEFINE c == [h[i].copy EXCEPT !.server = Larger(@, h[i].seq)]
  <2>1. c \in Row
    BY <1>b DEF Row, Larger
  <2>2. PutBack(h[i].copy, c)
    BY <1>5 DEF WriteBack
  <2> HIDE DEF c
  <2>3. QED
    BY <1>5, <1>c, <1>f, <1>h, <2>1, <2>2 DEF WriteBack
<1>6. CASE BeginTouch(i)
  <2>1. [Idle EXCEPT !.pc = "calling", !.copy = row] \in HandlerType
    BY <1>a, <1>g DEF HandlerType
  <2>2. QED
    BY <1>6, <1>c, <1>d, <1>e, <1>i, <2>1 DEF BeginTouch
<1>7. CASE EndTouch(i)
  <2>1. HandlersOK'
    BY <1>1, <1>7, <1>h DEF EndTouch, HandlersOK
  <2>2. QED
    BY <1>7, <1>b, <1>c, <1>f, <2>1 DEF EndTouch
<1>8. CASE Scroll(i)
  <2> DEFINE n == Oldest(Visible(row, msgs))
  <2>1. Visible(row, msgs) \subseteq 0 .. MaxLog
    <3>1. msgs \subseteq 0 .. MaxLog
      BY <1>1 DEF LocalOK, ClientAssumption
    <3>2. QED
      BY <3>1 DEF Visible
  <2>2. n \in 0 .. MaxLog
    BY <2>1, OldestType
  <2>3. h' = [h EXCEPT ![i] = [Idle EXCEPT !.pc = "paging", !.seq = n]]
    BY <1>8 DEF Scroll
  <2> HIDE DEF n
  <2>4. [Idle EXCEPT !.pc = "paging", !.seq = n] \in HandlerType
    BY <1>a, <1>g, <2>2 DEF HandlerType
  <2>5. QED
    BY <1>8, <1>c, <1>d, <1>e, <1>i, <2>3, <2>4 DEF Scroll
<1>9. CASE FetchOlder(i)
  <2> DEFINE p == Before(h[i].seq)
             l == \A s \in Shown : s < h[i].seq => s \in p
  <2>1. p \subseteq 1 .. MaxLog /\ l \in BOOLEAN
    BY PageType
  <2>2. h' = [h EXCEPT ![i] = [Idle EXCEPT !.pc = "paged", !.page = p, !.last = l]]
    BY <1>9, Zenon DEF FetchOlder
  <2> HIDE DEF p, l
  <2>3. [Idle EXCEPT !.pc = "paged", !.page = p, !.last = l] \in HandlerType
    BY <1>a, <1>g, <2>1 DEF HandlerType
  <2>4. QED
    BY <1>9, <1>c, <1>d, <1>e, <1>i, <2>2, <2>3 DEF FetchOlder
<1>10. CASE StoreOlder(i)
  <2>1. h[i].page \subseteq 0 .. MaxLog
    BY <1>b DEF ClientAssumption
  <2>2. LocalOK'
    BY <1>1, <1>10, <1>a, <2>1, UpsertType DEF StoreOlder
  <2>3. [Idle EXCEPT !.pc = "older"] \in HandlerType
    BY <1>a, <1>g DEF HandlerType
  <2>4. HandlersOK'
    BY <1>10, <1>a, <1>i, <2>3 DEF StoreOlder
  <2>5. QED
    BY <1>10, <1>c, <1>e, <2>2, <2>4 DEF StoreOlder
<1>11. CASE ReadToMark(i)
  <2>1. [Idle EXCEPT !.pc = "marking", !.copy = row] \in HandlerType
    BY <1>a, <1>g DEF HandlerType
  <2>2. QED
    BY <1>11, <1>c, <1>d, <1>e, <1>i, <2>1 DEF ReadToMark
<1>12. CASE MarkStart(i)
  <2> DEFINE c == [h[i].copy EXCEPT !.complete = TRUE]
  <2>1. c \in Row
    BY <1>b DEF Row
  <2>2. PutBack(h[i].copy, c)
    BY <1>12 DEF MarkStart
  <2> HIDE DEF c
  <2>3. QED
    BY <1>12, <1>c, <1>f, <1>h, <2>1, <2>2 DEF MarkStart
<1>13. CASE BeginDelete(i)
  <2>1. used' \in 0 .. MaxUpsets
    BY <1>1, <1>13, UpsetType DEF BeginDelete, RestOK
  <2>2. RestOK'
    BY <1>1, <1>13, <2>1 DEF BeginDelete, RestOK, history
  <2>3. [Idle EXCEPT !.pc = "deleting"] \in HandlerType
    BY <1>a, <1>g DEF HandlerType
  <2>4. QED
    BY <1>13, <1>c, <1>d, <1>i, <2>2, <2>3 DEF BeginDelete
<1>14. CASE EndDelete(i)
  <2>1. LocalOK'
    BY <1>1, <1>14, <1>a, EmptyType DEF EndDelete
  <2>2. QED
    BY <1>14, <1>c, <1>e, <1>h, <2>1 DEF EndDelete
<1>15. CASE Clear(i)
  <2>1. LocalOK'
    BY <1>1, <1>15, <1>a, EmptyType DEF Clear
  <2>2. used' \in 0 .. MaxUpsets
    BY <1>1, <1>15, UpsetType DEF Clear, RestOK
  <2>3. QED
    BY <1>1, <1>15, <1>c, <2>1, <2>2 DEF Clear, HandlersOK, RestOK, server, history
<1>16. ASSUME NEW s \in 0 .. MaxLog, BeginPatch(i, s)
       PROVE  HandlersOK' /\ SyncOK' /\ RestOK' /\ LocalOK'
  <2> DEFINE x == [Idle EXCEPT !.pc = "patching", !.seq = s, !.page = {s} \cap msgs]
  <2>1. {s} \cap msgs \subseteq 1 .. MaxLog /\ ({s} \cap msgs = {} => s \notin msgs)
    BY <1>1 DEF LocalOK
  <2>2. s \notin msgs => s \in Mine \cup {0}
    BY <1>16 DEF BeginPatch, Visible
  <2>3. x \in HandlerType
    BY <1>a, <1>g, <2>1, <2>2 DEF HandlerType
  <2>4. h' = [h EXCEPT ![i] = x]
    BY <1>16 DEF BeginPatch
  <2> HIDE DEF x
  <2>5. QED
    BY <1>16, <1>c, <1>d, <1>e, <1>i, <2>3, <2>4 DEF BeginPatch
<1>19. CASE EndPatch(i)
  <2>1. LocalOK'
    <3>1. CASE h[i].page = {} /\ Recount(i, msgs \ {h[i].seq})
      <4>1. h[i].seq \in Mine \cup {0}
        BY <1>19, <1>b, <3>1 DEF EndPatch, At, HandlerType
      <4>2. msgs \ (msgs \ {h[i].seq}) \subseteq Mine
        BY <1>1, <4>1 DEF LocalOK
      <4>3. msgs \ {h[i].seq} \subseteq 1 .. MaxLog
        BY <1>1 DEF LocalOK
      <4>4. QED
        BY <1>1, <1>a, <3>1, <4>2, <4>3, RecountType
    <3>2. CASE Upsert(i, h[i].page)
      <4>1. h[i].page \subseteq 0 .. MaxLog
        BY <1>b DEF ClientAssumption
      <4>2. QED
        BY <1>1, <1>a, <3>2, <4>1, UpsertType
    <3>3. QED
      BY <1>19, <3>1, <3>2 DEF EndPatch
  <2>2. QED
    BY <1>19, <1>c, <1>e, <1>h, <2>1 DEF EndPatch
<1>17. CASE HandlerFails(i)
  <2>1. used' \in 0 .. MaxUpsets
    BY <1>1, <1>17, UpsetType DEF HandlerFails, RestOK
  <2>2. QED
    BY <1>1, <1>17, <1>c, <1>d, <1>h, <2>1 DEF HandlerFails, RestOK, server, history
<1>18. QED
  BY <1>3, <1>4, <1>5, <1>6, <1>7, <1>8, <1>9, <1>10, <1>11, <1>12, <1>13, <1>14, <1>15,
     <1>16, <1>17, <1>19 DEF Handle

LEMMA SyncStepType ==
  ASSUME ClientAssumption, TypeOK, SyncStep \/ List \/ SyncFails
  PROVE  TypeOK'
<1>1. HandlersOK /\ SyncOK /\ RestOK /\ LocalOK
  BY TypeParts
<1>2. SUFFICES HandlersOK' /\ SyncOK' /\ RestOK' /\ LocalOK'
  BY Zenon DEF TypeOK, HandlersOK, SyncOK, RestOK, LocalOK, HandlerType, SyncType, ExclType,
               Pcs, SyncPcs, Callers
<1>a. h' = h => HandlersOK'
  BY <1>1 DEF HandlersOK
<1>b. UNCHANGED local => LocalOK'
  BY <1>1 DEF local, LocalOK
<1>c. UNCHANGED <<server, cursor, history, used>> => RestOK'
  BY <1>1 DEF server, history, RestOK
<1>d. /\ sync.copy \in Row /\ row \in Row /\ sync.target \in 0 .. MaxLog
      /\ sync.page \subseteq 1 .. MaxLog /\ sync.after \in 0 .. MaxLog
      /\ sync.from \in 0 .. MaxLog
  BY <1>1 DEF SyncOK, SyncType, LocalOK
<1>e. SyncPcs = {"idle", "listing", "listed", "fetching", "fetched", "stored", "written",
                 "tailed", "marking", "settling", "done"}
  BY DEF SyncPcs
<1>f. ASSUME NEW o, NEW c \in Row, PutBack(o, c)
      PROVE  LocalOK' /\ stale' \in BOOLEAN /\ torn' = torn /\ cut' = cut
  BY <1>1, <1>f, PutBackType
<1>3. CASE List
  <2>1. SyncOK'
    <3>1. log \in 0 .. MaxLog
      BY <1>1 DEF RestOK
    <3>2. CASE sync' = [Asleep EXCEPT !.pc = "listing", !.target = log]
      BY <3>1, <3>2, <1>e, RecordTypes DEF SyncOK, SyncType
    <3>3. CASE Finish("settling")
      BY <3>3, <1>e, FinishType
    <3>4. QED
      BY <1>3, <3>2, <3>3 DEF List
  <2>2. QED
    BY <1>3, <1>a, <1>b, <1>c, <2>1 DEF List
<1>4. CASE ReadRows
  <2>1. SyncOK'
    BY <1>1, <1>4, <1>d, <1>e DEF ReadRows, SyncOK, SyncType
  <2>2. QED
    BY <1>4, <1>a, <1>b, <1>c, <2>1 DEF ReadRows
<1>5. CASE Diff
  <2> DEFINE m == Merged(sync.copy, sync.target)
             a == Anchor(sync.copy)
  <2>1. m \in Row
    BY <1>d, MergedFacts
  <2>2. a \in 0 .. MaxLog
    BY <1>d DEF Anchor, Larger, Row
  <2> HIDE DEF m, a
  <2>3. PutBack(sync.copy, m)
    BY <1>5 DEF Diff, m
  <2>4. LocalOK' /\ stale' \in BOOLEAN /\ torn' = torn /\ cut' = cut
    BY <1>f, <2>1, <2>3
  <2>5. RestOK'
    BY <1>1, <1>5, <1>d, <2>4 DEF Diff, RestOK, server
  <2>6. SyncOK'
    <3>1. CASE \E k \in {"tail", "delta"} : sync' = Task(k, a, sync.target, TRUE)
      BY <1>d, <2>2, <3>1, TaskType
    <3>2. CASE Finish("settling")
      BY <3>2, <1>e, FinishType
    <3>3. QED
      BY <1>5, <3>1, <3>2, Zenon DEF Diff, a
  <2>7. QED
    BY <1>5, <1>a, <2>4, <2>5, <2>6 DEF Diff
<1>6. CASE Fetch
  <2> DEFINE p == IF sync.mode = "tail" THEN Before(log + 1) ELSE After(sync.after)
             l == \A s \in Shown : s \in p \/ (sync.mode = "delta" /\ s <= sync.after)
  <2>1. p \subseteq 1 .. MaxLog /\ l \in BOOLEAN
    BY PageType
  <2>2. sync' = [sync EXCEPT !.pc = "fetched", !.page = p, !.from = concealed, !.last = l]
    BY <1>6, Zenon DEF Fetch
  <2> HIDE DEF p, l
  <2>3. SyncOK'
    BY <1>1, <1>e, <2>1, <2>2 DEF SyncOK, SyncType, RestOK
  <2>4. QED
    BY <1>6, <1>a, <1>b, <1>c, <2>3 DEF Fetch
<1>7. CASE StorePage
  <2>1. sync.page \subseteq 0 .. MaxLog /\ "sync" \in Callers
    BY <1>d DEF ClientAssumption, Callers
  <2>2. LocalOK'
    BY <1>1, <1>7, <2>1, UpsertType DEF StorePage
  <2>3. SyncOK'
    BY <1>1, <1>7, <1>e DEF StorePage, SyncOK, SyncType
  <2>4. QED
    BY <1>7, <1>a, <1>c, <2>2, <2>3 DEF StorePage
<1>8. CASE ReadRow
  <2>1. SyncOK'
    BY <1>1, <1>8, <1>d, <1>e DEF ReadRow, SyncOK, SyncType
  <2>2. QED
    BY <1>8, <1>a, <1>b, <1>c, <2>1 DEF ReadRow
<1>9. CASE WriteRow
  <2> DEFINE top == IF sync.mode = "delta" /\ Reached = 0 THEN sync.target ELSE Reached
             r == [sync.copy EXCEPT !.server = top]
  <2>1. Reached \in 0 .. MaxLog
    BY <1>1, ReachedType
  <2>2. top \in 0 .. MaxLog
    BY <1>d, <2>1
  <2>3. row' = r
    BY <1>9, Zenon DEF WriteRow
  <2> HIDE DEF top
  <2>4. r \in Row
    BY <1>d, <2>2 DEF Row
  <2> HIDE DEF r
  <2>5. LocalOK'
    BY <1>1, <1>9, <2>3, <2>4 DEF WriteRow, LocalOK
  <2>6. RestOK'
    BY <1>1, <1>9, Zenon DEF WriteRow, RestOK, server
  <2>7. SyncOK'
    <3>1. Advance /\ Blank \in Row
      BY <1>9, RecordTypes DEF WriteRow
    <3>2. CASE AfterTask
      BY <3>2, AfterTaskType
    <3>3. CASE Marks("tailed", Blank)
      BY <1>1, <1>e, <3>1, <3>3, MarksType
    <3>4. CASE sync' = [sync EXCEPT !.pc = "fetching", !.after = Reached, !.page = {},
                          !.last = FALSE, !.from = 0, !.paged = TRUE, !.copy = Blank]
      <4>1. "fetching" \in SyncPcs
        BY <1>e
      <4>2. {} \in SUBSET (1 .. MaxLog) /\ 0 \in 0 .. MaxLog
        BY DEF ClientAssumption
      <4>3. QED
        BY <1>1, <2>1, <3>1, <3>4, <4>1, <4>2 DEF SyncOK, SyncType
    <3>5. QED
      BY <3>1, <3>2, <3>3, <3>4, Zenon DEF Advance
  <2>8. QED
    BY <1>9, <1>a, <2>5, <2>6, <2>7 DEF WriteRow
<1>10. CASE ReadTailed
  <2>1. SyncOK'
    BY <1>1, <1>10, <1>d, <1>e, MarksType DEF ReadTailed
  <2>2. QED
    BY <1>10, <1>a, <1>b, <1>c, <2>1 DEF ReadTailed
<1>11. CASE MarkComplete
  <2> DEFINE f == Larger(sync.copy.floor, sync.from)
             r == [sync.copy EXCEPT !.complete = TRUE, !.floor = f]
  <2>1. f \in 0 .. MaxLog
    BY <1>d DEF Larger, Row
  <2>2. PutBack(sync.copy, r)
    BY <1>11, Zenon DEF MarkComplete
  <2> HIDE DEF f
  <2>3. r \in Row
    BY <1>d, <2>1 DEF Row
  <2> HIDE DEF r
  <2>4. LocalOK' /\ stale' \in BOOLEAN /\ torn' = torn /\ cut' = cut
    BY <1>f, <2>2, <2>3
  <2>5. QED
    BY <1>1, <1>11, <1>a, <2>4, AfterTaskType DEF MarkComplete, RestOK, server
<1>12. CASE Settle
  <2>1. SyncOK'
    <3>1. row.sync \in 0 .. MaxLog /\ row.server \in 0 .. MaxLog
      BY <1>d DEF Row
    <3>2. CASE \E k \in {"tail", "delta"} : sync' = Task(k, row.sync, row.server, FALSE)
      BY <3>1, <3>2, TaskType
    <3>3. CASE Finish("done")
      BY <3>3, <1>e, FinishType
    <3>4. QED
      BY <1>12, <3>2, <3>3, Zenon DEF Settle
  <2>2. QED
    BY <1>12, <1>a, <1>b, <1>c, <2>1 DEF Settle
<1>13. CASE SyncFails
  <2>1. used' \in 0 .. MaxUpsets
    BY <1>1, <1>13, UpsetType DEF SyncFails, RestOK
  <2>2. SyncOK'
    BY <1>13, <1>e, RecordTypes DEF SyncFails, SyncOK, SyncType
  <2>3. cut' \in BOOLEAN
    BY <1>13, Zenon DEF SyncFails
  <2>4. QED
    BY <1>1, <1>13, <1>a, <1>b, <2>1, <2>2, <2>3 DEF SyncFails, RestOK, server
<1>14. QED
  BY <1>3, <1>4, <1>5, <1>6, <1>7, <1>8, <1>9, <1>10, <1>11, <1>12, <1>13 DEF SyncStep

LEMMA InitType ==
  ASSUME ClientAssumption, Init
  PROVE  TypeOK
<1>1. log \in 0 .. MaxLog /\ 0 \in 0 .. MaxLog /\ 0 \in 0 .. MaxUpsets
  BY DEF Init, ClientAssumption
<1>2. Added(log) \in Row
  BY <1>1 DEF Added, Row
<1>3. HandlersOK
  BY RecordTypes DEF Init, HandlersOK
<1>4. SyncOK
  BY <1>1, TaskType, RecordTypes DEF Init, Task, SyncOK, SyncType, SyncPcs
<1>5. excl \in ExclType
  BY RecordTypes DEF Init
<1>6. QED
  BY <1>1, <1>2, <1>3, <1>4, <1>5, TypeParts DEF Init, RestOK, LocalOK

LEMMA NextType ==
  ASSUME ClientAssumption, TypeOK, [Next]_vars
  PROVE  TypeOK'
<1>1. HandlersOK /\ SyncOK /\ RestOK /\ LocalOK
  BY TypeParts
<1>2. SUFFICES ASSUME ~(HandlersOK' /\ SyncOK' /\ RestOK' /\ LocalOK') PROVE TypeOK'
  BY Zenon DEF TypeOK, HandlersOK, SyncOK, RestOK, LocalOK, HandlerType, SyncType, ExclType,
               Pcs, SyncPcs, Callers
<1>a. h' = h => HandlersOK'
  BY <1>1 DEF HandlersOK
<1>b. UNCHANGED local => LocalOK'
  BY <1>1 DEF local, LocalOK
<1>c. sync' = sync => SyncOK'
  BY <1>1 DEF SyncOK
<1>3. CASE Post
  <2>1. RestOK'
    BY <1>1, <1>3 DEF Post, RestOK, history, ClientAssumption
  <2>2. QED
    BY <1>2, <1>3, <1>a, <1>b, <1>c, <2>1 DEF Post
<1>4. CASE WriteRecord
  <2>1. LocalOK'
    <3>1. excl.next \in Row /\ Free \in ExclType
      BY <1>1, RecordTypes DEF LocalOK, ExclType
    <3>2. QED
      BY <1>1, <1>4, <3>1 DEF WriteRecord, LocalOK
  <2>2. stale' \in BOOLEAN /\ torn' \in BOOLEAN
    BY <1>4, Zenon DEF WriteRecord
  <2>3. QED
    BY <1>1, <1>2, <1>4, <1>a, <1>c, <2>1, <2>2 DEF WriteRecord, RestOK, server
<1>5. CASE Crash
  <2>1. used' \in 0 .. MaxUpsets
    BY <1>1, <1>5, UpsetType DEF Crash, RestOK
  <2>2. SyncOK' /\ HandlersOK'
    BY <1>5, FinishType, RecordTypes DEF Crash, SyncPcs, HandlersOK
  <2>3. cut' \in BOOLEAN /\ torn' \in BOOLEAN
    BY <1>5, Zenon DEF Crash
  <2>4. LocalOK'
    BY <1>1, <1>5, RecordTypes DEF Crash, LocalOK
  <2>5. QED
    BY <1>1, <1>2, <1>5, <2>1, <2>2, <2>3, <2>4 DEF Crash, RestOK, server
<1>6. CASE UNCHANGED vars
  BY <1>1, <1>2, <1>6, <1>a, <1>b, <1>c DEF vars, RestOK, server, history
<1>7. QED
  BY <1>3, <1>4, <1>5, <1>6, HandleType, SyncStepType DEF Next

\* The stored messages, the progress row and every copy of it hold values of
\* their types, however handlers and the sync interleave.
THEOREM TypeCorrect == Spec => []TypeOK
<1> USE ClientAssumption
<1>1. Init => TypeOK
  BY InitType
<1>2. TypeOK /\ [Next]_vars => TypeOK'
  BY NextType
<1>3. QED
  BY <1>1, <1>2, PTL DEF Spec

-----------------------------------------------------------------------------
(* Copies of the row *)

\* A row c that hides what the user cleared, up to n, and claims no more than m holds.
Good(c, m, n) == n <= c.floor /\ Covers(c, m)

\* The inductive invariant.  While the messages are deleted and the row is not
\* blanked yet, the row to come is good.  Otherwise the row is, and every copy
\* of it that is going to be written; unless it was torn.
Safe ==
  ~torn => IF Blanking
           THEN msgs = {} /\ Good(excl.next, {}, hidden)
           ELSE /\ \A s \in msgs : s > hidden
                /\ Good(row, Known, hidden)
                /\ excl.kind = "upsert" => Good(excl.next, Known, hidden)
                /\ \A i \in Handlers : HoldsCopy(i) => Good(h[i].copy, Known, hidden)
                /\ SyncHolds => Good(sync.copy, Known, hidden)

\* A step on the device that leaves it in order, and every copy that is good.
Keeps ==
  /\ ~Blanking /\ ~Blanking' /\ ~torn
  /\ \A s \in msgs' : s > hidden'
  /\ Good(row', Known', hidden')
  /\ excl'.kind = "upsert" => Good(excl'.next, Known', hidden')
  /\ \A c : Good(c, Known, hidden) => Good(c, Known', hidden')

\* Nothing but the section itself acts on what is being blanked.
LEMMA BlankingKeeps ==
  ASSUME Safe, Blanking, UNCHANGED <<msgs, erased, excl, hidden, torn>>
  PROVE  Safe'
BY DEF Safe, Blanking, Known

LEMMA LocalKeeps ==
  ASSUME Safe, ~torn, ~Blanking, UNCHANGED local
  PROVE  Keeps
BY DEF Safe, Keeps, local, Blanking, Known

\* What is counted anew may leave out a message: the device still knows of it.
LEMMA RecountKeeps ==
  ASSUME ClientAssumption, TypeOK, Safe, ~torn, NEW w, NEW m, m \subseteq 1 .. MaxLog,
         \A s \in m : s \in msgs \/ s > row.floor, Recount(w, m)
  PROVE  Keeps
<1>1. ~Blanking /\ ~Blanking' /\ hidden' = hidden /\ row' = row /\ msgs' = m
  BY DEF Recount, Blanking
<1>2. Good(row, Known, hidden) /\ \A s \in msgs : s > hidden
  BY <1>1 DEF Safe
<1>3. row \in Row /\ hidden \in Nat /\ row.floor \in Nat
  BY DEF TypeOK, Row
<1>4. \A s \in m : s > hidden
  BY <1>2, <1>3 DEF Good
<1>5. m \subseteq Known' /\ Known \subseteq Known'
  BY DEF Recount, Known
<1>6. \A c : Good(c, Known, hidden) => Good(c, Known', hidden)
  BY <1>5 DEF Good, Covers
<1>7. Good(row, Known', hidden)
  BY <1>2, <1>6
<1>8. Good(Recompute(row, m), Known', hidden)
  <2> DEFINE k == Known'
  <2>1. m \subseteq k /\ Good(row, k, hidden)
    BY <1>5, <1>7
  <2> HIDE DEF k
  <2>2. Good(Recompute(row, m), k, hidden)
    BY <1>3, <2>1, RecomputeFacts DEF Good
  <2>3. QED
    BY <2>2 DEF k
<1>9. excl'.next = Recompute(row, m)
  BY DEF Recount
<1>10. QED
  BY <1>1, <1>4, <1>6, <1>7, <1>8, <1>9 DEF Keeps

LEMMA UpsertKeeps ==
  ASSUME ClientAssumption, TypeOK, Safe, ~torn,
         NEW w, NEW new, new \subseteq 0 .. MaxLog, Upsert(w, new)
  PROVE  Keeps
<1> DEFINE m == msgs \cup Visible(row, new)
<1>1. row \in Row /\ msgs \subseteq 1 .. MaxLog
  BY DEF TypeOK
<1>2. m \subseteq 1 .. MaxLog /\ \A s \in m : s \in msgs \/ s > row.floor
  BY <1>1, VisibleType
<1> HIDE DEF m
<1>3. CASE excl.kind = "free" /\ UNCHANGED local
  BY <1>3, LocalKeeps DEF Blanking
<1>4. CASE Recount(w, m)
  BY <1>2, <1>4, RecountKeeps
<1>5. QED
  BY <1>3, <1>4 DEF Upsert, m

LEMMA PutBackKeeps ==
  ASSUME Safe, ~torn, ~Blanking, NEW o, NEW c, Good(c, Known, hidden), PutBack(o, c)
  PROVE  Keeps
BY DEF PutBack, Keeps, Safe, Blanking, Known

LEMMA HandlerKeeps ==
  ASSUME TypeOK, Safe, Keeps, NEW i \in Handlers, NEW x, h' = [h EXCEPT ![i] = x],
         x.pc \in {"received", "stored", "calling", "marking"} => Good(x.copy, Known', hidden'),
         sync' = sync
  PROVE  Safe'
<1>1. \A j \in Handlers : HoldsCopy(j)' => Good(h'[j].copy, Known', hidden')
  <2> SUFFICES ASSUME NEW j \in Handlers, HoldsCopy(j)' PROVE Good(h'[j].copy, Known', hidden')
    OBVIOUS
  <2>1. CASE j = i
    <3>1. h'[i] = x
      BY DEF TypeOK
    <3>2. QED
      BY <2>1, <3>1 DEF HoldsCopy
  <2>2. CASE j # i
    <3>1. h'[j] = h[j]
      BY <2>2 DEF TypeOK
    <3>2. HoldsCopy(j)
      BY <3>1 DEF HoldsCopy
    <3>3. Good(h[j].copy, Known, hidden)
      BY <3>2 DEF Safe, Keeps
    <3>4. QED
      BY <3>1, <3>3 DEF Keeps
  <2>3. QED
    BY <2>1, <2>2
<1>2. SyncHolds' => Good(sync'.copy, Known', hidden')
  BY DEF SyncHolds, Keeps, Safe
<1>3. QED
  BY <1>1, <1>2 DEF Safe, Keeps

LEMMA SyncKeeps ==
  ASSUME Safe, Keeps, h' = h,
         SyncHolds' => Good(sync'.copy, Known', hidden')
  PROVE  Safe'
<1>1. \A j \in Handlers : HoldsCopy(j)' => Good(h'[j].copy, Known', hidden')
  BY DEF HoldsCopy, Safe, Keeps
<1>2. QED
  BY <1>1 DEF Safe, Keeps

\* What a clear is to write hides all there was.
LEMMA EmptySafe ==
  ASSUME ClientAssumption, TypeOK, Safe, NEW w, NEW d \in BOOLEAN, Empty(w, d), torn' = torn
  PROVE  Safe'
<1> SUFFICES ASSUME ~torn PROVE Safe'
  BY DEF Safe
<1> DEFINE c == Cutoff(row, msgs)
<1>1. row \in Row /\ msgs \subseteq 1 .. MaxLog /\ hidden \in 0 .. MaxLog
  BY DEF TypeOK
<1>2. c \in 0 .. MaxLog
  BY <1>1, CutoffType
<1>3. row.floor <= c
  <2>1. msgs \subseteq 0 .. MaxLog
    BY <1>1 DEF ClientAssumption
  <2>2. Newest(msgs) \in 0 .. MaxLog
    BY <2>1, NewestType
  <2>3. QED
    BY <1>1, <2>2 DEF Cutoff, Anchor, Larger, Row
<1> HIDE DEF c
<1>4. hidden <= row.floor
  BY DEF Empty, Safe, Blanking, Good
<1>5. /\ msgs' = {} /\ hidden' = Larger(hidden, c) /\ Blanking'
      /\ excl'.next = Blanked(row, c, d)
  BY DEF Empty, c, Blanking
<1>6. Blanked(row, c, d).floor = c /\ Blanked(row, c, d).sync = c
  BY <1>1, <1>2 DEF Blanked, Row
<1>7. Larger(hidden, c) = c
  BY <1>1, <1>2, <1>3, <1>4 DEF Larger, Row
<1>8. Good(excl'.next, {}, hidden')
  BY <1>2, <1>5, <1>6, <1>7 DEF Good, Covers
<1>9. QED
  BY <1>5, <1>8 DEF Safe

\* The row that a section writes is good; a blank one only if nobody holds
\* another.
LEMMA RecordSafe ==
  ASSUME TypeOK, Safe, WriteRecord
  PROVE  Safe'
<1> SUFFICES ASSUME ~torn' PROVE Safe'
  BY DEF Safe
<1>1. ~torn /\ row' = excl.next /\ excl' = Free /\ Known' = Known /\ UNCHANGED <<msgs, hidden, h, sync>>
  BY DEF WriteRecord, Known
<1>2. ~Blanking' /\ excl'.kind # "upsert"
  BY <1>1 DEF Blanking, Free
<1>3. CASE Blanking
  <2>1. msgs = {} /\ ~SyncHolds /\ \A j \in Handlers : ~HoldsCopy(j)
    BY <1>1, <1>3 DEF WriteRecord, Blanking, Held, Safe
  <2>2. ~SyncHolds' /\ \A j \in Handlers : ~HoldsCopy(j)'
    BY <1>1, <2>1 DEF SyncHolds, HoldsCopy
  <2>3. Good(row', Known', hidden')
    BY <1>1, <1>3 DEF Safe, Good, Covers
  <2>4. QED
    BY <1>1, <1>2, <1>3, <2>1, <2>2, <2>3 DEF Safe
<1>4. CASE ~Blanking
  <2>1. excl.kind = "upsert"
    BY <1>4 DEF WriteRecord, Blanking, TypeOK
  <2>2. \A j \in Handlers : HoldsCopy(j)' => Good(h'[j].copy, Known', hidden')
    BY <1>1, <1>4 DEF Safe, HoldsCopy
  <2>3. SyncHolds' => Good(sync'.copy, Known', hidden')
    BY <1>1, <1>4 DEF Safe, SyncHolds
  <2>4. QED
    BY <1>1, <1>2, <1>4, <2>1, <2>2, <2>3 DEF Safe
<1>5. QED
  BY <1>3, <1>4

LEMMA HandleSafe ==
  ASSUME ClientAssumption, TypeOK, Safe, NEW i \in Handlers, Handle(i)
  PROVE  Safe'
<1>1. CASE EndDelete(i) \/ Clear(i)
  BY <1>1, EmptySafe DEF EndDelete, Clear, history
<1> SUFFICES ASSUME ~EndDelete(i), ~Clear(i), ~torn' PROVE Safe'
  BY <1>1 DEF Safe
<1>2. ~torn
  BY DEF Handle, Receive, Store, WriteBack, BeginTouch, EndTouch, Scroll, FetchOlder,
         StoreOlder, ReadToMark, MarkStart, BeginDelete, BeginPatch, EndPatch, HandlerFails, history, PutBack
<1>3. CASE Blanking
  <2>1. excl.kind # "free"
    BY <1>3 DEF Blanking
  <2>2. UNCHANGED <<msgs, erased, excl, hidden, torn>>
    BY <2>1 DEF Handle, Receive, Store, WriteBack, BeginTouch, EndTouch, Scroll, FetchOlder,
       StoreOlder, ReadToMark, MarkStart, BeginDelete, BeginPatch, EndPatch, HandlerFails, history, PutBack,
       local, Upsert, Recount
  <2>3. QED
    BY <1>3, <2>2, BlankingKeeps
<1> SUFFICES ASSUME ~Blanking PROVE Safe'
  BY <1>3
<1>a. h[i].copy \in Row /\ h[i].seq \in 0 .. MaxLog /\ row \in Row /\ msgs \subseteq 1 .. MaxLog
      /\ h[i].page \subseteq 1 .. MaxLog /\ h[i].page \subseteq 0 .. MaxLog
  BY DEF TypeOK, ClientAssumption
<1>b. HoldsCopy(i) => Good(h[i].copy, Known, hidden)
  BY <1>2 DEF Safe
<1>c. Good(row, Known, hidden)
  BY <1>2 DEF Safe
<1>d. UNCHANGED local => Keeps /\ Good(row, Known', hidden')
  BY <1>2, <1>c, LocalKeeps DEF local, Known
<1>e. ASSUME Keeps, Ends(i), sync' = sync PROVE Safe'
  <2>1. Idle.pc \notin {"received", "stored", "calling", "marking"}
    BY DEF Idle
  <2>2. h' = [h EXCEPT ![i] = Idle]
    BY <1>e DEF Ends
  <2>3. QED
    BY <1>e, <2>1, <2>2, HandlerKeeps
<1>4. ASSUME NEW s \in 1 .. log, Receive(i, s) PROVE Safe'
  <2> DEFINE x == [Idle EXCEPT !.pc = "received", !.seq = s, !.copy = row]
  <2>1. x.copy = row
    BY DEF Idle
  <2>2. h' = [h EXCEPT ![i] = x] /\ UNCHANGED <<local, sync>>
    BY <1>4 DEF Receive
  <2> HIDE DEF x
  <2>3. QED
    BY <1>d, <2>1, <2>2, HandlerKeeps
<1>5. CASE Store(i)
  <2> DEFINE x == [h[i] EXCEPT !.pc = "stored"]
  <2>1. {h[i].seq} \subseteq 0 .. MaxLog
    BY <1>a
  <2>2. Keeps /\ sync' = sync
    BY <1>2, <1>5, <2>1, UpsertKeeps DEF Store
  <2>3. Good(h[i].copy, Known', hidden')
    BY <1>5, <1>b, <2>2 DEF Store, At, HoldsCopy, Keeps
  <2>4. h' = [h EXCEPT ![i] = x] /\ x.copy = h[i].copy
    BY <1>5 DEF Store, TypeOK
  <2> HIDE DEF x
  <2>5. QED
    BY <2>2, <2>3, <2>4, HandlerKeeps
<1>6. CASE WriteBack(i)
  <2> DEFINE c == [h[i].copy EXCEPT !.server = Larger(@, h[i].seq)]
  <2>1. c.floor = h[i].copy.floor /\ c.sync = h[i].copy.sync
    BY <1>a DEF Row
  <2>2. PutBack(h[i].copy, c)
    BY <1>6 DEF WriteBack
  <2> HIDE DEF c
  <2>3. Good(c, Known, hidden)
    BY <1>6, <1>b, <2>1 DEF WriteBack, At, HoldsCopy, Good, Covers
  <2>4. Keeps
    BY <1>2, <2>2, <2>3, PutBackKeeps
  <2>5. QED
    BY <1>6, <1>e, <2>4 DEF WriteBack
<1>7. CASE BeginTouch(i)
  <2> DEFINE x == [Idle EXCEPT !.pc = "calling", !.copy = row]
  <2>1. x.copy = row
    BY DEF Idle
  <2>2. h' = [h EXCEPT ![i] = x] /\ UNCHANGED <<local, sync>>
    BY <1>7 DEF BeginTouch
  <2> HIDE DEF x
  <2>3. QED
    BY <1>d, <2>1, <2>2, HandlerKeeps
<1>8. CASE EndTouch(i)
  <2>1. Good(h[i].copy, Known, hidden) /\ sync' = sync
    BY <1>8, <1>b DEF EndTouch, At, HoldsCopy
  <2>2. Keeps
    BY <1>2, <1>8, <2>1, PutBackKeeps DEF EndTouch
  <2>3. CASE Ends(i)
    BY <1>e, <2>1, <2>2, <2>3
  <2>4. CASE h' = h
    <3>1. SyncHolds' => Good(sync'.copy, Known', hidden')
      BY <2>1, <2>2 DEF SyncHolds, Keeps, Safe
    <3>2. QED
      BY <2>2, <2>4, <3>1, SyncKeeps
  <2>5. QED
    BY <1>8, <2>3, <2>4 DEF EndTouch
<1>9. CASE Scroll(i)
  <2>1. PICK n : h' = [h EXCEPT ![i] = [Idle EXCEPT !.pc = "paging", !.seq = n]]
    BY <1>9 DEF Scroll
  <2> DEFINE x == [Idle EXCEPT !.pc = "paging", !.seq = n]
  <2>2. x.pc = "paging" /\ h' = [h EXCEPT ![i] = x]
    BY <2>1 DEF Idle
  <2>3. UNCHANGED <<local, sync>>
    BY <1>9 DEF Scroll
  <2> HIDE DEF x
  <2>4. QED
    BY <1>d, <2>2, <2>3, HandlerKeeps
<1>10. CASE FetchOlder(i)
  <2>1. PICK p, l : h' = [h EXCEPT ![i] = [Idle EXCEPT !.pc = "paged", !.page = p, !.last = l]]
    BY <1>10, Zenon DEF FetchOlder
  <2> DEFINE x == [Idle EXCEPT !.pc = "paged", !.page = p, !.last = l]
  <2>2. x.pc = "paged" /\ h' = [h EXCEPT ![i] = x]
    BY <2>1 DEF Idle
  <2>3. UNCHANGED <<local, sync>>
    BY <1>10 DEF FetchOlder
  <2> HIDE DEF x
  <2>4. QED
    BY <1>d, <2>2, <2>3, HandlerKeeps
<1>11. CASE StoreOlder(i)
  <2>1. Keeps /\ sync' = sync
    BY <1>2, <1>11, <1>a, UpsertKeeps DEF StoreOlder
  <2>2. h' = [h EXCEPT ![i] = Idle] \/ h' = [h EXCEPT ![i] = [Idle EXCEPT !.pc = "older"]]
    BY <1>11 DEF StoreOlder
  <2> DEFINE x == [Idle EXCEPT !.pc = "older"]
  <2>3. x.pc = "older"
    BY DEF Idle
  <2>4. Ends(i) \/ h' = [h EXCEPT ![i] = x]
    BY <2>2 DEF Ends
  <2> HIDE DEF x
  <2>5. QED
    BY <1>e, <2>1, <2>3, <2>4, HandlerKeeps
<1>12. CASE ReadToMark(i)
  <2> DEFINE x == [Idle EXCEPT !.pc = "marking", !.copy = row]
  <2>1. x.copy = row
    BY DEF Idle
  <2>2. h' = [h EXCEPT ![i] = x] /\ UNCHANGED <<local, sync>>
    BY <1>12 DEF ReadToMark
  <2> HIDE DEF x
  <2>3. QED
    BY <1>d, <2>1, <2>2, HandlerKeeps
<1>13. CASE MarkStart(i)
  <2> DEFINE c == [h[i].copy EXCEPT !.complete = TRUE]
  <2>1. c.floor = h[i].copy.floor /\ c.sync = h[i].copy.sync
    BY <1>a DEF Row
  <2>2. PutBack(h[i].copy, c)
    BY <1>13 DEF MarkStart
  <2> HIDE DEF c
  <2>3. Good(c, Known, hidden)
    BY <1>13, <1>b, <2>1 DEF MarkStart, At, HoldsCopy, Good, Covers
  <2>4. Keeps
    BY <1>2, <2>2, <2>3, PutBackKeeps
  <2>5. QED
    BY <1>13, <1>e, <2>4 DEF MarkStart
<1>14. CASE BeginDelete(i)
  <2> DEFINE x == [Idle EXCEPT !.pc = "deleting"]
  <2>1. x.pc = "deleting"
    BY DEF Idle
  <2>2. h' = [h EXCEPT ![i] = x] /\ UNCHANGED <<local, sync>>
    BY <1>14 DEF BeginDelete
  <2> HIDE DEF x
  <2>3. QED
    BY <1>d, <2>1, <2>2, HandlerKeeps
<1>15. ASSUME NEW s, BeginPatch(i, s) PROVE Safe'
  <2> DEFINE x == [Idle EXCEPT !.pc = "patching", !.seq = s, !.page = {s} \cap msgs]
  <2>1. x.pc = "patching"
    BY DEF Idle
  <2>2. h' = [h EXCEPT ![i] = x] /\ UNCHANGED <<local, sync>>
    BY <1>15 DEF BeginPatch
  <2> HIDE DEF x
  <2>3. QED
    BY <1>d, <2>1, <2>2, HandlerKeeps
<1>18. CASE EndPatch(i)
  <2>1. CASE Recount(i, msgs \ {h[i].seq})
    BY <1>2, <1>18, <1>a, <1>e, <2>1, RecountKeeps DEF EndPatch
  <2>2. CASE Upsert(i, h[i].page)
    BY <1>2, <1>18, <1>a, <1>e, <2>2, UpsertKeeps DEF EndPatch
  <2>3. QED
    BY <1>18, <2>1, <2>2 DEF EndPatch
<1>16. CASE HandlerFails(i)
  BY <1>16, <1>d, <1>e DEF HandlerFails
<1>17. QED
  BY <1>4, <1>5, <1>6, <1>7, <1>8, <1>9, <1>10, <1>11, <1>12, <1>13, <1>14, <1>15, <1>16, <1>18
     DEF Handle

LEMMA SyncStepSafe ==
  ASSUME ClientAssumption, TypeOK, Safe, SyncStep \/ List \/ SyncFails
  PROVE  Safe'
<1> SUFFICES ASSUME ~torn' PROVE Safe'
  BY DEF Safe
<1>1. ~torn
  BY DEF SyncStep, List, SyncFails, ReadRows, Diff, Fetch, StorePage, ReadRow, WriteRow,
         ReadTailed, MarkComplete, Settle, history, PutBack
<1>2. CASE Blanking
  <2>1. excl.kind # "free"
    BY <1>2 DEF Blanking
  <2>2. UNCHANGED <<msgs, erased, excl, hidden, torn>>
    BY <2>1 DEF SyncStep, List, SyncFails, ReadRows, Diff, Fetch, StorePage, ReadRow, WriteRow,
       ReadTailed, MarkComplete, Settle, history, PutBack, local, Upsert, Recount
  <2>3. QED
    BY <1>2, <2>2, BlankingKeeps
<1> SUFFICES ASSUME ~Blanking PROVE Safe'
  BY <1>2
<1>a. sync.copy \in Row /\ row \in Row /\ sync.target \in 0 .. MaxLog /\ SyncOK
      /\ sync.from \in 0 .. MaxLog /\ hidden \in 0 .. MaxLog
  BY TypeParts DEF TypeOK
<1>b. SyncHolds => Good(sync.copy, Known, hidden)
  BY <1>1 DEF Safe
<1>c. UNCHANGED local => Keeps /\ Good(row, Known', hidden')
  BY <1>1, LocalKeeps DEF local, Safe, Known
<1>d. \A pc \in {"idle", "listing", "fetching", "settling", "done"} : Finish(pc) => ~SyncHolds'
  BY DEF Finish, SyncHolds, Asleep
<1>e. \A m, a, n, b : sync' = Task(m, a, n, b) => ~SyncHolds'
  BY DEF Task, SyncHolds, Asleep
<1>f. AfterTask => ~SyncHolds'
  BY <1>d DEF AfterTask
<1>3. CASE List
  <2>1. ~SyncHolds'
    BY <1>3, <1>d DEF List, SyncHolds, Asleep
  <2>2. QED
    BY <1>3, <1>c, <2>1, SyncKeeps DEF List
<1>4. CASE ReadRows
  <2>1. sync'.copy = row
    BY <1>4, <1>a DEF ReadRows, SyncOK, SyncType
  <2>2. QED
    BY <1>4, <1>c, <2>1, SyncKeeps DEF ReadRows
<1>5. CASE Diff
  <2> DEFINE m == Merged(sync.copy, sync.target)
  <2>1. m \in Row /\ m.floor = sync.copy.floor /\ m.sync = Larger(sync.copy.sync, sync.copy.floor)
    BY <1>a, MergedFacts
  <2>2. PutBack(sync.copy, m)
    BY <1>5 DEF Diff
  <2>3. Good(sync.copy, Known, hidden)
    BY <1>5, <1>b DEF Diff, SyncAt, SyncHolds
  <2>4. ~SyncHolds'
    BY <1>5, <1>d, <1>e DEF Diff
  <2> HIDE DEF m
  <2>5. Good(m, Known, hidden)
    BY <1>a, <2>1, <2>3 DEF Good, Covers, Larger, Row
  <2>6. Keeps
    BY <1>1, <2>2, <2>5, PutBackKeeps
  <2>7. QED
    BY <1>5, <2>4, <2>6, SyncKeeps DEF Diff
<1>6. CASE Fetch
  <2>1. PICK p, l : sync' = [sync EXCEPT !.pc = "fetched", !.page = p, !.from = concealed, !.last = l]
    BY <1>6, Zenon DEF Fetch
  <2>2. ~SyncHolds'
    BY <1>a, <2>1 DEF SyncHolds, SyncOK, SyncType
  <2>3. QED
    BY <1>6, <1>c, <2>2, SyncKeeps DEF Fetch
<1>7. CASE StorePage
  <2>1. sync.page \subseteq 0 .. MaxLog
    BY <1>a DEF SyncOK, SyncType, ClientAssumption
  <2>2. Keeps
    BY <1>1, <1>7, <2>1, UpsertKeeps DEF StorePage
  <2>3. ~SyncHolds'
    BY <1>7, <1>a DEF StorePage, SyncHolds, SyncOK, SyncType
  <2>4. QED
    BY <1>7, <2>2, <2>3, SyncKeeps DEF StorePage
<1>8. CASE ReadRow
  <2>1. sync'.copy = row
    BY <1>8, <1>a DEF ReadRow, SyncOK, SyncType
  <2>2. QED
    BY <1>8, <1>c, <2>1, SyncKeeps DEF ReadRow
<1>9. CASE WriteRow
  <2> DEFINE top == IF sync.mode = "delta" /\ Reached = 0 THEN sync.target ELSE Reached
  <2>1. row' = [sync.copy EXCEPT !.server = top]
    BY <1>9, Zenon DEF WriteRow
  <2> HIDE DEF top
  <2>2. row'.floor = sync.copy.floor /\ row'.sync = sync.copy.sync
    BY <1>a, <2>1 DEF Row
  <2>3. Good(sync.copy, Known, hidden)
    BY <1>9, <1>b DEF WriteRow, SyncAt, SyncHolds
  <2>4. UNCHANGED <<msgs, excl, hidden>> /\ Known' = Known /\ h' = h /\ Advance
    BY <1>9 DEF WriteRow, Known
  <2>5. Good(row', Known, hidden)
    BY <2>2, <2>3 DEF Good, Covers
  <2>6. Keeps
    BY <1>1, <2>4, <2>5 DEF Keeps, Safe, Blanking
  <2>7. ~SyncHolds'
    <3>1. CASE AfterTask
      BY <3>1, <1>f
    <3>2. CASE Marks("tailed", Blank)
      BY <3>2 DEF Marks, SyncHolds, Asleep
    <3>3. CASE sync' = [sync EXCEPT !.pc = "fetching", !.after = Reached, !.page = {},
                          !.last = FALSE, !.from = 0, !.paged = TRUE, !.copy = Blank]
      BY <3>3, <1>a DEF SyncHolds, SyncOK, SyncType
    <3>4. QED
      BY <2>4, <3>1, <3>2, <3>3, Zenon DEF Advance
  <2>8. QED
    BY <2>4, <2>6, <2>7, SyncKeeps
<1>10. CASE ReadTailed
  <2>1. sync'.copy = row
    BY <1>10 DEF ReadTailed, Marks, Asleep
  <2>2. QED
    BY <1>10, <1>c, <2>1, SyncKeeps DEF ReadTailed
<1>11. CASE MarkComplete
  <2> DEFINE f == Larger(sync.copy.floor, sync.from)
             r == [sync.copy EXCEPT !.complete = TRUE, !.floor = f]
  <2>1. f \in 0 .. MaxLog /\ sync.copy.floor <= f /\ sync.copy.floor \in 0 .. MaxLog
    BY <1>a DEF Larger, Row
  <2>2. PutBack(sync.copy, r)
    BY <1>11, Zenon DEF MarkComplete
  <2> HIDE DEF f
  <2>3. r.floor = f /\ r.sync = sync.copy.sync
    BY <1>a DEF Row
  <2> HIDE DEF r
  <2>4. Good(sync.copy, Known, hidden)
    BY <1>11, <1>b DEF MarkComplete, SyncAt, SyncHolds
  <2>5. Good(r, Known, hidden)
    BY <1>a, <2>1, <2>3, <2>4 DEF Good, Covers, Row
  <2>6. Keeps
    BY <1>1, <2>2, <2>5, PutBackKeeps
  <2>7. QED
    BY <1>11, <1>f, <2>6, SyncKeeps DEF MarkComplete
<1>12. CASE Settle
  <2>1. ~SyncHolds'
    BY <1>12, <1>d, <1>e DEF Settle
  <2>2. QED
    BY <1>12, <1>c, <2>1, SyncKeeps DEF Settle
<1>13. CASE SyncFails
  <2>1. ~SyncHolds'
    BY <1>13, FailedSync DEF SyncHolds
  <2>2. QED
    BY <1>13, <1>c, <2>1, SyncKeeps DEF SyncFails
<1>14. QED
  BY <1>3, <1>4, <1>5, <1>6, <1>7, <1>8, <1>9, <1>10, <1>11, <1>12, <1>13 DEF SyncStep

LEMMA NextSafe ==
  ASSUME ClientAssumption, TypeOK, Safe, [Next]_vars
  PROVE  Safe'
<1>1. CASE Crash
  <2>1. \A i \in Handlers : ~HoldsCopy(i)'
    BY <1>1 DEF Crash, HoldsCopy, Idle
  <2>2. ~SyncHolds'
    BY <1>1 DEF Crash, Finish, SyncHolds, Asleep
  <2>3. ~torn' => ~torn /\ ~Blanking
    BY <1>1 DEF Crash, Blanking
  <2>4. ~Blanking' /\ excl'.kind # "upsert" /\ UNCHANGED <<msgs, row, hidden>>
      /\ Known' = Known
    BY <1>1 DEF Crash, Blanking, Free, Known
  <2>5. QED
    BY <2>1, <2>2, <2>3, <2>4 DEF Safe
<1>2. CASE Post
  BY <1>2 DEF Post, Safe, local, history, HoldsCopy, SyncHolds, Blanking, Known
<1>3. CASE UNCHANGED vars
  BY <1>3 DEF vars, Safe, local, history, HoldsCopy, SyncHolds, Blanking, Known
<1>4. QED
  BY <1>1, <1>2, <1>3, RecordSafe, HandleSafe, SyncStepSafe DEF Next

LEMMA InitSafe ==
  ASSUME ClientAssumption, Init
  PROVE  Safe
BY DEF Init, Safe, Added, Good, Covers, HoldsCopy, SyncHolds, Idle, Task, Asleep, Free, Blanking, Known

LEMMA AlwaysSafe == Spec => [](TypeOK /\ Safe)
<1> USE ClientAssumption
<1>1. Init => TypeOK /\ Safe
  BY InitType, InitSafe
<1>2. TypeOK /\ Safe /\ [Next]_vars => TypeOK' /\ Safe'
  BY NextType, NextSafe
<1>3. QED
  BY <1>1, <1>2, PTL DEF Spec

\* last_sync_sequence never claims a message that is neither stored nor hidden,
\* however many handlers write old copies of the row back.
THEOREM PrefixAlwaysStored == Spec => []PrefixIsStored
<1>1. TypeOK /\ Safe => PrefixIsStored
  BY DEF Safe, PrefixIsStored, Good, Covers, Kept, Known
<1>2. QED
  BY <1>1, AlwaysSafe, PTL

\* What the user cleared stays cleared.
THEOREM ClearedStaysGone == Spec => []ClearedIsGone
<1>1. TypeOK /\ Safe => ClearedIsGone
  BY DEF Safe, ClearedIsGone
<1>2. QED
  BY <1>1, AlwaysSafe, PTL

-----------------------------------------------------------------------------
(* Pages *)

\* The sync has a page in hand.
Paging == sync.pc \in {"fetched", "stored", "written"}

\* A page of a delta begins after the message it was asked for.
PageAfter == Paging /\ sync.mode = "delta" => \A s \in sync.page : s > sync.after

LEMMA NextPage ==
  ASSUME ClientAssumption, TypeOK, PageAfter, [Next]_vars
  PROVE  PageAfter'
<1>1. SyncOK
  BY TypeParts
<1>2. CASE sync' = sync
  BY <1>2 DEF PageAfter, Paging
<1>3. CASE ~Paging'
  BY <1>3 DEF PageAfter
<1>4. CASE Fetch
  <2> DEFINE p == IF sync.mode = "tail" THEN Before(log + 1) ELSE After(sync.after)
  <2>1. \A s \in After(sync.after) : s > sync.after
    BY PageType
  <2>2. PICK l : sync' = [sync EXCEPT !.pc = "fetched", !.page = p, !.from = concealed, !.last = l]
    BY <1>4, Zenon DEF Fetch
  <2>3. sync.mode = "delta" => p = After(sync.after)
    OBVIOUS
  <2> HIDE DEF p
  <2>4. sync'.mode = sync.mode /\ sync'.page = p /\ sync'.after = sync.after
    BY <1>1, <2>2 DEF SyncOK, SyncType
  <2>5. QED
    BY <2>1, <2>3, <2>4 DEF PageAfter
<1>5. CASE StorePage \/ ReadRow
  BY <1>1, <1>5 DEF StorePage, ReadRow, SyncAt, PageAfter, Paging, SyncOK, SyncType
<1>6. ASSUME NEW pc \in {"idle", "listing", "settling", "done"}, Finish(pc)
      PROVE  ~Paging'
  BY <1>6 DEF Finish, Asleep, Paging
<1>7. ASSUME NEW m, NEW a, NEW n, NEW b, sync' = Task(m, a, n, b)
      PROVE  ~Paging'
  BY <1>7 DEF Task, Asleep, Paging
<1>8. AfterTask => ~Paging'
  BY <1>6 DEF AfterTask
<1>9. ASSUME NEW pc \in {"tailed", "marking"}, NEW c, Marks(pc, c)
      PROVE  ~Paging'
  BY <1>9 DEF Marks, Asleep, Paging
<1>10. CASE List
  BY <1>3, <1>6, <1>10 DEF List, Asleep, Paging
<1>11. CASE ReadRows
  BY <1>1, <1>3, <1>11 DEF ReadRows, SyncOK, SyncType, Paging
<1>12. CASE Diff
  BY <1>3, <1>6, <1>7, <1>12 DEF Diff
<1>13. CASE WriteRow
  <2>1. CASE sync' = [sync EXCEPT !.pc = "fetching", !.after = Reached, !.page = {},
                        !.last = FALSE, !.from = 0, !.paged = TRUE, !.copy = Blank]
    BY <1>1, <1>3, <2>1 DEF SyncOK, SyncType, Paging
  <2>2. QED
    BY <1>3, <1>8, <1>9, <1>13, <2>1, Zenon DEF WriteRow, Advance
<1>14. CASE ReadTailed \/ MarkComplete
  BY <1>3, <1>8, <1>9, <1>14 DEF ReadTailed, MarkComplete
<1>15. CASE Settle
  BY <1>3, <1>6, <1>7, <1>15 DEF Settle
<1>16. CASE SyncFails \/ Crash
  <2>1. sync'.pc \in {"idle", "done"}
    BY <1>16, FailedSync DEF Crash, Finish, Asleep
  <2>2. QED
    BY <1>3, <2>1 DEF Paging
<1>17. CASE Post \/ WriteRecord \/ (\E i \in Handlers : Handle(i)) \/ UNCHANGED vars
  <2>1. sync' = sync
    BY <1>17 DEF Post, WriteRecord, Handle, vars, Receive, Store, WriteBack, BeginTouch,
       EndTouch, Scroll, FetchOlder, StoreOlder, ReadToMark, MarkStart, BeginDelete, EndDelete,
       Clear, BeginPatch, EndPatch, HandlerFails
  <2>2. QED
    BY <1>2, <2>1
<1>18. QED
  BY <1>4, <1>5, <1>10, <1>11, <1>12, <1>13, <1>14, <1>15, <1>16, <1>17 DEF Next, SyncStep

\* Each page a sync asks for begins after the one before, and the loop ends at
\* the sequence it set out for.
THEOREM SyncAdvances == Spec => PagesAdvance
<1> USE ClientAssumption
<1>1. Init => TypeOK /\ PageAfter
  BY InitType DEF Init, PageAfter, Paging, Task, Asleep
<1>2. TypeOK /\ PageAfter /\ [Next]_vars => TypeOK' /\ PageAfter'
  BY NextType, NextPage
<1>3. TypeOK /\ PageAfter /\ [Next]_vars =>
        [sync.pc = "written" /\ sync'.pc = "fetching"
           => sync'.after > sync.after /\ sync'.after < sync'.target]_vars
  <2> SUFFICES ASSUME TypeOK, PageAfter, [Next]_vars, sync.pc = "written", sync'.pc = "fetching"
               PROVE  sync'.after > sync.after /\ sync'.after < sync'.target
    OBVIOUS
  <2>0. SyncOK
    BY TypeParts
  <2>1. WriteRow
    <3>1. ASSUME Finish("idle") PROVE sync'.pc = "idle"
      BY <3>1 DEF Finish, Asleep
    <3>2. sync' # sync
      OBVIOUS
    <3>3. ~(\E i \in Handlers : Handle(i)) /\ ~Post /\ ~WriteRecord
      BY <3>2 DEF Post, WriteRecord, Handle, Receive, Store, WriteBack, BeginTouch,
         EndTouch, Scroll, FetchOlder, StoreOlder, ReadToMark, MarkStart, BeginDelete, EndDelete,
         Clear, BeginPatch, EndPatch, HandlerFails
    <3>4. ~Crash /\ ~SyncFails
      BY <3>1, FailedSync DEF Crash
    <3>5. QED
      BY <3>2, <3>3, <3>4 DEF Next, SyncStep, List, ReadRows, Diff, Fetch, StorePage, ReadRow,
         ReadTailed, MarkComplete, Settle, SyncAt, vars
  <2>2. /\ sync.mode # "tail" /\ ~(sync.page = {} \/ Reached >= sync.target)
        /\ sync' = [sync EXCEPT !.pc = "fetching", !.after = Reached, !.page = {},
                      !.last = FALSE, !.from = 0, !.paged = TRUE, !.copy = Blank]
    <3>1. ~AfterTask
      BY DEF AfterTask, Finish, Asleep
    <3>2. ~Marks("tailed", Blank)
      BY DEF Marks, Asleep
    <3>3. QED
      BY <2>1, <3>1, <3>2, Zenon DEF WriteRow, Advance
  <2>3. sync.mode = "delta" /\ sync.page # {} /\ ~(Reached >= sync.target)
    BY <2>0, <2>2 DEF SyncOK, SyncType
  <2>4. Reached \in 0 .. MaxLog /\ \A s \in sync.page : s <= Reached
    BY <2>0, ReachedType
  <2>5. PICK s \in sync.page : s > sync.after
    BY <2>3 DEF PageAfter, Paging
  <2>6. s \in 0 .. MaxLog /\ sync.after \in 0 .. MaxLog /\ sync.target \in 0 .. MaxLog
    BY <2>0 DEF SyncOK, SyncType, ClientAssumption
  <2>7. sync'.after = Reached /\ sync'.target = sync.target
    BY <2>0, <2>2 DEF SyncOK, SyncType
  <2>8. QED
    BY <2>3, <2>4, <2>5, <2>6, <2>7
<1>4. QED
  BY <1>1, <1>2, <1>3, PTL DEF Spec, PagesAdvance

=============================================================================
