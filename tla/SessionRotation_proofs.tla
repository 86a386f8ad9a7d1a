------------------------ MODULE SessionRotation_proofs ------------------------
(***************************************************************************)
(* Theorems about SessionRotation, for any processes and requests, any     *)
(* number of rotations and any faults.                                     *)
(***************************************************************************)
EXTENDS SessionRotation, TLAPS

-----------------------------------------------------------------------------
(* Types *)

FlightPcs == {"none", "sent", "unknown", "found", "granted", "denied", "broken", "hung"}
FlightStates == [pc : FlightPcs, rt : Nat \cup {None}, at : Tokens \cup {None}, next : Nat \cup {None}]
ReqPcs == {"idle", "sent", "refused", "waiting", "retry", "gone", "failed"}
ReqStates == [pc : ReqPcs, token : Tokens \cup {None}, again : BOOLEAN]
StoreOK == store \in [at : Tokens \cup {None}, rt : Nat \cup {None}]
RestOK == /\ app \in Apps /\ lapsed \subseteq Nat
          /\ cooldown \in [Tabs -> BOOLEAN] /\ spent \subseteq Nat
          /\ overlap \in BOOLEAN /\ out \in BOOLEAN /\ outrun \in BOOLEAN
          /\ used \subseteq Faults

LEMMA TypeParts ==
  TypeOK <=> /\ RowOK /\ StoreOK /\ RestOK
             /\ flight \in [Tabs -> FlightStates] /\ req \in [Requests -> ReqStates]
BY DEF TypeOK, RowOK, StoreOK, RestOK, FlightOK, ReqOK, FlightStates, FlightPcs, ReqStates, ReqPcs

LEMMA Constants ==
  /\ Rest \in FlightStates /\ Idle \in ReqStates
  /\ NoStore \in [at : Tokens \cup {None}, rt : Nat \cup {None}]
BY DEF Rest, Idle, NoStore, FlightStates, FlightPcs, ReqStates, ReqPcs

LEMMA SpendType ==
  ASSUME used \subseteq Faults, NEW k \in Faults, Spend(k)
  PROVE  used' \subseteq Faults
BY DEF Spend

LEMMA LaunchType ==
  ASSUME StoreOK, RestOK, flight \in [Tabs -> FlightStates], NEW p \in Tabs, Launch(p)
  PROVE  flight' \in [Tabs -> FlightStates] /\ overlap' \in BOOLEAN
<1>1. [Rest EXCEPT !.pc = "sent", !.rt = store.rt] \in FlightStates
  BY Constants DEF StoreOK, FlightStates, FlightPcs
<1>2. flight' \in [Tabs -> FlightStates]
  BY <1>1 DEF Launch
<1>3. overlap' \in BOOLEAN
  BY Zenon DEF Launch, RestOK
<1>4. QED
  BY <1>2, <1>3

LEMMA SettleType ==
  ASSUME flight \in [Tabs -> FlightStates], req \in [Requests -> ReqStates],
         NEW p \in Tabs, NEW pc \in ReqPcs, Settle(p, pc)
  PROVE  flight' \in [Tabs -> FlightStates] /\ req' \in [Requests -> ReqStates]
<1>1. flight' \in [Tabs -> FlightStates]
  BY Constants DEF Settle
<1>2. \A r \in Requests : [req[r] EXCEPT !.pc = pc] \in ReqStates
  BY DEF ReqStates
<1>3. req' \in [Requests -> ReqStates]
  BY <1>2 DEF Settle
<1>4. QED
  BY <1>1, <1>3

LEMMA ExpireType ==
  ASSUME RowOK, Expire
  PROVE  RowOK'
BY DEF RowOK, Expire

LEMMA RefreshingType ==
  ASSUME TypeOK, NEW p \in Tabs, Refreshing(p)
  PROVE  TypeOK'
<1>1. /\ RowOK /\ StoreOK /\ RestOK
      /\ flight \in [Tabs -> FlightStates] /\ req \in [Requests -> ReqStates]
  BY TypeParts
<1>2. SUFFICES /\ RowOK' /\ StoreOK' /\ RestOK'
               /\ flight' \in [Tabs -> FlightStates] /\ req' \in [Requests -> ReqStates]
  BY DEF TypeOK, RowOK, StoreOK, RestOK, FlightOK, ReqOK, FlightStates, FlightPcs, ReqStates, ReqPcs
<1>a. row' = row => RowOK'
  BY <1>1 DEF RowOK
<1>b. store' = store => StoreOK'
  BY <1>1 DEF StoreOK
<1>c. UNCHANGED <<app, lapsed, cooldown, spent, history, used>> => RestOK'
  BY <1>1 DEF RestOK, history
<1>d. {"none", "sent", "unknown", "found", "granted", "denied", "broken", "hung"} = FlightPcs
  BY DEF FlightPcs
<1>e. /\ flight[p].rt \in Nat \cup {None} /\ flight[p].at \in Tokens \cup {None}
      /\ flight[p].next \in Nat \cup {None}
      /\ row.rt \in Nat /\ row.jti \in Nat
  BY <1>1 DEF FlightStates, RowOK
<1>3. CASE FindCurrent(p)
  <2>1. \E pc \in {"unknown", "found", "denied"} : flight' = [flight EXCEPT ![p].pc = pc]
    BY <1>3 DEF FindCurrent
  <2>2. flight' \in [Tabs -> FlightStates]
    BY <1>1, <1>d, <2>1 DEF FlightStates
  <2>3. RowOK'
    BY <1>1, <1>3, <1>a, ExpireType DEF FindCurrent
  <2>4. QED
    BY <1>1, <1>3, <1>b, <1>c, <2>2, <2>3 DEF FindCurrent
<1>4. CASE FindPrevious(p)
  <2>1. <<row.jti, 1>> \in Tokens
    BY <1>e DEF Tokens
  <2>2. flight' \in [Tabs -> FlightStates]
    <3> DEFINE a == <<row.jti, 1>>
               n == flight[p].rt
    <3>1. flight' = [flight EXCEPT ![p].pc = "granted", ![p].at = a, ![p].next = n]
            \/ flight' = [flight EXCEPT ![p].pc = "denied"]
      BY <1>4, Zenon DEF FindPrevious
    <3>2. a \in Tokens \cup {None} /\ n \in Nat \cup {None}
      BY <1>e, <2>1
    <3> HIDE DEF a, n
    <3>3. QED
      BY <1>1, <1>d, <3>1, <3>2 DEF FlightStates
  <2>3. QED
    BY <1>1, <1>4, <1>a, <1>b, <1>c, <2>2 DEF FindPrevious, server
<1>5. CASE Rotate(p)
  <2>1. <<row.jti + 1, 0>> \in Tokens /\ row.rt + 1 \in Nat
    BY <1>e DEF Tokens
  <2>2. flight' \in [Tabs -> FlightStates]
    <3> DEFINE a == <<row.jti + 1, 0>>
               n == row.rt + 1
    <3>1. \/ flight' = [flight EXCEPT ![p].pc = "granted", ![p].at = a, ![p].next = n]
          \/ \E pc \in {"broken", "denied"} : flight' = [flight EXCEPT ![p].pc = pc]
      BY <1>5, Zenon DEF Rotate
    <3>2. a \in Tokens \cup {None} /\ n \in Nat \cup {None}
      BY <2>1
    <3> HIDE DEF a, n
    <3>3. QED
      BY <1>1, <1>d, <3>1, <3>2 DEF FlightStates
  <2>3. "lost" \in Faults
    BY DEF Faults
  <2>4. used' \subseteq Faults
    BY <1>1, <1>5, <2>3, SpendType DEF Rotate, RestOK
  <2>5. RowOK' /\ spent' \subseteq Nat
    <3>1. CASE MayRotate(flight[p].rt)
      <4>1. flight[p].rt = row.rt
        BY <3>1 DEF MayRotate
      <4>2. row' = Rotated(row.rt) /\ spent' = spent \cup {row.rt}
        BY <1>5, <3>1, <4>1 DEF Rotate
      <4>3. Rotated(row.rt) \in [status : {"active", "revoked", "expired"}, live : BOOLEAN,
                  rt : Nat, jti : Nat, prevRt : Nat \cup {None}, prevJti : Nat \cup {None},
                  rtGrace : BOOLEAN, jtiGrace : BOOLEAN]
        <5>1. row.rt + 1 \in Nat /\ row.jti + 1 \in Nat
              /\ row.rt \in Nat \cup {None} /\ row.jti \in Nat \cup {None}
          BY <1>e
        <5>2. QED
          BY <1>1, <5>1 DEF Rotated, RowOK
      <4>4. RowOK'
        BY <4>2, <4>3 DEF RowOK
      <4>5. spent' \subseteq Nat
        BY <1>1, <1>e, <4>2 DEF RestOK
      <4>6. QED
        BY <4>4, <4>5
    <3>2. CASE ~MayRotate(flight[p].rt)
      BY <1>1, <1>5, <1>a, <3>2 DEF Rotate, RestOK
    <3>3. QED
      BY <3>1, <3>2
  <2>6. outrun' \in BOOLEAN
    BY <1>1, <1>5, Zenon DEF Rotate, RestOK
  <2>7. QED
    BY <1>1, <1>5, <1>b, <2>2, <2>4, <2>5, <2>6 DEF Rotate, RestOK
<1>6. CASE Settled(p)
  <2>1. StoreOK'
    BY <1>1, <1>6, <1>b, <1>e, Constants DEF Settled, StoreOK
  <2>2. {"retry", "gone", "failed"} \subseteq ReqPcs
    BY DEF ReqPcs
  <2>3. flight' \in [Tabs -> FlightStates] /\ req' \in [Requests -> ReqStates]
    BY <1>1, <1>6, <2>2, SettleType DEF Settled
  <2>4. QED
    BY <1>6, <1>a, <1>c, <2>1, <2>3 DEF Settled, server
<1>7. QED
  BY <1>3, <1>4, <1>5, <1>6 DEF Refreshing

LEMMA ServingType ==
  ASSUME SessionAssumption, TypeOK, NEW r \in Requests, Serving(r) \/ Send(r) \/ Breaks(r)
  PROVE  TypeOK'
<1>1. /\ RowOK /\ StoreOK /\ RestOK
      /\ flight \in [Tabs -> FlightStates] /\ req \in [Requests -> ReqStates]
  BY TypeParts
<1>2. SUFFICES /\ RowOK' /\ StoreOK' /\ RestOK'
               /\ flight' \in [Tabs -> FlightStates] /\ req' \in [Requests -> ReqStates]
  BY DEF TypeOK, RowOK, StoreOK, RestOK, FlightOK, ReqOK, FlightStates, FlightPcs, ReqStates, ReqPcs
<1>a. row' = row => RowOK'
  BY <1>1 DEF RowOK
<1>b. store' = store => StoreOK'
  BY <1>1 DEF StoreOK
<1>c. UNCHANGED <<app, lapsed, cooldown, spent, history, used>> => RestOK'
  BY <1>1 DEF RestOK, history
<1>d. ReqPcs = {"idle", "sent", "refused", "waiting", "retry", "gone", "failed"}
  BY DEF ReqPcs
<1>e. TabOf[r] \in Tabs /\ store.at \in Tokens \cup {None}
  BY <1>1 DEF SessionAssumption, StoreOK
<1>f. /\ \A pc \in ReqPcs : [req EXCEPT ![r].pc = pc] \in [Requests -> ReqStates]
      /\ [req EXCEPT ![r] = Idle] \in [Requests -> ReqStates]
      /\ \A b \in BOOLEAN :
           [req EXCEPT ![r] = [pc |-> "sent", token |-> store.at, again |-> b]]
             \in [Requests -> ReqStates]
  BY <1>1, <1>d, <1>e, Constants DEF ReqStates
<1>3. CASE Send(r)
  BY <1>1, <1>3, <1>a, <1>b, <1>c, <1>f DEF Send, server
<1>4. CASE Answer(r)
  <2>1. req' \in [Requests -> ReqStates]
    BY <1>4, <1>d, <1>f DEF Answer
  <2>2. RowOK'
    BY <1>1, <1>4, <1>a, ExpireType DEF Answer
  <2>3. "forbidden" \in Faults
    BY DEF Faults
  <2>4. used' \subseteq Faults
    BY <1>1, <1>4, <2>3, SpendType DEF Answer, RestOK
  <2>5. QED
    BY <1>1, <1>4, <1>b, <2>1, <2>2, <2>4 DEF Answer, RestOK, history
<1>5. CASE Breaks(r)
  BY <1>1, <1>5, <1>a, <1>b, <1>c, <1>f DEF Breaks, server
<1>6. CASE Refused(r)
  <2>1. req' \in [Requests -> ReqStates]
    BY <1>6, <1>d, <1>f DEF Refused, Resend
  <2>2. flight' \in [Tabs -> FlightStates] /\ overlap' \in BOOLEAN
    <3>1. CASE Launch(TabOf[r])
      BY <1>1, <1>e, <3>1, LaunchType
    <3>2. CASE UNCHANGED <<flight, overlap>>
      BY <1>1, <3>2 DEF RestOK
    <3>3. QED
      BY <1>6, <3>1, <3>2, Zenon DEF Refused
  <2>3. QED
    BY <1>1, <1>6, <1>a, <1>b, <2>1, <2>2 DEF Refused, RestOK, server
<1>7. CASE Retry(r)
  BY <1>1, <1>7, <1>a, <1>b, <1>e, <1>f DEF Retry, Resend, RestOK, server, history
<1>8. CASE GiveUp(r)
  BY <1>1, <1>8, <1>a, <1>b, <1>c, <1>f DEF GiveUp, server
<1>9. CASE Unauthorized(r)
  <2>1. StoreOK'
    BY <1>9, Constants DEF Unauthorized, StoreOK
  <2>2. QED
    BY <1>1, <1>9, <1>a, <1>c, <1>f, <2>1 DEF Unauthorized, server
<1>10. QED
  BY <1>3, <1>4, <1>5, <1>6, <1>7, <1>8, <1>9 DEF Serving

LEMMA InitType ==
  ASSUME SessionAssumption, Init
  PROVE  TypeOK
<1>1. RowOK
  BY DEF Init, RowOK
<1>2. StoreOK
  BY DEF Init, StoreOK, Tokens
<1>3. flight \in [Tabs -> FlightStates] /\ req \in [Requests -> ReqStates]
  BY Constants DEF Init
<1>4. RestOK
  BY DEF Init, RestOK
<1>5. QED
  BY <1>1, <1>2, <1>3, <1>4, TypeParts

LEMMA NextType ==
  ASSUME SessionAssumption, TypeOK, [Next]_vars
  PROVE  TypeOK'
<1>1. /\ RowOK /\ StoreOK /\ RestOK
      /\ flight \in [Tabs -> FlightStates] /\ req \in [Requests -> ReqStates]
  BY TypeParts
<1>2. SUFFICES ASSUME ~TypeOK' PROVE FALSE
  OBVIOUS
<1>3. ~(/\ RowOK' /\ StoreOK' /\ RestOK'
        /\ flight' \in [Tabs -> FlightStates] /\ req' \in [Requests -> ReqStates])
  BY <1>2 DEF TypeOK, RowOK, StoreOK, RestOK, FlightOK, ReqOK, FlightStates, FlightPcs, ReqStates, ReqPcs
<1>a. row' = row => RowOK'
  BY <1>1 DEF RowOK
<1>b. store' = store => StoreOK'
  BY <1>1 DEF StoreOK
<1>c. UNCHANGED client => StoreOK' /\ flight' = flight /\ req' = req /\ cooldown' = cooldown
  BY <1>b DEF client
<1>k. {"fail", "slow", "hang"} \subseteq Faults /\ "broken" \in FlightPcs
  BY DEF Faults, FlightPcs
<1>4. ASSUME NEW p \in Tabs, RefreshFails(p) PROVE FALSE
  <2>1. flight' \in [Tabs -> FlightStates]
    BY <1>1, <1>4, <1>k DEF RefreshFails, FlightStates
  <2>2. used' \subseteq Faults
    BY <1>1, <1>4, <1>k, SpendType DEF RefreshFails, RestOK
  <2>3. QED
    BY <1>1, <1>3, <1>4, <1>a, <1>b, <2>1, <2>2 DEF RefreshFails, RestOK, server, history
<1>h. ASSUME NEW p \in Tabs, Hang(p) PROVE FALSE
  <2>1. [Rest EXCEPT !.pc = "hung", !.rt = flight[p].rt] \in FlightStates
    BY <1>1, Constants DEF FlightStates, FlightPcs
  <2>2. flight' \in [Tabs -> FlightStates]
    BY <1>1, <1>h, <2>1 DEF Hang
  <2>3. used' \subseteq Faults
    BY <1>1, <1>h, <1>k, SpendType DEF Hang, RestOK
  <2>4. QED
    BY <1>1, <1>3, <1>h, <1>a, <1>b, <2>2, <2>3 DEF Hang, RestOK, server, history
<1>5. ASSUME NEW p \in Tabs, RefreshAhead(p) PROVE FALSE
  <2>1. flight' \in [Tabs -> FlightStates] /\ overlap' \in BOOLEAN
    BY <1>1, <1>5, LaunchType DEF RefreshAhead
  <2>2. QED
    BY <1>1, <1>3, <1>5, <1>a, <1>b, <2>1 DEF RefreshAhead, RestOK, server
<1>6. ASSUME NEW p \in Tabs, CooldownEnds(p) PROVE FALSE
  BY <1>1, <1>3, <1>6, <1>a, <1>b DEF CooldownEnds, RestOK, server, history
<1>7. CASE Revoke
  <2>1. RowOK'
    BY <1>1, <1>7 DEF Revoke, RowOK
  <2>2. QED
    BY <1>1, <1>3, <1>7, <1>c, <2>1 DEF Revoke, RestOK, history
<1>8. CASE GraceEnds
  <2>1. RowOK'
    BY <1>1, <1>8 DEF GraceEnds, RowOK
  <2>2. used' \subseteq Faults
    BY <1>1, <1>8, <1>k, SpendType DEF GraceEnds, RestOK
  <2>3. QED
    BY <1>1, <1>3, <1>8, <1>c, <2>1, <2>2 DEF GraceEnds, RestOK, history
<1>9. CASE SessionExpires
  <2>1. RowOK'
    BY <1>1, <1>9 DEF SessionExpires, RowOK
  <2>2. QED
    BY <1>1, <1>3, <1>9, <1>c, <2>1 DEF SessionExpires, RestOK, history
<1>10. CASE AccessLapses
  <2>1. lapsed' \subseteq Nat
    BY <1>1, <1>10 DEF AccessLapses, RestOK, RowOK
  <2>2. QED
    BY <1>1, <1>3, <1>10, <1>a, <1>c, <2>1 DEF AccessLapses, RestOK, history
<1>11. CASE Logout
  <2>1. RowOK'
    BY <1>1, <1>11, <1>a DEF Logout, RowOK
  <2>2. StoreOK'
    BY <1>11, Constants DEF Logout, StoreOK
  <2>3. QED
    BY <1>1, <1>3, <1>11, <2>1, <2>2 DEF Logout, RestOK
<1>12. CASE UNCHANGED vars
  BY <1>1, <1>3, <1>12, <1>a, <1>b DEF vars, RestOK, server, client, history
<1>13. QED
  BY <1>2, <1>4, <1>h, <1>5, <1>6, <1>7, <1>8, <1>9, <1>10, <1>11, <1>12,
     RefreshingType, ServingType DEF Next

\* The session's row, the token store, refreshes and requests hold values of
\* their types.
THEOREM TypeCorrect == Spec => []TypeOK
<1> USE SessionAssumption
<1>1. Init => TypeOK
  BY InitType
<1>2. TypeOK /\ [Next]_vars => TypeOK'
  BY NextType
<1>3. QED
  BY <1>1, <1>2, PTL DEF Spec

-----------------------------------------------------------------------------
(* What becomes of the row *)

Rotates == \E p \in Tabs : Rotate(p) /\ MayRotate(flight[p].rt)

\* But for a rotation, the row keeps its tokens, and a session that lives or a
\* window that is open was so before.
Fades ==
  /\ row'.rt = row.rt /\ row'.prevRt = row.prevRt
  /\ Alive' => Alive
  /\ row'.rtGrace => row.rtGrace

LEMMA ExpireFades ==
  ASSUME RowOK, Expire
  PROVE  Fades
BY DEF RowOK, Expire, Fades, Alive

LEMMA RowFades ==
  ASSUME TypeOK, [Next]_vars, ~Rotates
  PROVE  Fades /\ spent' = spent
<1>1. RowOK
  BY TypeParts
<1>2. row' = row => Fades
  BY DEF Fades, Alive
<1>3. ASSUME NEW p \in Tabs,
             Refreshing(p) \/ RefreshFails(p) \/ Hang(p) \/ RefreshAhead(p) \/ CooldownEnds(p)
      PROVE  Fades /\ spent' = spent
  <2>1. CASE FindCurrent(p)
    BY <1>1, <1>2, <2>1, ExpireFades DEF FindCurrent
  <2>2. CASE Rotate(p)
    BY <1>2, <2>2, Zenon DEF Rotate, Rotates
  <2>3. CASE FindPrevious(p) \/ Settled(p) \/ RefreshFails(p) \/ Hang(p) \/ RefreshAhead(p)
          \/ CooldownEnds(p)
    BY <1>2, <2>3 DEF FindPrevious, Settled, RefreshFails, Hang, RefreshAhead, CooldownEnds, server
  <2>4. QED
    BY <1>3, <2>1, <2>2, <2>3 DEF Refreshing
<1>4. ASSUME NEW r \in Requests, Send(r) \/ Serving(r) \/ Breaks(r)
      PROVE  Fades /\ spent' = spent
  <2>1. CASE Answer(r)
    BY <1>1, <1>2, <2>1, ExpireFades DEF Answer
  <2>2. CASE Send(r) \/ Breaks(r) \/ Refused(r) \/ Retry(r) \/ GiveUp(r) \/ Unauthorized(r)
    BY <1>2, <2>2 DEF Send, Breaks, Refused, Retry, GiveUp, Unauthorized, server
  <2>3. QED
    BY <1>4, <2>1, <2>2 DEF Serving
<1>5. CASE Revoke
  BY <1>1, <1>5 DEF Revoke, RowOK, Fades, Alive
<1>6. CASE GraceEnds
  BY <1>1, <1>6 DEF GraceEnds, RowOK, Fades, Alive
<1>7. CASE SessionExpires
  BY <1>1, <1>7 DEF SessionExpires, RowOK, Fades, Alive
<1>8. CASE AccessLapses
  BY <1>2, <1>8 DEF AccessLapses
<1>9. CASE Logout
  BY <1>1, <1>9 DEF Logout, RowOK, Fades, Alive
<1>10. CASE UNCHANGED vars
  BY <1>2, <1>10 DEF vars, server
<1>11. QED
  BY <1>3, <1>4, <1>5, <1>6, <1>7, <1>8, <1>9, <1>10 DEF Next

LEMMA RotatesFacts ==
  ASSUME TypeOK, NEW p \in Tabs, Rotate(p), MayRotate(flight[p].rt)
  PROVE  /\ row'.rt = row.rt + 1 /\ row'.prevRt = row.rt
         /\ spent' = spent \cup {row.rt} /\ row.rt \in Nat
<1>1. RowOK
  BY TypeParts
<1>2. flight[p].rt = row.rt
  BY DEF MayRotate
<1>3. row' = Rotated(row.rt) /\ spent' = spent \cup {row.rt}
  BY <1>2 DEF Rotate
<1>4. QED
  BY <1>1, <1>3 DEF Rotated, RowOK

\* Tokens that were rotated away are older than the one of the row.
SpentBelow == \A n \in spent : n < row.rt

LEMMA NextBelow ==
  ASSUME TypeOK, SpentBelow, [Next]_vars
  PROVE  SpentBelow' /\ (row'.rt # row.rt => spent' # spent)
<1>1. CASE Rotates
  <2>1. PICK p \in Tabs : Rotate(p) /\ MayRotate(flight[p].rt)
    BY <1>1 DEF Rotates
  <2>2. /\ row'.rt = row.rt + 1 /\ spent' = spent \cup {row.rt} /\ row.rt \in Nat
    BY <2>1, RotatesFacts
  <2>3. row.rt \notin spent
    BY <2>2 DEF SpentBelow
  <2>4. spent \subseteq Nat
    BY DEF TypeOK
  <2>5. QED
    BY <2>2, <2>3, <2>4 DEF SpentBelow
<1>2. CASE ~Rotates
  BY <1>2, RowFades DEF Fades, SpentBelow
<1>3. QED
  BY <1>1, <1>2

\* No refresh token is exchanged for a new one twice.
THEOREM EveryRotationSpends == Spec => RotationSpends
<1> USE SessionAssumption
<1>1. Init => TypeOK /\ SpentBelow
  BY InitType DEF Init, SpentBelow
<1>2. TypeOK /\ SpentBelow /\ [Next]_vars => TypeOK' /\ SpentBelow'
  BY NextType, NextBelow
<1>3. TypeOK /\ SpentBelow /\ [Next]_vars => [row'.rt # row.rt => spent' # spent]_vars
  BY NextBelow
<1>4. QED
  BY <1>1, <1>2, <1>3, PTL DEF Spec, RotationSpends

-----------------------------------------------------------------------------
(* Refreshes that run alone *)

\* What the server has told a refresh f still goes for the row r.
Told(f, r) ==
  /\ f.pc = "unknown" => f.rt # r.rt
  /\ f.pc = "found" => f.rt = r.rt
  /\ f.pc = "denied" /\ r.status = "active" /\ r.live =>
        f.rt # r.rt /\ ~(f.rt + 1 = r.rt /\ r.rtGrace)

\* Every refresh presents a token; an open window is that of the token before;
\* and refreshes that do not overlap are one at most, and well told.
Alone ==
  /\ \A p \in Tabs : flight[p].pc # "none" => flight[p].rt \in Nat
  /\ row.rtGrace => row.prevRt \in Nat /\ row.prevRt + 1 = row.rt
  /\ ~overlap => /\ \A p, q \in Tabs : flight[p].pc # "none" /\ flight[q].pc # "none" => p = q
                 /\ \A p \in Tabs : Told(flight[p], row)

LEMMA ToldFades ==
  ASSUME Fades, NEW f, Told(f, row)
  PROVE  Told(f, row')
BY DEF Fades, Told, Alive

\* A step of the refresh of p that goes on with x.
LEMMA FlightAlone ==
  ASSUME TypeOK, Alone, Fades, overlap' = overlap, NEW p \in Tabs, NEW x,
         flight' = [flight EXCEPT ![p] = x],
         x.pc # "none" => flight[p].pc # "none" /\ x.rt = flight[p].rt,
         ~overlap => Told(x, row')
  PROVE  Alone'
<1>0. flight \in [Tabs -> FlightStates]
  BY TypeParts
<1>1. \A q \in Tabs : flight'[q] = IF q = p THEN x ELSE flight[q]
  BY <1>0
<1>2. \A q \in Tabs : flight'[q].pc # "none" => flight[q].pc # "none" /\ flight'[q].rt = flight[q].rt
  BY <1>1
<1>3. \A q \in Tabs : flight'[q].pc # "none" => flight'[q].rt \in Nat
  BY <1>2 DEF Alone
<1>4. row'.rtGrace => row'.prevRt \in Nat /\ row'.prevRt + 1 = row'.rt
  BY DEF Fades, Alone
<1>5. ~overlap => \A q \in Tabs : Told(flight[q], row')
  BY ToldFades DEF Alone
<1>6. ~overlap => \A q \in Tabs : Told(flight'[q], row')
  BY <1>1, <1>5
<1>7. QED
  BY <1>2, <1>3, <1>4, <1>6 DEF Alone

LEMMA FadesAlone ==
  ASSUME TypeOK, Alone, Fades, UNCHANGED <<flight, overlap>>
  PROVE  Alone'
<1>1. ~overlap => \A q \in Tabs : Told(flight[q], row')
  BY ToldFades DEF Alone
<1>2. row'.rtGrace => row'.prevRt \in Nat /\ row'.prevRt + 1 = row'.rt
  BY DEF Fades, Alone
<1>3. QED
  BY <1>1, <1>2 DEF Alone

LEMMA LaunchAlone ==
  ASSUME TypeOK, Alone, NEW p \in Tabs, flight[p].pc = "none", store.rt # None, Launch(p),
         row' = row
  PROVE  Alone'
<1>0. flight \in [Tabs -> FlightStates] /\ store.rt \in Nat
  BY TypeParts DEF StoreOK
<1> DEFINE x == [Rest EXCEPT !.pc = "sent", !.rt = store.rt]
<1>1. x.pc = "sent" /\ x.rt = store.rt
  BY DEF Rest
<1>2. flight' = [flight EXCEPT ![p] = x]
  BY DEF Launch
<1> HIDE DEF x
<1>3. \A q \in Tabs : flight'[q] = IF q = p THEN x ELSE flight[q]
  BY <1>0, <1>2
<1>4. \A q \in Tabs : flight'[q].pc # "none" => flight'[q].rt \in Nat
  BY <1>0, <1>1, <1>3 DEF Alone
<1>5. ~overlap' => ~overlap /\ \A q \in Tabs \ {p} : flight[q].pc = "none"
  BY DEF Launch
<1>6. Told(x, row)
  BY <1>1 DEF Told
<1>7. ~overlap' => /\ \A q, r \in Tabs : flight'[q].pc # "none" /\ flight'[r].pc # "none" => q = r
                   /\ \A q \in Tabs : Told(flight'[q], row')
  BY <1>3, <1>5, <1>6 DEF Alone
<1>8. QED
  BY <1>4, <1>7 DEF Alone

LEMMA RotateAlone ==
  ASSUME TypeOK, Alone, NEW p \in Tabs, Rotate(p), MayRotate(flight[p].rt)
  PROVE  Alone'
<1>0. flight \in [Tabs -> FlightStates]
  BY TypeParts
<1>1. row'.rt = row.rt + 1 /\ row'.prevRt = row.rt /\ row.rt \in Nat
  BY RotatesFacts
<1>2. overlap' = overlap /\ flight[p].pc = "found"
  BY DEF Rotate, history
<1>3. PICK x : /\ flight' = [flight EXCEPT ![p] = x]
               /\ x.pc \in {"granted", "broken"} /\ x.rt = flight[p].rt
  <2> DEFINE g == [flight[p] EXCEPT !.pc = "granted", !.at = <<row.jti + 1, 0>>, !.next = row.rt + 1]
             b == [flight[p] EXCEPT !.pc = "broken"]
  <2>1. flight' = [flight EXCEPT ![p] = g] \/ flight' = [flight EXCEPT ![p] = b]
    BY DEF Rotate
  <2>2. /\ g.pc = "granted" /\ g.rt = flight[p].rt
        /\ b.pc = "broken" /\ b.rt = flight[p].rt
    BY <1>0 DEF FlightStates
  <2> HIDE DEF g, b
  <2>3. QED
    BY <2>1, <2>2
<1>4. \A q \in Tabs : flight'[q] = IF q = p THEN x ELSE flight[q]
  BY <1>0, <1>3
<1>5. \A q \in Tabs : flight'[q].pc # "none" => flight[q].pc # "none" /\ flight'[q].rt \in Nat
  BY <1>2, <1>3, <1>4 DEF Alone
<1>6. ~overlap => \A q \in Tabs \ {p} : flight[q].pc = "none"
  BY <1>2 DEF Alone
<1>7. ~overlap => \A q \in Tabs : Told(flight'[q], row')
  BY <1>3, <1>4, <1>6 DEF Told
<1>8. QED
  BY <1>1, <1>2, <1>5, <1>7 DEF Alone

LEMMA RefreshingAlone ==
  ASSUME TypeOK, Alone, NEW p \in Tabs, Refreshing(p) \/ RefreshFails(p) \/ Hang(p), Fades
  PROVE  Alone'
<1>0. flight \in [Tabs -> FlightStates] /\ RowOK
  BY TypeParts
<1>1. overlap' = overlap
  BY DEF Refreshing, FindCurrent, FindPrevious, Rotate, Settled, RefreshFails, Hang, history
<1>2. ASSUME NEW pc \in FlightPcs, flight[p].pc # "none",
             flight' = [flight EXCEPT ![p].pc = pc],
             ~overlap => Told([flight[p] EXCEPT !.pc = pc], row')
      PROVE  Alone'
  <2> DEFINE x == [flight[p] EXCEPT !.pc = pc]
  <2>1. x.rt = flight[p].rt
    BY <1>0 DEF FlightStates
  <2>2. flight' = [flight EXCEPT ![p] = x]
    BY <1>2
  <2> HIDE DEF x
  <2>3. ~overlap => Told(x, row')
    BY <1>2 DEF x
  <2>4. QED
    BY <1>1, <1>2, <2>1, <2>2, <2>3, FlightAlone
<1>3. \A pc \in FlightPcs :
         /\ [flight[p] EXCEPT !.pc = pc].pc = pc
         /\ [flight[p] EXCEPT !.pc = pc].rt = flight[p].rt
  BY <1>0 DEF FlightStates
<1>4. {"none", "sent", "unknown", "found", "granted", "denied", "broken", "hung"} = FlightPcs
  BY DEF FlightPcs
<1>5. CASE FindCurrent(p)
  <2>1. CASE flight[p].rt # row.rt
    <3>1. flight' = [flight EXCEPT ![p].pc = "unknown"] /\ row' = row
      BY <1>5, <2>1 DEF FindCurrent
    <3>2. Told([flight[p] EXCEPT !.pc = "unknown"], row')
      BY <1>3, <1>4, <2>1, <3>1 DEF Told
    <3>3. QED
      BY <1>2, <1>4, <1>5, <3>1, <3>2 DEF FindCurrent
  <2>2. CASE flight[p].rt = row.rt /\ Alive
    <3>1. flight' = [flight EXCEPT ![p].pc = "found"] /\ row'.rt = row.rt
      BY <1>5, <2>2 DEF FindCurrent, Fades
    <3>2. Told([flight[p] EXCEPT !.pc = "found"], row')
      BY <1>3, <1>4, <2>2, <3>1 DEF Told
    <3>3. QED
      BY <1>2, <1>4, <1>5, <3>1, <3>2 DEF FindCurrent
  <2>3. CASE flight[p].rt = row.rt /\ ~Alive
    <3>1. flight' = [flight EXCEPT ![p].pc = "denied"] /\ ~Alive'
      BY <1>5, <2>3 DEF FindCurrent, Fades
    <3>2. Told([flight[p] EXCEPT !.pc = "denied"], row')
      BY <1>3, <1>4, <3>1 DEF Told, Alive
    <3>3. QED
      BY <1>2, <1>4, <1>5, <3>1, <3>2 DEF FindCurrent
  <2>4. QED
    BY <2>1, <2>2, <2>3
<1>6. CASE FindPrevious(p)
  <2>1. row' = row
    BY <1>6 DEF FindPrevious, server
  <2>2. CASE flight[p].rt = row.prevRt /\ row.status = "active" /\ row.rtGrace
    <3> DEFINE x == [flight[p] EXCEPT !.pc = "granted", !.at = <<row.jti, 1>>, !.next = flight[p].rt]
    <3>1. flight' = [flight EXCEPT ![p] = x]
      BY <1>6, <2>2 DEF FindPrevious
    <3>2. x.pc = "granted" /\ x.rt = flight[p].rt
      BY <1>0 DEF FlightStates
    <3> HIDE DEF x
    <3>3. Told(x, row')
      BY <3>2 DEF Told
    <3>4. QED
      BY <1>1, <1>6, <3>1, <3>2, <3>3, FlightAlone DEF FindPrevious
  <2>3. CASE ~(flight[p].rt = row.prevRt /\ row.status = "active" /\ row.rtGrace)
    <3>1. flight' = [flight EXCEPT ![p].pc = "denied"] /\ flight[p].pc = "unknown"
      BY <1>6, <2>3 DEF FindPrevious
    <3>2. flight[p].rt \in Nat /\ row.rt \in Nat
      BY <1>0, <3>1 DEF Alone, RowOK
    <3>3. ~overlap => flight[p].rt # row.rt
      BY <3>1 DEF Alone, Told
    <3>4. row.rtGrace /\ row.status = "active" => flight[p].rt + 1 # row.rt
      BY <2>3, <3>2 DEF Alone
    <3>5. ~overlap => Told([flight[p] EXCEPT !.pc = "denied"], row')
      BY <1>3, <1>4, <2>1, <3>3, <3>4 DEF Told
    <3>6. QED
      BY <1>2, <1>4, <3>1, <3>5
  <2>4. QED
    BY <2>2, <2>3
<1>7. CASE Rotate(p) /\ ~MayRotate(flight[p].rt)
  <2>1. flight' = [flight EXCEPT ![p].pc = "denied"] /\ flight[p].pc = "found" /\ row' = row
    BY <1>7 DEF Rotate
  <2>2. ~overlap => row.status # "active"
    BY <1>7, <2>1 DEF MayRotate, Alone, Told
  <2>3. ~overlap => Told([flight[p] EXCEPT !.pc = "denied"], row')
    BY <1>3, <1>4, <2>1, <2>2 DEF Told
  <2>4. QED
    BY <1>2, <1>4, <2>1, <2>3
<1>8. CASE RefreshFails(p)
  <2>1. flight' = [flight EXCEPT ![p].pc = "broken"] /\ flight[p].pc # "none"
    BY <1>8 DEF RefreshFails
  <2>2. Told([flight[p] EXCEPT !.pc = "broken"], row')
    BY <1>3, <1>4 DEF Told
  <2>3. QED
    BY <1>2, <1>4, <2>1, <2>2
<1>h. CASE Hang(p)
  <2> DEFINE x == [Rest EXCEPT !.pc = "hung", !.rt = flight[p].rt]
  <2>1. flight' = [flight EXCEPT ![p] = x] /\ flight[p].pc # "none"
    BY <1>h DEF Hang
  <2>2. x.pc = "hung" /\ x.rt = flight[p].rt
    BY DEF Rest
  <2> HIDE DEF x
  <2>3. Told(x, row')
    BY <2>2 DEF Told
  <2>4. QED
    BY <1>1, <2>1, <2>2, <2>3, FlightAlone
<1>9. CASE Settled(p)
  <2>1. flight' = [flight EXCEPT ![p] = Rest]
    BY <1>9 DEF Settled, Settle
  <2>2. Rest.pc = "none" /\ Told(Rest, row')
    BY DEF Rest, Told
  <2>3. QED
    BY <1>1, <2>1, <2>2, FlightAlone
<1>10. CASE Rotate(p) /\ MayRotate(flight[p].rt)
  BY <1>10, RotateAlone
<1>11. QED
  BY <1>5, <1>6, <1>7, <1>8, <1>h, <1>9, <1>10 DEF Refreshing

LEMMA NextAlone ==
  ASSUME SessionAssumption, TypeOK, Alone, [Next]_vars
  PROVE  Alone'
<1>1. CASE Rotates
  BY <1>1, RotateAlone DEF Rotates
<1>2. CASE ~Rotates
  <2>1. Fades
    BY <1>2, RowFades
  <2>2. ASSUME NEW p \in Tabs, Refreshing(p) \/ RefreshFails(p) \/ Hang(p) PROVE Alone'
    BY <2>1, <2>2, RefreshingAlone
  <2>3. ASSUME NEW p \in Tabs, RefreshAhead(p) PROVE Alone'
    BY <2>3, LaunchAlone DEF RefreshAhead, server
  <2>4. ASSUME NEW r \in Requests, Refused(r) PROVE Alone'
    <3>1. CASE UNCHANGED <<flight, overlap>>
      BY <2>1, <3>1, FadesAlone
    <3>2. CASE /\ flight[TabOf[r]].pc = "none" /\ store.rt # None /\ Launch(TabOf[r])
      <4>1. TabOf[r] \in Tabs /\ row' = row
        BY <2>4 DEF SessionAssumption, Refused, server
      <4>2. QED
        BY <3>2, <4>1, LaunchAlone
    <3>3. QED
      BY <2>4, <3>1, <3>2, Zenon DEF Refused
  <2>5. CASE UNCHANGED <<flight, overlap>>
    BY <2>1, <2>5, FadesAlone
  <2>6. ASSUME NEW p \in Tabs, CooldownEnds(p) PROVE UNCHANGED <<flight, overlap>>
    BY <2>6 DEF CooldownEnds, history
  <2>7. ASSUME NEW r \in Requests, Send(r) \/ Breaks(r) \/ Serving(r), ~Refused(r)
        PROVE  UNCHANGED <<flight, overlap>>
    BY <2>7 DEF Send, Breaks, Serving, Answer, Retry, GiveUp, Unauthorized, history
  <2>8. Revoke \/ GraceEnds \/ SessionExpires \/ AccessLapses \/ Logout \/ UNCHANGED vars
          => UNCHANGED <<flight, overlap>>
    BY DEF Revoke, GraceEnds, SessionExpires, AccessLapses, Logout, vars, client, history
  <2>9. QED
    BY <2>2, <2>3, <2>4, <2>5, <2>6, <2>7, <2>8 DEF Next
<1>3. QED
  BY <1>1, <1>2

\* A refresh that runs alone is never refused while the session lives and its
\* token is current or in the grace window: a lost reply costs nothing.
THEOREM GraceAlwaysCovers == Spec => []GraceCovers
<1> USE SessionAssumption
<1>1. Init => TypeOK /\ Alone
  <2> SUFFICES ASSUME Init PROVE TypeOK /\ Alone
    OBVIOUS
  <2>1. \A p \in Tabs : flight[p].pc = "none"
    BY DEF Init, Rest
  <2>2. ~row.rtGrace
    BY DEF Init
  <2>3. QED
    BY <2>1, <2>2, InitType DEF Alone, Told
<1>2. TypeOK /\ Alone /\ [Next]_vars => TypeOK' /\ Alone'
  BY NextType, NextAlone
<1>3. TypeOK /\ Alone => GraceCovers
  BY DEF Alone, GraceCovers, Told, Alive
<1>4. QED
  BY <1>1, <1>2, <1>3, PTL DEF Spec

-----------------------------------------------------------------------------
(* A calm app keeps its session *)

Granted == \E p \in Tabs : flight[p].pc = "granted"

\* The row remembers the token before the current one, for both windows alike.
RowKept(r, L) ==
  /\ r.jti = r.rt /\ r.jtiGrace = r.rtGrace
  /\ r.jtiGrace => r.prevJti \in Nat /\ r.prevJti + 1 = r.jti
  /\ \A n \in L : n <= r.jti
  /\ r.rtGrace => r.jti \notin L

\* The store holds the current tokens, or those before while new ones are granted.
StoreKept(st, r, g) ==
  /\ st.at \in Nat \X {0} /\ st.rt = st.at[1]
  /\ g => st.at[1] + 1 = r.rt /\ r.rtGrace
  /\ ~g => st.at[1] = r.rt

\* A refresh presents the current token, and only the mobile app sees one fail.
FlightKept(f, a, r) ==
  /\ f.pc \in {"none", "sent", "found", "granted", "broken"}
  /\ f.pc \in {"sent", "found"} => f.rt = r.rt
  /\ f.pc = "granted" => f.at = <<r.jti, 0>> /\ f.next = r.rt
  /\ f.pc = "broken" => a = "mobile"

\* A request q, with s the jti of the store: it was refused because its token
\* has lapsed or is not the store's any more, and it is not refused twice.
ReqKept(q, s, r, L) ==
  q.pc # "idle" =>
    /\ q.pc # "gone"
    /\ q.token \in Nat \X {0} /\ q.token[1] <= s
    /\ q.token[1] < s => r.rtGrace /\ s \notin L
    /\ q.pc = "refused" => ~q.again /\ (q.token[1] < s \/ q.token[1] \in L)
    /\ q.pc = "retry" => q.token[1] < s
    /\ q.again => q.pc = "sent"
    /\ q.pc = "sent" /\ q.again => r.rtGrace /\ q.token[1] \notin L /\ r.jti <= q.token[1] + 1

Body ==
  /\ RowKept(row, lapsed) /\ StoreKept(store, row, Granted)
  /\ \A p \in Tabs : FlightKept(flight[p], app, row)
  /\ \A p \in Tabs : cooldown[p] => store.at[1] \notin lapsed
  /\ \A r \in Requests : ReqKept(req[r], store.at[1], row, lapsed)

Kept == Calm /\ row.status = "active" => Body

\* A calm state after the step, and all that holds before it.
Calmly == /\ TypeOK /\ Alone /\ Calm /\ Body
          /\ Calm' /\ row.status = "active" /\ row'.status = "active"

LEMMA ClientKeeps ==
  ASSUME Body, UNCHANGED <<app, row, lapsed, store, cooldown>>, Granted' <=> Granted,
         \A p \in Tabs : FlightKept(flight'[p], app, row),
         \A r \in Requests : ReqKept(req'[r], store.at[1], row, lapsed)
  PROVE  Body'
BY DEF Body, StoreKept

LEMMA RequestKeeps ==
  ASSUME Body, UNCHANGED <<app, row, lapsed, store, flight, cooldown>>,
         req \in [Requests -> ReqStates],
         NEW r \in Requests, NEW x, req' = [req EXCEPT ![r] = x],
         ReqKept(x, store.at[1], row, lapsed)
  PROVE  Body'
<1>1. \A q \in Requests : req'[q] = IF q = r THEN x ELSE req[q]
  OBVIOUS
<1>2. \A q \in Requests : ReqKept(req'[q], store.at[1], row, lapsed)
  BY <1>1 DEF Body
<1>3. Granted' <=> Granted
  BY DEF Granted
<1>4. QED
  BY <1>2, <1>3, ClientKeeps DEF Body

LEMMA IdleKept == \A s, r, L : ReqKept(Idle, s, r, L)
BY DEF ReqKept, Idle

\* A refresh of p that goes on with x and brings nothing.
LEMMA FlightKeeps ==
  ASSUME Body, UNCHANGED <<app, row, lapsed, store, cooldown, req>>,
         flight \in [Tabs -> FlightStates],
         NEW p \in Tabs, NEW x, flight' = [flight EXCEPT ![p] = x],
         FlightKept(x, app, row), x.pc # "granted", flight[p].pc # "granted"
  PROVE  Body'
<1>1. \A q \in Tabs : flight'[q] = IF q = p THEN x ELSE flight[q]
  OBVIOUS
<1>2. \A q \in Tabs : FlightKept(flight'[q], app, row)
  BY <1>1 DEF Body
<1>3. Granted' <=> Granted
  BY <1>1 DEF Granted
<1>4. QED
  BY <1>2, <1>3, ClientKeeps DEF Body

LEMMA CalmBefore ==
  ASSUME SessionAssumption, TypeOK, [Next]_vars, Calm', row'.status = "active"
  PROVE  Calm /\ row.status = "active"
<1>1. app' = app /\ (overlap => overlap') /\ (out => out') /\ (outrun => outrun')
  <2> DEFINE More == app' = app /\ (overlap => overlap') /\ (out => out') /\ (outrun => outrun')
  <2>a. UNCHANGED <<app, history>> => app' = app /\ overlap' = overlap /\ out' = out /\ outrun' = outrun
    BY DEF history
  <2>0. UNCHANGED <<app, history>> => More
    BY <2>a, Zenon
  <2>1. ASSUME NEW p \in Tabs, Rotate(p) PROVE More
    BY <2>1, Zenon DEF Rotate
  <2>2. ASSUME NEW p \in Tabs, RefreshAhead(p) PROVE More
    BY <2>2, Zenon DEF RefreshAhead, Launch
  <2>3. ASSUME NEW r \in Requests, Refused(r) PROVE More
    BY <2>3, Zenon DEF Refused, Launch
  <2>4. ASSUME NEW p \in Tabs,
               \/ FindCurrent(p) \/ FindPrevious(p) \/ Settled(p)
               \/ RefreshFails(p) \/ Hang(p) \/ CooldownEnds(p)
        PROVE  UNCHANGED <<app, history>>
    BY <2>4 DEF FindCurrent, FindPrevious, Settled, RefreshFails, Hang, CooldownEnds
  <2>5. ASSUME NEW r \in Requests,
               Send(r) \/ Breaks(r) \/ Answer(r) \/ Retry(r) \/ GiveUp(r) \/ Unauthorized(r)
        PROVE  UNCHANGED <<app, history>>
    BY <2>5 DEF Send, Breaks, Answer, Retry, GiveUp, Unauthorized
  <2>6. ASSUME Revoke \/ GraceEnds \/ SessionExpires \/ AccessLapses \/ UNCHANGED vars
        PROVE  UNCHANGED <<app, history>>
    BY <2>6 DEF Revoke, GraceEnds, SessionExpires, AccessLapses, vars
  <2>7. ASSUME Logout PROVE More
    BY <2>7, Zenon DEF Logout
  <2> HIDE DEF More
  <2>8. More
    BY <2>0, <2>1, <2>2, <2>3, <2>4, <2>5, <2>6, <2>7 DEF Next, Refreshing, Serving
  <2>9. QED
    BY <2>8 DEF More
<1>2. used' = used \/ \E k : Spend(k)
  <2>1. ASSUME NEW p \in Tabs, Refreshing(p) \/ RefreshFails(p) \/ Hang(p) \/ RefreshAhead(p) \/ CooldownEnds(p)
        PROVE  used' = used \/ \E k : Spend(k)
    BY <2>1, Zenon DEF Refreshing, FindCurrent, FindPrevious, Rotate, Settled, RefreshFails, Hang,
       RefreshAhead, CooldownEnds
  <2>2. ASSUME NEW r \in Requests, Send(r) \/ Serving(r) \/ Breaks(r)
        PROVE  used' = used \/ \E k : Spend(k)
    BY <2>2, Zenon DEF Send, Serving, Breaks, Answer, Refused, Retry, GiveUp, Unauthorized
  <2>3. ASSUME Revoke \/ GraceEnds \/ SessionExpires \/ AccessLapses \/ Logout
        PROVE  used' = used \/ \E k : Spend(k)
    BY <2>3, Zenon DEF Revoke, GraceEnds, SessionExpires, AccessLapses, Logout
  <2>4. CASE UNCHANGED vars
    BY <2>4, Zenon DEF vars
  <2>5. QED
    BY <2>1, <2>2, <2>3, <2>4, Zenon DEF Next
<1>3. used = {} \/ (app = "mobile" /\ used = {"fail"})
  <2>1. used' = {} => used = {}
    BY <1>2 DEF Spend
  <2>2. used' = {"fail"} => used = {} \/ used = {"fail"}
    BY <1>2 DEF Spend
  <2>3. used' = {} \/ (app = "mobile" /\ used' = {"fail"})
    BY <1>1, Zenon DEF Calm
  <2>4. QED
    BY <2>1, <2>2, <2>3
<1>4. Calm
  BY <1>1, <1>3, Zenon DEF Calm
<1>5. row.status = "active"
  <2>0. RowOK
    BY TypeParts
  <2>1. row' = row \/ Expire => row.status = "active"
    BY <2>0 DEF Expire, RowOK
  <2>2. ASSUME NEW p \in Tabs, Rotate(p) PROVE row.status = "active"
    BY <2>2 DEF Rotate, MayRotate
  <2>3. ASSUME NEW p \in Tabs, Refreshing(p) \/ RefreshFails(p) \/ Hang(p) \/ RefreshAhead(p) \/ CooldownEnds(p)
        PROVE  row.status = "active"
    BY <2>1, <2>2, <2>3 DEF Refreshing, FindCurrent, FindPrevious, Settled, RefreshFails, Hang,
       RefreshAhead, CooldownEnds, server
  <2>4. ASSUME NEW r \in Requests, Send(r) \/ Serving(r) \/ Breaks(r)
        PROVE  row.status = "active"
    BY <2>1, <2>4 DEF Send, Serving, Breaks, Answer, Refused, Retry, GiveUp, Unauthorized, server
  <2>5. CASE Revoke \/ GraceEnds \/ SessionExpires \/ AccessLapses \/ Logout
    BY <2>0, <2>5 DEF Revoke, GraceEnds, SessionExpires, AccessLapses, Logout, RowOK
  <2>6. CASE UNCHANGED vars
    BY <2>6 DEF vars, server
  <2>7. QED
    BY <2>3, <2>4, <2>5, <2>6 DEF Next
<1>6. QED
  BY <1>4, <1>5

\* What the parts of Calmly say of the values at hand.
LEMMA CalmlyFacts ==
  ASSUME Calmly
  PROVE  /\ row.rt \in Nat /\ row.jti = row.rt /\ store.at[1] \in Nat /\ store.rt = store.at[1]
         /\ store.at # None /\ store.rt # None /\ store.at[1] <= row.rt /\ lapsed \subseteq Nat
         /\ flight \in [Tabs -> FlightStates] /\ req \in [Requests -> ReqStates]
         /\ \A p, q \in Tabs : flight[p].pc # "none" /\ flight[q].pc # "none" => p = q
         /\ \A p \in Tabs : FlightKept(flight[p], app, row)
         /\ \A r \in Requests : ReqKept(req[r], store.at[1], row, lapsed)
<1>1. RowOK /\ lapsed \subseteq Nat /\ flight \in [Tabs -> FlightStates] /\ req \in [Requests -> ReqStates]
  BY TypeParts DEF Calmly, RestOK
<1>2. \A p, q \in Tabs : flight[p].pc # "none" /\ flight[q].pc # "none" => p = q
  BY Zenon DEF Calmly, Alone, Calm
<1>3. StoreKept(store, row, Granted) /\ RowKept(row, lapsed)
  BY DEF Calmly, Body
<1>4. row.rt \in Nat /\ row.jti = row.rt
  BY <1>1, <1>3 DEF RowOK, RowKept
<1>5. store.at \in Nat \X {0} /\ store.rt = store.at[1] /\ store.at[1] \in Nat
  BY <1>3 DEF StoreKept
<1>6. store.at[1] <= row.rt
  BY <1>3, <1>4, <1>5 DEF StoreKept
<1>7. store.at # None /\ store.rt # None
  BY <1>5, SessionAssumption DEF SessionAssumption
<1>8. QED
  BY <1>1, <1>2, <1>4, <1>5, <1>6, <1>7 DEF Calmly, Body

LEMMA FindKeeps ==
  ASSUME Calmly, NEW p \in Tabs, FindCurrent(p)
  PROVE  Body'
<1>1. flight[p].pc = "sent" /\ flight[p].rt = row.rt
  BY CalmlyFacts DEF FindCurrent, FlightKept
<1>2. row' = row /\ Alive
  <2>1. Expire /\ row.status = "active" /\ row'.status = "active"
    BY <1>1 DEF FindCurrent, Calmly
  <2>2. RowOK
    BY TypeParts DEF Calmly
  <2>3. QED
    BY <2>1, <2>2 DEF Expire, Alive, RowOK
<1> DEFINE x == [flight[p] EXCEPT !.pc = "found"]
<1>3. flight' = [flight EXCEPT ![p] = x]
  BY <1>1, <1>2 DEF FindCurrent
<1>4. x.pc = "found" /\ x.rt = flight[p].rt
  BY CalmlyFacts DEF FlightStates
<1> HIDE DEF x
<1>5. FlightKept(x, app, row)
  BY <1>1, <1>4 DEF FlightKept
<1>6. UNCHANGED <<app, row, lapsed, store, cooldown, req>>
  BY <1>2 DEF FindCurrent
<1>7. QED
  BY <1>1, <1>3, <1>4, <1>5, <1>6, FlightKeeps, CalmlyFacts DEF Calmly

LEMMA FailKeeps ==
  ASSUME Calmly, NEW p \in Tabs, RefreshFails(p)
  PROVE  Body'
<1>1. flight[p].pc \in {"sent", "unknown", "found"} /\ UNCHANGED <<app, row, lapsed, store, cooldown, req>>
  BY DEF RefreshFails, server
<1>2. app = "mobile"
  <2>1. "fail" \in used'
    BY DEF RefreshFails, Spend
  <2>2. used' = {} \/ app' = "mobile"
    BY Zenon DEF Calmly, Calm
  <2>3. QED
    BY <1>1, <2>1, <2>2
<1> DEFINE x == [flight[p] EXCEPT !.pc = "broken"]
<1>3. flight' = [flight EXCEPT ![p] = x]
  BY DEF RefreshFails
<1>4. x.pc = "broken"
  BY CalmlyFacts DEF FlightStates
<1> HIDE DEF x
<1>5. FlightKept(x, app, row)
  BY <1>2, <1>4 DEF FlightKept
<1>6. QED
  BY <1>1, <1>3, <1>4, <1>5, FlightKeeps, CalmlyFacts DEF Calmly

LEMMA NoHang ==
  ASSUME Calmly, NEW p \in Tabs
  PROVE  ~Hang(p)
<1>1. Hang(p) => "hang" \in used'
  BY DEF Hang, Spend
<1>2. used' = {} \/ used' = {"fail"}
  BY Zenon DEF Calmly, Calm
<1>3. QED
  BY <1>1, <1>2

LEMMA RotateKeeps ==
  ASSUME Calmly, NEW p \in Tabs, Rotate(p)
  PROVE  Body'
<1>1. flight[p].pc = "found" /\ flight[p].rt = row.rt /\ MayRotate(flight[p].rt)
  BY CalmlyFacts DEF Rotate, FlightKept, MayRotate, Calmly
<1>2. /\ row' = Rotated(row.rt) /\ outrun' = (outrun \/ Outruns)
      /\ UNCHANGED <<app, lapsed, store, req, cooldown>>
  BY <1>1 DEF Rotate
<1>3. ~Outruns
  <2>1. ~outrun'
    BY Zenon DEF Calmly, Calm
  <2>2. QED
    BY <1>2, <2>1, Zenon
<1>4. used' = used
  <2>1. used' = used \/ Spend("lost")
    BY <1>1, Zenon DEF Rotate
  <2>2. used' = {} \/ used' = {"fail"}
    BY Zenon DEF Calmly, Calm
  <2>3. QED
    BY <2>1, <2>2 DEF Spend
<1> DEFINE x == [flight[p] EXCEPT !.pc = "granted", !.at = <<row.jti + 1, 0>>, !.next = row.rt + 1]
<1>5. flight' = [flight EXCEPT ![p] = x]
  <2>1. Spend("lost") => "lost" \in used'
    BY DEF Spend
  <2>2. "lost" \notin used'
    <3>1. used' = {} \/ used' = {"fail"}
      BY Zenon DEF Calmly, Calm
    <3>2. QED
      BY <3>1
  <2>3. QED
    BY <1>1, <2>1, <2>2 DEF Rotate
<1>6. x.pc = "granted" /\ x.at = <<row.jti + 1, 0>> /\ x.next = row.rt + 1
  BY CalmlyFacts DEF FlightStates
<1> HIDE DEF x
<1>7. \A q \in Tabs : flight'[q] = IF q = p THEN x ELSE flight[q]
  BY <1>5, CalmlyFacts
<1>8. \A q \in Tabs \ {p} : flight[q].pc = "none"
  BY <1>1, CalmlyFacts
<1>9. ~Granted
  BY <1>1, <1>8 DEF Granted
<1>10. Granted'
  BY <1>6, <1>7 DEF Granted
<1>11. /\ row'.rt = row.rt + 1 /\ row'.jti = row.jti + 1 /\ row'.prevJti = row.jti
       /\ row'.rtGrace = TRUE /\ row'.jtiGrace = TRUE
  <2>1. RowOK
    BY TypeParts DEF Calmly
  <2>2. QED
    BY <1>2, <2>1 DEF Rotated, RowOK
<1>12. store.at[1] = row.rt /\ store.at \in Nat \X {0} /\ store.rt = store.at[1]
  BY <1>9 DEF Calmly, Body, StoreKept
<1>13. \A n \in lapsed : n <= row.jti
  BY DEF Calmly, Body, RowKept
<1>14. RowKept(row', lapsed')
  <2>1. \A n \in lapsed : n \in Nat /\ n <= row.jti + 1 /\ n # row.jti + 1
    BY <1>13, CalmlyFacts
  <2>2. row'.jti \notin lapsed /\ \A n \in lapsed : n <= row'.jti
    BY <1>11, <2>1
  <2>3. row'.jti = row'.rt /\ row'.prevJti \in Nat /\ row'.prevJti + 1 = row'.jti
    BY <1>11, CalmlyFacts
  <2>4. QED
    BY <1>2, <1>11, <2>2, <2>3 DEF RowKept
<1>15. StoreKept(store', row', Granted')
  BY <1>2, <1>10, <1>11, <1>12 DEF StoreKept
<1>16. \A q \in Tabs : FlightKept(flight'[q], app', row')
  <2>1. FlightKept(x, app', row')
    BY <1>6, <1>11 DEF FlightKept
  <2>2. \A q \in Tabs \ {p} : FlightKept(flight[q], app', row')
    BY <1>8 DEF FlightKept
  <2>3. QED
    BY <1>7, <2>1, <2>2
<1>17. \A q \in Tabs : cooldown'[q] => store'.at[1] \notin lapsed'
  BY <1>2 DEF Calmly, Body
<1>18. \A r \in Requests : ReqKept(req'[r], store'.at[1], row', lapsed')
  <2> SUFFICES ASSUME NEW r \in Requests, req[r].pc # "idle"
               PROVE  ReqKept(req[r], store.at[1], row', lapsed)
    BY <1>2 DEF ReqKept
  <2>1. ReqKept(req[r], store.at[1], row, lapsed)
    BY CalmlyFacts
  <2>2. req[r].token \in Nat \X {0} /\ req[r].token[1] \in Nat /\ req[r].token[1] <= row.rt
    BY <1>12, <2>1 DEF ReqKept
  <2>3. req[r].token # None
    BY <2>2, SessionAssumption DEF SessionAssumption
  <2>4. req[r].token[1] < store.at[1] => store.at[1] \notin lapsed
    BY <2>1 DEF ReqKept
  <2>5. req[r].pc = "sent" /\ req[r].again => ~(req[r].token[1] < row.jti)
    BY <1>3, <2>3 DEF Outruns
  <2>6. req[r].pc = "sent" /\ req[r].again => row.jti + 1 <= req[r].token[1] + 1
    BY <2>2, <2>5, CalmlyFacts
  <2>7. QED
    BY <1>11, <2>1, <2>4, <2>6 DEF ReqKept
<1>19. QED
  BY <1>14, <1>15, <1>16, <1>17, <1>18 DEF Body

LEMMA SettledKeeps ==
  ASSUME Calmly, NEW p \in Tabs, Settled(p)
  PROVE  Body'
<1>1. UNCHANGED <<app, row, lapsed, cooldown>>
  BY DEF Settled, server
<1>2. flight' = [flight EXCEPT ![p] = Rest] /\ flight[p].pc # "none"
  BY DEF Settled, Settle
<1>3. \A q \in Tabs : flight'[q].pc = "none"
  <2>1. \A q \in Tabs \ {p} : flight[q].pc = "none"
    BY <1>2, CalmlyFacts
  <2>2. QED
    BY <1>2, <2>1, CalmlyFacts DEF Rest
<1>4. ~Granted' /\ \A q \in Tabs : FlightKept(flight'[q], app', row')
  BY <1>3 DEF Granted, FlightKept
<1>5. ASSUME NEW pc \in {"retry", "failed"}, Settle(p, pc),
             pc = "retry" => store'.at[1] = row.rt /\ store.at[1] + 1 = row.rt,
             pc = "failed" => store' = store,
             store'.at[1] \notin lapsed \/ store' = store, row.rtGrace \/ store' = store
      PROVE  \A r \in Requests : ReqKept(req'[r], store'.at[1], row, lapsed)
  <2> SUFFICES ASSUME NEW r \in Requests, req'[r].pc # "idle"
               PROVE  ReqKept(req'[r], store'.at[1], row, lapsed)
    BY DEF ReqKept
  <2>1. req'[r] = IF r \in Waiting(p) THEN [req[r] EXCEPT !.pc = pc] ELSE req[r]
    BY <1>5 DEF Settle
  <2>2. /\ req'[r].token = req[r].token /\ req'[r].again = req[r].again
        /\ req'[r].pc = IF r \in Waiting(p) THEN pc ELSE req[r].pc
    BY <2>1, CalmlyFacts DEF ReqStates
  <2>3. req[r].pc # "idle"
    BY <2>2 DEF Waiting
  <2>4. ReqKept(req[r], store.at[1], row, lapsed)
    BY CalmlyFacts
  <2>5. r \in Waiting(p) => req[r].pc = "waiting" /\ ~req[r].again
    BY <2>3, <2>4 DEF Waiting, ReqKept
  <2>6. CASE store' = store
    <3>1. pc = "failed"
      BY <1>5, <2>6, CalmlyFacts
    <3>2. QED
      BY <2>2, <2>3, <2>4, <2>5, <2>6, <3>1 DEF ReqKept
  <2>7. CASE store' # store
    <3>1. pc = "retry" /\ store'.at[1] = row.rt /\ store.at[1] + 1 = row.rt
          /\ store'.at[1] \notin lapsed /\ row.rtGrace
      BY <1>5, <2>7
    <3>2. req[r].token \in Nat \X {0} /\ req[r].token[1] < store'.at[1]
          /\ req[r].token[1] <= store'.at[1]
      BY <2>3, <2>4, <3>1, CalmlyFacts DEF ReqKept
    <3>3. QED
      BY <2>2, <2>3, <2>4, <2>5, <3>1, <3>2 DEF ReqKept
  <2>8. QED
    BY <2>6, <2>7
<1>6. CASE flight[p].pc = "granted"
  <2>1. Granted
    BY <1>6 DEF Granted
  <2>2. flight[p].at = <<row.jti, 0>> /\ flight[p].next = row.rt
    BY <1>6, CalmlyFacts DEF FlightKept
  <2>3. store' = [at |-> <<row.jti, 0>>, rt |-> row.rt] /\ Settle(p, "retry")
    BY <1>6, <2>2 DEF Settled
  <2>4. store.at[1] + 1 = row.rt /\ row.rtGrace
    BY <2>1 DEF Calmly, Body, StoreKept
  <2>5. row.jti \notin lapsed /\ row.jti = row.rt /\ row.rt \in Nat
    BY <2>4, CalmlyFacts DEF Calmly, Body, RowKept
  <2>6. store'.at \in Nat \X {0} /\ store'.at[1] = row.rt /\ store'.rt = row.rt
    BY <2>3, <2>5
  <2>7. StoreKept(store', row', Granted')
    BY <1>1, <1>4, <2>6 DEF StoreKept
  <2>8. \A r \in Requests : ReqKept(req'[r], store'.at[1], row, lapsed)
    BY <1>5, <2>3, <2>4, <2>5, <2>6
  <2>9. store'.at[1] \notin lapsed
    BY <2>5, <2>6
  <2>10. QED
    BY <1>1, <1>4, <2>7, <2>8, <2>9 DEF Calmly, Body
<1>7. CASE flight[p].pc # "granted"
  <2>1. flight[p].pc = "broken" /\ app = "mobile"
    <3>1. flight[p].pc \in {"denied", "broken"}
      BY <1>7 DEF Settled
    <3>2. QED
      BY <3>1, CalmlyFacts DEF FlightKept
  <2>2. store' = store /\ Settle(p, "failed")
    BY <2>1 DEF Settled, Wipes
  <2>3. ~Granted
    BY <1>2, <1>7, CalmlyFacts DEF Granted
  <2>4. \A r \in Requests : ReqKept(req'[r], store'.at[1], row, lapsed)
    BY <1>5, <2>2
  <2>5. StoreKept(store', row', Granted')
    BY <1>1, <1>4, <2>2, <2>3 DEF Calmly, Body, StoreKept
  <2>6. QED
    BY <1>1, <1>4, <2>2, <2>4, <2>5 DEF Calmly, Body
<1>8. QED
  BY <1>6, <1>7

\* A refresh that begins while no other one is under way.
LEMMA LaunchKept ==
  ASSUME Calmly, NEW p \in Tabs, flight[p].pc = "none", Launch(p), UNCHANGED <<app, row, store>>
  PROVE  /\ \A q \in Tabs : FlightKept(flight'[q], app, row)
         /\ Granted' <=> Granted
<1>1. \A q \in Tabs \ {p} : flight[q].pc = "none"
  <2>1. ~overlap'
    BY Zenon DEF Calmly, Calm
  <2>2. QED
    BY <2>1, Zenon DEF Launch
<1>2. ~Granted
  BY <1>1 DEF Granted
<1>3. store.rt = row.rt
  BY <1>2, CalmlyFacts DEF Calmly, Body, StoreKept
<1> DEFINE x == [Rest EXCEPT !.pc = "sent", !.rt = store.rt]
<1>4. x.pc = "sent" /\ x.rt = row.rt
  BY <1>3 DEF Rest
<1>5. flight' = [flight EXCEPT ![p] = x]
  BY DEF Launch
<1> HIDE DEF x
<1>6. \A q \in Tabs : flight'[q] = IF q = p THEN x ELSE flight[q]
  BY <1>5, CalmlyFacts
<1>7. FlightKept(x, app, row)
  BY <1>4 DEF FlightKept
<1>8. \A q \in Tabs : FlightKept(flight'[q], app, row)
  BY <1>6, <1>7, CalmlyFacts
<1>9. ~Granted'
  BY <1>1, <1>4, <1>6 DEF Granted
<1>10. QED
  BY <1>2, <1>8, <1>9

LEMMA AheadKeeps ==
  ASSUME Calmly, NEW p \in Tabs, RefreshAhead(p)
  PROVE  Body'
<1>1. UNCHANGED <<app, row, lapsed, store, req, cooldown>> /\ flight[p].pc = "none" /\ Launch(p)
  BY DEF RefreshAhead, server
<1>2. QED
  BY <1>1, LaunchKept, ClientKeeps, CalmlyFacts DEF Calmly

LEMMA AnswerKeeps ==
  ASSUME Calmly, NEW r \in Requests, Answer(r)
  PROVE  Body'
<1> DEFINE q == req[r]
<1>1. q.pc = "sent" /\ ReqKept(q, store.at[1], row, lapsed)
  BY CalmlyFacts DEF Answer
<1>2. q.token \in Nat \X {0} /\ q.token[1] \in Nat /\ q.token[1] <= store.at[1] /\ q.token # None
  <2>1. q.token \in Nat \X {0}
    BY <1>1 DEF ReqKept
  <2>2. QED
    BY <1>1, <2>1, SessionAssumption DEF SessionAssumption, ReqKept
<1>3. UNCHANGED <<app, lapsed, store, flight, cooldown>>
  BY DEF Answer
<1>4. CASE Admits(q.token)
  <2>1. row' = row
    BY <1>4 DEF Answer
  <2>2. req' = [req EXCEPT ![r] = Idle]
    <3>1. Spend("forbidden") => "forbidden" \in used'
      BY DEF Spend
    <3>2. used' = {} \/ used' = {"fail"}
      BY Zenon DEF Calmly, Calm
    <3>3. QED
      BY <1>4, <3>1, <3>2 DEF Answer
  <2>3. QED
    BY <1>3, <2>1, <2>2, IdleKept, RequestKeeps, CalmlyFacts DEF Calmly
<1>5. CASE ~Admits(q.token)
  <2>1. /\ req' = [req EXCEPT ![r].pc = "refused"]
        /\ IF q.token[1] \notin lapsed THEN Expire ELSE row' = row
    BY <1>2, <1>5 DEF Answer
  <2>2. row' = row /\ (q.token[1] \in lapsed \/ Alive)
    <3>1. RowOK /\ row.status = "active" /\ row'.status = "active"
      BY TypeParts DEF Calmly
    <3>2. QED
      BY <2>1, <3>1 DEF Expire, Alive, RowOK
  <2>3. RowKept(row, lapsed) /\ StoreKept(store, row, Granted)
    BY DEF Calmly, Body
  <2>4. q.token[1] \notin lapsed => ~(q.token[1] = row.jti \/ (q.token[1] = row.prevJti /\ row.jtiGrace))
    BY <1>2, <1>5, <2>2 DEF Admits
  <2>5. row.rtGrace => row.prevJti \in Nat /\ row.prevJti + 1 = row.rt /\ row.jtiGrace
    BY <2>3, CalmlyFacts DEF RowKept
  <2>6. store.at[1] # row.rt => store.at[1] + 1 = row.rt /\ row.rtGrace
    BY <2>3 DEF StoreKept
  <2>7. q.token[1] \in lapsed \/ q.token[1] < store.at[1]
    <3> SUFFICES ASSUME q.token[1] \notin lapsed, q.token[1] = store.at[1] PROVE FALSE
      BY <1>2, CalmlyFacts
    <3>1. CASE store.at[1] = row.rt
      BY <2>4, <3>1, CalmlyFacts
    <3>2. CASE store.at[1] # row.rt
      BY <2>4, <2>5, <2>6, <3>2, CalmlyFacts
    <3>3. QED
      BY <3>1, <3>2
  <2>8. ~q.again
    <3> SUFFICES ASSUME q.again PROVE FALSE
      OBVIOUS
    <3>1. row.rtGrace /\ q.token[1] \notin lapsed /\ row.jti <= q.token[1] + 1
      BY <1>1 DEF ReqKept
    <3>2. q.token[1] = row.jti \/ q.token[1] + 1 = row.jti
      BY <1>2, <3>1, CalmlyFacts
    <3>3. QED
      BY <1>2, <2>4, <2>5, <3>1, <3>2, CalmlyFacts
  <2> DEFINE x == [req[r] EXCEPT !.pc = "refused"]
  <2>9. x.pc = "refused" /\ x.token = q.token /\ x.again = q.again
    BY CalmlyFacts DEF ReqStates
  <2>10. req' = [req EXCEPT ![r] = x]
    BY <2>1
  <2> HIDE DEF x
  <2>11. ReqKept(x, store.at[1], row, lapsed)
    BY <1>1, <1>2, <2>7, <2>8, <2>9 DEF ReqKept
  <2>12. QED
    BY <1>3, <2>2, <2>10, <2>11, RequestKeeps, CalmlyFacts DEF Calmly
<1>6. QED
  BY <1>4, <1>5

\* A request that is sent once more with what the store holds.
LEMMA ResendKept ==
  ASSUME Calmly, row.rtGrace, store.at[1] \notin lapsed
  PROVE  ReqKept([pc |-> "sent", token |-> store.at, again |-> TRUE], store.at[1], row, lapsed)
<1>1. store.at \in Nat \X {0} /\ store.at[1] \in Nat
  BY DEF Calmly, Body, StoreKept
<1>2. row.jti <= store.at[1] + 1
  BY <1>1, CalmlyFacts DEF Calmly, Body, StoreKept
<1>3. ~(store.at[1] < store.at[1]) /\ store.at[1] <= store.at[1]
  BY <1>1
<1>4. QED
  BY <1>1, <1>2, <1>3 DEF ReqKept

LEMMA RefusedKeeps ==
  ASSUME Calmly, NEW r \in Requests, Refused(r)
  PROVE  Body'
<1> DEFINE q == req[r]
           s == store.at[1]
           p == TabOf[r]
<1>1. q.pc = "refused" /\ ReqKept(q, s, row, lapsed)
  BY CalmlyFacts DEF Refused
<1>2. q.token \in Nat \X {0} /\ q.token[1] <= s /\ ~q.again /\ (q.token[1] < s \/ q.token[1] \in lapsed)
  BY <1>1 DEF ReqKept
<1>3. UNCHANGED <<app, row, lapsed, store, cooldown>> /\ p \in Tabs
  BY SessionAssumption DEF Refused, server, SessionAssumption
<1>4. store.at \in Nat \X {0} /\ s \in Nat
  BY DEF Calmly, Body, StoreKept
<1>5. CASE Resend(r) /\ flight' = flight /\ (Changed(r) \/ (cooldown[p] /\ store.at # None))
  <2>1. q.token[1] < s
    <3>1. CASE Changed(r)
      <4>1. store.at # q.token
        BY <3>1 DEF Changed
      <4>2. q.token[1] # s
        BY <1>2, <1>4, <4>1
      <4>3. QED
        BY <1>2, <1>4, <4>2
    <3>2. CASE cooldown[p]
      <4>1. s \notin lapsed
        BY <1>3, <3>2 DEF Calmly, Body
      <4>2. q.token[1] # s
        BY <1>2, <1>4, <4>1
      <4>3. QED
        BY <1>2, <1>4, <4>2
    <3>3. QED
      BY <1>5, <3>1, <3>2
  <2>2. row.rtGrace /\ s \notin lapsed
    BY <1>1, <2>1 DEF ReqKept
  <2> DEFINE x == [pc |-> "sent", token |-> store.at, again |-> TRUE]
  <2>3. ReqKept(x, s, row, lapsed) /\ req' = [req EXCEPT ![r] = x]
    BY <1>5, <2>2, ResendKept DEF Resend
  <2> HIDE DEF x
  <2>4. QED
    BY <1>3, <1>5, <2>3, RequestKeeps, CalmlyFacts DEF Calmly
<1>6. CASE req' = [req EXCEPT ![r].pc = "waiting"]
           /\ (flight' = flight \/ (flight[p].pc = "none" /\ Launch(p)))
  <2> DEFINE x == [req[r] EXCEPT !.pc = "waiting"]
  <2>1. x.pc = "waiting" /\ x.token = q.token /\ x.again = q.again
    BY CalmlyFacts DEF ReqStates
  <2>2. req' = [req EXCEPT ![r] = x]
    BY <1>6
  <2> HIDE DEF x
  <2>3. ReqKept(x, s, row, lapsed)
    BY <1>1, <1>2, <2>1 DEF ReqKept
  <2>4. \A m \in Requests : req'[m] = IF m = r THEN x ELSE req[m]
    BY <2>2, CalmlyFacts
  <2>5. \A m \in Requests : ReqKept(req'[m], s, row, lapsed)
    BY <2>3, <2>4, CalmlyFacts
  <2>6. (Granted' <=> Granted) /\ \A m \in Tabs : FlightKept(flight'[m], app, row)
    <3>1. CASE flight' = flight
      BY <3>1, CalmlyFacts DEF Granted
    <3>2. CASE flight[p].pc = "none" /\ Launch(p)
      BY <1>3, <3>2, LaunchKept
    <3>3. QED
      BY <1>6, <3>1, <3>2
  <2>7. QED
    BY <1>3, <2>5, <2>6, ClientKeeps DEF Calmly
<1>7. QED
  BY <1>5, <1>6, CalmlyFacts DEF Refused

LEMMA RequestsKeep ==
  ASSUME Calmly, NEW r \in Requests,
         Send(r) \/ Breaks(r) \/ Retry(r) \/ GiveUp(r) \/ Unauthorized(r)
  PROVE  Body'
<1>1. store.at \in Nat \X {0} /\ store.at[1] \in Nat
  BY DEF Calmly, Body, StoreKept
<1>2. CASE Send(r)
  <2> DEFINE x == [pc |-> "sent", token |-> store.at, again |-> FALSE]
  <2>1. UNCHANGED <<app, row, lapsed, store, flight, cooldown>> /\ req' = [req EXCEPT ![r] = x]
    BY <1>2 DEF Send, server
  <2>2. ~(store.at[1] < store.at[1]) /\ store.at[1] <= store.at[1]
    BY <1>1
  <2>3. ReqKept(x, store.at[1], row, lapsed)
    BY <1>1, <2>2 DEF ReqKept
  <2> HIDE DEF x
  <2>4. QED
    BY <2>1, <2>3, RequestKeeps, CalmlyFacts DEF Calmly
<1>3. CASE Breaks(r) \/ GiveUp(r)
  <2>1. UNCHANGED <<app, row, lapsed, store, flight, cooldown>> /\ req' = [req EXCEPT ![r] = Idle]
    BY <1>3 DEF Breaks, GiveUp, server
  <2>2. QED
    BY <2>1, IdleKept, RequestKeeps, CalmlyFacts DEF Calmly
<1>4. CASE Retry(r)
  <2> DEFINE x == [pc |-> "sent", token |-> store.at, again |-> TRUE]
  <2>1. UNCHANGED <<app, row, lapsed, store, flight>> /\ req' = [req EXCEPT ![r] = x]
        /\ cooldown' = [cooldown EXCEPT ![TabOf[r]] = TRUE]
    BY <1>4 DEF Retry, Resend, server
  <2>2. row.rtGrace /\ store.at[1] \notin lapsed
    BY <1>4, CalmlyFacts DEF Retry, ReqKept
  <2>3. ReqKept(x, store.at[1], row, lapsed)
    BY <2>2, ResendKept
  <2> HIDE DEF x
  <2>4. \A m \in Requests : req'[m] = IF m = r THEN x ELSE req[m]
    BY <2>1, CalmlyFacts
  <2>5. \A m \in Requests : ReqKept(req'[m], store.at[1], row, lapsed)
    BY <2>3, <2>4, CalmlyFacts
  <2>6. Granted' <=> Granted
    BY <2>1 DEF Granted
  <2>7. QED
    BY <2>1, <2>2, <2>5, <2>6 DEF Calmly, Body, StoreKept
<1>5. ~Unauthorized(r)
  BY CalmlyFacts DEF Unauthorized, ReqKept
<1>6. QED
  BY <1>2, <1>3, <1>4, <1>5

LEMMA WorldKeeps ==
  ASSUME Calmly, Revoke \/ GraceEnds \/ SessionExpires \/ AccessLapses \/ Logout \/ UNCHANGED vars
                 \/ \E p \in Tabs : CooldownEnds(p)
  PROVE  Body'
<1>1. RowOK
  BY TypeParts DEF Calmly
<1>2. ~Revoke
  BY <1>1 DEF Revoke, RowOK, Calmly
<1>3. ~Logout
  <2>1. ~out'
    BY Zenon DEF Calmly, Calm
  <2>2. QED
    BY <2>1, Zenon DEF Logout
<1>4. CASE GraceEnds
  <2>1. ~UnderWay
    <3>1. Spend("slow") => "slow" \in used'
      BY DEF Spend
    <3>2. used' = {} \/ used' = {"fail"}
      BY Zenon DEF Calmly, Calm
    <3>3. QED
      BY <1>4, <3>1, <3>2 DEF GraceEnds
  <2>2. /\ UNCHANGED <<app, lapsed, store, flight, req, cooldown>>
        /\ row'.jti = row.jti /\ row'.rt = row.rt /\ ~row'.rtGrace /\ row'.rtGrace = row'.jtiGrace
    BY <1>1, <1>4 DEF GraceEnds, RowOK, client
  <2>3. (\A p \in Tabs : flight[p].pc = "none") /\ (\A r \in Requests : req[r].pc = "idle")
    <3>1. \A p \in Tabs : flight[p].pc = "none"
      BY <2>1, CalmlyFacts DEF UnderWay, FlightKept
    <3>2. \A r \in Requests : ~Stuck(r)
      BY <3>1, SessionAssumption DEF Stuck, SessionAssumption
    <3>3. QED
      BY <2>1, <3>1, <3>2 DEF UnderWay
  <2>4. ~Granted /\ ~Granted'
    BY <2>2, <2>3 DEF Granted
  <2>5. RowKept(row', lapsed')
    BY <2>2 DEF Calmly, Body, RowKept
  <2>6. StoreKept(store', row', Granted')
    BY <2>2, <2>4 DEF Calmly, Body, StoreKept
  <2>7. /\ \A p \in Tabs : FlightKept(flight'[p], app', row')
        /\ \A r \in Requests : ReqKept(req'[r], store'.at[1], row', lapsed')
    BY <2>2, <2>3 DEF FlightKept, ReqKept
  <2>8. QED
    BY <2>2, <2>5, <2>6, <2>7 DEF Calmly, Body
<1>5. CASE SessionExpires
  <2>1. /\ UNCHANGED <<app, lapsed, store, flight, req, cooldown>>
        /\ row'.jti = row.jti /\ row'.rt = row.rt /\ row'.rtGrace = row.rtGrace
        /\ row'.jtiGrace = row.jtiGrace /\ row'.prevJti = row.prevJti
    BY <1>1, <1>5 DEF SessionExpires, RowOK, client
  <2>2. RowKept(row', lapsed')
    BY <2>1 DEF Calmly, Body, RowKept
  <2>3. StoreKept(store', row', Granted')
    BY <2>1 DEF Calmly, Body, StoreKept, Granted
  <2>4. \A p \in Tabs : FlightKept(flight'[p], app', row')
    BY <2>1 DEF Calmly, Body, FlightKept
  <2>5. \A r \in Requests : ReqKept(req'[r], store'.at[1], row', lapsed')
    BY <2>1 DEF Calmly, Body, ReqKept
  <2>6. QED
    BY <2>1, <2>2, <2>3, <2>4, <2>5 DEF Calmly, Body
<1>6. CASE AccessLapses
  <2>1. /\ UNCHANGED <<app, row, store, flight, req, cooldown>> /\ lapsed' = lapsed \cup {row.jti}
        /\ ~row.rtGrace /\ \A p \in Tabs : ~cooldown[p]
    BY <1>6 DEF AccessLapses, client
  <2>2. RowKept(row', lapsed')
    <3>1. row.jti <= row.jti
      BY CalmlyFacts
    <3>2. QED
      BY <2>1, <3>1 DEF Calmly, Body, RowKept
  <2>3. StoreKept(store', row', Granted')
    BY <2>1 DEF Calmly, Body, StoreKept, Granted
  <2>4. \A r \in Requests : ReqKept(req'[r], store'.at[1], row', lapsed')
    <3> SUFFICES ASSUME NEW r \in Requests PROVE ReqKept(req[r], store.at[1], row, lapsed')
      BY <2>1
    <3>1. ReqKept(req[r], store.at[1], row, lapsed)
      BY CalmlyFacts
    <3>2. QED
      BY <2>1, <3>1 DEF ReqKept
  <2>5. QED
    BY <2>1, <2>2, <2>3, <2>4 DEF Calmly, Body
<1>7. CASE UNCHANGED vars
  <2>1. UNCHANGED <<app, row, lapsed, store, flight, req, cooldown>>
    BY <1>7 DEF vars, server, client
  <2>2. (Granted' <=> Granted) /\ StoreKept(store', row', Granted')
    BY <2>1 DEF Calmly, Body, StoreKept, Granted
  <2>3. QED
    BY <2>1, <2>2 DEF Calmly, Body
<1>8. ASSUME NEW p \in Tabs, CooldownEnds(p) PROVE Body'
  <2>1. UNCHANGED <<app, row, lapsed, store, flight, req>>
        /\ cooldown' = [cooldown EXCEPT ![p] = FALSE]
    BY <1>8 DEF CooldownEnds, server
  <2>2. \A q \in Tabs : cooldown'[q] => cooldown[q]
    <3>1. cooldown \in [Tabs -> BOOLEAN]
      BY DEF Calmly, TypeOK
    <3>2. QED
      BY <2>1, <3>1
  <2>3. StoreKept(store', row', Granted')
    BY <2>1 DEF Calmly, Body, StoreKept, Granted
  <2>4. QED
    BY <2>1, <2>2, <2>3 DEF Calmly, Body
<1>9. QED
  BY <1>2, <1>3, <1>4, <1>5, <1>6, <1>7, <1>8

LEMMA NextKept ==
  ASSUME SessionAssumption, TypeOK, Alone, Kept, [Next]_vars
  PROVE  Kept'
<1> SUFFICES ASSUME Calm', row'.status = "active" PROVE Body'
  BY DEF Kept
<1>1. Calmly
  BY CalmBefore DEF Calmly, Kept
<1>2. ASSUME NEW p \in Tabs PROVE ~FindPrevious(p)
  BY <1>1, CalmlyFacts DEF FindPrevious, FlightKept
<1>3. ASSUME NEW p \in Tabs,
             Refreshing(p) \/ RefreshFails(p) \/ Hang(p) \/ RefreshAhead(p) \/ CooldownEnds(p)
      PROVE  Body'
  BY <1>1, <1>2, <1>3, FindKeeps, RotateKeeps, SettledKeeps, FailKeeps, NoHang, AheadKeeps, WorldKeeps
     DEF Refreshing
<1>4. ASSUME NEW r \in Requests, Send(r) \/ Serving(r) \/ Breaks(r) PROVE Body'
  BY <1>1, <1>4, AnswerKeeps, RefusedKeeps, RequestsKeep DEF Serving
<1>5. QED
  BY <1>1, <1>3, <1>4, WorldKeeps DEF Next

\* A calm app (one refresh at a time, no log-out, no fault that the app is not
\* written for) never drops the tokens of a session that lives.
THEOREM CalmKeepsSession == Spec => []KeepsLiveSession
<1> USE SessionAssumption
<1>1. Init => TypeOK /\ Alone /\ Kept
  <2> SUFFICES ASSUME Init PROVE TypeOK /\ Alone /\ Kept
    OBVIOUS
  <2>1. (\A p \in Tabs : flight[p].pc = "none") /\ (\A r \in Requests : req[r].pc = "idle")
    BY DEF Init, Rest, Idle
  <2>2. ~row.rtGrace /\ ~row.jtiGrace /\ lapsed = {}
    BY DEF Init
  <2>3. row.jti = row.rt /\ row.rtGrace = row.jtiGrace /\ store = [at |-> <<0, 0>>, rt |-> 0] /\ row.rt = 0
    BY DEF Init
  <2>4. StoreKept(store, row, Granted) /\ RowKept(row, lapsed)
    BY <2>1, <2>2, <2>3 DEF StoreKept, RowKept, Granted
  <2>5. Body
    BY <2>1, <2>2, <2>4 DEF Body, FlightKept, ReqKept
  <2>6. QED
    BY <2>1, <2>2, <2>5, InitType DEF Alone, Told, Kept
<1>2. TypeOK /\ Alone /\ Kept /\ [Next]_vars => TypeOK' /\ Alone' /\ Kept'
  BY NextType, NextAlone, NextKept
<1>3. Kept => KeepsLiveSession
  <2> SUFFICES ASSUME Kept, Calm, store = NoStore, Alive PROVE FALSE
    BY DEF KeepsLiveSession
  <2>1. store.at \in Nat \X {0}
    BY DEF Kept, Body, StoreKept, Alive
  <2>2. store.at = None
    BY DEF NoStore
  <2>3. QED
    BY <2>1, <2>2 DEF SessionAssumption
<1>4. QED
  BY <1>1, <1>2, <1>3, PTL DEF Spec

=============================================================================
