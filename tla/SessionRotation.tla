---------------------------- MODULE SessionRotation ----------------------------
(***************************************************************************)
(* One login session: its row in user_sessions, the rotation of its tokens *)
(* by AuthService, and the processes of one app that share the token store *)
(* (the tabs of a browser, or the one process of the mobile app).  A       *)
(* request that is refused joins the one refresh its process has under way *)
(* and is sent once more.                                                  *)
(*                                                                         *)
(* Refresh tokens and access_jti are numbered by rotation.  An access      *)
(* token is <<jti, copy>>: a replay signs a second token for the jti.      *)
(* Time is abstract: grace windows and cooldowns are open or over.         *)
(***************************************************************************)
EXTENDS Naturals, FiniteSets

CONSTANTS
  Tabs,          \* processes of the app
  Main,          \* the one process of the mobile app
  Requests,      \* requests they have under way
  TabOf,         \* process of each request
  Apps,          \* {"web"}, {"mobile"} or both
  None,
  MaxRotations,
  MaxFaults      \* kinds of faults in one behaviour, each of them once

ASSUME SessionAssumption ==
  /\ IsFiniteSet(Tabs) /\ Main \in Tabs
  /\ TabOf \in [Requests -> Tabs]
  /\ Apps \subseteq {"web", "mobile"}
  /\ None \notin Nat /\ None \notin Nat \X {0, 1}
  /\ MaxRotations \in Nat /\ MaxFaults \in Nat

VARIABLES
  app,        \* which app it is
  row,        \* the session's row
  lapsed,     \* access_jti whose signed tokens have expired
  store,      \* access and refresh token in the token store
  flight,     \* the refresh of each process: client, network and server side
  req,        \* requests
  cooldown,   \* is lastRefreshAt of the process recent?
  spent,      \* history: refresh tokens rotated away
  overlap,    \* history: were two refreshes under way at once?
  out,        \* history: did the user log out?
  outrun,     \* history: did two rotations pass a repeated call on its way?
  used        \* faults used up

server  == <<row, lapsed, spent>>
client  == <<store, flight, req, cooldown>>
history == <<overlap, out, outrun>>
vars    == <<app, server, client, history, used>>

\* "fail": a refresh gets no answer, and the server has committed nothing;
\* "lost": a refresh commits although its reply is lost;
\* "slow": a grace window ends while a call is on its way;
\* "forbidden": a rule of the business refuses a request with 403;
\* "hang": a refresh of the web app is never answered nor broken off.
Faults == {"fail", "lost", "slow", "forbidden", "hang"}

Spend(k) == k \notin used /\ Cardinality(used) < MaxFaults /\ used' = used \cup {k}

NoStore == [at |-> None, rt |-> None]
Rest    == [pc |-> "none", rt |-> None, at |-> None, next |-> None]
Idle    == [pc |-> "idle", token |-> None, again |-> FALSE]

Running == IF app = "web" THEN Tabs ELSE {Main}

Alive == row.status = "active" /\ row.live

\* createLoginSession has run and its tokens are stored.
Init ==
  /\ app \in Apps
  /\ row = [status |-> "active", live |-> TRUE, rt |-> 0, jti |-> 0,
            prevRt |-> None, prevJti |-> None, rtGrace |-> FALSE, jtiGrace |-> FALSE]
  /\ lapsed = {}
  /\ store = [at |-> <<0, 0>>, rt |-> 0]
  /\ flight = [p \in Tabs |-> Rest]
  /\ req = [r \in Requests |-> Idle]
  /\ cooldown = [p \in Tabs |-> FALSE]
  /\ spent = {} /\ used = {}
  /\ overlap = FALSE /\ out = FALSE /\ outrun = FALSE

-----------------------------------------------------------------------------
(* The server *)

\* assertAccessContext behind verifyAccessToken, as read in one moment.
Admits(token) ==
  /\ token # None /\ token[1] \notin lapsed
  /\ Alive
  /\ token[1] = row.jti \/ (token[1] = row.prevJti /\ row.jtiGrace)

\* An expired session that somebody presents is marked as expired.
Expire == IF row.status = "active" /\ ~row.live
          THEN row' = [row EXCEPT !.status = "expired"] ELSE UNCHANGED row

\* First read of refreshTokens: the session whose current token it is.
FindCurrent(p) ==
  /\ flight[p].pc = "sent"
  /\ IF flight[p].rt # row.rt
     THEN flight' = [flight EXCEPT ![p].pc = "unknown"] /\ UNCHANGED row
     ELSE /\ flight' = [flight EXCEPT ![p].pc = IF Alive THEN "found" ELSE "denied"]
          /\ Expire
  /\ UNCHANGED <<app, lapsed, spent, store, req, cooldown, history, used>>

\* Second read: a token replaced a moment ago gets another access token and
\* itself back, without a rotation.
FindPrevious(p) ==
  /\ flight[p].pc = "unknown"
  /\ IF flight[p].rt = row.prevRt /\ row.status = "active" /\ row.rtGrace
     THEN flight' = [flight EXCEPT ![p].pc = "granted", ![p].at = <<row.jti, 1>>,
                                   ![p].next = flight[p].rt]
     ELSE flight' = [flight EXCEPT ![p].pc = "denied"]
  /\ UNCHANGED <<app, server, store, req, cooldown, history, used>>

\* Mutant: the UPDATE names the row and its status only.
MayRotateAny(rt) == row.status = "active"

\* The WHERE of rotateSession.
MayRotate(rt) == row.status = "active" /\ row.rt = rt

\* Mutant: the token that was presented is not kept.
RotatedForgets(rt) ==
  [row EXCEPT !.rt = @ + 1, !.jti = @ + 1, !.prevJti = row.jti,
              !.rtGrace = TRUE, !.jtiGrace = TRUE, !.live = TRUE]

\* The SET of rotateSession.
Rotated(rt) ==
  [row EXCEPT !.rt = @ + 1, !.jti = @ + 1, !.prevRt = rt, !.prevJti = row.jti,
              !.rtGrace = TRUE, !.jtiGrace = TRUE, !.live = TRUE]

\* A repeated call whose token was rotated away already.
Outruns == \E r \in Requests : /\ req[r].pc = "sent" /\ req[r].again
                              /\ req[r].token # None /\ req[r].token[1] < row.jti

\* rotateSession: a compare-and-swap.  Its loser is refused, although the
\* token is inside the window now: that was looked at before.
Rotate(p) ==
  LET rt == flight[p].rt IN
  /\ flight[p].pc = "found"
  /\ IF MayRotate(rt)
     THEN /\ row' = Rotated(rt)
          /\ spent' = spent \cup {rt}
          /\ outrun' = (outrun \/ Outruns)
          /\ \/ /\ flight' = [flight EXCEPT ![p].pc = "granted", ![p].at = <<row.jti + 1, 0>>,
                                           ![p].next = row.rt + 1]
                /\ UNCHANGED used
             \/ flight' = [flight EXCEPT ![p].pc = "broken"] /\ Spend("lost")
     ELSE /\ flight' = [flight EXCEPT ![p].pc = "denied"]
          /\ UNCHANGED <<row, spent, outrun, used>>
  /\ UNCHANGED <<app, lapsed, store, req, cooldown, overlap, out>>

\* A refresh that does not get to the server, or an answer of 500.
RefreshFails(p) ==
  /\ flight[p].pc \in {"sent", "unknown", "found"} /\ Spend("fail")
  /\ flight' = [flight EXCEPT ![p].pc = "broken"]
  /\ UNCHANGED <<app, server, store, req, cooldown, history>>

\* The refresh of the web app is a bare fetch, without a timeout or a signal,
\* and who waits for it waits as long.
Hang(p) ==
  /\ app = "web" /\ flight[p].pc \in {"sent", "granted", "denied"} /\ Spend("hang")
  /\ flight' = [flight EXCEPT ![p] = [Rest EXCEPT !.pc = "hung", !.rt = flight[p].rt]]
  /\ UNCHANGED <<app, server, store, req, cooldown, history>>

\* Another device, a new password or an administrator ends the session.
Revoke ==
  /\ row.status = "active"
  /\ row' = [row EXCEPT !.status = "revoked"]
  /\ UNCHANGED <<app, lapsed, spent, client, history, used>>

-----------------------------------------------------------------------------
(* Time *)

\* A request that waits for a refresh that hangs.
Stuck(r) == req[r].pc = "waiting" /\ flight[TabOf[r]].pc = "hung"

UnderWay == \/ \E p \in Tabs : flight[p].pc \notin {"none", "hung"}
            \/ \E r \in Requests : req[r].pc # "idle" /\ ~Stuck(r)

GraceEnds ==
  /\ row.rtGrace \/ row.jtiGrace
  /\ row' = [row EXCEPT !.rtGrace = FALSE, !.jtiGrace = FALSE]
  /\ IF UnderWay THEN Spend("slow") ELSE UNCHANGED used
  /\ UNCHANGED <<app, lapsed, spent, client, history>>

SessionExpires ==
  /\ row.live /\ ~row.rtGrace
  /\ row' = [row EXCEPT !.live = FALSE]
  /\ UNCHANGED <<app, lapsed, spent, client, history, used>>

\* Access tokens live longer than any window, cooldown or call that brings one.
AccessLapses ==
  /\ row.jti \notin lapsed /\ row.rt < MaxRotations
  /\ ~row.rtGrace /\ \A p \in Tabs : ~cooldown[p] /\ flight[p].at = None
  /\ lapsed' = lapsed \cup {row.jti}
  /\ UNCHANGED <<app, row, spent, client, history, used>>

CooldownEnds(p) ==
  /\ cooldown[p]
  /\ cooldown' = [cooldown EXCEPT ![p] = FALSE]
  /\ UNCHANGED <<app, server, store, flight, req, history, used>>

-----------------------------------------------------------------------------
(* refreshAccessToken: single flight per process *)

\* Mutant: the state of the flight is misspelt.
LaunchMisspelt(p) == flight' = [flight EXCEPT ![p].pc = "send"] /\ UNCHANGED overlap

Launch(p) ==
  /\ flight' = [flight EXCEPT ![p] = [Rest EXCEPT !.pc = "sent", !.rt = store.rt]]
  /\ overlap' = (overlap \/ \E q \in Tabs \ {p} : flight[q].pc # "none")

\* The web app refreshes ahead of the expiry, the mobile app before it starts.
RefreshAhead(p) ==
  /\ p \in Running /\ flight[p].pc = "none" /\ store.rt # None
  /\ app = "web" \/ store.at[1] \in lapsed
  /\ row.rt < MaxRotations
  /\ Launch(p)
  /\ UNCHANGED <<app, server, store, req, cooldown, out, outrun, used>>

Waiting(p) == {r \in Requests : TabOf[r] = p /\ req[r].pc = "waiting"}

\* Mutant: the slot of the flight is not cleared.
SettleLeaves(p, pc) ==
  /\ flight' = [flight EXCEPT ![p] = [Rest EXCEPT !.pc = "over"]]
  /\ req' = [r \in Requests |-> IF r \in Waiting(p) THEN [req[r] EXCEPT !.pc = pc] ELSE req[r]]

\* The promise of the flight settles: what its waiters go on with.
Settle(p, pc) ==
  /\ flight' = [flight EXCEPT ![p] = Rest]
  /\ req' = [r \in Requests |-> IF r \in Waiting(p) THEN [req[r] EXCEPT !.pc = pc] ELSE req[r]]

\* Mutant: every error clears the session.
WipesAlways(pc) == TRUE

\* Does the error of a refresh clear the token store?  The web app does not
\* look at it; the mobile app clears on 401 and 403 only.
Wipes(pc) == app = "web" \/ pc = "denied"

Settled(p) ==
  LET f == flight[p] IN
  /\ \/ /\ f.pc = "granted"
        /\ store' = [at |-> f.at, rt |-> f.next]
        /\ Settle(p, "retry")
     \/ /\ f.pc \in {"denied", "broken"} /\ Wipes(f.pc)
        /\ store' = NoStore
        /\ Settle(p, "gone")
     \/ /\ f.pc \in {"denied", "broken"} /\ ~Wipes(f.pc)
        /\ Settle(p, "failed")
        /\ UNCHANGED store
  /\ UNCHANGED <<app, server, cooldown, history, used>>

-----------------------------------------------------------------------------
(* Requests: createApiTransport.request *)

Send(r) ==
  /\ TabOf[r] \in Running /\ req[r].pc = "idle" /\ store.at # None
  /\ req' = [req EXCEPT ![r] = [pc |-> "sent", token |-> store.at, again |-> FALSE]]
  /\ UNCHANGED <<app, server, store, flight, cooldown, history, used>>

\* The middleware lets it through, refuses it, or a rule of the business does.
Answer(r) ==
  /\ req[r].pc = "sent"
  /\ IF Admits(req[r].token)
     THEN /\ \/ req' = [req EXCEPT ![r] = Idle] /\ UNCHANGED used
             \/ req' = [req EXCEPT ![r].pc = "refused"] /\ Spend("forbidden")
          /\ UNCHANGED row
     ELSE /\ req' = [req EXCEPT ![r].pc = "refused"]
          /\ (IF req[r].token # None /\ req[r].token[1] \notin lapsed THEN Expire ELSE UNCHANGED row)
          /\ UNCHANGED used
  /\ UNCHANGED <<app, lapsed, spent, store, flight, cooldown, history>>

\* fetch throws: the caller sees it, nothing else happens.
Breaks(r) ==
  /\ req[r].pc = "sent"
  /\ req' = [req EXCEPT ![r] = Idle]
  /\ UNCHANGED <<app, server, store, flight, cooldown, history, used>>

Resend(r) == req' = [req EXCEPT ![r] = [pc |-> "sent", token |-> store.at, again |-> TRUE]]

\* The token has changed under the request: a peer has refreshed it.
Changed(r) == store.at # None /\ req[r].token # None /\ store.at # req[r].token

\* 401 or 403 for the first time.
Refused(r) ==
  LET p == TabOf[r] IN
  /\ req[r].pc = "refused" /\ ~req[r].again
  /\ IF Changed(r) \/ (cooldown[p] /\ store.at # None)
     THEN Resend(r) /\ UNCHANGED <<flight, overlap>>
     ELSE IF flight[p].pc # "none"
     THEN req' = [req EXCEPT ![r].pc = "waiting"] /\ UNCHANGED <<flight, overlap>>
     ELSE IF store.rt = None
     THEN req' = [req EXCEPT ![r].pc = "gone"] /\ UNCHANGED <<flight, overlap>>
     ELSE req' = [req EXCEPT ![r].pc = "waiting"] /\ Launch(p)
  /\ UNCHANGED <<app, server, store, cooldown, out, outrun, used>>

\* The refresh brought a token: once more, with what the store holds now.
Retry(r) ==
  /\ req[r].pc = "retry"
  /\ cooldown' = [cooldown EXCEPT ![TabOf[r]] = TRUE]
  /\ Resend(r)
  /\ UNCHANGED <<app, server, store, flight, history, used>>

\* The refresh failed for a passing reason: the caller gets the first error.
GiveUp(r) ==
  /\ req[r].pc = "failed"
  /\ req' = [req EXCEPT ![r] = Idle]
  /\ UNCHANGED <<app, server, store, flight, cooldown, history, used>>

\* onUnauthorized: no refresh was possible, or the retry was refused too.
Unauthorized(r) ==
  /\ req[r].pc = "gone" \/ (req[r].pc = "refused" /\ req[r].again)
  /\ store' = NoStore
  /\ req' = [req EXCEPT ![r] = Idle]
  /\ UNCHANGED <<app, server, flight, cooldown, history, used>>

\* The user logs out: the server is told if it can be reached, and the tokens
\* are dropped in any case.  Nothing stops a refresh that is under way.
Logout ==
  /\ store # NoStore /\ ~out
  /\ store' = NoStore /\ out' = TRUE
  /\ \/ row' = [row EXCEPT !.status = IF @ = "active" THEN "revoked" ELSE @]
     \/ UNCHANGED row
  /\ UNCHANGED <<app, lapsed, spent, flight, req, cooldown, overlap, outrun, used>>

-----------------------------------------------------------------------------
Refreshing(p) == FindCurrent(p) \/ FindPrevious(p) \/ Rotate(p) \/ Settled(p)
Serving(r)    == Answer(r) \/ Refused(r) \/ Retry(r) \/ GiveUp(r) \/ Unauthorized(r)

Next ==
  \/ \E p \in Tabs : Refreshing(p) \/ RefreshFails(p) \/ Hang(p) \/ RefreshAhead(p) \/ CooldownEnds(p)
  \/ \E r \in Requests : Send(r) \/ Serving(r) \/ Breaks(r)
  \/ Revoke \/ GraceEnds \/ SessionExpires \/ AccessLapses \/ Logout

Spec == Init /\ [][Next]_vars

\* Handlers run, and calls are answered or break: a request of either app and
\* a refresh of the mobile app by their timeouts, a refresh of the web app only
\* if it does not hang.  Nothing is assumed of users, of clocks or of faults.
Fairness == /\ \A p \in Tabs : WF_vars(Refreshing(p))
            /\ \A r \in Requests : WF_vars(Serving(r))

FairSpec == Spec /\ Fairness

-----------------------------------------------------------------------------
(* Properties *)

Tokens == Nat \X {0, 1}

RowOK == row \in [status : {"active", "revoked", "expired"}, live : BOOLEAN,
                  rt : Nat, jti : Nat, prevRt : Nat \cup {None}, prevJti : Nat \cup {None},
                  rtGrace : BOOLEAN, jtiGrace : BOOLEAN]

FlightOK == flight \in [Tabs -> [pc : {"none", "sent", "unknown", "found", "granted", "denied", "broken",
                                       "hung"},
                                 rt : Nat \cup {None}, at : Tokens \cup {None}, next : Nat \cup {None}]]

ReqOK == req \in [Requests -> [pc : {"idle", "sent", "refused", "waiting", "retry", "gone", "failed"},
                               token : Tokens \cup {None}, again : BOOLEAN]]

\* The row, the store, refreshes and requests hold values of their types.
TypeOK == /\ app \in Apps /\ RowOK /\ lapsed \subseteq Nat
          /\ store \in [at : Tokens \cup {None}, rt : Nat \cup {None}]
          /\ FlightOK /\ ReqOK
          /\ cooldown \in [Tabs -> BOOLEAN] /\ spent \subseteq Nat
          /\ overlap \in BOOLEAN /\ out \in BOOLEAN /\ outrun \in BOOLEAN /\ used \subseteq Faults

\* A refresh token is exchanged for a new one at most once, however many
\* processes present it and whatever is lost: a rotation always spends a token.
RotationSpends == [][row'.rt # row.rt => spent' # spent]_vars

\* No process refreshes over another, the user stays logged in, no repeated call is
\* passed by two rotations (the row remembers one old token), and no fault but the
\* ones the app is written for: the mobile app forgives a call that fails.
Calm == /\ ~overlap /\ ~out /\ ~outrun
        /\ used = {} \/ (app = "mobile" /\ used = {"fail"})

\* A calm app does not lose a session that lives: the tokens are dropped only
\* after the server has revoked the session or let it expire.  Fast path,
\* cooldown, single flight and grace windows together leave no other gap.
KeepsLiveSession == Calm /\ store = NoStore => ~Alive

\* Without a refresh beside it, a refresh token that is current, or was until a
\* moment ago, is not refused while the session lives: a reply that was lost does
\* not cost the session.
GraceCovers ==
  \A p \in Tabs :
     flight[p].pc = "denied" /\ ~overlap /\ Alive =>
        flight[p].rt # row.rt /\ ~(flight[p].rt + 1 = row.rt /\ row.rtGrace)

\* Every request ends: none waits for a refresh that nobody settles, except for
\* one of the web app whose fetch hangs.
RequestsEnd == \A r \in Requests : req[r].pc = "sent" ~> req[r].pc = "idle" \/ Stuck(r)

\* What the comment of the transport says: a call that fails does not log the
\* user out; only an explicit 401 or 403 does.  The web app breaks it.
FlakyNetworkKeepsSession ==
  ~overlap /\ ~out /\ used \subseteq {"fail"} /\ store = NoStore => ~Alive
=============================================================================
