------------------------------ MODULE Sessions ------------------------------
(***************************************************************************)
(* The sign-ins of one user: sessions and their refresh tokens, under      *)
(* concurrent sign-ins, refreshes from several tabs, sign-outs and an      *)
(* administrator's force-outs and locks.                                   *)
(* backend/src/modules/auth/auth.service.js and sessions.js, with          *)
(* users.service.js for what an administrator does.                        *)
(*                                                                         *)
(* Nothing but row locks orders these requests, so every statement that    *)
(* may wait for a row is a step: it takes its snapshot (targets), locks    *)
(* row by row and looks again at what it locked. What a transaction wrote  *)
(* is seen by others when it commits. A deadlock ends one of its           *)
(* transactions (errorHandler.js answers RETRY). Left out: the share lock  *)
(* a new refresh token takes on its user's row, which makes a refresh wait *)
(* for an administrator's lock of the account.                             *)
(***************************************************************************)
EXTENDS Naturals, Sequences, FiniteSets

CONSTANTS
  Proc,          \* requests under way at the same time
  Nobody,        \* holds a row nobody holds
  MaxRequests    \* bound: requests

ASSUME SessionsAssumption == Nobody \notin Proc /\ MaxRequests \in Nat

VARIABLES
  session,    \* user_session rows: "OPEN" or "ENDED"
  token,      \* refresh_token rows: their family (session) and state
  holder,     \* who holds the lock of a row
  req,        \* the request each process serves
  requests    \* requests begun

sessionVars == <<session, token, holder, req, requests>>

\* A request inserts at most one session and one token.
Id == 1..(MaxRequests + 2)
UserRow == <<"user", 0>>
SessionRow(s) == <<"session", s>>
TokenRow(t) == <<"token", t>>
Row == {UserRow} \cup {SessionRow(s) : s \in Id} \cup {TokenRow(t) : t \in Id}

Idle == [kind |-> "NONE", step |-> "IDLE", token |-> 0, targets |-> {}, ending |-> {}, revoking |-> {}]

OpenSessions == {s \in DOMAIN session : session[s] = "OPEN"}
LiveTokens(families) == {t \in DOMAIN token : token[t].state = "LIVE" /\ token[t].family \in families}

SessionsInit ==
  /\ session = <<"OPEN">>
  /\ token = <<[family |-> 1, state |-> "ROTATED"], [family |-> 1, state |-> "LIVE"]>>
  /\ holder = [r \in Row |-> Nobody] /\ req = [p \in Proc |-> Idle] /\ requests = 0

-----------------------------------------------------------------------------
(* Transactions *)

Free(p, row) == holder[row] \in {Nobody, p}
Lock(p, row) == holder' = [holder EXCEPT ![row] = p]
GoTo(p, step) == req' = [req EXCEPT ![p].step = step]

\* Broken variant: the connection goes back to the pool inside its transaction.
DoneUnreleased(p) == req' = [req EXCEPT ![p] = Idle] /\ UNCHANGED holder

\* The request ends and its locks are released.
Done(p) ==
  /\ req' = [req EXCEPT ![p] = Idle]
  /\ holder' = [r \in Row |-> IF holder[r] = p THEN Nobody ELSE holder[r]]

Ended(p) == [s \in DOMAIN session |-> IF s \in req[p].ending THEN "ENDED" ELSE session[s]]
Revoked(p) == [t \in DOMAIN token |-> IF t \in req[p].revoking THEN [token[t] EXCEPT !.state = "REVOKED"] ELSE token[t]]

Begin(p, kind, step, t) ==
  /\ req[p] = Idle /\ requests < MaxRequests
  /\ req' = [req EXCEPT ![p] = [Idle EXCEPT !.kind = kind, !.step = step, !.token = t]]
  /\ requests' = requests + 1
  /\ UNCHANGED <<session, token, holder>>

\* Broken variant: earlier sessions are looked up before the user's row is written.
LoginReadingFirst(p) == Begin(p, "LOGIN", "END", 0)

\* Sign-in, and a change of password: the user's row is written first.
Login(p) == Begin(p, "LOGIN", "USER", 0)

\* A reset of the password, an administrator's lock or deactivation.
CloseAccount(p) == Begin(p, "CLOSE", "USER", 0)
\* An administrator's force-out: the user's row is written last.
ForceLogout(p) == Begin(p, "FORCE", "END", 0)
\* An administrator ends one session; a sign-out.
EndOne(p, t) == Begin(p, "END_ONE", "END", t)
Logout(p, t) == Begin(p, "LOGOUT", "END", t)
Refresh(p, t) == Begin(p, "REFRESH", "TOKEN", t)

\* The update of the user's row; a force-out is over with it.
WriteUser(p) ==
  /\ req[p].step = "USER" /\ Free(p, UserRow)
  /\ Lock(p, UserRow) /\ GoTo(p, IF req[p].kind = "FORCE" THEN "COMMIT" ELSE "END")
  /\ UNCHANGED <<session, token, requests>>

-----------------------------------------------------------------------------
(* endSessions *)

FamilyOf(p) == token[req[p].token].family

\* An administrator ends one session in one transaction; a sign-out runs its statements one by one.
OfOneSession(p) == req[p].kind \in {"LOGOUT", "END_ONE"}

\* The sessions it ends: the user's open ones, or one.
FindSessions(p) ==
  /\ req[p].step = "END"
  /\ LET found == IF OfOneSession(p) THEN OpenSessions \cap {FamilyOf(p)} ELSE OpenSessions IN
       req' = [req EXCEPT ![p].step = "SESSIONS", ![p].targets = found]
  /\ UNCHANGED <<session, token, holder, requests>>

EndSession(p, s) ==
  /\ req[p].step = "SESSIONS" /\ s \in req[p].targets /\ Free(p, SessionRow(s))
  /\ Lock(p, SessionRow(s))
  /\ req' = [req EXCEPT ![p].targets = @ \ {s}, ![p].ending = IF session[s] = "OPEN" THEN @ \cup {s} ELSE @]
  /\ UNCHANGED <<session, token, requests>>

\* At a sign-out every statement commits by itself.
SessionsEnded(p) ==
  /\ req[p].step = "SESSIONS" /\ req[p].targets = {}
  /\ IF req[p].kind = "LOGOUT"
     THEN /\ session' = Ended(p) /\ holder' = [r \in Row |-> IF holder[r] = p THEN Nobody ELSE holder[r]]
          /\ req' = [req EXCEPT ![p].step = "FIND", ![p].ending = {}]
     ELSE GoTo(p, "FIND") /\ UNCHANGED <<session, holder>>
  /\ UNCHANGED <<token, requests>>

\* The tokens it revokes: the user's live ones, or one session's, an administrator's only if there
\* was a session to end.
TokensToRevoke(p) ==
  CASE ~OfOneSession(p)                                -> LiveTokens(DOMAIN session)
    [] req[p].kind = "END_ONE" /\ req[p].ending = {}   -> {}
    [] OTHER                                           -> LiveTokens({FamilyOf(p)})

FindTokens(p) ==
  /\ req[p].step = "FIND"
  /\ req' = [req EXCEPT ![p].step = "TOKENS", ![p].targets = TokensToRevoke(p)]
  /\ UNCHANGED <<session, token, holder, requests>>

RevokeToken(p, t) ==
  /\ req[p].step = "TOKENS" /\ t \in req[p].targets /\ Free(p, TokenRow(t))
  /\ Lock(p, TokenRow(t))
  /\ req' = [req EXCEPT ![p].targets = @ \ {t}, ![p].revoking = IF token[t].state = "LIVE" THEN @ \cup {t} ELSE @]
  /\ UNCHANGED <<session, token, requests>>

TokensRevoked(p) ==
  /\ req[p].step = "TOKENS" /\ req[p].targets = {}
  /\ GoTo(p, CASE req[p].kind = "FORCE" -> "USER" [] req[p].kind = "REFRESH" -> "FAMILY" [] OTHER -> "COMMIT")
  /\ UNCHANGED <<session, token, holder, requests>>

\* A sign-in inserts its session and refresh token.
Commit(p) ==
  /\ req[p].step = "COMMIT"
  /\ IF req[p].kind = "LOGIN"
     THEN /\ session' = Append(Ended(p), "OPEN")
          /\ token' = Append(Revoked(p), [family |-> Len(session) + 1, state |-> "LIVE"])
     ELSE session' = Ended(p) /\ token' = Revoked(p)
  /\ Done(p)
  /\ UNCHANGED requests

-----------------------------------------------------------------------------
(* refresh *)

\* The token's row is locked and read. It is refused when it was rotated a moment ago (by another
\* tab), when it was revoked or when its user may not sign in; an expired one ends its session, one
\* rotated longer ago the whole sign-in.
ReadToken(p) ==
  /\ req[p].step = "TOKEN" /\ Free(p, TokenRow(req[p].token))
  /\ LET state == token[req[p].token].state IN
       \/ Done(p)
       \/ /\ state = "LIVE" /\ Lock(p, TokenRow(req[p].token))
          /\ GoTo(p, "SESSION") \/ GoTo(p, "FAMILY")
       \/ /\ state = "ROTATED" /\ Lock(p, TokenRow(req[p].token))
          /\ req' = [req EXCEPT ![p].step = "TOKENS", ![p].targets = LiveTokens({FamilyOf(p)})]
  /\ UNCHANGED <<session, token, requests>>

EndFamily(p) ==
  /\ req[p].step = "FAMILY" /\ Free(p, SessionRow(FamilyOf(p)))
  /\ Lock(p, SessionRow(FamilyOf(p)))
  /\ req' = [req EXCEPT ![p].step = "COMMIT", ![p].ending = {FamilyOf(p)} \cap OpenSessions]
  /\ UNCHANGED <<session, token, requests>>

\* Broken variant: the session's row is read, not written.
RefreshSessionReading(p) ==
  /\ req[p].step = "SESSION"
  /\ IF session[FamilyOf(p)] = "ENDED" THEN Done(p) ELSE GoTo(p, "ROTATE") /\ UNCHANGED holder
  /\ UNCHANGED <<session, token, requests>>

\* sessionRefreshed: the session's row is written if it is open; a session idle too long ends.
RefreshSession(p) ==
  /\ req[p].step = "SESSION" /\ Free(p, SessionRow(FamilyOf(p)))
  /\ \/ session[FamilyOf(p)] = "ENDED" /\ Done(p)
     \/ /\ session[FamilyOf(p)] = "OPEN" /\ Lock(p, SessionRow(FamilyOf(p)))
        /\ \/ GoTo(p, "ROTATE")
           \/ req' = [req EXCEPT ![p].step = "COMMIT", ![p].ending = {FamilyOf(p)}, ![p].revoking = {req[p].token}]
  /\ UNCHANGED <<session, token, requests>>

Rotate(p) ==
  /\ req[p].step = "ROTATE"
  /\ token' = Append([token EXCEPT ![req[p].token].state = "ROTATED"], [family |-> FamilyOf(p), state |-> "LIVE"])
  /\ Done(p)
  /\ UNCHANGED <<session, requests>>

-----------------------------------------------------------------------------
(* Waiting *)

\* The rows a process may lock next.
Wanted(p) ==
  CASE req[p].step = "USER"     -> {UserRow}
    [] req[p].step = "SESSIONS" -> {SessionRow(s) : s \in req[p].targets}
    [] req[p].step = "TOKENS"   -> {TokenRow(t) : t \in req[p].targets}
    [] req[p].step = "TOKEN"    -> {TokenRow(req[p].token)}
    [] req[p].step \in {"SESSION", "FAMILY"} -> {SessionRow(FamilyOf(p))}
    [] OTHER -> {}

\* All the rows p may lock next are held, one of them by q.
WaitsFor(p, q) ==
  /\ p # q /\ Wanted(p) # {}
  /\ \A r \in Wanted(p) : ~Free(p, r)
  /\ \E r \in Wanted(p) : holder[r] = q

Deadlocked(p) ==
  \E q \in Proc : WaitsFor(p, q) /\ (WaitsFor(q, p) \/ \E r \in Proc : WaitsFor(q, r) /\ WaitsFor(r, p))

\* PostgreSQL ends a transaction of the cycle: nothing it wrote stays.
Deadlock(p) ==
  /\ Deadlocked(p) /\ Done(p)
  /\ UNCHANGED <<session, token, requests>>

Start(p) ==
  \/ Login(p) \/ CloseAccount(p) \/ ForceLogout(p)
  \/ \E t \in DOMAIN token : EndOne(p, t) \/ Logout(p, t) \/ Refresh(p, t)

Step(p) ==
  \/ WriteUser(p) \/ FindSessions(p) \/ SessionsEnded(p) \/ FindTokens(p) \/ TokensRevoked(p) \/ Commit(p)
  \/ \E s \in DOMAIN session : EndSession(p, s)
  \/ \E t \in DOMAIN token : RevokeToken(p, t)
  \/ ReadToken(p) \/ EndFamily(p) \/ RefreshSession(p) \/ Rotate(p)
  \/ Deadlock(p)

SessionsNext == \E p \in Proc : Start(p) \/ Step(p)

\* A request that is begun runs on: its statements return once the rows they wait for are free.
SessionsFairness == \A p \in Proc : WF_sessionVars(Step(p))

SessionsSpec == SessionsInit /\ [][SessionsNext]_sessionVars /\ SessionsFairness

-----------------------------------------------------------------------------
(* What the sign-ins promise *)

Request ==
  [kind : {"NONE", "LOGIN", "CLOSE", "FORCE", "END_ONE", "LOGOUT", "REFRESH"},
   step : {"IDLE", "USER", "END", "SESSIONS", "FIND", "TOKENS", "COMMIT", "TOKEN", "FAMILY", "SESSION", "ROTATE"},
   token : {0} \cup Id, targets : SUBSET Id, ending : SUBSET Id, revoking : SUBSET Id]

SessionsTypeOK ==
  /\ session \in Seq({"OPEN", "ENDED"}) /\ {Len(session), Len(token)} \subseteq Id
  /\ token \in Seq([family : Id, state : {"LIVE", "ROTATED", "REVOKED"}])
  /\ holder \in [Row -> Proc \cup {Nobody}] /\ req \in [Proc -> Request] /\ requests \in 0..MaxRequests

\* "One sign-in at a time: earlier sessions of this user end now": however sign-ins, refreshes and
\* force-outs overlap, one session of the user is open, and a session has one live refresh token.
OneSignIn ==
  /\ SessionsTypeOK
  /\ Cardinality(OpenSessions) <= 1
  /\ \A s \in DOMAIN session : Cardinality(LiveTokens({s})) <= 1

\* A session that ended "cannot come back": it never opens again and gets no new refresh token, not
\* even from a refresh that was under way when it ended (sessionRefreshed).
EndedStaysEnded ==
  [][\A s \in DOMAIN session : session[s] = "ENDED" =>
       /\ session'[s] = "ENDED"
       /\ \A t \in DOMAIN token' \ DOMAIN token : token'[t].family # s]_sessionVars

\* Every request ends: none leaves its transaction, and with it its locks, open on any of its ways out.
\* Sign-ins, refreshes and force-outs lock the rows in different orders; PostgreSQL breaks a circle of
\* waiting in any order, so this does not say that their orders fit.
RequestsEnd == \A p \in Proc : req[p] # Idle ~> req[p] = Idle
=============================================================================
