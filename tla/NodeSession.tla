---------------------------- MODULE NodeSession ----------------------------
(***************************************************************************)
(* packages/sdk-node/src/nodeSession.ts with the AuthToken of              *)
(* packages/sdk-rtl/src/authToken.ts: one session object holding the API   *)
(* user's token and, while sudoing, an impersonated user's token, used by  *)
(* several concurrent callers of one event loop.                           *)
(*                                                                         *)
(* JavaScript runs a caller without interruption up to its next await, so  *)
(* one action is the code between two awaits.  A request is in flight      *)
(* between the action that sends it and the one that consumes its answer;  *)
(* the server handles it somewhere in between (Answer...).                 *)
(***************************************************************************)
EXTENDS Naturals, FiniteSets

CONSTANTS
  Tasks,      \* callers of sessions
  Parties,    \* sets of tasks that share a session
  Users,      \* users a caller may impersonate
  ApiUser,    \* the user the client credentials stand for
  MaxTokens,  \* bound: access tokens the server issues
  Supply      \* bound: Supply[p] of them to the party p, before only refusing

ASSUME UsersAssumption ==
  /\ ApiUser \notin Users
  /\ {"", "undefined", "nobody"} \cap (Users \union {ApiUser}) = {}
ASSUME PartiesAssumption == Parties \subseteq SUBSET Tasks
ASSUME MaxTokensAssumption == MaxTokens \in Nat

Tokens    == 1 .. MaxTokens
NoToken   == 0               \* access_token === ''
NoUser    == ""              \* sudoId === ''
Undefined == "undefined"     \* login() without an argument
Nobody    == "nobody"        \* no outer _login waits for this logout

VARIABLES
  callers,    \* the tasks that share this session
  sudoId,     \* AuthSession.sudoId
  authTok,    \* _authToken.access_token
  sudoTok,    \* _sudoToken.access_token
  expired,    \* tokens whose expiresAt has passed on the session's clock
  owner,      \* owner[k]: whom the server issued token k for
  revoked,    \* tokens the server has logged out
  task        \* what each caller is doing

vars == <<callers, sudoId, authTok, sudoTok, expired, owner, revoked, task>>
session == <<sudoId, authTok, sudoTok>>

Ids == Users \union {Undefined}

\* pc: the await the caller is parked at. "ready" is the await of sudoLogout()
\* at the top of _login, "loggedOut" the await of logout() inside sudoLogout.
\* "holding" is authenticate's await of getToken(): it holds an AuthToken object,
\* whose value it reads one turn later.
Labels == {"idle", "holding", "ready", "loggedOut",
           "apiSent", "sudoSent", "logoutSent"}

Frame == [ pc      : Labels,
           op      : {"none", "login", "authenticate", "logout"},
           arg     : Ids \union {NoUser},
           newId   : Ids,                     \* _login's parameter
           outer   : Ids \union {Nobody},     \* the _login waiting for logout
           relogin : BOOLEAN,                 \* inside _logout's own login()
           cred    : {NoToken} \union Tokens, \* bearer token of the sudo login
           dying   : {NoToken} \union Tokens, \* bearer token of the logout
           answer  : {"none", "ok", "failed"},
           got     : {NoToken} \union Tokens,
           slot    : {"auth", "sudo"},        \* the object getToken returned
           result  : {"none", "ok", "false", "error"} ]

Idle == [ pc |-> "idle", op |-> "none", arg |-> Undefined, newId |-> Undefined,
          outer |-> Nobody, relogin |-> FALSE, cred |-> NoToken,
          dying |-> NoToken, answer |-> "none", got |-> NoToken,
          slot |-> "auth", result |-> "none" ]

TypeOK ==
  /\ callers \in SUBSET Tasks
  /\ sudoId \in Users \union {NoUser}
  /\ authTok \in Tokens \union {NoToken}
  /\ sudoTok \in Tokens \union {NoToken}
  /\ expired \in SUBSET Tokens
  /\ owner \in [Tokens -> Users \union {ApiUser, Nobody}]
  /\ revoked \in SUBSET Tokens
  /\ task \in [Tasks -> Frame]

Init ==
  /\ callers \in Parties
  /\ sudoId = NoUser
  /\ authTok = NoToken
  /\ sudoTok = NoToken
  /\ expired = {}
  /\ owner = [k \in Tokens |-> Nobody]
  /\ revoked = {}
  /\ task = [t \in Tasks |-> Idle]

----------------------------------------------------------------------------
(* The session's getters.                                                  *)

IsActive(k) == k # NoToken /\ k \notin expired

ActiveTokenOf(auth, sudo) == IF sudo # NoToken THEN sudo ELSE auth
ActiveToken == ActiveTokenOf(authTok, sudoTok)

IsAuthenticated == IsActive(ActiveToken)
IsSudo == sudoId # NoUser /\ IsActive(sudoTok)

----------------------------------------------------------------------------
(* Where a caller goes next. Each operator is the caller's next frame.     *)

Return(result) == [Idle EXCEPT !.result = result]

Hold(f, sudo) == [Idle EXCEPT !.pc = "holding", !.op = f.op,
                              !.slot = IF sudo # NoToken THEN "sudo" ELSE "auth"]

\* login() and getToken() end by returning the object activeToken.
HandOver(f, sudo) ==
  IF f.op = "authenticate" THEN Hold(f, sudo) ELSE Return("ok")

\* logout() with an active token: the bearer token is read as the request is made.
SendLogout(f) == [f EXCEPT !.pc = "logoutSent", !.dying = ActiveToken,
                           !.answer = "none", !.got = NoToken]

\* Mutant: a live sudo session is not logged out before the next login.
EnterLoginKeepingSudo(f, id) == [f EXCEPT !.pc = "ready", !.newId = id]

\* _login(id) up to its first await: a live sudo session is logged out first.
EnterLogin(f, id) ==
  IF IsSudo
    THEN SendLogout([f EXCEPT !.outer = id])
    ELSE [f EXCEPT !.pc = "ready", !.newId = id]

\* _logout returned true: to the sudoLogout that awaits it, or to the caller.
LeaveLogout(f) ==
  IF f.outer # Nobody
    THEN [f EXCEPT !.pc = "loggedOut", !.newId = f.outer, !.outer = Nobody,
                   !.relogin = FALSE, !.answer = "none", !.got = NoToken]
    ELSE Return("ok")

\* _login returned: to the _logout that awaits it, or to the caller.
LeaveLogin(f, sudo) ==
  IF f.relogin THEN LeaveLogout(f) ELSE HandOver(f, sudo)

SendSudo(f, credential) ==
  [f EXCEPT !.pc = "sudoSent", !.cred = credential,
            !.answer = "none", !.got = NoToken]

----------------------------------------------------------------------------
(* Calls.                                                                  *)

Begin(op, arg) == [Idle EXCEPT !.op = op, !.arg = arg]

Login(t, id) ==
  /\ task[t].pc = "idle"
  /\ LET f == Begin("login", id) IN
       task' = [task EXCEPT ![t] =
         IF id = NoUser /\ sudoId = NoUser /\ IsAuthenticated
           THEN HandOver(f, sudoTok)
           ELSE EnterLogin(f, IF id = NoUser THEN Undefined ELSE id)]
  /\ UNCHANGED <<session, expired, owner, revoked>>

\* Mutant: a token counts as active however old it is.
AuthenticateExpired(t) ==
  /\ task[t].pc = "idle"
  /\ LET f == Begin("authenticate", Undefined) IN
       task' = [task EXCEPT ![t] =
         IF ActiveToken # NoToken THEN HandOver(f, sudoTok)
                                  ELSE EnterLogin(f, Undefined)]
  /\ UNCHANGED <<session, expired, owner, revoked>>

\* authenticate() up to its await of getToken().
Authenticate(t) ==
  /\ task[t].pc = "idle"
  /\ LET f == Begin("authenticate", Undefined) IN
       task' = [task EXCEPT ![t] =
         IF IsAuthenticated THEN HandOver(f, sudoTok)
                            ELSE EnterLogin(f, Undefined)]
  /\ UNCHANGED <<session, expired, owner, revoked>>

Logout(t) ==
  /\ task[t].pc = "idle"
  /\ LET f == Begin("logout", Undefined) IN
       task' = [task EXCEPT ![t] =
         IF IsAuthenticated THEN SendLogout(f) ELSE Return("false")]
  /\ UNCHANGED <<session, expired, owner, revoked>>

----------------------------------------------------------------------------
(* Resuming after an await.                                                *)

\* authenticate() after getToken(): the request carries what the object holds now,
\* HeldToken(t).
AttachHeader(t) ==
  /\ task[t].pc = "holding"
  /\ task' = [task EXCEPT ![t] = Return("ok")]
  /\ UNCHANGED <<session, expired, owner, revoked>>

\* sudoLogout after its logout(): drop the sudo token.
SudoLoggedOut(t) ==
  /\ task[t].pc = "loggedOut"
  /\ sudoTok' = NoToken
  /\ task' = [task EXCEPT ![t].pc = "ready"]
  /\ UNCHANGED <<sudoId, authTok, expired, owner, revoked>>

\* Mutant: a login without an argument keeps the sudo id of an earlier one.
LoginKeepingSudoId(t) ==
  /\ task[t].pc = "ready"
  /\ IsActive(authTok)
  /\ sudoId' = IF task[t].newId = Undefined THEN sudoId ELSE task[t].newId
  /\ task' = [task EXCEPT ![t] =
       IF sudoId' # NoUser THEN SendSudo(@, ActiveToken)
                           ELSE LeaveLogin(@, sudoTok)]
  /\ UNCHANGED <<authTok, sudoTok, expired, owner, revoked>>

\* _login after sudoLogout(), the API token still good.
LoginWithApiToken(t) ==
  /\ task[t].pc = "ready"
  /\ IsActive(authTok)
  /\ sudoId' = IF task[t].newId = Undefined THEN NoUser ELSE task[t].newId
  /\ task' = [task EXCEPT ![t] =
       IF sudoId' # NoUser THEN SendSudo(@, ActiveToken)
                           ELSE LeaveLogin(@, sudoTok)]
  /\ UNCHANGED <<authTok, sudoTok, expired, owner, revoked>>

\* _login after sudoLogout(), no API token: everything is reset, the id just
\* assigned included; readConfig() may turn out to hold no credentials.
LoginFresh(t) ==
  /\ task[t].pc = "ready"
  /\ ~IsActive(authTok)
  /\ sudoId' = NoUser
  /\ authTok' = NoToken
  /\ sudoTok' = NoToken
  /\ \/ task' = [task EXCEPT ![t].pc = "apiSent", ![t].answer = "none",
                             ![t].got = NoToken]
     \/ task' = [task EXCEPT ![t] = Return("error")]
  /\ UNCHANGED <<expired, owner, revoked>>

\* Mutant: the granted API token is not kept.
ApiLoginDropped(t) ==
  /\ task[t].pc = "apiSent"
  /\ task[t].answer = "ok"
  /\ task' = [task EXCEPT ![t] = LeaveLogin(@, sudoTok)]
  /\ UNCHANGED <<session, expired, owner, revoked>>

\* The API login was granted; sudoId is read again, as it is now.
ApiLoggedIn(t) ==
  /\ task[t].pc = "apiSent"
  /\ task[t].answer = "ok"
  /\ authTok' = task[t].got
  /\ task' = [task EXCEPT ![t] =
       IF sudoId # NoUser THEN SendSudo(@, ActiveTokenOf(authTok', sudoTok))
                          ELSE LeaveLogin(@, sudoTok)]
  /\ UNCHANGED <<sudoId, sudoTok, expired, owner, revoked>>

\* Mutant: the impersonated user's token is put in the API user's slot.
SudoTokenMisplaced(t) ==
  /\ task[t].pc = "sudoSent"
  /\ task[t].answer = "ok"
  /\ authTok' = task[t].got
  /\ task' = [task EXCEPT ![t] = LeaveLogin(@, sudoTok)]
  /\ UNCHANGED <<sudoId, sudoTok, expired, owner, revoked>>

\* Mutant: the impersonated user's token is not kept.
SudoTokenDropped(t) ==
  /\ task[t].pc = "sudoSent"
  /\ task[t].answer = "ok"
  /\ task' = [task EXCEPT ![t] = LeaveLogin(@, sudoTok)]
  /\ UNCHANGED <<session, expired, owner, revoked>>

SudoLoggedIn(t) ==
  /\ task[t].pc = "sudoSent"
  /\ task[t].answer = "ok"
  /\ sudoTok' = task[t].got
  /\ task' = [task EXCEPT ![t] = LeaveLogin(@, sudoTok')]
  /\ UNCHANGED <<sudoId, authTok, expired, owner, revoked>>

\* Mutant: an API token that has run out meanwhile is not renewed.
LoggedOutNoRelogin(t) ==
  /\ task[t].pc = "logoutSent"
  /\ task[t].answer = "ok"
  /\ sudoId' = NoUser
  /\ sudoTok' = NoToken
  /\ authTok' = IF sudoId # NoUser THEN authTok ELSE NoToken
  /\ task' = [task EXCEPT ![t] = LeaveLogout(@)]
  /\ UNCHANGED <<expired, owner, revoked>>

\* _logout after the DELETE: back to the API user, logging it in again if its
\* token has run out; or, not sudoing, everything is reset.
LoggedOut(t) ==
  /\ task[t].pc = "logoutSent"
  /\ task[t].answer = "ok"
  /\ sudoId' = NoUser
  /\ sudoTok' = NoToken
  /\ \/ /\ sudoId # NoUser
        /\ authTok' = authTok
        /\ task' = [task EXCEPT ![t] =
             IF IsActive(authTok)
               THEN LeaveLogout(@)
               ELSE [@ EXCEPT !.pc = "ready", !.newId = Undefined,
                              !.relogin = TRUE, !.answer = "none"]]
     \/ /\ sudoId = NoUser
        /\ authTok' = NoToken
        /\ task' = [task EXCEPT ![t] = LeaveLogout(@)]
  /\ UNCHANGED <<expired, owner, revoked>>

\* Mutant: a failed request is tried again without end.
RequestRetried(t) ==
  /\ task[t].answer = "failed"
  /\ task' = [task EXCEPT ![t].pc = "ready", ![t].answer = "none"]
  /\ UNCHANGED <<session, expired, owner, revoked>>

\* ok() throws what the transport reported and nothing on the way catches it.
RequestFailed(t) ==
  /\ task[t].answer = "failed"
  /\ task' = [task EXCEPT ![t] = Return("error")]
  /\ UNCHANGED <<session, expired, owner, revoked>>

----------------------------------------------------------------------------
(* The server, as the requests see it, and time.                           *)

Issued == {k \in Tokens : owner[k] # Nobody}
Honoured(k) == k \in Tokens /\ k \notin revoked

Grant(t, user) ==
  /\ \E k \in Tokens \ Issued :
       /\ k <= Supply[callers]
       /\ \A j \in Tokens : j < k => j \in Issued
       /\ owner' = [owner EXCEPT ![k] = user]
       /\ task' = [task EXCEPT ![t].answer = "ok", ![t].got = k]
  /\ UNCHANGED <<session, expired, revoked>>

Refuse(t) ==
  /\ task' = [task EXCEPT ![t].answer = "failed"]
  /\ UNCHANGED <<session, expired, owner>>

AnswerApiLogin(t) ==
  /\ task[t].pc = "apiSent"
  /\ task[t].answer = "none"
  /\ \/ Grant(t, ApiUser)
     \/ Refuse(t) /\ UNCHANGED revoked

\* A locally expired credential may still be inside the server's own lifetime:
\* the session retires it lagTime seconds early.
AnswerSudoLogin(t) ==
  /\ task[t].pc = "sudoSent"
  /\ task[t].answer = "none"
  /\ \/ /\ Honoured(task[t].cred)
        /\ task[t].newId \in Users
        /\ Grant(t, task[t].newId)
     \/ Refuse(t) /\ UNCHANGED revoked

\* The logout may be carried out and its answer lost.
AnswerLogout(t) ==
  /\ task[t].pc = "logoutSent"
  /\ task[t].answer = "none"
  /\ \/ /\ Honoured(task[t].dying)
        /\ revoked' = revoked \union {task[t].dying}
        /\ \/ /\ task' = [task EXCEPT ![t].answer = "ok"]
              /\ UNCHANGED <<session, expired, owner>>
           \/ Refuse(t)
     \/ Refuse(t) /\ UNCHANGED revoked

\* expiresAt of a token the session holds passes.
Expire ==
  /\ \E k \in {authTok, sudoTok} \ ({NoToken} \union expired) :
       expired' = expired \union {k}
  /\ UNCHANGED <<callers, session, owner, revoked, task>>

----------------------------------------------------------------------------
Call(t) ==
  /\ \/ \E id \in Ids \union {NoUser} : Login(t, id)
     \/ Authenticate(t)
     \/ Logout(t)
  /\ UNCHANGED callers

Resume(t) ==
  /\ \/ AttachHeader(t)
     \/ SudoLoggedOut(t)
     \/ LoginWithApiToken(t)
     \/ LoginFresh(t)
     \/ ApiLoggedIn(t)
     \/ SudoLoggedIn(t)
     \/ LoggedOut(t)
     \/ RequestFailed(t)
  /\ UNCHANGED callers

Answer(t) ==
  /\ AnswerApiLogin(t) \/ AnswerSudoLogin(t) \/ AnswerLogout(t)
  /\ UNCHANGED callers

Next == Expire \/ \E t \in callers : Call(t) \/ Resume(t) \/ Answer(t)

Spec == Init /\ [][Next]_vars

\* The event loop resumes what is ready, and the transport's timeout answers a
\* request the server leaves open. Nobody has to make a call.
Fairness == \A t \in Tasks : WF_vars(Resume(t)) /\ WF_vars(Answer(t))

FairSpec == Spec /\ Fairness

HeldToken(t) == IF task[t].slot = "sudo" THEN sudoTok ELSE authTok

\* The step in which caller t's pending call returns.
Returns(t, result) ==
  task[t].pc # "idle" /\ task'[t].pc = "idle" /\ task'[t].result = result

\* Whom the next API call acts as.
Who == IF IsAuthenticated THEN owner[ActiveToken] ELSE Nobody

OneCaller == \A s, t \in callers : s = t

----------------------------------------------------------------------------
(* Properties of any number of callers.                                    *)

\* The API slot only ever holds tokens of the API user and the sudo slot only
\* tokens of impersonated users, however the awaits of the callers interleave:
\* what keeps "revert to the API user" from leaving someone else in charge.
SlotOwners ==
  /\ authTok # NoToken => owner[authTok] = ApiUser
  /\ sudoTok # NoToken => owner[sudoTok] \in Users

\* Every call returns or throws: the calls login, sudoLogout, logout and _logout
\* make of each other end, whatever the other callers do in between.
CallsReturn == \A t \in Tasks : task[t].pc # "idle" ~> task[t].pc = "idle"

----------------------------------------------------------------------------
(* Properties of a session with one caller.                                *)

\* An active sudo token is the token of the user sudoId names: what isSudo()
\* and sudoId report is who the API calls act as.
IdentityAgrees == IsActive(sudoTok) => sudoId # NoUser /\ owner[sudoTok] = sudoId

\* A sudo login asks for the user sudoId names (never /login/undefined, and
\* never for the user of an earlier call).
SudoRequestNamesSudoId ==
  \A t \in callers : task[t].pc = "sudoSent" => task[t].newId = sudoId

\* sudoId tells the truth: it names whom the session acts as, and whom it is
\* about to act as.
SudoIdIsTrue == OneCaller => IdentityAgrees /\ SudoRequestNamesSudoId

\* authenticate() that does not throw always decorates the request: the token
\* object getToken hands over is never empty when it is read.
AuthenticateDecorates ==
  OneCaller => \A t \in callers : task[t].pc = "holding" => HeldToken(t) # NoToken

\* "for linty freshness, always logout sudo if set": the session never goes from
\* one impersonated user straight to another, the first is logged out between.
NoDirectSwitch ==
  [][OneCaller /\ Who \in Users /\ Who' \in Users => Who' = Who]_vars

\* "Activate the authentication token for the API3 or sudo user": a login that
\* succeeds leaves the session acting for the user it was asked for.
LoginActivates ==
  [][\A t \in callers :
       OneCaller /\ task[t].op = "login" /\ Returns(t, "ok")
       => Who' = IF task[t].arg \in Users THEN task[t].arg ELSE ApiUser]_vars

\* A login for a user that succeeds leaves the session acting for that user and
\* saying so, whatever it found and had to log out first, unless the API token
\* was fetched last (LoginActivates is false of that one).
LoginImpersonates ==
  [][\A t \in callers :
       /\ OneCaller /\ task[t].op = "login" /\ task[t].arg \in Users
       /\ Returns(t, "ok") /\ task[t].pc # "apiSent"
       => sudoId' = task[t].arg /\ Who' = task[t].arg]_vars

\* The token object getToken() hands over is active, but for a sudo token that
\* expired while the API token lives: it is never renewed (nodeSession.ts:56).
GetTokenIsActive ==
  [][\A t \in callers :
       OneCaller /\ task[t].pc # "holding" /\ task'[t].pc = "holding"
       => IsAuthenticated' \/ (task'[t].slot = "sudo" /\ IsActive(authTok)')]_vars

\* A logout that reports success leaves the session acting as the API user, whose
\* token is renewed first if it has run out, if it logged an impersonated user out,
\* and leaves the token it logged out in neither slot - but for an API token logged
\* out while sudoId names a user whose login was refused: the sudo branch leaves
\* that one where it is (nodeSession.ts:230).
LogoutTakesEffect ==
  [][\A t \in callers :
       OneCaller /\ task[t].op = "logout" /\ Returns(t, "ok") =>
         LET impersonated == owner[task[t].dying] \in Users IN
           /\ impersonated => Who' = ApiUser
           /\ impersonated \/ sudoId = NoUser => task[t].dying \notin {authTok', sudoTok'}]_vars
============================================================================
