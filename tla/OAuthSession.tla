---------------------------- MODULE OAuthSession ----------------------------
(***************************************************************************)
(* packages/sdk-rtl/src/oauthSession.ts: the session of a browser page     *)
(* that logs in by an authorization code with a PKCE verifier.  The login  *)
(* leaves the page for the server's /auth page and ends in a new page,     *)
(* which only has the session storage of the old one.                      *)
(*                                                                         *)
(* Several callers of the page share the session.  One action is the code  *)
(* of a call between two awaits.                                           *)
(***************************************************************************)
EXTENDS Naturals

CONSTANTS
  Tasks,      \* concurrent callers in the page
  MaxLogins,  \* bound: code verifiers generated
  MaxTokens,  \* bound: access tokens the server issues before only refusing
  Patient     \* no call is made while the browser is leaving for /auth

ASSUME MaxLoginsAssumption == MaxLogins \in Nat
ASSUME MaxTokensAssumption == MaxTokens \in Nat
ASSUME PatientAssumption == Patient \in BOOLEAN

None   == 0
Logins == 1 .. MaxLogins   \* a verifier, its challenge, the code issued for the
                           \* challenge and the grant the code is redeemed for
Tokens == 1 .. MaxTokens

VARIABLES
  returnUrl,  \* session storage: is a return URL stored
  verifier,   \* session storage: the code verifier
  access,     \* activeToken.access_token
  refresh,    \* activeToken.refresh_token, the grant it belongs to
  expired,    \* access tokens whose expiresAt has passed
  page,       \* what the browser shows: the application or /auth
  url,        \* the code in the query of the application's URL
  target,     \* the challenge of the /auth URL the browser goes to or shows
  made,       \* how many verifiers have been generated
  issued,     \* issued[k]: the grant of access token k, None before it is issued
  spent,      \* codes the server has redeemed
  ended,      \* grants the server has logged out
  call        \* what each caller is doing

storage == <<returnUrl, verifier>>
active  == <<access, refresh>>
browser == <<page, url, target>>
server  == <<issued, spent, ended>>
vars == <<storage, active, expired, browser, made, server, call>>

\* pc: the await the call is parked at.
Frame == [ pc     : {"idle", "hashing", "redeeming", "redeemed", "refreshing",
                     "loggingOut"},
            code   : {None} \union Logins,   \* code or refresh token presented
           ver    : {None} \union Logins,   \* verifier hashed or presented
           dying  : {None} \union Logins,   \* grant of the logout's bearer token
           answer : {"none", "ok", "failed"},
           got    : {None} \union Tokens,
           keep   : {None} \union Logins,   \* refresh token of the answer
           result : {"none", "ok", "false", "error"} ]

Idle == [ pc |-> "idle", code |-> None, ver |-> None,
          dying |-> None, answer |-> "none", got |-> None, keep |-> None,
          result |-> "none" ]

TypeOK ==
  /\ returnUrl \in BOOLEAN
  /\ verifier \in {None} \union Logins
  /\ access \in {None} \union Tokens
  /\ refresh \in {None} \union Logins
  /\ expired \in SUBSET Tokens
  /\ page \in {"app", "auth"}
  /\ url \in {None} \union Logins
  /\ target \in {None} \union Logins
  /\ made \in {None} \union Logins
  /\ issued \in [Tokens -> {None} \union Logins]
  /\ spent \in SUBSET ({None} \union Logins)
  /\ ended \in SUBSET ({None} \union Logins)
  /\ call \in [Tasks -> Frame]

Init ==
  /\ returnUrl = FALSE /\ verifier = None
  /\ access = None /\ refresh = None /\ expired = {}
  /\ page = "app" /\ url = None /\ target = None
  /\ made = None
  /\ issued = [k \in Tokens |-> None] /\ spent = {} /\ ended = {}
  /\ call = [t \in Tasks |-> Idle]

----------------------------------------------------------------------------
(* The calls.                                                              *)

IsActive(k) == k # None /\ k \notin expired
IsAuthenticated == IsActive(access)

Return(result) == [Idle EXCEPT !.result = result]

SendRefresh == [Idle EXCEPT !.pc = "refreshing", !.code = refresh]

\* getToken(): the token as it is, or after a refresh if there is a way to.
FetchToken ==
  IF ~IsAuthenticated /\ refresh # None THEN SendRefresh ELSE Return("ok")

Ready(t) == page = "app" /\ call[t].pc = "idle" /\ (Patient => target = None)

GetToken(t) ==
  /\ Ready(t)
  /\ call' = [call EXCEPT ![t] = FetchToken]
  /\ UNCHANGED <<storage, active, expired, browser, made, server>>

LoginAgain(t) ==
  /\ Ready(t) /\ IsAuthenticated
  /\ call' = [call EXCEPT ![t] = Return("ok")]
  /\ UNCHANGED <<storage, active, expired, browser, made, server>>

\* Mutant: a verifier that is already stored is used again.
StartLoginReusing(t) ==
  /\ Ready(t) /\ ~IsAuthenticated /\ ~returnUrl
  /\ made < MaxLogins
  /\ made' = made + 1
  /\ verifier' = IF verifier = None THEN made' ELSE verifier
  /\ call' = [call EXCEPT ![t] =
       [Idle EXCEPT !.pc = "hashing", !.ver = made']]
  /\ UNCHANGED <<returnUrl, active, expired, browser, server>>

\* login() that has not been initiated: createAuthCodeRequestUrl stores a new
\* verifier and awaits the hash of it.
StartLogin(t) ==
  /\ Ready(t) /\ ~IsAuthenticated /\ ~returnUrl
  /\ made < MaxLogins
  /\ made' = made + 1
  /\ verifier' = made'
  /\ call' = [call EXCEPT ![t] =
       [Idle EXCEPT !.pc = "hashing", !.ver = made']]
  /\ UNCHANGED <<returnUrl, active, expired, browser, server>>

\* The challenge is there: the browser is sent to /auth and meanwhile the code
\* runs on into getToken().
LeaveForAuth(t) ==
  /\ call[t].pc = "hashing"
  /\ returnUrl' = TRUE
  /\ target' = call[t].ver
  /\ call' = [call EXCEPT ![t] = FetchToken]
  /\ UNCHANGED <<verifier, active, expired, page, url, made, server>>

\* login() with a return URL stored, taken for coming back from /auth.
ReturnFromAuth(t) ==
  /\ Ready(t) /\ ~IsAuthenticated /\ returnUrl
  /\ returnUrl' = FALSE
  /\ call' = [call EXCEPT ![t] =
       IF verifier = None \/ url = None
         THEN Return("error")
         ELSE [Idle EXCEPT !.pc = "redeeming",
                           !.code = url, !.ver = verifier]]
  /\ UNCHANGED <<verifier, active, expired, browser, made, server>>

\* Mutant: the refresh token is taken from every answer.
SetTokenDropping(f) == access' = f.got /\ refresh' = f.keep

\* setToken: an answer without a refresh token keeps the old one.
SetToken(f) ==
  /\ access' = f.got
  /\ refresh' = IF f.keep # None THEN f.keep ELSE refresh

\* requestToken has its answer; it goes into what is activeToken by now.
TokenReceived(t) ==
  /\ call[t].pc \in {"redeeming", "refreshing"} /\ call[t].answer = "ok"
  /\ SetToken(call[t])
  /\ call' = [call EXCEPT ![t] =
       IF call[t].pc = "redeeming"
         THEN [Idle EXCEPT !.pc = "redeemed"]
         ELSE Return("ok")]
  /\ UNCHANGED <<storage, expired, browser, made, server>>

\* login() goes on into getToken(), which may find a token that lived too short.
FetchRedeemed(t) ==
  /\ call[t].pc = "redeemed"
  /\ call' = [call EXCEPT ![t] = FetchToken]
  /\ UNCHANGED <<storage, active, expired, browser, made, server>>

\* Mutant: the access token is forgotten, and the server not told.
LogoutForgetting(t) ==
  /\ Ready(t) /\ access # None
  /\ access' = None
  /\ call' = [call EXCEPT ![t] = Return("ok")]
  /\ UNCHANGED <<storage, refresh, expired, browser, made, server>>

\* logout(): an expired token is logged out as well.
Logout(t) ==
  /\ Ready(t)
  /\ call' = [call EXCEPT ![t] =
       IF access = None THEN Return("false")
         ELSE [Idle EXCEPT !.pc = "loggingOut",
                           !.dying = issued[access]]]
  /\ UNCHANGED <<storage, active, expired, browser, made, server>>

\* logout's answer: a new activeToken, and no session storage.
LoggedOut(t) ==
  /\ call[t].pc = "loggingOut" /\ call[t].answer = "ok"
  /\ access' = None /\ refresh' = None
  /\ returnUrl' = FALSE /\ verifier' = None
  /\ call' = [call EXCEPT ![t] = Return("ok")]
  /\ UNCHANGED <<expired, browser, made, server>>

RequestFailed(t) ==
  /\ call[t].answer = "failed"
  /\ call' = [call EXCEPT ![t] = Return("error")]
  /\ UNCHANGED <<storage, active, expired, browser, made, server>>

----------------------------------------------------------------------------
(* The server and the clock.                                               *)

Answer(t, f) ==
  /\ call' = [call EXCEPT ![t] = f]
  /\ UNCHANGED <<storage, active, expired, browser, made>>

Refuse(t) == Answer(t, [call[t] EXCEPT !.answer = "failed"]) /\ UNCHANGED server

\* The next access token, of the grant the caller's code or refresh token is for,
\* with or without a refresh token.
Grant(t) ==
  \E k \in Tokens, keep \in {None, call[t].code} :
    /\ issued[k] = None /\ \A j \in 1 .. k - 1 : issued[j] # None
    /\ issued' = [issued EXCEPT ![k] = call[t].code]
    /\ Answer(t, [call[t] EXCEPT !.answer = "ok", !.got = k, !.keep = keep])

\* A code is good once, with the verifier of its challenge.
AnswerCode(t) ==
  /\ call[t].pc = "redeeming" /\ call[t].answer = "none"
  /\ \/ /\ call[t].ver = call[t].code /\ call[t].code \notin spent
        /\ Grant(t)
        /\ spent' = spent \union {call[t].code}
        /\ UNCHANGED ended
     \/ Refuse(t)

AnswerRefresh(t) ==
  /\ call[t].pc = "refreshing" /\ call[t].answer = "none"
  /\ \/ /\ call[t].code \notin ended
        /\ Grant(t)
        /\ UNCHANGED <<spent, ended>>
     \/ Refuse(t)

\* The logout may be carried out and its answer lost.
AnswerLogout(t) ==
  /\ call[t].pc = "loggingOut" /\ call[t].answer = "none"
  /\ \/ /\ ended' = ended \union {call[t].dying}
        /\ \E answer \in {"ok", "failed"} :
             Answer(t, [call[t] EXCEPT !.answer = answer])
        /\ UNCHANGED <<issued, spent>>
     \/ Refuse(t)

Expire ==
  /\ IsAuthenticated
  /\ expired' = expired \union {access}
  /\ UNCHANGED <<storage, active, browser, made, server, call>>

----------------------------------------------------------------------------
(* The browser.                                                            *)

\* A page that goes takes its session and the calls in it along.
PageLost ==
  /\ access' = None /\ refresh' = None
  /\ call' = [t \in Tasks |-> Idle]
  /\ UNCHANGED <<storage, expired, made, server>>

Unload ==
  /\ page = "app" /\ target # None
  /\ page' = "auth"
  /\ PageLost
  /\ UNCHANGED <<url, target>>

Reload ==
  /\ page = "app"
  /\ target' = None
  /\ PageLost
  /\ UNCHANGED <<page, url>>

\* The user consents, and the redirect carries the code; or declines; or goes
\* back to the page the browser came from.
LeaveAuth ==
  /\ page = "auth"
  /\ page' = "app" /\ target' = None
  /\ url' \in {target, None, url}
  /\ UNCHANGED <<storage, active, expired, made, server, call>>

\* OAuthScene puts the stored URL in the place of the one with the code.
Restore ==
  /\ page = "app" /\ url # None
  /\ url' = None
  /\ UNCHANGED <<storage, active, expired, page, target, made, server, call>>

----------------------------------------------------------------------------
Next ==
  \/ \E t \in Tasks :
       \/ GetToken(t) \/ LoginAgain(t) \/ StartLogin(t) \/ ReturnFromAuth(t)
       \/ Logout(t)
       \/ LeaveForAuth(t) \/ TokenReceived(t) \/ FetchRedeemed(t)
       \/ LoggedOut(t) \/ RequestFailed(t)
       \/ AnswerCode(t) \/ AnswerRefresh(t) \/ AnswerLogout(t)
  \/ Expire \/ Unload \/ Reload \/ LeaveAuth \/ Restore

Spec == Init /\ [][Next]_vars

----------------------------------------------------------------------------
(* Properties.                                                             *)

\* While the user is at /auth, the session storage holds the verifier of the
\* challenge shown there and the mark by which login() knows the way back: the
\* code the user brings home can be redeemed.
ChallengeShown == page = "auth" => returnUrl /\ verifier = target

\* "logout destroys the access_token AND the refresh_token"
\* (oauthSession.ts:290): a session without a token gets one by redeeming a
\* code, never by a refresh.
LogoutStays ==
  [][access = None /\ access' # None =>
       \E t \in Tasks : call[t].pc = "redeeming"]_vars

\* A session that has a refresh token can refresh until it is logged out or its
\* page goes, whichever answers bring a new refresh token and whichever do not.
RefreshKept ==
  [][refresh # None /\ refresh' = None => access' = None]_vars
=============================================================================
