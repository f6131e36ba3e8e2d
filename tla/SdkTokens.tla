----------------------------- MODULE SdkTokens ------------------------------
(***************************************************************************)
(* What the sessions of the Kotlin, Swift, C#, Python and Go SDKs share:   *)
(* two slots for tokens, the id of the user they act for, and a server     *)
(* that issues, honours and revokes tokens.  A session is used by one      *)
(* caller; a call is a chain of requests, each of which may fail, and      *)
(* tokens expire at any time between them.                                 *)
(*                                                                         *)
(* A token is the number under which the server issued it; an expired one  *)
(* is no longer active for the session, which allows for ten seconds of    *)
(* lag, so the server may still honour it.                                 *)
(***************************************************************************)
EXTENDS Naturals, Sequences

CONSTANTS
  Langs,      \* the sessions compared
  Users,      \* the users the API user may impersonate
  Api,        \* the API user
  None,       \* no user to impersonate
  MaxTokens   \* bound: tokens the server issues

ASSUME LangsAssumption == Langs \subseteq {"kotlin", "swift", "csharp", "python", "go"}
ASSUME UsersAssumption == Api \notin Users /\ None \notin Users /\ Api # None
ASSUME MaxTokensAssumption == MaxTokens \in Nat

VARIABLES
  lang,         \* the language of the session
  sudoId,       \* the user to impersonate, or None
  authToken,    \* the slot of the API user's token
  sudoToken,    \* the slot of the impersonated user's token
  owner,        \* owner[t]: the user token t was issued to
  expired,      \* the tokens that expired
  revoked,      \* the tokens the server revoked
  call,         \* the call in progress, or the last one
  at,           \* the request it makes next
  failed        \* has any request failed so far

slots == <<sudoId, authToken, sudoToken>>
server == <<owner, expired, revoked>>
vars == <<lang, slots, server, call, at, failed>>

NoToken == 0
Active(t) == t # NoToken /\ t \notin expired
Honours(t) == t # NoToken /\ t \notin revoked
NewToken == Len(owner) + 1

\* Mutant: the token of the API user first.
ActiveTokenApi == IF authToken # NoToken THEN authToken ELSE sudoToken

\* The token of a session that prefers its sudo token: Kotlin, Swift and C#.
activeToken == IF sudoToken # NoToken THEN sudoToken ELSE authToken

----------------------------------------------------------------------------
(* Calls.                                                                  *)

\* The token is the one a logout presents.
Call(op, id) == [op |-> op, id |-> id, token |-> NoToken, result |-> "pending"]
Presenting(c, t) == [c EXCEPT !.token = t]

Returned(c, result) == at' = "idle" /\ call' = [c EXCEPT !.result = result, !.token = NoToken]
Return(result) == Returned(call, result)


\* The API request goes out with token t: the call ends with whose token it was,
\* and what the token was worth.
Show(c, t) ==
  Returned([c EXCEPT !.id = IF t = NoToken THEN None ELSE owner'[t]],
           IF t = NoToken THEN "none"
           ELSE IF t \in revoked THEN "revoked"
           ELSE IF t \in expired THEN "expired" ELSE "active")

\* The login is over, and t the token to present: a request is sent with it.
Authenticated(c, t) ==
  IF c.op = "request" THEN Show(c, t) ELSE Returned(c, "ok")

\* What a login asks for next, if anything, once it knows of the API user's token.
GoOn(c, apiActive, t) ==
  IF apiActive /\ c.id = None THEN Authenticated(c, t)
  ELSE at' = (IF apiActive THEN "sudo" ELSE "api") /\ call' = c

----------------------------------------------------------------------------
(* Requests to the server, and how they end.                               *)

\* POST /login, or /login/{user} with token t.
Issue(user) ==
  /\ Len(owner) < MaxTokens
  /\ owner' = Append(owner, user)
  /\ UNCHANGED <<expired, revoked, failed>>
Fails == failed' = TRUE /\ UNCHANGED server

\* DELETE /logout with token t.
Revoke(t) ==
  /\ Honours(t)
  /\ revoked' = revoked \union {t}
  /\ UNCHANGED <<owner, expired, failed>>

\* It was refused or never arrived, or it was done and the answer was lost.
RevokeFails(t) ==
  /\ failed' = TRUE
  /\ revoked' \in {revoked} \union (IF Honours(t) THEN {revoked \union {t}} ELSE {})
  /\ UNCHANGED <<owner, expired>>

\* The lifetime of a token in a slot ends.
Expire ==
  /\ \E t \in {authToken, sudoToken} \ {NoToken} :
       t \notin expired /\ expired' = expired \union {t}
  /\ UNCHANGED <<lang, slots, owner, revoked, call, at, failed>>

Idle == at = "idle"
=============================================================================
