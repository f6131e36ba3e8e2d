--------------------------- MODULE KotlinSession ----------------------------
(***************************************************************************)
(* The session of the Kotlin SDK (AuthSession.kt).  A refused login throws *)
(* out of the call; a logout clears the session whatever the server says.  *)
(***************************************************************************)
EXTENDS SdkTokens

Kotlin == lang = "kotlin"

KotlinIsSudo == sudoId # None /\ Active(sudoToken)

\* doLogin once no sudo user is left: the id, then the requests needed.
KotlinContinue(c, sudoSlot) ==
  /\ sudoId' = c.id /\ sudoToken' = sudoSlot /\ UNCHANGED authToken
  /\ GoOn(c, Active(authToken), activeToken')

\* Mutant: no sudoLogout.
KotlinDoLoginOver(c) == UNCHANGED <<lang, server, failed>> /\ KotlinContinue(c, sudoToken)

\* sudoLogout, the first thing doLogin does.
KotlinDoLogin(c) ==
  /\ UNCHANGED <<lang, server, failed>>
  /\ IF KotlinIsSudo
       THEN at' = "endSudo" /\ call' = Presenting(c, sudoToken) /\ UNCHANGED slots
       ELSE KotlinContinue(c, sudoToken)

KotlinLogin ==
  Kotlin /\ Idle /\ \E id \in Users \union {None} : KotlinDoLogin(Call("login", id))

\* authenticate and getToken, before an API request.
KotlinRequest ==
  /\ Kotlin /\ Idle
  /\ IF Active(activeToken)
       THEN UNCHANGED <<lang, slots, server, failed>> /\ Show(Call("request", None), activeToken)
       ELSE KotlinDoLogin(Call("request", None))

KotlinLogout ==
  /\ Kotlin /\ Idle
  /\ IF Active(activeToken)
       THEN at' = "delete" /\ call' = Presenting(Call("logout", None), activeToken)
       ELSE Returned(Call("logout", None), "no")
  /\ UNCHANGED <<lang, slots, server, failed>>

\* Mutant: the id is cleared after the login, which finds it and logs out again.
KotlinEndSudoAgain ==
  /\ Kotlin /\ at = "endSudo"
  /\ Revoke(call.token) \/ RevokeFails(call.token)
  /\ IF Active(authToken)
       THEN KotlinContinue(call, NoToken)
       ELSE UNCHANGED <<slots, at, call>>
  /\ UNCHANGED lang

\* doLogout within doLogin: the answer to DELETE /logout for the sudo token.
KotlinEndSudo ==
  /\ Kotlin /\ at = "endSudo"
  /\ Revoke(call.token) \/ RevokeFails(call.token)
  /\ IF Active(authToken)
       THEN KotlinContinue(call, NoToken)
       ELSE /\ at' = "inner" /\ sudoId' = None /\ sudoToken' = NoToken
            /\ UNCHANGED <<authToken, call>>
  /\ UNCHANGED lang

\* doLogout: the answer to DELETE /logout.
KotlinDelete ==
  /\ Kotlin /\ at = "delete"
  /\ \/ Revoke(call.token) /\ call' = [call EXCEPT !.result = "ok"]
     \/ RevokeFails(call.token) /\ call' = [call EXCEPT !.result = "no"]
  /\ sudoId' = None /\ sudoToken' = NoToken
  /\ IF sudoId # None
       THEN /\ at' = IF Active(authToken) THEN "idle" ELSE "inner"
            /\ UNCHANGED authToken
       ELSE authToken' = NoToken /\ at' = "idle"
  /\ UNCHANGED lang

\* The answer to POST /login, in doLogin or in the doLogin of a doLogout.
KotlinApiLogin ==
  /\ Kotlin /\ at \in {"api", "inner"}
  /\ UNCHANGED <<lang, sudoToken>>
  /\ \/ /\ Issue(Api) /\ authToken' = NewToken
        /\ IF call.op = "logout" THEN at' = "idle" /\ UNCHANGED <<sudoId, call>>
           ELSE sudoId' = call.id /\ GoOn(call, TRUE, activeToken')
     \/ Fails /\ Return("error") /\ UNCHANGED <<sudoId, authToken>>

\* The answer to POST /login/{id}.
KotlinSudoLogin ==
  /\ Kotlin /\ at = "sudo"
  /\ \/ /\ Honours(activeToken) /\ Issue(call.id)
        /\ sudoToken' = NewToken /\ Return("ok")
     \/ Fails /\ Return("error") /\ UNCHANGED sudoToken
  /\ UNCHANGED <<lang, sudoId, authToken>>

KotlinStep == KotlinEndSudo \/ KotlinDelete \/ KotlinApiLogin \/ KotlinSudoLogin
KotlinCalls == KotlinLogin \/ KotlinRequest \/ KotlinLogout
=============================================================================
