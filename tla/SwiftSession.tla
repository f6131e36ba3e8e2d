---------------------------- MODULE SwiftSession ----------------------------
(***************************************************************************)
(* The session of the Swift SDK (authSession.swift).  A refused login ends *)
(* the process: the missing token is unwrapped by force.  A failed logout  *)
(* leaves the session as it was.                                           *)
(***************************************************************************)
EXTENDS SdkTokens

Swift == lang = "swift"

\* Mutant: the condition is inverted.
SwiftIsSudoNot == sudoId # None /\ ~Active(sudoToken)

SwiftIsSudo == sudoId # None /\ Active(sudoToken)

SwiftReset == sudoId' = None /\ authToken' = NoToken /\ sudoToken' = NoToken

\* Mutant: a header for any token.
SwiftHeaderAlways(t) == t

\* authenticate adds a header for an active token only.
SwiftHeader(t) == IF t \in expired THEN NoToken ELSE t

\* _login once sudoLogout is over and left the sudo slot as it is given: without
\* an active API token the session is reset, and the id with it.
SwiftContinue(c, sudoSlot) ==
  /\ IF Active(authToken)
       THEN sudoId' = c.id /\ sudoToken' = sudoSlot /\ UNCHANGED authToken
       ELSE SwiftReset
  /\ GoOn(c, Active(authToken), SwiftHeader(activeToken'))

SwiftEnter(c) ==
  /\ UNCHANGED <<lang, server, failed>>
  /\ IF SwiftIsSudo
       THEN at' = "endSudo" /\ call' = Presenting(c, sudoToken) /\ UNCHANGED slots
       ELSE SwiftContinue(c, sudoToken)

\* login: nothing to do for the user who is logged in.
SwiftLogin ==
  /\ Swift /\ Idle
  /\ \E id \in Users \union {None} :
       IF id # sudoId \/ ~Active(activeToken)
         THEN SwiftEnter(Call("login", id))
         ELSE Returned(Call("login", id), "ok") /\ UNCHANGED <<lang, slots, server, failed>>

\* authenticate and getToken, before an API request.
SwiftRequest ==
  /\ Swift /\ Idle
  /\ IF Active(activeToken)
       THEN UNCHANGED <<lang, slots, server, failed>> /\ Show(Call("request", None), activeToken)
       ELSE SwiftEnter(Call("request", None))

SwiftLogout ==
  /\ Swift /\ Idle
  /\ IF Active(activeToken)
       THEN at' = "delete" /\ call' = Presenting(Call("logout", None), activeToken)
       ELSE Returned(Call("logout", None), "no")
  /\ UNCHANGED <<lang, slots, server, failed>>

\* sudoLogout: the answer to DELETE /logout.  It empties the slot in any case.
SwiftEndSudo ==
  /\ Swift /\ at = "endSudo"
  /\ \/ /\ Revoke(call.token)
        /\ IF Active(authToken)
             THEN SwiftContinue(call, NoToken)
             ELSE SwiftReset /\ at' = "inner" /\ UNCHANGED call
     \/ RevokeFails(call.token) /\ SwiftContinue(call, NoToken)
  /\ UNCHANGED lang

\* _logout: the answer to DELETE /logout.
SwiftDelete ==
  /\ Swift /\ at = "delete"
  /\ \/ /\ Revoke(call.token)
        /\ IF sudoId = None THEN SwiftReset /\ Return("ok")
           ELSE IF Active(authToken)
             THEN sudoId' = None /\ sudoToken' = NoToken /\ UNCHANGED authToken /\ Return("ok")
             ELSE SwiftReset /\ at' = "inner" /\ call' = [call EXCEPT !.result = "ok"]
     \/ RevokeFails(call.token) /\ Return("no") /\ UNCHANGED slots
  /\ UNCHANGED lang

\* token! of a login that failed.
SwiftCrash == Fails /\ at' = "crashed" /\ UNCHANGED <<slots, call>>

\* The answer to POST /login, in _login or in the login of a logout.  After the
\* reset there is no id left to log in with.
SwiftApiLogin ==
  /\ Swift /\ at \in {"api", "inner"}
  /\ UNCHANGED lang
  /\ \/ /\ Issue(Api) /\ authToken' = NewToken /\ UNCHANGED sudoToken
        /\ IF at = "api" THEN UNCHANGED sudoId /\ Authenticated(call, SwiftHeader(activeToken'))
           ELSE IF call.op = "logout" THEN at' = "idle" /\ UNCHANGED <<sudoId, call>>
           ELSE sudoId' = call.id /\ GoOn(call, TRUE, SwiftHeader(activeToken'))
     \/ SwiftCrash

\* The answer to POST /login/{id}.
SwiftSudoLogin ==
  /\ Swift /\ at = "sudo"
  /\ \/ /\ Honours(activeToken) /\ Issue(call.id)
        /\ sudoToken' = NewToken /\ Return("ok") /\ UNCHANGED <<sudoId, authToken>>
     \/ SwiftCrash
  /\ UNCHANGED lang

SwiftStep == SwiftEndSudo \/ SwiftDelete \/ SwiftApiLogin \/ SwiftSudoLogin
SwiftCalls == SwiftLogin \/ SwiftRequest \/ SwiftLogout
=============================================================================
