---------------------------- MODULE CSharpSession ---------------------------
(***************************************************************************)
(* The session of the C# SDK (AuthSession.cs).  A failed request throws    *)
(* out of the call.  The sudo login goes by the parameter of the call, not *)
(* by SudoId, which the reset before an API login has emptied.             *)
(***************************************************************************)
EXTENDS SdkTokens

CSharp == lang = "csharp"

CSharpIsSudo == sudoId # None

CSharpReset == sudoId' = None /\ authToken' = NoToken /\ sudoToken' = NoToken

\* _login once SudoLogout is over and left the sudo slot as it is given.
CSharpContinue(c, sudoSlot) ==
  /\ IF Active(authToken)
       THEN sudoId' = c.id /\ sudoToken' = sudoSlot /\ UNCHANGED authToken
       ELSE CSharpReset
  /\ GoOn(c, Active(authToken), activeToken')

\* _login.  SudoLogout empties the slot though no token be active.
CSharpEnter(c) ==
  /\ UNCHANGED <<lang, server, failed>>
  /\ IF CSharpIsSudo /\ Active(activeToken)
       THEN at' = "endSudo" /\ call' = Presenting(c, activeToken) /\ UNCHANGED slots
       ELSE CSharpContinue(c, IF CSharpIsSudo THEN NoToken ELSE sudoToken)

\* Login: asked for the user it has, it logs in as nobody.
CSharpLogin ==
  /\ CSharp /\ Idle
  /\ \E id \in Users \union {None} :
       CSharpEnter(Call("login", IF id # sudoId \/ ~Active(activeToken) THEN id ELSE None))

\* Authenticate and GetToken, before an API request.
CSharpRequest ==
  /\ CSharp /\ Idle
  /\ IF Active(activeToken)
       THEN UNCHANGED <<lang, slots, server, failed>> /\ Show(Call("request", None), activeToken)
       ELSE CSharpEnter(Call("request", None))

CSharpLogout ==
  /\ CSharp /\ Idle
  /\ IF Active(activeToken)
       THEN at' = "delete" /\ call' = Presenting(Call("logout", None), activeToken)
       ELSE Returned(Call("logout", None), "no")
  /\ UNCHANGED <<lang, slots, server, failed>>

CSharpThrows == Return("error") /\ UNCHANGED slots

\* SudoLogout: the answer to DELETE /logout.
CSharpEndSudo ==
  /\ CSharp /\ at = "endSudo"
  /\ \/ /\ Revoke(call.token)
        /\ IF Active(authToken)
             THEN CSharpContinue(call, NoToken)
             ELSE CSharpReset /\ at' = "inner" /\ UNCHANGED call
     \/ RevokeFails(call.token) /\ CSharpThrows
  /\ UNCHANGED lang

\* _logout: the answer to DELETE /logout.
CSharpDelete ==
  /\ CSharp /\ at = "delete"
  /\ \/ /\ Revoke(call.token)
        /\ IF ~CSharpIsSudo THEN CSharpReset /\ Return("ok")
           ELSE IF Active(authToken)
             THEN sudoId' = None /\ sudoToken' = NoToken /\ UNCHANGED authToken /\ Return("ok")
             ELSE CSharpReset /\ at' = "inner" /\ UNCHANGED call

     \/ RevokeFails(call.token) /\ CSharpThrows
  /\ UNCHANGED lang

\* The answer to POST /login, in _login or in the _login of a _logout.
CSharpApiLogin ==
  /\ CSharp /\ at \in {"api", "inner"}
  /\ UNCHANGED lang
  /\ \/ /\ Issue(Api) /\ authToken' = NewToken /\ UNCHANGED sudoToken
        /\ sudoId' = IF at = "inner" THEN call.id ELSE sudoId
        /\ IF call.op = "logout" THEN Return("ok")
                                 ELSE GoOn(call, TRUE, activeToken')
     \/ Fails /\ CSharpThrows

\* The answer to POST /login/{sudoId}.
CSharpSudoLogin ==
  /\ CSharp /\ at = "sudo"
  /\ \/ /\ Honours(activeToken) /\ Issue(call.id)
        /\ sudoToken' = NewToken /\ Return("ok") /\ UNCHANGED <<sudoId, authToken>>
     \/ Fails /\ CSharpThrows
  /\ UNCHANGED lang

CSharpStep == CSharpEndSudo \/ CSharpDelete \/ CSharpApiLogin \/ CSharpSudoLogin
CSharpCalls == CSharpLogin \/ CSharpRequest \/ CSharpLogout
=============================================================================
