--------------------------- MODULE PythonSession ----------------------------
(***************************************************************************)
(* The session of the Python SDK (auth_session.py): the id decides which   *)
(* slot a request takes, the sudo token is renewed when it expired, and a  *)
(* logout empties the slot before it asks the server.  A failed request    *)
(* raises out of the call.                                                 *)
(***************************************************************************)
EXTENDS SdkTokens

Python == lang = "python"

PythonToken == IF sudoId # None THEN sudoToken ELSE authToken

\* The first request of _login_sudo, whose authenticator is _get_token.
LoginSudo == IF Active(authToken) THEN "sudo" ELSE "api"

\* login_user.  A user who is logged in already is logged in again if the token
\* expired; "relogin" is not undone by an error.
PythonLoginUser ==
  /\ Python /\ Idle
  /\ \E id \in Users :
       \/ /\ sudoId = None
          /\ sudoId' = id /\ call' = Call("login", id) /\ at' = LoginSudo
       \/ /\ sudoId \notin {None, id}
          /\ Returned(Call("login", id), "error") /\ UNCHANGED sudoId
       \/ /\ sudoId = id
          /\ IF Active(sudoToken) THEN Returned(Call("relogin", id), "ok")
                                  ELSE call' = Call("relogin", id) /\ at' = LoginSudo
          /\ UNCHANGED sudoId
  /\ UNCHANGED <<lang, authToken, sudoToken, server, failed>>

\* authenticate, before an API request.
PythonRequest ==
  /\ Python /\ Idle
  /\ UNCHANGED <<lang, slots, server, failed>>
  /\ IF Active(PythonToken)
       THEN Show(Call("request", sudoId), PythonToken)
       ELSE /\ call' = Call("request", sudoId)
            /\ at' = IF sudoId # None THEN LoginSudo ELSE "api"


\* A login_user that fails is undone.
PythonRaises ==
  /\ Fails /\ Return("error")
  /\ sudoId' = IF call.op = "login" THEN None ELSE sudoId
  /\ UNCHANGED <<authToken, sudoToken>>

\* _login: the answer to POST /login.
PythonApiLogin ==
  /\ Python /\ at = "api"
  /\ \/ /\ Issue(Api) /\ authToken' = NewToken /\ UNCHANGED <<sudoId, sudoToken>>
        /\ GoOn(call, TRUE, authToken')
     \/ PythonRaises
  /\ UNCHANGED lang

\* _login_sudo: the answer to POST /login/{_sudo_id}.
PythonSudoLogin ==
  /\ Python /\ at = "sudo"
  /\ \/ /\ Honours(authToken) /\ Issue(sudoId)
        /\ sudoToken' = NewToken /\ UNCHANGED <<sudoId, authToken>>
        /\ Authenticated(call, sudoToken')
     \/ PythonRaises
  /\ UNCHANGED lang

\* logout, with full or without.  The slot is emptied first.
PythonLogout ==
  /\ Python /\ Idle
  /\ \E op \in {"logout", "logoutFull"} :
       \/ /\ sudoId # None /\ Active(sudoToken)
          /\ call' = Presenting(Call(op, None), sudoToken) /\ at' = "deleteSudo"
          /\ sudoToken' = NoToken /\ UNCHANGED authToken
       \/ /\ sudoId = None /\ Active(authToken)
          /\ call' = Presenting(Call(op, None), authToken) /\ at' = "delete"
          /\ authToken' = NoToken /\ UNCHANGED sudoToken
       \/ /\ ~Active(PythonToken)
          /\ Returned(Call(op, None), "ok") /\ UNCHANGED <<authToken, sudoToken>>
  /\ sudoId' = None
  /\ UNCHANGED <<lang, server, failed>>

\* _logout: the answer to DELETE /logout for the sudo token.
PythonDeleteSudo ==
  /\ Python /\ at = "deleteSudo"
  /\ \/ /\ Revoke(call.token)
        /\ IF call.op = "logoutFull"
             THEN authToken' = NoToken /\ call' = Presenting(call, authToken) /\ at' = "delete"
             ELSE Return("ok") /\ UNCHANGED authToken
     \/ RevokeFails(call.token) /\ Return("error") /\ UNCHANGED authToken
  /\ UNCHANGED <<lang, sudoId, sudoToken>>

\* _logout: the answer to DELETE /logout for the token of the API user.
PythonDelete ==
  /\ Python /\ at = "delete"
  /\ \/ Revoke(call.token) /\ Return("ok")
     \/ RevokeFails(call.token) /\ Return("error")
  /\ UNCHANGED <<lang, slots>>

PythonStep == PythonApiLogin \/ PythonSudoLogin \/ PythonDeleteSudo \/ PythonDelete
PythonCalls == PythonLoginUser \/ PythonRequest \/ PythonLogout
=============================================================================
