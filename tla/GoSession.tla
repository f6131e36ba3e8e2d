----------------------------- MODULE GoSession ------------------------------
(***************************************************************************)
(* The session of the Go SDK (auth.go): one token, fetched when it is not  *)
(* there or expired.  It has no logout and impersonates nobody.            *)
(***************************************************************************)
EXTENDS SdkTokens

Go == lang = "go"

\* Authenticate, before an API request.
GoRequest ==
  /\ Go /\ Idle
  /\ UNCHANGED <<lang, slots, server, failed>>
  /\ IF Active(authToken) THEN Show(Call("request", None), authToken)
     ELSE call' = Call("request", None) /\ at' = "api"

\* login: the answer to POST /login.
GoLogin ==
  /\ Go /\ at = "api"
  /\ \/ Issue(Api) /\ authToken' = NewToken /\ Show(call, authToken')
     \/ Fails /\ Return("error") /\ UNCHANGED authToken
  /\ UNCHANGED <<lang, sudoId, sudoToken>>
=============================================================================
