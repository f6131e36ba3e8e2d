---------------------------- MODULE SdkSessions -----------------------------
(***************************************************************************)
(* The sessions of the Kotlin, Swift, C#, Python and Go SDKs side by side: *)
(* one of them runs, and the properties say what all of them keep and what *)
(* only some of them do.                                                   *)
(***************************************************************************)
EXTENDS KotlinSession, SwiftSession, CSharpSession, PythonSession, GoSession

Init ==
  /\ lang \in Langs
  /\ sudoId = None /\ authToken = NoToken /\ sudoToken = NoToken
  /\ owner = <<>> /\ expired = {} /\ revoked = {}
  /\ call = Call("none", None)
  /\ at = "idle"
  /\ failed = FALSE

\* A call in progress goes on.
Step == KotlinStep \/ SwiftStep \/ CSharpStep \/ PythonStep \/ GoLogin

Next ==
  \/ KotlinCalls \/ SwiftCalls \/ CSharpCalls \/ PythonCalls \/ GoRequest
  \/ Step
  \/ Expire

\* Every request ends: it is answered, refused, or times out.
Spec == Init /\ [][Next]_vars /\ WF_vars(Step)

----------------------------------------------------------------------------
Tokens == 1..Len(owner)
Presented == IF lang = "python" THEN PythonToken ELSE IF lang = "go" THEN authToken ELSE activeToken
UserOf(id) == IF id = None THEN Api ELSE id

TypeOK ==
  /\ lang \in Langs
  /\ sudoId \in Users \union {None}
  /\ owner \in Seq(Users \union {Api})
  /\ authToken \in Tokens \union {NoToken} /\ sudoToken \in Tokens \union {NoToken}
  /\ expired \subseteq Tokens /\ revoked \subseteq Tokens
  /\ call \in [op : {"none", "login", "relogin", "logout", "logoutFull", "request"},
               id : Users \union {Api, None},
               result : {"pending", "ok", "no", "error", "active", "expired", "revoked", "none"}, token : Tokens \union {NoToken}]
  /\ at \in {"idle", "endSudo", "inner", "api", "sudo", "delete", "deleteSudo", "crashed"}
  /\ failed \in BOOLEAN

\* The slots hold tokens of their own kind of user, and a sudo token in use is
\* that of the user the session says it impersonates.  The C# session may have
\* forgotten or replaced the user.
SudoTokenIsSudoIds ==
  /\ authToken # NoToken => owner[authToken] = Api
  /\ sudoToken # NoToken => owner[sudoToken] \in Users
  /\ Active(sudoToken) /\ lang # "csharp" => owner[sudoToken] = sudoId

\* "Activate the authentication token for the API3 or sudo user": after a login
\* that succeeded the session acts for the user asked for until the token expires.
\* Swift and C# do not keep it: the reset before an API login loses the id, and a
\* second C# login of the same user logs in as nobody.
LoginImpersonates ==
  /\ Idle /\ call.op \in {"login", "relogin"} /\ call.result = "ok"
  /\ lang \in {"kotlin", "python"}
  => /\ Presented # NoToken
     /\ Presented \in expired \/ owner[Presented] = UserOf(call.id)


\* "Expired token renewal happens automatically": an API request presents a token
\* that is active.  Not so after the token of a sudo
\* user expired: Kotlin presents it, C# if it has forgotten the user, and Swift
\* sends the request without a token.
RequestsAuthenticated ==
  /\ call.result = "expired" => lang \in {"kotlin", "csharp"} /\ call.id \in Users
  /\ call.result = "none" => lang = "swift"

\* A token the server revoked is presented only after a request failed, and by a
\* Python or Go session never.
RevokedTokensUnused ==
  call.result = "revoked" => failed /\ lang \notin {"python", "go"}

\* While no request fails every token that still lives on the server is in its
\* slot, where a logout will find it.  Not so in C#, whose reset may drop the
\* token of a sudo user it has forgotten.
NoTokenForgotten ==
  ~failed /\ Idle /\ lang # "csharp"
    => \A t \in Tokens : t \in expired \union revoked \union {authToken, sudoToken}

\* The slots and the server agree on which tokens live: none that was revoked is
\* still presented, and none that lives is lost.
SlotsMatchServer == RevokedTokensUnused /\ NoTokenForgotten

\* Each call comes to its end, though a logout may log in and a login log out.
CallsReturn == ~Idle ~> (Idle \/ at = "crashed")
=============================================================================
