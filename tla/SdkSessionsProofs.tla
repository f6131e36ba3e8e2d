------------------------- MODULE SdkSessionsProofs --------------------------
(***************************************************************************)
(* Proofs about the sessions of the other languages, for every set of      *)
(* languages and users and any number of tokens.                           *)
(***************************************************************************)
EXTENDS SdkSessions, TLAPS

----------------------------------------------------------------------------
(* Tokens.                                                                 *)

\* The session's view of the server: which tokens there are, and whose.
Slot == Tokens \union {NoToken}
UserIds == Users \union {None}

ServerOK ==
  /\ owner \in Seq(Users \union {Api})
  /\ expired \subseteq Tokens /\ revoked \subseteq Tokens

\* Tokens keep their numbers and their owners.
Grows ==
  /\ ServerOK'
  /\ Tokens \subseteq Tokens'
  /\ \A t \in Tokens : owner'[t] = owner[t]

LEMMA IssueGrows ==
  ASSUME ServerOK, NEW u \in Users \union {Api}, Issue(u)
  PROVE  /\ Grows /\ NewToken \in Tokens' /\ NewToken # NoToken
         /\ NewToken \notin expired /\ NewToken \notin revoked /\ NewToken \notin Tokens
         /\ owner'[NewToken] = u /\ expired' = expired /\ revoked' = revoked
<1>1. owner \in Seq(Users \union {Api}) /\ Len(owner) \in Nat
  BY DEF ServerOK
<1>2. owner' \in Seq(Users \union {Api}) /\ Len(owner') = Len(owner) + 1
  BY <1>1 DEF Issue
<1>3. owner'[NewToken] = u /\ \A t \in Tokens : owner'[t] = owner[t]
  BY <1>1 DEF Issue, NewToken, Tokens
<1>4. QED
  BY <1>1, <1>2, <1>3 DEF Grows, ServerOK, Issue, NewToken, NoToken, Tokens

LEMMA SameGrows ==
  ASSUME ServerOK, UNCHANGED server PROVE Grows /\ expired' = expired /\ revoked' = revoked
BY DEF Grows, ServerOK, server, Tokens

LEMMA FailsGrows ==
  ASSUME ServerOK, Fails PROVE Grows /\ expired' = expired /\ revoked' = revoked /\ failed' = TRUE
BY SameGrows DEF Fails

LEMMA RevokeGrows ==
  ASSUME ServerOK, NEW t \in Slot, Revoke(t) \/ RevokeFails(t)
  PROVE  /\ Grows /\ expired' = expired
         /\ revoked' = revoked \/ revoked' = revoked \union {t}
BY DEF ServerOK, Slot, Revoke, RevokeFails, Grows, Tokens, Honours, NoToken

----------------------------------------------------------------------------
(* Calls.                                                                  *)

Calls ==
  [op : {"none", "login", "relogin", "logout", "logoutFull", "request"},
   id : Users \union {Api, None},
   result : {"pending", "ok", "no", "error", "active", "expired", "revoked", "none"},
   token : Slot]
Places == {"idle", "endSudo", "inner", "api", "sudo", "delete", "deleteSudo", "crashed"}

\* The call keeps its type, and one that goes on its id.
CallOK(c) == c \in Calls
CallGoesOn == CallOK(call)' /\ at' \in Places /\ (at' # "idle" => call'.id \in UserIds)

LEMMA NewCall ==
  ASSUME NEW op \in {"login", "relogin", "logout", "logoutFull", "request"},
         NEW id \in UserIds, NEW t \in Slot
  PROVE  /\ CallOK(Call(op, id)) /\ Call(op, id).id = id /\ Call(op, id).op = op
         /\ Call(op, id).result = "pending" /\ Presenting(Call(op, id), t).result = "pending"
         /\ CallOK(Presenting(Call(op, id), t)) /\ Presenting(Call(op, id), t).id = id
         /\ Presenting(Call(op, id), t).token = t /\ Presenting(Call(op, id), t).op = op
BY DEF CallOK, Calls, Call, Presenting, UserIds, Slot

LEMMA SameCall ==
  ASSUME Grows, NEW c, CallOK(c), call' = c
  PROVE  CallOK(call)'
BY DEF CallOK, Calls, Slot, Grows

LEMMA PresentingCall ==
  ASSUME NEW c, CallOK(c), NEW t \in Slot
  PROVE  /\ CallOK(Presenting(c, t)) /\ Presenting(c, t).id = c.id
         /\ Presenting(c, t).op = c.op /\ Presenting(c, t).token = t
         /\ Presenting(c, t).result = c.result
BY DEF CallOK, Calls, Presenting, Slot

LEMMA ReturnedCall ==
  ASSUME NEW c, CallOK(c), NEW r \in {"ok", "no", "error", "active", "expired", "revoked", "none"},
         Returned(c, r)
  PROVE  /\ CallOK(call)' /\ at' = "idle"
         /\ call'.id = c.id /\ call'.op = c.op /\ call'.result = r
BY DEF CallOK, Calls, Returned, Slot, NoToken

LEMMA ShownCall ==
  ASSUME Grows, NEW c, CallOK(c), NEW t \in Slot', Show(c, t)
  PROVE  /\ CallOK(call)' /\ at' = "idle" /\ call'.op = c.op
         /\ call'.id = IF t = NoToken THEN None ELSE owner'[t]
         /\ call'.result \in {"none", "revoked", "expired", "active"}
         /\ call'.result = "none" => t = NoToken
         /\ call'.result = "revoked" => t \in revoked /\ t # NoToken
         /\ call'.result = "expired" => t \in expired /\ t # NoToken
<1> DEFINE id == IF t = NoToken THEN None ELSE owner'[t]
<1> DEFINE d == [c EXCEPT !.id = id]
<1> DEFINE r == IF t = NoToken THEN "none"
                ELSE IF t \in revoked THEN "revoked"
                ELSE IF t \in expired THEN "expired" ELSE "active"
<1>1. id \in Users \union {Api, None}
  BY DEF Grows, ServerOK, Slot, Tokens
<1>2. CallOK(d) /\ d.id = id /\ d.op = c.op
  BY <1>1 DEF CallOK, Calls
<1>3. Returned(d, r)
  BY DEF Show
<1>4. QED
  <2> HIDE DEF d, id
  <2>1. r \in {"none", "revoked", "expired", "active"}
    OBVIOUS
  <2>2. CallOK(call)' /\ at' = "idle" /\ call'.id = id /\ call'.op = c.op /\ call'.result = r
    BY <1>2, <1>3, <2>1, ReturnedCall
  <2>3. QED
    BY <2>1, <2>2 DEF id

\* How a call ends that has token t to present.
Outcome(c, t) ==
  /\ CallOK(call)' /\ at' = "idle" /\ call'.op = c.op
  /\ call'.result \in {"ok", "none", "revoked", "expired", "active"}
  /\ call'.result = "ok" => call'.id = c.id
  /\ call'.result = "none" => t = NoToken
  /\ call'.result = "revoked" => t \in revoked /\ t # NoToken
  /\ call'.result = "expired" => t \in expired /\ t # NoToken /\ call'.id = owner'[t]

LEMMA AuthenticatedCall ==
  ASSUME Grows, NEW c, CallOK(c), NEW t \in Slot', Authenticated(c, t)
  PROVE  Outcome(c, t)
<1>1. CASE c.op = "request"
  <2>1. Show(c, t)
    BY <1>1 DEF Authenticated
  <2>2. QED
    BY <2>1, ShownCall DEF Outcome
<1>2. CASE c.op # "request"
  <2>1. Returned(c, "ok")
    BY <1>2 DEF Authenticated
  <2>2. QED
    BY <2>1, ReturnedCall DEF Outcome
<1>3. QED
  BY <1>1, <1>2

LEMMA GoOnCall ==
  ASSUME Grows, NEW c, CallOK(c), c.id \in UserIds, NEW b \in BOOLEAN, NEW t \in Slot',
         GoOn(c, b, t)
  PROVE  /\ CallOK(call)'
         /\ \/ b /\ c.id = None /\ Outcome(c, t)
            \/ b /\ c.id \in Users /\ at' = "sudo" /\ call' = c
            \/ ~b /\ at' = "api" /\ call' = c
<1>1. CASE b /\ c.id = None
  <2>1. Authenticated(c, t)
    BY <1>1 DEF GoOn
  <2>2. QED
    BY <1>1, <2>1, AuthenticatedCall DEF Outcome
<1>2. CASE ~(b /\ c.id = None)
  BY <1>2, SameCall DEF GoOn, UserIds
<1>3. QED
  BY <1>1, <1>2

----------------------------------------------------------------------------
(* The invariant.                                                          *)

SlotsOK ==
  /\ sudoId \in UserIds /\ authToken \in Slot /\ sudoToken \in Slot
  /\ authToken # NoToken => owner[authToken] = Api
  /\ sudoToken # NoToken => owner[sudoToken] \in Users

Types ==
  /\ lang \in Langs /\ ServerOK /\ SlotsOK
  /\ CallOK(call) /\ at \in Places /\ failed \in BOOLEAN

\* The user a call in progress is for.
Pending ==
  /\ at # "idle" => call.id \in UserIds /\ call.result \in {"pending", "ok", "no"}
  /\ at = "sudo" => call.id \in Users
  /\ at \in {"delete", "deleteSudo"} => call.op \in {"logout", "logoutFull"}
  /\ lang = "python" /\ at \in {"api", "sudo"} => call.id = sudoId
  /\ lang \in {"kotlin", "swift"} /\ at = "sudo" => sudoId = call.id

\* Whom the sudo token is for: nobody while a login is under way.
Sudo ==
  /\ lang # "csharp" /\ Active(sudoToken) => owner[sudoToken] = sudoId
  /\ lang \in {"kotlin", "swift", "python"} /\ at \in {"api", "inner", "sudo"}
       => ~Active(sudoToken)

IInv == Types /\ Pending /\ Sudo /\ LoginImpersonates /\ RequestsAuthenticated

LEMMA InvInitially == Init => IInv
<1> SUFFICES ASSUME Init PROVE IInv
  OBVIOUS
<1>1. ServerOK
  BY DEF Init, ServerOK, Tokens
<1>2. SlotsOK
  BY DEF Init, SlotsOK, Slot, UserIds
<1>3. CallOK(call)
  BY DEF Init, CallOK, Calls, Call, Slot
<1>4. call.op = "none" /\ call.result = "pending"
  BY DEF Init, Call
<1>5. Types
  BY <1>1, <1>2, <1>3 DEF Types, Init, Places
<1>6. Pending /\ Sudo
  BY DEF Init, Pending, Sudo, Active
<1>7. QED
  BY <1>4, <1>5, <1>6 DEF IInv, LoginImpersonates, RequestsAuthenticated

LEMMA ExpireKeeps == ASSUME IInv, Expire PROVE IInv'
<1>1. Grows
  BY DEF IInv, Types, SlotsOK, Slot, Expire, Grows, ServerOK, Tokens
<1>2. UNCHANGED <<lang, sudoId, authToken, sudoToken, owner, call, at, failed>>
  BY DEF Expire, slots
<1>3. expired \subseteq expired'
  BY DEF Expire
<1>4. Types'
  BY <1>1, <1>2 DEF IInv, Types, SlotsOK, Grows, CallOK, Calls, Slot, Tokens
<1>5. Pending' /\ Sudo'
  BY <1>2, <1>3 DEF IInv, Pending, Sudo, Active
<1>6. LoginImpersonates'
  BY <1>2, <1>3 DEF IInv, LoginImpersonates, Presented, PythonToken, activeToken, Idle
<1>7. RequestsAuthenticated'
  BY <1>2 DEF IInv, RequestsAuthenticated
<1>8. QED
  BY <1>4, <1>5, <1>6, <1>7 DEF IInv

----------------------------------------------------------------------------
(* What every step of a call does to the types.                            *)

\* The slots after a step hold old tokens, or the new one in the slot of its user.
SlotsStep ==
  /\ sudoId' \in UserIds
  /\ \/ authToken' \in {authToken, NoToken}
     \/ authToken' \in Tokens' /\ owner'[authToken'] = Api
  /\ \/ sudoToken' \in {sudoToken, NoToken}
     \/ sudoToken' \in Tokens' /\ owner'[sudoToken'] \in Users

LEMMA TypesStep ==
  ASSUME Types, Grows, SlotsStep, lang' = lang, failed' \in BOOLEAN,
         CallOK(call)', at' \in Places
  PROVE  Types' /\ SlotsOK'
<1>1. SlotsOK'
  BY DEF Types, Grows, SlotsStep, SlotsOK, Slot
<1>2. QED
  BY <1>1 DEF Types, Grows

\* A step that changes the call only, and the server at most in what it revoked.
LEMMA CallKeeps ==
  ASSUME IInv, UNCHANGED <<lang, slots>>, Grows, expired' = expired, failed' \in BOOLEAN,
         CallOK(call)', at' \in {"idle", "delete", "endSudo"},
         call'.result \in {"pending", "ok", "no", "error", "active", "revoked"},
         call'.result = "ok" => lang = "swift" \/ call'.op \notin {"login", "relogin"},
         at' # "idle" => call'.id \in UserIds /\ call'.result = "pending",
         at' = "delete" => call'.op \in {"logout", "logoutFull"}
  PROVE  IInv'
<1>1. SlotsStep
  BY DEF IInv, Types, SlotsOK, SlotsStep, slots
<1>2. Types' /\ SlotsOK'
  BY <1>1, TypesStep DEF IInv, Places
<1>3. Pending'
  BY DEF Pending
<1>4. Sudo'
  BY <1>2 DEF IInv, Types, SlotsOK, Slot, Grows, Sudo, Active, slots
<1>5. LoginImpersonates' /\ RequestsAuthenticated'
  BY DEF LoginImpersonates, RequestsAuthenticated
<1>6. QED
  BY <1>2, <1>3, <1>4, <1>5 DEF IInv

\* The requests of a session that prefers its sudo token.
LEMMA ActiveTokenOwner ==
  ASSUME SlotsOK
  PROVE  /\ activeToken \in Slot
         /\ activeToken # NoToken => owner[activeToken] \in Users \union {Api}
         /\ sudoToken # NoToken => activeToken = sudoToken
         /\ sudoToken = NoToken => activeToken = authToken
BY DEF SlotsOK, activeToken, Slot

\* A request with an active token.
LEMMA ActiveRequest ==
  ASSUME IInv, UNCHANGED <<lang, slots, server, failed>>, NEW id \in UserIds,
         NEW t \in Slot, Active(t), Show(Call("request", id), t)
  PROVE  IInv'
<1> DEFINE c == Call("request", id)
<1>1. CallOK(c) /\ c.op = "request"
  BY NewCall DEF Slot
<1> HIDE DEF c
<1>2. Grows /\ expired' = expired /\ failed' \in BOOLEAN
  BY SameGrows DEF IInv, Types
<1>3. t \in Slot' /\ t # NoToken /\ t \notin expired
  BY <1>2 DEF Grows, Slot, Active
<1>4. Show(c, t)
  BY DEF c
<1>5. /\ CallOK(call)' /\ at' = "idle" /\ call'.op = "request"
      /\ call'.result \in {"revoked", "active"}
  BY <1>1, <1>2, <1>3, <1>4, ShownCall
<1>6. QED
  BY <1>2, <1>5, CallKeeps

\* A logout is asked for, or there is nothing to log out.
LEMMA LogoutAsked ==
  ASSUME IInv, UNCHANGED <<lang, slots, server, failed>>,
         \/ at' = "delete" /\ call' = Presenting(Call("logout", None), activeToken)
         \/ Returned(Call("logout", None), "no")
  PROVE  IInv'
<1> DEFINE c == Call("logout", None)
<1>1. CallOK(c) /\ c.id = None /\ c.result = "pending" /\ c.op = "logout"
  BY NewCall DEF UserIds, Slot
<1> HIDE DEF c
<1>2. Grows /\ expired' = expired /\ failed' \in BOOLEAN
  BY SameGrows DEF IInv, Types
<1>3. activeToken \in Slot
  BY ActiveTokenOwner DEF IInv, Types
<1>4. CASE at' = "delete" /\ call' = Presenting(c, activeToken)
  <2>1. CallOK(Presenting(c, activeToken)) /\ Presenting(c, activeToken).id = None
        /\ Presenting(c, activeToken).op = "logout" /\ Presenting(c, activeToken).result = "pending"
    BY <1>1, <1>3, PresentingCall
  <2>2. CallOK(call)'
    BY <1>2, <1>4, <2>1, SameCall
  <2>3. QED
    BY <1>2, <1>4, <2>1, <2>2, CallKeeps DEF UserIds
<1>5. CASE Returned(c, "no")
  <2>1. CallOK(call)' /\ at' = "idle" /\ call'.result = "no"
    BY <1>1, <1>5, ReturnedCall
  <2>2. QED
    BY <1>2, <2>1, CallKeeps
<1>6. QED
  BY <1>4, <1>5 DEF c

\* A login logs the sudo user out first.
LEMMA SudoLogoutAsked ==
  ASSUME IInv, UNCHANGED <<lang, slots, server, failed>>,
         NEW c, CallOK(c), c.id \in UserIds, c.result = "pending",
         NEW t \in Slot, at' = "endSudo", call' = Presenting(c, t)
  PROVE  IInv'
<1>1. Grows /\ expired' = expired /\ failed' \in BOOLEAN
  BY SameGrows DEF IInv, Types
<1>2. CallOK(Presenting(c, t)) /\ Presenting(c, t).id = c.id /\ Presenting(c, t).result = "pending"
  BY PresentingCall
<1>3. CallOK(call)'
  BY <1>1, <1>2, SameCall
<1>4. QED
  BY <1>1, <1>2, <1>3, CallKeeps

\* A request of the call failed, and the call with it.
LEMMA FailedCall ==
  ASSUME IInv, UNCHANGED <<lang, slots>>, Grows, expired' = expired, failed' \in BOOLEAN,
         Return("error") \/ Return("no")
  PROVE  IInv'
<1>1. CallOK(call)' /\ at' = "idle" /\ call'.result \in {"error", "no"}
  BY ReturnedCall DEF Return, IInv, Types
<1>2. QED
  BY <1>1, CallKeeps

\* The answer to a logout leaves tokens and times as they are.
LEMMA LogoutAnswer ==
  ASSUME IInv, Revoke(call.token) \/ RevokeFails(call.token)
  PROVE  Grows /\ expired' = expired /\ failed' \in BOOLEAN
<1>1. call.token \in Slot
  BY DEF IInv, Types, CallOK, Calls
<1>2. QED
  BY <1>1, RevokeGrows DEF IInv, Types, Revoke, RevokeFails

----------------------------------------------------------------------------
(* Kotlin.                                                                 *)

LEMMA KotlinContinueKeeps ==
  ASSUME IInv, Grows, expired' = expired, lang = "kotlin", lang' = lang, failed' \in BOOLEAN,
         NEW c, CallOK(c), c.id \in UserIds, c.result \in {"pending", "ok", "no"},
         NEW s \in {sudoToken, NoToken}, ~Active(s), KotlinContinue(c, s)
  PROVE  IInv'
<1>1. sudoId' = c.id /\ sudoToken' = s /\ authToken' = authToken
  BY DEF KotlinContinue
<1>2. SlotsStep
  BY <1>1 DEF SlotsStep
<1>3. SlotsOK' /\ activeToken' \in Slot'
  BY <1>1, <1>2 DEF IInv, Types, Grows, SlotsStep, SlotsOK, Slot, activeToken
<1>4. GoOn(c, Active(authToken), activeToken')
  BY DEF KotlinContinue
<1>5. /\ CallOK(call)'
      /\ \/ Active(authToken) /\ c.id = None /\ Outcome(c, activeToken')
         \/ Active(authToken) /\ c.id \in Users /\ at' = "sudo" /\ call' = c
         \/ ~Active(authToken) /\ at' = "api" /\ call' = c
  BY <1>3, <1>4, GoOnCall DEF Active
<1>6. at' \in Places
  BY <1>5 DEF Outcome, Places
<1>7. Types'
  BY <1>2, <1>5, <1>6, TypesStep DEF IInv
<1>8. Pending'
  BY <1>1, <1>5, UsersAssumption DEF Pending, Outcome
<1>9. Sudo'
  BY <1>1 DEF Sudo, Active
<1>10. LoginImpersonates'
  BY <1>1, <1>3, <1>5, UsersAssumption
  DEF LoginImpersonates, Idle, Outcome, Presented, activeToken, Active, UserOf, SlotsOK
<1>11. RequestsAuthenticated'
  BY <1>1, <1>3, <1>5 DEF RequestsAuthenticated, Outcome, activeToken, Active, SlotsOK
<1>12. QED
  BY <1>7, <1>8, <1>9, <1>10, <1>11 DEF IInv

LEMMA KotlinDoLoginKeeps ==
  ASSUME IInv, lang = "kotlin", NEW c, CallOK(c), c.id \in UserIds, c.result = "pending",
         KotlinDoLogin(c)
  PROVE  IInv'
<1>1. lang' = lang /\ UNCHANGED <<server, failed>>
  BY DEF KotlinDoLogin
<1>2. Grows /\ expired' = expired /\ failed' \in BOOLEAN
  BY <1>1, SameGrows DEF IInv, Types
<1>3. CASE KotlinIsSudo
  BY <1>1, <1>3, SudoLogoutAsked DEF KotlinDoLogin, IInv, Types, SlotsOK
<1>4. CASE ~KotlinIsSudo
  <2>1. ~Active(sudoToken)
    BY <1>4, UsersAssumption DEF IInv, Types, Sudo, KotlinIsSudo, SlotsOK, Active, UserIds
  <2>2. KotlinContinue(c, sudoToken)
    BY <1>4 DEF KotlinDoLogin
  <2>3. QED
    BY <1>1, <1>2, <2>1, <2>2, KotlinContinueKeeps
<1>5. QED
  BY <1>3, <1>4

LEMMA KotlinCallsKeep ==
  ASSUME IInv, KotlinCalls PROVE IInv'
<1>1. lang = "kotlin"
  BY DEF KotlinCalls, KotlinLogin, KotlinRequest, KotlinLogout, Kotlin
<1>2. CASE KotlinLogin
  <2>1. PICK id \in UserIds : KotlinDoLogin(Call("login", id))
    BY <1>2 DEF KotlinLogin, UserIds
  <2>2. QED
    BY <1>1, <2>1, NewCall, KotlinDoLoginKeeps DEF Slot
<1>3. CASE KotlinRequest
  <2>1. CASE Active(activeToken)
    BY <1>3, <2>1, ActiveRequest, ActiveTokenOwner DEF KotlinRequest, UserIds, IInv, Types
  <2>2. CASE ~Active(activeToken)
    <3>1. KotlinDoLogin(Call("request", None)) /\ None \in UserIds
      BY <1>3, <2>2 DEF KotlinRequest, UserIds
    <3>2. QED
      BY <1>1, <3>1, NewCall, KotlinDoLoginKeeps DEF Slot
  <2>3. QED
    BY <2>1, <2>2
<1>4. CASE KotlinLogout
  BY <1>4, LogoutAsked DEF KotlinLogout
<1>5. QED
  BY <1>2, <1>3, <1>4 DEF KotlinCalls

LEMMA KotlinStepKeeps ==
  ASSUME IInv, KotlinStep PROVE IInv'
<1>1. /\ lang = "kotlin" /\ lang' = lang /\ at \in {"endSudo", "delete", "api", "inner", "sudo"}
      /\ CallOK(call) /\ call.id \in UserIds /\ call.result \in {"pending", "ok", "no"}
  BY DEF KotlinStep, KotlinEndSudo, KotlinDelete, KotlinApiLogin, KotlinSudoLogin, Kotlin,
         IInv, Types, Pending
<1>2. ServerOK /\ SlotsOK /\ Types
  BY DEF IInv, Types
<1>3. CASE KotlinEndSudo
  <2>1. Grows /\ expired' = expired /\ failed' \in BOOLEAN
    BY <1>3, LogoutAnswer DEF KotlinEndSudo
  <2>2. CASE Active(authToken)
    BY <1>1, <1>3, <2>1, <2>2, KotlinContinueKeeps DEF KotlinEndSudo, Active
  <2>3. CASE ~Active(authToken)
    <3>1. at' = "inner" /\ sudoId' = None /\ sudoToken' = NoToken /\ UNCHANGED <<authToken, call>>
      BY <1>3, <2>3 DEF KotlinEndSudo
    <3>2. SlotsStep /\ CallOK(call)'
      BY <1>1, <2>1, <3>1, SameCall DEF SlotsStep, UserIds
    <3>3. Types'
      BY <1>1, <1>2, <2>1, <3>1, <3>2, TypesStep DEF Places
    <3>4. QED
      BY <1>1, <3>1, <3>3 DEF IInv, Pending, Sudo, Active, LoginImpersonates, Idle, RequestsAuthenticated
  <2>4. QED
    BY <2>2, <2>3
<1>4. CASE KotlinDelete
  <2>1. Grows /\ expired' = expired /\ failed' \in BOOLEAN
    BY <1>4, LogoutAnswer DEF KotlinDelete
  <2>2. /\ sudoId' = None /\ sudoToken' = NoToken /\ authToken' \in {authToken, NoToken}
        /\ at' \in {"idle", "inner"}
    BY <1>4 DEF KotlinDelete
  <2>3. /\ CallOK(call)' /\ call'.id = call.id /\ call'.op = call.op /\ call'.result \in {"ok", "no"}
    BY <1>1, <1>4, <2>1 DEF KotlinDelete, CallOK, Calls, Slot, Grows
  <2>4. call.op \in {"logout", "logoutFull"}
    BY <1>4 DEF KotlinDelete, IInv, Pending
  <2>5. Types'
    BY <1>1, <1>2, <2>1, <2>2, <2>3, TypesStep DEF SlotsStep, Places, UserIds
  <2>6. QED
    BY <1>1, <2>2, <2>3, <2>4, <2>5
    DEF IInv, Pending, Sudo, Active, LoginImpersonates, Idle, RequestsAuthenticated
<1>5. CASE KotlinApiLogin
  <2>1. CASE Fails /\ Return("error") /\ UNCHANGED <<sudoId, authToken>>
    BY <1>2, <1>5, <2>1, FailsGrows, FailedCall DEF KotlinApiLogin, slots
  <2>2. CASE /\ Issue(Api) /\ authToken' = NewToken
             /\ IF call.op = "logout" THEN at' = "idle" /\ UNCHANGED <<sudoId, call>>
                ELSE sudoId' = call.id /\ GoOn(call, TRUE, activeToken')
    <3>1. /\ Grows /\ NewToken \in Tokens' /\ owner'[NewToken] = Api /\ expired' = expired
          /\ NewToken \notin expired /\ NewToken # NoToken
      BY <1>2, <2>2, IssueGrows
    <3>2. failed' \in BOOLEAN /\ sudoToken' = sudoToken /\ ~Active(sudoToken)
      BY <1>1, <1>5, <2>2 DEF KotlinApiLogin, Issue, IInv, Types, Sudo
    <3>3. sudoId' \in {sudoId, call.id}
      BY <2>2
    <3>4. SlotsStep
      BY <1>1, <1>2, <2>2, <3>1, <3>2, <3>3 DEF SlotsStep, SlotsOK
    <3>5. CASE call.op = "logout"
      <4>1. at' = "idle" /\ call' = call /\ CallOK(call)'
        BY <1>1, <2>2, <3>1, <3>5, SameCall
      <4>2. Types'
        BY <1>1, <1>2, <3>1, <3>2, <3>4, <4>1, TypesStep DEF Places
      <4>3. QED
        BY <1>1, <3>1, <3>2, <3>5, <4>1, <4>2
        DEF IInv, Pending, Sudo, Active, LoginImpersonates, RequestsAuthenticated
    <3>6. CASE call.op # "logout"
      <4>1. sudoId' = call.id /\ GoOn(call, TRUE, activeToken')
        BY <2>2, <3>6
      <4>2. SlotsOK' /\ activeToken' \in Slot'
        BY <1>2, <3>1, <3>4 DEF Grows, SlotsStep, SlotsOK, Slot, activeToken
      <4>3. /\ CallOK(call)'
            /\ \/ call.id = None /\ Outcome(call, activeToken')
               \/ call.id \in Users /\ at' = "sudo" /\ call' = call
        BY <1>1, <3>1, <4>1, <4>2, GoOnCall
      <4>4. at' \in Places
        BY <4>3 DEF Outcome, Places
      <4>5. Types'
        BY <1>1, <1>2, <3>1, <3>2, <3>4, <4>3, <4>4, TypesStep
      <4>6. Pending'
        BY <1>1, <4>1, <4>3, UsersAssumption DEF Pending, Outcome
      <4>7. Sudo'
        BY <1>1, <3>1, <3>2 DEF Sudo, Active
      <4>8. LoginImpersonates'
        BY <1>1, <2>2, <3>1, <3>2, <4>2, <4>3, UsersAssumption
        DEF LoginImpersonates, Idle, Outcome, Presented, activeToken, Active, UserOf, SlotsOK
      <4>9. RequestsAuthenticated'
        BY <1>1, <2>2, <3>1, <3>2, <4>2, <4>3
        DEF RequestsAuthenticated, Outcome, activeToken, Active, SlotsOK
      <4>10. QED
        BY <4>5, <4>6, <4>7, <4>8, <4>9 DEF IInv
    <3>7. QED
      BY <3>5, <3>6
  <2>3. QED
    BY <1>5, <2>1, <2>2 DEF KotlinApiLogin
<1>6. CASE KotlinSudoLogin
  <2>1. CASE Fails /\ Return("error") /\ UNCHANGED sudoToken
    BY <1>2, <1>6, <2>1, FailsGrows, FailedCall DEF KotlinSudoLogin, slots
  <2>2. CASE /\ Honours(activeToken) /\ Issue(call.id)
             /\ sudoToken' = NewToken /\ Return("ok")
    <3>1. at = "sudo" /\ call.id \in Users /\ sudoId = call.id
          /\ sudoId' = sudoId /\ authToken' = authToken
      BY <1>1, <1>6 DEF KotlinSudoLogin, IInv, Pending
    <3>2. /\ Grows /\ NewToken \in Tokens' /\ owner'[NewToken] = call.id /\ expired' = expired
          /\ NewToken # NoToken
      BY <1>2, <2>2, <3>1, IssueGrows
    <3>3. SlotsStep /\ failed' \in BOOLEAN
      BY <1>2, <2>2, <3>1, <3>2 DEF SlotsStep, SlotsOK, Issue, Types
    <3>4. CallOK(call)' /\ at' = "idle" /\ call'.id = call.id /\ call'.result = "ok"
      BY <1>1, <2>2, ReturnedCall DEF Return
    <3>5. Types'
      BY <1>1, <1>2, <3>2, <3>3, <3>4, TypesStep DEF Places
    <3>6. QED
      BY <1>1, <2>2, <3>1, <3>2, <3>4, <3>5, UsersAssumption
      DEF IInv, Pending, Sudo, LoginImpersonates, RequestsAuthenticated, Presented, activeToken, UserOf
  <2>3. QED
    BY <1>6, <2>1, <2>2 DEF KotlinSudoLogin
<1>7. QED
  BY <1>3, <1>4, <1>5, <1>6 DEF KotlinStep

----------------------------------------------------------------------------
(* Swift.                                                                 *)

LEMMA SwiftContinueKeeps ==
  ASSUME IInv, Grows, expired' = expired, lang = "swift", lang' = lang, failed' \in BOOLEAN,
         NEW c, CallOK(c), c.id \in UserIds, c.result \in {"pending", "ok", "no"},
         NEW s \in {sudoToken, NoToken}, ~Active(s), SwiftContinue(c, s)
  PROVE  IInv'
<1>1. \/ Active(authToken) /\ sudoId' = c.id /\ sudoToken' = s /\ authToken' = authToken
      \/ ~Active(authToken) /\ sudoId' = None /\ sudoToken' = NoToken /\ authToken' = NoToken
  BY DEF SwiftContinue, SwiftReset
<1>2. SlotsStep
  BY <1>1 DEF SlotsStep, UserIds
<1>3. SlotsOK' /\ SwiftHeader(activeToken') \in Slot'
  BY <1>1, <1>2 DEF IInv, Types, Grows, SlotsStep, SlotsOK, Slot, activeToken, SwiftHeader
<1>4. GoOn(c, Active(authToken), SwiftHeader(activeToken'))
  BY DEF SwiftContinue
<1>5. /\ CallOK(call)'
      /\ \/ Active(authToken) /\ c.id = None /\ Outcome(c, SwiftHeader(activeToken'))
         \/ Active(authToken) /\ c.id \in Users /\ at' = "sudo" /\ call' = c
         \/ ~Active(authToken) /\ at' = "api" /\ call' = c
  BY <1>3, <1>4, GoOnCall DEF Active
<1>6. at' \in Places
  BY <1>5 DEF Outcome, Places
<1>7. Types'
  BY <1>2, <1>5, <1>6, TypesStep DEF IInv
<1>8. Pending'
  BY <1>1, <1>5, UsersAssumption DEF Pending, Outcome
<1>9. Sudo'
  BY <1>1 DEF Sudo, Active
<1>10. LoginImpersonates'
  BY DEF LoginImpersonates
<1>11. RequestsAuthenticated'
  BY <1>1, <1>3, <1>5 DEF RequestsAuthenticated, Outcome, activeToken, Active, SlotsOK, SwiftHeader
<1>12. QED
  BY <1>7, <1>8, <1>9, <1>10, <1>11 DEF IInv

LEMMA SwiftEnterKeeps ==
  ASSUME IInv, lang = "swift", NEW c, CallOK(c), c.id \in UserIds, c.result = "pending",
         SwiftEnter(c)
  PROVE  IInv'
<1>1. lang' = lang /\ UNCHANGED <<server, failed>>
  BY DEF SwiftEnter
<1>2. Grows /\ expired' = expired /\ failed' \in BOOLEAN
  BY <1>1, SameGrows DEF IInv, Types
<1>3. CASE SwiftIsSudo
  BY <1>1, <1>3, SudoLogoutAsked DEF SwiftEnter, IInv, Types, SlotsOK
<1>4. CASE ~SwiftIsSudo
  <2>1. ~Active(sudoToken)
    BY <1>4, UsersAssumption DEF IInv, Types, Sudo, SwiftIsSudo, SlotsOK, Active, UserIds
  <2>2. SwiftContinue(c, sudoToken)
    BY <1>4 DEF SwiftEnter
  <2>3. QED
    BY <1>1, <1>2, <2>1, <2>2, SwiftContinueKeeps
<1>5. QED
  BY <1>3, <1>4

LEMMA SwiftCallsKeep ==
  ASSUME IInv, SwiftCalls PROVE IInv'
<1>1. lang = "swift"
  BY DEF SwiftCalls, SwiftLogin, SwiftRequest, SwiftLogout, Swift
<1>2. CASE SwiftLogin
  <2>1. PICK id \in UserIds :
          \/ SwiftEnter(Call("login", id))
          \/ Returned(Call("login", id), "ok") /\ UNCHANGED <<lang, slots, server, failed>>
    BY <1>2 DEF SwiftLogin, UserIds
  <2>2. CallOK(Call("login", id)) /\ Call("login", id).id = id /\ Call("login", id).result = "pending"
    BY NewCall DEF Slot
  <2>3. CASE SwiftEnter(Call("login", id))
    BY <1>1, <2>2, <2>3, SwiftEnterKeeps
  <2>4. CASE Returned(Call("login", id), "ok") /\ UNCHANGED <<lang, slots, server, failed>>
    <3>1. Grows /\ expired' = expired /\ failed' \in BOOLEAN
      BY <2>4, SameGrows DEF IInv, Types
    <3>2. CallOK(call)' /\ at' = "idle" /\ call'.result = "ok"
      BY <2>2, <2>4, ReturnedCall
    <3>3. QED
      BY <1>1, <2>4, <3>1, <3>2, CallKeeps
  <2>5. QED
    BY <2>1, <2>3, <2>4
<1>3. CASE SwiftRequest
  <2>1. CASE Active(activeToken)
    BY <1>3, <2>1, ActiveRequest, ActiveTokenOwner DEF SwiftRequest, UserIds, IInv, Types
  <2>2. CASE ~Active(activeToken)
    <3>1. SwiftEnter(Call("request", None)) /\ None \in UserIds
      BY <1>3, <2>2 DEF SwiftRequest, UserIds
    <3>2. QED
      BY <1>1, <3>1, NewCall, SwiftEnterKeeps DEF Slot
  <2>3. QED
    BY <2>1, <2>2
<1>4. CASE SwiftLogout
  BY <1>4, LogoutAsked DEF SwiftLogout
<1>5. QED
  BY <1>2, <1>3, <1>4 DEF SwiftCalls

\* The session is reset and its call goes on with the login of a logout.
LEMMA ResetForInner ==
  ASSUME IInv, Grows, expired' = expired, failed' \in BOOLEAN, lang \in {"swift", "csharp"}, lang' = lang,
         sudoId' = None, sudoToken' = NoToken, authToken' = NoToken, at' = "inner",
         CallOK(call)', call'.id \in UserIds, call'.result \in {"pending", "ok", "no"}
  PROVE  IInv'
<1>1. SlotsStep
  BY DEF SlotsStep, UserIds
<1>2. Types'
  BY <1>1, TypesStep DEF IInv, Places
<1>3. QED
  BY <1>2 DEF IInv, Pending, Sudo, Active, LoginImpersonates, RequestsAuthenticated

\* The session is logged out, wholly or to the API user.
LEMMA LoggedOut ==
  ASSUME IInv, Grows, expired' = expired, failed' \in BOOLEAN, lang \in {"swift", "csharp"}, lang' = lang,
         sudoId' = None, sudoToken' = NoToken, authToken' \in {authToken, NoToken}, Return("ok")
  PROVE  IInv'
<1>1. SlotsStep
  BY DEF SlotsStep, UserIds
<1>2. CallOK(call)' /\ at' = "idle" /\ call'.result = "ok"
  BY ReturnedCall DEF Return, IInv, Types
<1>3. Types'
  BY <1>1, <1>2, TypesStep DEF IInv, Places
<1>4. QED
  BY <1>2, <1>3 DEF IInv, Pending, Sudo, Active, LoginImpersonates, RequestsAuthenticated

\* A sudo login succeeded.
LEMMA SudoLoggedIn ==
  ASSUME IInv, at = "sudo", Issue(call.id), lang \in {"swift", "csharp"}, lang' = lang,
         sudoToken' = NewToken, UNCHANGED <<sudoId, authToken>>, Return("ok")
  PROVE  IInv'
<1>1. call.id \in Users /\ (lang = "swift" => sudoId = call.id)
  BY DEF IInv, Pending
<1>2. ServerOK /\ SlotsOK
  BY DEF IInv, Types
<1>3. /\ Grows /\ NewToken \in Tokens' /\ owner'[NewToken] = call.id /\ NewToken # NoToken
  BY <1>1, <1>2, IssueGrows
<1>4. SlotsStep /\ failed' \in BOOLEAN
  BY <1>1, <1>2, <1>3 DEF SlotsStep, SlotsOK, Issue, IInv, Types
<1>5. CallOK(call)' /\ at' = "idle" /\ call'.id = call.id /\ call'.result = "ok"
  BY ReturnedCall DEF Return, IInv, Types
<1>6. Types'
  BY <1>3, <1>4, <1>5, TypesStep DEF IInv, Places
<1>7. QED
  BY <1>1, <1>3, <1>5, <1>6 DEF IInv, Pending, Sudo, LoginImpersonates, RequestsAuthenticated

LEMMA SwiftCrashKeeps ==
  ASSUME IInv, SwiftCrash, at # "idle", lang' = lang PROVE IInv'
<1>1. Grows /\ expired' = expired /\ failed' \in BOOLEAN
  BY FailsGrows DEF SwiftCrash, IInv, Types
<1>2. UNCHANGED <<sudoId, authToken, sudoToken, call>> /\ at' = "crashed"
  BY DEF SwiftCrash, slots
<1>3. CallOK(call)' /\ SlotsStep
  BY <1>1, <1>2, SameCall DEF IInv, Types, SlotsOK, SlotsStep
<1>4. Types' /\ SlotsOK'
  BY <1>1, <1>2, <1>3, TypesStep DEF IInv, Places
<1>5. Sudo'
  BY <1>1, <1>2 DEF IInv, Types, SlotsOK, Slot, Grows, Sudo, Active
<1>6. QED
  BY <1>2, <1>4, <1>5 DEF IInv, Pending, LoginImpersonates, Idle, RequestsAuthenticated

LEMMA SwiftStepKeeps ==
  ASSUME IInv, SwiftStep PROVE IInv'
<1>1. /\ lang = "swift" /\ lang' = lang /\ at \in {"endSudo", "delete", "api", "inner", "sudo"}
      /\ CallOK(call) /\ call.id \in UserIds /\ call.result \in {"pending", "ok", "no"}
  BY DEF SwiftStep, SwiftEndSudo, SwiftDelete, SwiftApiLogin, SwiftSudoLogin, Swift,
         IInv, Types, Pending
<1>2. ServerOK /\ SlotsOK /\ Types
  BY DEF IInv, Types
<1>3. CASE SwiftEndSudo
  <2>1. Grows /\ expired' = expired /\ failed' \in BOOLEAN
    BY <1>3, LogoutAnswer DEF SwiftEndSudo
  <2>2. CASE SwiftContinue(call, NoToken)
    BY <1>1, <2>1, <2>2, SwiftContinueKeeps DEF Active
  <2>3. CASE SwiftReset /\ at' = "inner" /\ UNCHANGED call
    BY <1>1, <2>1, <2>3, SameCall, ResetForInner DEF SwiftReset
  <2>4. QED
    BY <1>3, <2>2, <2>3 DEF SwiftEndSudo
<1>4. CASE SwiftDelete
  <2>1. Grows /\ expired' = expired /\ failed' \in BOOLEAN
    BY <1>4, LogoutAnswer DEF SwiftDelete
  <2>2. CASE /\ sudoId' = None /\ sudoToken' = NoToken /\ authToken' \in {authToken, NoToken}
             /\ Return("ok")
    BY <1>1, <2>1, <2>2, LoggedOut
  <2>3. CASE SwiftReset /\ at' = "inner" /\ call' = [call EXCEPT !.result = "ok"]
    <3>1. CallOK(call)' /\ call'.id = call.id /\ call'.result = "ok"
      BY <1>1, <2>1, <2>3 DEF CallOK, Calls, Slot, Grows
    <3>2. QED
      BY <1>1, <2>1, <2>3, <3>1, ResetForInner DEF SwiftReset
  <2>4. CASE Return("no") /\ UNCHANGED slots
    BY <1>1, <2>1, <2>4, FailedCall
  <2>5. QED
    BY <1>4, <2>2, <2>3, <2>4 DEF SwiftDelete, SwiftReset
<1>5. CASE SwiftApiLogin
  <2>1. CASE SwiftCrash
    BY <1>1, <2>1, SwiftCrashKeeps
  <2>2. CASE /\ Issue(Api) /\ authToken' = NewToken /\ UNCHANGED sudoToken
             /\ IF at = "api" THEN UNCHANGED sudoId /\ Authenticated(call, SwiftHeader(activeToken'))
                ELSE IF call.op = "logout" THEN at' = "idle" /\ UNCHANGED <<sudoId, call>>
                ELSE sudoId' = call.id /\ GoOn(call, TRUE, SwiftHeader(activeToken'))
    <3>1. /\ Grows /\ NewToken \in Tokens' /\ owner'[NewToken] = Api /\ expired' = expired
          /\ NewToken \notin expired /\ NewToken # NoToken
      BY <1>2, <2>2, IssueGrows
    <3>2. failed' \in BOOLEAN /\ sudoToken' = sudoToken /\ ~Active(sudoToken)
      BY <1>1, <1>5, <2>2 DEF SwiftApiLogin, Issue, IInv, Types, Sudo
    <3>3. sudoId' \in {sudoId, call.id}
      BY <2>2
    <3>4. SlotsStep
      BY <1>1, <1>2, <2>2, <3>1, <3>2, <3>3 DEF SwiftApiLogin, SlotsStep, SlotsOK
    <3>5. SlotsOK' /\ SwiftHeader(activeToken') \in Slot'
      BY <1>2, <3>1, <3>4 DEF Grows, SlotsStep, SlotsOK, Slot, activeToken, SwiftHeader
    <3>6. /\ CallOK(call)'
          /\ \/ Outcome(call, SwiftHeader(activeToken'))
             \/ call.op = "logout" /\ at' = "idle" /\ call' = call
             \/ call.id \in Users /\ at' = "sudo" /\ call' = call /\ sudoId' = call.id
      <4>1. CASE at = "api"
        BY <1>1, <2>2, <3>1, <3>5, <4>1, AuthenticatedCall DEF Outcome
      <4>2. CASE at # "api" /\ call.op = "logout"
        BY <1>1, <2>2, <3>1, <4>2, SameCall
      <4>3. CASE at # "api" /\ call.op # "logout"
        BY <1>1, <2>2, <3>1, <3>5, <4>3, GoOnCall
      <4>4. QED
        BY <4>1, <4>2, <4>3
    <3>7. at' \in Places
      BY <3>6 DEF Outcome, Places
    <3>8. Types'
      BY <1>1, <1>2, <3>1, <3>2, <3>4, <3>6, <3>7, TypesStep
    <3>9. Pending'
      BY <1>1, <3>6, UsersAssumption DEF Pending, Outcome
    <3>10. Sudo'
      BY <1>1, <3>1, <3>2 DEF Sudo, Active
    <3>11. LoginImpersonates'
      BY <1>1 DEF LoginImpersonates
    <3>12. RequestsAuthenticated'
      BY <1>1, <3>6 DEF RequestsAuthenticated, Outcome, SwiftHeader
    <3>13. QED
      BY <3>8, <3>9, <3>10, <3>11, <3>12 DEF IInv
  <2>3. QED
    BY <1>5, <2>1, <2>2 DEF SwiftApiLogin
<1>6. CASE SwiftSudoLogin
  <2>1. CASE SwiftCrash
    BY <1>1, <2>1, SwiftCrashKeeps
  <2>2. CASE /\ Issue(call.id) /\ sudoToken' = NewToken /\ Return("ok")
             /\ UNCHANGED <<sudoId, authToken>>
    BY <1>1, <1>6, <2>2, SudoLoggedIn DEF SwiftSudoLogin
  <2>3. QED
    BY <1>6, <2>1, <2>2 DEF SwiftSudoLogin
<1>7. QED
  BY <1>3, <1>4, <1>5, <1>6 DEF SwiftStep

----------------------------------------------------------------------------
(* CSharp.                                                                *)

LEMMA CSharpContinueKeeps ==
  ASSUME IInv, Grows, expired' = expired, lang = "csharp", lang' = lang, failed' \in BOOLEAN,
         NEW c, CallOK(c), c.id \in UserIds, c.result \in {"pending", "ok", "no"},
         NEW s \in {sudoToken, NoToken}, CSharpContinue(c, s)
  PROVE  IInv'
<1>1. \/ Active(authToken) /\ sudoId' = c.id /\ sudoToken' = s /\ authToken' = authToken
      \/ ~Active(authToken) /\ sudoId' = None /\ sudoToken' = NoToken /\ authToken' = NoToken
  BY DEF CSharpContinue, CSharpReset
<1>2. SlotsStep
  BY <1>1 DEF SlotsStep, UserIds
<1>3. SlotsOK' /\ activeToken' \in Slot'
  BY <1>1, <1>2 DEF IInv, Types, Grows, SlotsStep, SlotsOK, Slot, activeToken
<1>4. GoOn(c, Active(authToken), activeToken')
  BY DEF CSharpContinue
<1>5. /\ CallOK(call)'
      /\ \/ Active(authToken) /\ c.id = None /\ Outcome(c, activeToken')
         \/ Active(authToken) /\ c.id \in Users /\ at' = "sudo" /\ call' = c
         \/ ~Active(authToken) /\ at' = "api" /\ call' = c
  BY <1>3, <1>4, GoOnCall DEF Active
<1>6. at' \in Places
  BY <1>5 DEF Outcome, Places
<1>7. Types'
  BY <1>2, <1>5, <1>6, TypesStep DEF IInv
<1>8. Pending'
  BY <1>1, <1>5, UsersAssumption DEF Pending, Outcome
<1>9. Sudo'
  BY <1>1 DEF Sudo, Active
<1>10. LoginImpersonates'
  BY DEF LoginImpersonates
<1>11. RequestsAuthenticated'
  BY <1>1, <1>3, <1>5 DEF RequestsAuthenticated, Outcome, activeToken, Active, SlotsOK
<1>12. QED
  BY <1>7, <1>8, <1>9, <1>10, <1>11 DEF IInv

LEMMA CSharpEnterKeeps ==
  ASSUME IInv, lang = "csharp", NEW c, CallOK(c), c.id \in UserIds, c.result = "pending",
         CSharpEnter(c)
  PROVE  IInv'
<1>1. lang' = lang /\ UNCHANGED <<server, failed>>
  BY DEF CSharpEnter
<1>2. Grows /\ expired' = expired /\ failed' \in BOOLEAN
  BY <1>1, SameGrows DEF IInv, Types
<1>3. CASE CSharpIsSudo /\ Active(activeToken)
  BY <1>1, <1>3, SudoLogoutAsked, ActiveTokenOwner DEF CSharpEnter, IInv, Types
<1>4. CASE ~(CSharpIsSudo /\ Active(activeToken))
  <2>1. PICK s \in {sudoToken, NoToken} : CSharpContinue(c, s)
    BY <1>4 DEF CSharpEnter
  <2>2. QED
    BY <1>1, <1>2, <2>1, CSharpContinueKeeps
<1>5. QED
  BY <1>3, <1>4

LEMMA CSharpCallsKeep ==
  ASSUME IInv, CSharpCalls PROVE IInv'
<1>1. lang = "csharp"
  BY DEF CSharpCalls, CSharpLogin, CSharpRequest, CSharpLogout, CSharp
<1>2. CASE CSharpLogin
  <2>1. PICK id \in UserIds : CSharpEnter(Call("login", id))
    BY <1>2 DEF CSharpLogin, UserIds
  <2>2. QED
    BY <1>1, <2>1, NewCall, CSharpEnterKeeps DEF Slot
<1>3. CASE CSharpRequest
  <2>1. CASE Active(activeToken)
    BY <1>3, <2>1, ActiveRequest, ActiveTokenOwner DEF CSharpRequest, UserIds, IInv, Types
  <2>2. CASE ~Active(activeToken)
    <3>1. CSharpEnter(Call("request", None)) /\ None \in UserIds
      BY <1>3, <2>2 DEF CSharpRequest, UserIds
    <3>2. QED
      BY <1>1, <3>1, NewCall, CSharpEnterKeeps DEF Slot
  <2>3. QED
    BY <2>1, <2>2
<1>4. CASE CSharpLogout
  BY <1>4, LogoutAsked DEF CSharpLogout
<1>5. QED
  BY <1>2, <1>3, <1>4 DEF CSharpCalls

LEMMA CSharpStepKeeps ==
  ASSUME IInv, CSharpStep PROVE IInv'
<1>1. /\ lang = "csharp" /\ lang' = lang /\ at \in {"endSudo", "delete", "api", "inner", "sudo"}
      /\ CallOK(call) /\ call.id \in UserIds /\ call.result \in {"pending", "ok", "no"}
  BY DEF CSharpStep, CSharpEndSudo, CSharpDelete, CSharpApiLogin, CSharpSudoLogin, CSharp,
         IInv, Types, Pending
<1>2. ServerOK /\ SlotsOK /\ Types
  BY DEF IInv, Types
<1>3. CASE CSharpEndSudo
  <2>1. Grows /\ expired' = expired /\ failed' \in BOOLEAN
    BY <1>3, LogoutAnswer DEF CSharpEndSudo
  <2>2. CASE CSharpContinue(call, NoToken)
    BY <1>1, <2>1, <2>2, CSharpContinueKeeps
  <2>3. CASE CSharpReset /\ at' = "inner" /\ UNCHANGED call
    BY <1>1, <2>1, <2>3, SameCall, ResetForInner DEF CSharpReset
  <2>4. CASE CSharpThrows
    BY <1>1, <2>1, <2>4, FailedCall DEF CSharpThrows
  <2>5. QED
    BY <1>3, <2>2, <2>3, <2>4 DEF CSharpEndSudo
<1>4. CASE CSharpDelete
  <2>1. Grows /\ expired' = expired /\ failed' \in BOOLEAN
    BY <1>4, LogoutAnswer DEF CSharpDelete
  <2>2. CASE /\ sudoId' = None /\ sudoToken' = NoToken /\ authToken' \in {authToken, NoToken}
             /\ Return("ok")
    BY <1>1, <2>1, <2>2, LoggedOut
  <2>3. CASE CSharpReset /\ at' = "inner" /\ UNCHANGED call
    BY <1>1, <2>1, <2>3, SameCall, ResetForInner DEF CSharpReset
  <2>4. CASE CSharpThrows
    BY <1>1, <2>1, <2>4, FailedCall DEF CSharpThrows
  <2>5. QED
    BY <1>4, <2>2, <2>3, <2>4 DEF CSharpDelete, CSharpReset
<1>5. CASE CSharpApiLogin
  <2>1. CASE Fails /\ CSharpThrows
    BY <1>1, <1>2, <2>1, FailsGrows, FailedCall DEF CSharpThrows
  <2>2. CASE /\ Issue(Api) /\ authToken' = NewToken /\ UNCHANGED sudoToken
             /\ sudoId' = IF at = "inner" THEN call.id ELSE sudoId
             /\ IF call.op = "logout" THEN Return("ok") ELSE GoOn(call, TRUE, activeToken')
    <3>1. /\ Grows /\ NewToken \in Tokens' /\ owner'[NewToken] = Api /\ expired' = expired
          /\ NewToken \notin expired /\ NewToken # NoToken
      BY <1>2, <2>2, IssueGrows
    <3>2. failed' \in BOOLEAN
      BY <2>2 DEF Issue, IInv, Types
    <3>3. SlotsStep
      BY <1>1, <1>2, <2>2, <3>1 DEF SlotsStep, SlotsOK
    <3>4. SlotsOK' /\ activeToken' \in Slot'
      BY <1>2, <3>1, <3>3 DEF Grows, SlotsStep, SlotsOK, Slot, activeToken
    <3>5. /\ CallOK(call)'
          /\ \/ Outcome(call, activeToken')
             \/ at' = "idle" /\ call'.result = "ok"
             \/ call.id \in Users /\ at' = "sudo" /\ call' = call
      <4>1. CASE call.op = "logout"
        BY <1>1, <2>2, <4>1, ReturnedCall DEF Return
      <4>2. CASE call.op # "logout"
        BY <1>1, <2>2, <3>1, <3>4, <4>2, GoOnCall
      <4>3. QED
        BY <4>1, <4>2
    <3>6. at' \in Places
      BY <3>5 DEF Outcome, Places
    <3>7. Types'
      BY <1>1, <1>2, <3>1, <3>2, <3>3, <3>5, <3>6, TypesStep
    <3>8. Pending'
      BY <1>1, <3>5, UsersAssumption DEF Pending, Outcome
    <3>9. Sudo' /\ LoginImpersonates'
      BY <1>1 DEF Sudo, LoginImpersonates
    <3>10. RequestsAuthenticated'
      BY <1>1, <2>2, <3>1, <3>4, <3>5
      DEF RequestsAuthenticated, Outcome, activeToken, SlotsOK
    <3>11. QED
      BY <3>7, <3>8, <3>9, <3>10 DEF IInv
  <2>3. QED
    BY <1>5, <2>1, <2>2 DEF CSharpApiLogin
<1>6. CASE CSharpSudoLogin
  <2>1. CASE Fails /\ CSharpThrows
    BY <1>1, <1>2, <2>1, FailsGrows, FailedCall DEF CSharpThrows
  <2>2. CASE /\ Issue(call.id) /\ sudoToken' = NewToken /\ Return("ok")
             /\ UNCHANGED <<sudoId, authToken>>
    BY <1>1, <1>6, <2>2, SudoLoggedIn DEF CSharpSudoLogin
  <2>3. QED
    BY <1>6, <2>1, <2>2 DEF CSharpSudoLogin
<1>7. QED
  BY <1>3, <1>4, <1>5, <1>6 DEF CSharpStep

----------------------------------------------------------------------------
(* Python.                                                                 *)

\* A login under way: the user is in sudoId, and nobody's sudo token is active.
LEMMA PythonLoginStarts ==
  ASSUME IInv, lang = "python", UNCHANGED <<lang, authToken, sudoToken, server, failed>>,
         ~Active(sudoToken), NEW op \in {"login", "relogin", "request"},
         NEW id \in UserIds, sudoId' = id, call' = Call(op, id),
         at' = "api" \/ (at' = "sudo" /\ id \in Users)
  PROVE  IInv'
<1>1. Grows /\ expired' = expired /\ failed' \in BOOLEAN
  BY SameGrows DEF IInv, Types
<1>2. CallOK(call)' /\ call'.id = id /\ call'.result = "pending"
  BY <1>1, NewCall, SameCall DEF Slot
<1>3. Types'
  BY <1>1, <1>2, TypesStep DEF IInv, SlotsStep, Places
<1>4. QED
  BY <1>1, <1>2, <1>3 DEF IInv, Pending, Sudo, Active, LoginImpersonates, RequestsAuthenticated, Idle

LEMMA PythonNobody ==
  ASSUME IInv, lang = "python", sudoId = None PROVE ~Active(sudoToken)
BY UsersAssumption DEF IInv, Types, SlotsOK, Sudo, Active

LEMMA PythonLoginUserKeeps ==
  ASSUME IInv, PythonLoginUser PROVE IInv'
<1>1. lang = "python" /\ UNCHANGED <<lang, authToken, sudoToken, server, failed>>
  BY DEF PythonLoginUser, Python
<1>2. Grows /\ expired' = expired /\ failed' \in BOOLEAN
  BY <1>1, SameGrows DEF IInv, Types
<1>3. PICK id \in Users :
       \/ /\ sudoId = None
          /\ sudoId' = id /\ call' = Call("login", id) /\ at' = LoginSudo
       \/ /\ sudoId \notin {None, id}
          /\ Returned(Call("login", id), "error") /\ UNCHANGED sudoId
       \/ /\ sudoId = id
          /\ IF Active(sudoToken) THEN Returned(Call("relogin", id), "ok")
                                  ELSE call' = Call("relogin", id) /\ at' = LoginSudo
          /\ UNCHANGED sudoId
  BY DEF PythonLoginUser
<1>4. id \in UserIds
  BY DEF UserIds
<1>5. CASE sudoId = None /\ sudoId' = id /\ call' = Call("login", id) /\ at' = LoginSudo
  BY <1>1, <1>4, <1>5, PythonNobody, PythonLoginStarts DEF LoginSudo
<1>6. CASE Returned(Call("login", id), "error") /\ UNCHANGED sudoId
  <2>1. CallOK(call)' /\ at' = "idle" /\ call'.result = "error"
    BY <1>4, <1>6, NewCall, ReturnedCall DEF Slot
  <2>2. QED
    BY <1>1, <1>2, <1>6, <2>1, CallKeeps DEF slots
<1>7. CASE sudoId = id /\ Active(sudoToken) /\ Returned(Call("relogin", id), "ok") /\ UNCHANGED sudoId
  <2>1. CallOK(call)' /\ at' = "idle" /\ call'.result = "ok" /\ call'.id = id
    BY <1>4, <1>7, NewCall, ReturnedCall DEF Slot
  <2>2. owner[sudoToken] = id /\ sudoToken \in Tokens /\ sudoToken # NoToken
    BY <1>1, <1>7 DEF IInv, Types, SlotsOK, Slot, Sudo, Active
  <2>3. Types'
    BY <1>1, <1>2, <1>7, <2>1, TypesStep DEF IInv, Types, SlotsOK, SlotsStep, Places
  <2>4. UserOf(id) = id /\ sudoId' # None
    BY <1>7, UsersAssumption DEF UserOf
  <2>5. LoginImpersonates'
    BY <1>1, <1>2, <1>7, <2>1, <2>2, <2>4 DEF LoginImpersonates, Presented, PythonToken, Grows, UserOf
  <2>6. QED
    BY <1>1, <1>2, <1>7, <2>1, <2>2, <2>3, <2>5
    DEF IInv, Pending, Sudo, Active, RequestsAuthenticated, Grows
<1>8. CASE /\ sudoId = id /\ ~Active(sudoToken)
           /\ call' = Call("relogin", id) /\ at' = LoginSudo /\ UNCHANGED sudoId
  BY <1>1, <1>4, <1>8, PythonLoginStarts DEF LoginSudo
<1>9. QED
  BY <1>3, <1>5, <1>6, <1>7, <1>8

LEMMA PythonRequestKeeps ==
  ASSUME IInv, PythonRequest PROVE IInv'
<1>1. lang = "python" /\ UNCHANGED <<lang, slots, server, failed>>
  BY DEF PythonRequest, Python
<1>2. sudoId \in UserIds /\ PythonToken \in Slot
  BY DEF IInv, Types, SlotsOK, PythonToken
<1>3. CASE Active(PythonToken)
  BY <1>1, <1>2, <1>3, ActiveRequest DEF PythonRequest
<1>4. CASE ~Active(PythonToken)
  <2>1. ~Active(sudoToken)
    BY <1>1, <1>4, PythonNobody DEF PythonToken
  <2>2. call' = Call("request", sudoId) /\ at' = IF sudoId # None THEN LoginSudo ELSE "api"
    BY <1>4 DEF PythonRequest
  <2>3. QED
    BY <1>1, <1>2, <2>1, <2>2, PythonLoginStarts DEF LoginSudo, UserIds, slots
<1>5. QED
  BY <1>3, <1>4

LEMMA PythonLogoutKeeps ==
  ASSUME IInv, PythonLogout PROVE IInv'
<1>1. lang = "python" /\ UNCHANGED <<lang, server, failed>> /\ sudoId' = None
  BY DEF PythonLogout, Python
<1>2. Grows /\ expired' = expired /\ failed' \in BOOLEAN
  BY <1>1, SameGrows DEF IInv, Types
<1>3. PICK op \in {"logout", "logoutFull"} :
       \/ /\ sudoId # None /\ Active(sudoToken)
          /\ call' = Presenting(Call(op, None), sudoToken) /\ at' = "deleteSudo"
          /\ sudoToken' = NoToken /\ UNCHANGED authToken
       \/ /\ sudoId = None /\ Active(authToken)
          /\ call' = Presenting(Call(op, None), authToken) /\ at' = "delete"
          /\ authToken' = NoToken /\ UNCHANGED sudoToken
       \/ /\ ~Active(PythonToken)
          /\ Returned(Call(op, None), "ok") /\ UNCHANGED <<authToken, sudoToken>>
  BY DEF PythonLogout
<1>4. CallOK(Call(op, None)) /\ Call(op, None).op = op /\ Call(op, None).id = None /\ None \in UserIds
      /\ \A t \in Slot :
           /\ CallOK(Presenting(Call(op, None), t))
           /\ Presenting(Call(op, None), t).op = op /\ Presenting(Call(op, None), t).id = None
           /\ Presenting(Call(op, None), t).result = "pending"
  BY NewCall DEF Slot, UserIds
<1>5. sudoToken' = NoToken \/ (~Active(sudoToken') /\ sudoToken' = sudoToken)
  BY <1>1, <1>3, PythonNobody DEF PythonToken
<1>6. authToken' \in {authToken, NoToken} /\ sudoToken' \in {sudoToken, NoToken}
  BY <1>3
<1>7. sudoToken \in Slot /\ authToken \in Slot
  BY DEF IInv, Types, SlotsOK
<1>8. /\ CallOK(call)' /\ call'.op = op /\ call'.id = None /\ call'.result \in {"pending", "ok"}
      /\ at' \in {"idle", "delete", "deleteSudo"}
  <2>1. CASE Returned(Call(op, None), "ok")
    BY <1>4, <2>1, ReturnedCall
  <2>2. CASE \E t \in Slot : call' = Presenting(Call(op, None), t) /\ at' \in {"delete", "deleteSudo"}
    <3>1. PICK t \in Slot : call' = Presenting(Call(op, None), t) /\ at' \in {"delete", "deleteSudo"}
      BY <2>2
    <3>2. QED
      BY <1>2, <1>4, <3>1, SameCall
  <2>3. QED
    BY <1>3, <1>7, <2>1, <2>2
<1>9. Types'
  BY <1>1, <1>2, <1>4, <1>6, <1>8, TypesStep DEF IInv, SlotsStep, Places
<1>10. QED
  BY <1>1, <1>2, <1>4, <1>5, <1>8, <1>9
  DEF IInv, Pending, Sudo, Active, LoginImpersonates, RequestsAuthenticated

LEMMA PythonRaisesKeeps ==
  ASSUME IInv, lang = "python", lang' = lang, at \in {"api", "sudo"}, PythonRaises PROVE IInv'
<1>1. Grows /\ expired' = expired /\ failed' \in BOOLEAN
  BY FailsGrows DEF PythonRaises, IInv, Types
<1>2. CallOK(call)' /\ at' = "idle" /\ call'.result = "error"
  BY ReturnedCall DEF PythonRaises, Return, IInv, Types
<1>3. sudoId' \in UserIds /\ UNCHANGED <<authToken, sudoToken>>
  BY DEF PythonRaises, IInv, Types, SlotsOK, UserIds
<1>4. Types'
  BY <1>1, <1>2, <1>3, TypesStep DEF IInv, SlotsStep, Places
<1>5. QED
  BY <1>1, <1>2, <1>3, <1>4 DEF IInv, Pending, Sudo, Active, LoginImpersonates, RequestsAuthenticated

LEMMA PythonStepKeeps ==
  ASSUME IInv, PythonStep PROVE IInv'
<1>1. /\ lang = "python" /\ lang' = lang /\ at \in {"api", "sudo", "delete", "deleteSudo"}
      /\ CallOK(call) /\ call.id \in UserIds /\ call.result \in {"pending", "ok", "no"}
  BY DEF PythonStep, PythonApiLogin, PythonSudoLogin, PythonDeleteSudo, PythonDelete, Python,
         IInv, Types, Pending
<1>2. ServerOK /\ SlotsOK /\ Types
  BY DEF IInv, Types
<1>3. CASE PythonApiLogin
  <2>1. at = "api" /\ ~Active(sudoToken) /\ call.id = sudoId
    BY <1>1, <1>3 DEF PythonApiLogin, IInv, Pending, Sudo
  <2>2. CASE PythonRaises
    BY <1>1, <2>1, <2>2, PythonRaisesKeeps
  <2>3. CASE /\ Issue(Api) /\ authToken' = NewToken /\ UNCHANGED <<sudoId, sudoToken>>
             /\ GoOn(call, TRUE, authToken')
    <3>1. /\ Grows /\ NewToken \in Tokens' /\ owner'[NewToken] = Api /\ expired' = expired
          /\ NewToken \notin expired /\ NewToken # NoToken
      BY <1>2, <2>3, IssueGrows
    <3>2. failed' \in BOOLEAN /\ SlotsStep
      BY <1>2, <2>3, <3>1 DEF Issue, Types, SlotsStep, SlotsOK
    <3>3. authToken' \in Slot'
      BY <2>3, <3>1 DEF Slot
    <3>4. /\ CallOK(call)'
          /\ \/ call.id = None /\ Outcome(call, authToken')
             \/ call.id \in Users /\ at' = "sudo" /\ call' = call
      BY <1>1, <2>3, <3>1, <3>3, GoOnCall
    <3>5. Types'
      BY <1>1, <1>2, <3>1, <3>2, <3>4, TypesStep DEF Outcome, Places
    <3>6. Pending'
      BY <1>1, <2>1, <2>3, <3>4, UsersAssumption DEF Pending, Outcome
    <3>7. Sudo'
      BY <2>1, <2>3, <3>1 DEF Sudo, Active
    <3>8. LoginImpersonates'
      BY <1>1, <2>1, <2>3, <3>1, <3>4
      DEF LoginImpersonates, Idle, Outcome, Presented, PythonToken, UserOf
    <3>9. RequestsAuthenticated'
      BY <1>1, <2>3, <3>1, <3>4 DEF RequestsAuthenticated, Outcome
    <3>10. QED
      BY <3>5, <3>6, <3>7, <3>8, <3>9 DEF IInv
  <2>4. QED
    BY <1>3, <2>2, <2>3 DEF PythonApiLogin
<1>4. CASE PythonSudoLogin
  <2>1. at = "sudo" /\ call.id = sudoId /\ sudoId \in Users
    BY <1>1, <1>4 DEF PythonSudoLogin, IInv, Pending
  <2>2. CASE PythonRaises
    BY <1>1, <2>1, <2>2, PythonRaisesKeeps
  <2>3. CASE /\ Issue(sudoId) /\ sudoToken' = NewToken /\ UNCHANGED <<sudoId, authToken>>
             /\ Authenticated(call, sudoToken')
    <3>1. /\ Grows /\ NewToken \in Tokens' /\ owner'[NewToken] = sudoId /\ expired' = expired
          /\ NewToken \notin expired /\ NewToken # NoToken
      BY <1>2, <2>1, <2>3, IssueGrows
    <3>2. failed' \in BOOLEAN /\ SlotsStep /\ sudoToken' \in Slot'
      BY <1>2, <2>1, <2>3, <3>1 DEF Issue, Types, SlotsStep, SlotsOK, Slot
    <3>3. Outcome(call, sudoToken')
      BY <1>1, <2>3, <3>1, <3>2, AuthenticatedCall
    <3>4. Types'
      BY <1>1, <1>2, <3>1, <3>2, <3>3, TypesStep DEF Outcome, Places
    <3>5. Pending' /\ Sudo'
      BY <1>1, <2>1, <2>3, <3>1, <3>3 DEF Pending, Sudo, Active, Outcome
    <3>6. LoginImpersonates'
      BY <1>1, <2>1, <2>3, <3>1, <3>3, UsersAssumption
      DEF LoginImpersonates, Idle, Outcome, Presented, PythonToken, UserOf
    <3>7. RequestsAuthenticated'
      BY <1>1, <2>3, <3>1, <3>3 DEF RequestsAuthenticated, Outcome
    <3>8. QED
      BY <3>4, <3>5, <3>6, <3>7 DEF IInv
  <2>4. QED
    BY <1>4, <2>2, <2>3 DEF PythonSudoLogin
<1>5. CASE PythonDeleteSudo
  <2>1. Grows /\ expired' = expired /\ failed' \in BOOLEAN
    BY <1>5, LogoutAnswer DEF PythonDeleteSudo
  <2>2. UNCHANGED <<sudoId, sudoToken>> /\ call.op \in {"logout", "logoutFull"}
    BY <1>5 DEF PythonDeleteSudo, IInv, Pending
  <2>3. CASE call.op = "logoutFull" /\ authToken' = NoToken /\ call' = Presenting(call, authToken)
             /\ at' = "delete"
    <3>1. CallOK(Presenting(call, authToken)) /\ Presenting(call, authToken).id = call.id
          /\ Presenting(call, authToken).op = call.op
          /\ Presenting(call, authToken).result = call.result
      BY <1>1, <1>2, PresentingCall DEF SlotsOK
    <3>2. CallOK(call)'
      BY <2>1, <2>3, <3>1, SameCall
    <3>3. Types'
      BY <1>1, <1>2, <2>1, <2>2, <2>3, <3>2, TypesStep DEF SlotsStep, SlotsOK, Places
    <3>4. Sudo'
      BY <1>1, <1>2, <2>1, <2>2, <2>3 DEF IInv, Sudo, Active, Grows, SlotsOK, Slot
    <3>5. QED
      BY <1>1, <2>2, <2>3, <3>1, <3>3, <3>4
      DEF IInv, Pending, LoginImpersonates, Idle, RequestsAuthenticated
  <2>4. CASE /\ Return("ok") \/ Return("error")
             /\ UNCHANGED authToken
    <3>1. CallOK(call)' /\ at' = "idle" /\ call'.result \in {"ok", "error"} /\ call'.op = call.op
      BY <1>1, <2>4, ReturnedCall DEF Return
    <3>2. QED
      BY <1>1, <2>1, <2>2, <2>4, <3>1, CallKeeps DEF slots
  <2>5. QED
    BY <1>5, <2>3, <2>4 DEF PythonDeleteSudo
<1>6. CASE PythonDelete
  <2>1. Grows /\ expired' = expired /\ failed' \in BOOLEAN
    BY <1>6, LogoutAnswer DEF PythonDelete
  <2>2. UNCHANGED slots /\ (Return("ok") \/ Return("error")) /\ call.op \in {"logout", "logoutFull"}
    BY <1>6 DEF PythonDelete, IInv, Pending
  <2>3. CallOK(call)' /\ at' = "idle" /\ call'.result \in {"ok", "error"} /\ call'.op = call.op
    BY <1>1, <2>2, ReturnedCall DEF Return
  <2>4. QED
    BY <1>1, <2>1, <2>2, <2>3, CallKeeps
<1>7. QED
  BY <1>3, <1>4, <1>5, <1>6 DEF PythonStep

----------------------------------------------------------------------------
(* Go.                                                                     *)

LEMMA GoKeeps ==
  ASSUME IInv, GoRequest \/ GoLogin PROVE IInv'
<1>1. lang = "go" /\ lang' = lang
  BY DEF GoRequest, GoLogin, Go
<1>2. ServerOK /\ SlotsOK /\ Types
  BY DEF IInv, Types
<1>3. CASE GoRequest
  <2>1. UNCHANGED <<lang, slots, server, failed>> /\ authToken \in Slot
    BY <1>2, <1>3 DEF GoRequest, SlotsOK
  <2>2. CASE Active(authToken)
    BY <1>3, <2>1, <2>2, ActiveRequest DEF GoRequest, UserIds
  <2>3. CASE ~Active(authToken)
    <3>1. call' = Call("request", None) /\ at' = "api"
      BY <1>3, <2>3 DEF GoRequest
    <3>2. Grows /\ expired' = expired /\ failed' \in BOOLEAN
      BY <2>1, SameGrows DEF IInv, Types
    <3>3. CallOK(call)' /\ call'.id \in UserIds /\ call'.result = "pending"
      BY <3>1, <3>2, NewCall, SameCall DEF Slot, UserIds
    <3>4. Types'
      BY <1>1, <1>2, <2>1, <3>1, <3>2, <3>3, TypesStep DEF SlotsStep, SlotsOK, slots, Places
    <3>5. Sudo'
      BY <1>1, <2>1, <3>2 DEF IInv, Sudo, Active, slots, server
    <3>6. QED
      BY <1>1, <3>1, <3>3, <3>4, <3>5
      DEF IInv, Pending, LoginImpersonates, RequestsAuthenticated
  <2>4. QED
    BY <2>2, <2>3
<1>4. CASE GoLogin
  <2>1. UNCHANGED <<sudoId, sudoToken>> /\ CallOK(call)
    BY <1>2, <1>4 DEF GoLogin, Types
  <2>2. CASE Fails /\ Return("error") /\ UNCHANGED authToken
    BY <1>1, <1>2, <2>1, <2>2, FailsGrows, FailedCall DEF slots
  <2>3. CASE Issue(Api) /\ authToken' = NewToken /\ Show(call, authToken')
    <3>1. /\ Grows /\ NewToken \in Tokens' /\ owner'[NewToken] = Api /\ expired' = expired
          /\ NewToken \notin expired /\ NewToken # NoToken
      BY <1>2, <2>3, IssueGrows
    <3>2. failed' \in BOOLEAN /\ SlotsStep /\ authToken' \in Slot'
      BY <1>2, <2>1, <2>3, <3>1 DEF Issue, Types, SlotsStep, SlotsOK, Slot
    <3>3. CallOK(call)' /\ at' = "idle" /\ call'.result \in {"revoked", "active"}
      BY <2>1, <2>3, <3>1, <3>2, ShownCall
    <3>4. Types'
      BY <1>1, <1>2, <3>1, <3>2, <3>3, TypesStep DEF Places
    <3>5. Sudo'
      BY <1>1, <1>2, <2>1, <3>1 DEF IInv, Sudo, Active, Grows, SlotsOK, Slot
    <3>6. QED
      BY <1>1, <3>3, <3>4, <3>5 DEF IInv, Pending, LoginImpersonates, RequestsAuthenticated
  <2>4. QED
    BY <1>4, <2>2, <2>3 DEF GoLogin
<1>5. QED
  BY <1>3, <1>4

----------------------------------------------------------------------------
(* All of them.                                                            *)

LEMMA InvStutters == ASSUME IInv, UNCHANGED vars PROVE IInv'
<1>1. UNCHANGED <<lang, sudoId, authToken, sudoToken, owner, expired, revoked, call, at, failed>>
  BY DEF vars, slots, server
<1>2. Types'
  BY <1>1 DEF IInv, Types, ServerOK, SlotsOK, CallOK, Calls, Slot, Tokens
<1>3. Pending' /\ Sudo' /\ LoginImpersonates' /\ RequestsAuthenticated'
  BY <1>1 DEF IInv, Pending, Sudo, Active, LoginImpersonates, Presented, PythonToken, activeToken,
              Idle, RequestsAuthenticated
<1>4. QED
  BY <1>2, <1>3 DEF IInv

LEMMA InvKept == IInv /\ [Next]_vars => IInv'
<1> SUFFICES ASSUME IInv, [Next]_vars PROVE IInv'
  OBVIOUS
<1>1. CASE KotlinCalls \/ KotlinStep
  BY <1>1, KotlinCallsKeep, KotlinStepKeeps
<1>2. CASE SwiftCalls \/ SwiftStep
  BY <1>2, SwiftCallsKeep, SwiftStepKeeps
<1>3. CASE CSharpCalls \/ CSharpStep
  BY <1>3, CSharpCallsKeep, CSharpStepKeeps
<1>4. CASE PythonCalls \/ PythonStep
  BY <1>4, PythonLoginUserKeeps, PythonRequestKeeps, PythonLogoutKeeps, PythonStepKeeps DEF PythonCalls
<1>5. CASE GoRequest \/ GoLogin
  BY <1>5, GoKeeps
<1>6. CASE Expire
  BY <1>6, ExpireKeeps
<1>7. CASE UNCHANGED vars
  BY <1>7, InvStutters
<1>8. QED
  BY <1>1, <1>2, <1>3, <1>4, <1>5, <1>6, <1>7 DEF Next, Step

----------------------------------------------------------------------------
(* The slots and what the server knows.                                    *)

Slotted == {"kotlin", "swift", "csharp"}

\* No session presents a revoked token, unless the answer to a logout was lost.
Unrevoked ==
  ~failed \/ lang \in {"python", "go"} => authToken \notin revoked /\ sudoToken \notin revoked

\* A token that lives is in its slot, or a Python logout is about to revoke it.
Remembered ==
  ~failed /\ lang # "csharp" =>
    \A t \in Tokens : \/ t \in expired \union revoked \union {authToken, sudoToken}
                      \/ at \in {"delete", "deleteSudo"} /\ t = call.token

\* What a logout presents: the token in use, or one no longer in a slot.
Logouts ==
  /\ lang \in Slotted /\ at \in {"endSudo", "delete"} => call.token = activeToken
  /\ lang \in Slotted /\ at = "endSudo" => sudoId # None /\ call.op # "logout"
  /\ lang \in {"kotlin", "swift"} /\ at = "delete" /\ sudoId = None => sudoToken = NoToken
  /\ lang = "python" /\ at \in {"delete", "deleteSudo"} /\ call.token # NoToken
       => call.token \notin {authToken, sudoToken}

\* Whom the session acts for while tokens are asked for, and that it has a token
\* of that user otherwise.
Asking ==
  /\ at \in {"api", "inner"} => ~Active(authToken)
  /\ lang \in {"swift", "csharp"} /\ at \in {"api", "inner"} => sudoId = None
  /\ lang = "kotlin" /\ at = "inner" => sudoId = None
  /\ lang = "kotlin" /\ at = "api" => sudoId = call.id /\ call.op # "logout"
  /\ lang = "csharp" /\ at \in {"inner", "delete"} /\ call.op = "logout" => call.id = None
  /\ lang \in Slotted /\ at \in {"idle", "endSudo", "delete"} /\ ~failed /\ sudoId # None
       => sudoToken # NoToken

Kept == Unrevoked /\ Remembered /\ Logouts /\ Asking /\ RevokedTokensUnused

LEMMA KeptInitially == Init => Kept
BY DEF Init, Kept, Unrevoked, Remembered, Logouts, Asking, RevokedTokensUnused, Call, Active,
       Slotted, NoToken, Tokens

LEMMA NoTokenIsNone == NoToken \notin Tokens
BY DEF NoToken, Tokens

LEMMA IssueTokens ==
  ASSUME ServerOK, NEW u \in Users \union {Api}, Issue(u)
  PROVE  Tokens' = Tokens \union {NewToken} /\ failed' = failed
<1>1. Len(owner) \in Nat /\ Len(owner') = Len(owner) + 1
  BY DEF ServerOK, Issue
<1>2. QED
  BY <1>1 DEF Tokens, NewToken, Issue

\* Of the first three languages, once a request has failed little is asked.
LEMMA FailureKept ==
  ASSUME lang' \in Slotted, failed' = TRUE, at' \in {"idle", "crashed", "sudo"}
  PROVE  Kept'
BY DEF Kept, Unrevoked, Remembered, Logouts, Asking, RevokedTokensUnused, Slotted

\* A request with an active token.
LEMMA RequestKept ==
  ASSUME IInv, Kept, UNCHANGED <<lang, slots, server, failed>>, lang \in Slotted \union {"python", "go"},
         at = "idle", NEW id \in UserIds,
         NEW t \in {authToken, sudoToken}, Active(t), Show(Call("request", id), t)
  PROVE  Kept'
<1> DEFINE c == Call("request", id)
<1>1. CallOK(c)
  BY NewCall DEF Slot
<1> HIDE DEF c
<1>2. Grows /\ t \in Slot'
  BY SameGrows DEF IInv, Types, SlotsOK, Slot, Grows
<1>3. at' = "idle" /\ (call'.result = "revoked" => t \in revoked)
  BY <1>1, <1>2, ShownCall DEF c
<1>4. UNCHANGED <<sudoId, authToken, sudoToken, owner, expired, revoked>>
  BY DEF slots, server
<1>5. QED
  BY <1>3, <1>4
  DEF Kept, Unrevoked, Remembered, Logouts, Asking, RevokedTokensUnused, Slotted, Tokens

\* A logout is asked for, or there is nothing to log out.
LEMMA LogoutAskedKept ==
  ASSUME IInv, Kept, UNCHANGED <<lang, slots, server, failed>>, lang \in Slotted, at = "idle",
         \/ Active(activeToken) /\ at' = "delete" /\ call' = Presenting(Call("logout", None), activeToken)
         \/ Returned(Call("logout", None), "no")
  PROVE  Kept'
<1>1. UNCHANGED <<sudoId, authToken, sudoToken, owner, expired, revoked, activeToken, Tokens>>
  BY DEF slots, server, activeToken, Tokens
<1>2. CASE Active(activeToken) /\ at' = "delete" /\ call' = Presenting(Call("logout", None), activeToken)
  <2>1. call'.token = activeToken /\ call'.result = "pending"
    BY <1>2 DEF Presenting, Call
  <2>. call'.id = None
    BY <1>2 DEF Presenting, Call
  <2>2. lang # "csharp" /\ sudoId = None => sudoToken = NoToken
    BY <1>2, UsersAssumption DEF IInv, Types, SlotsOK, Sudo, Active, activeToken
  <2>3. QED
    BY <1>1, <1>2, <2>1, <2>2
    DEF Kept, Unrevoked, Remembered, Logouts, Asking, RevokedTokensUnused, Slotted
<1>3. CASE Returned(Call("logout", None), "no")
  <2>1. at' = "idle" /\ call'.result = "no"
    BY <1>3 DEF Returned, Call
  <2>2. QED
    BY <1>1, <2>1
    DEF Kept, Unrevoked, Remembered, Logouts, Asking, RevokedTokensUnused, Slotted
<1>4. QED
  BY <1>2, <1>3

\* The answer to a login for the impersonated user.
LEMMA SudoLoginKept ==
  ASSUME IInv, Kept, lang \in Slotted, lang' = lang, at = "sudo",
         \/ Issue(call.id) /\ sudoToken' = NewToken /\ Return("ok")
            /\ UNCHANGED <<sudoId, authToken>> /\ (lang # "csharp" => ~Active(sudoToken))
         \/ Fails /\ at' \in {"idle", "crashed"}
  PROVE  Kept'
<1>1. ServerOK /\ CallOK(call) /\ call.id \in Users
  BY DEF IInv, Types, Pending
<1>2. CASE Fails /\ at' \in {"idle", "crashed"}
  BY <1>2, FailureKept DEF Fails
<1>3. CASE Issue(call.id) /\ sudoToken' = NewToken /\ Return("ok")
           /\ UNCHANGED <<sudoId, authToken>> /\ (lang # "csharp" => ~Active(sudoToken))
  <2>1. /\ NewToken # NoToken /\ NewToken \notin revoked
        /\ Tokens' = Tokens \union {NewToken} /\ failed' = failed
        /\ expired' = expired /\ revoked' = revoked
    BY <1>1, <1>3, IssueGrows, IssueTokens
  <2>2. at' = "idle" /\ call'.result = "ok"
    BY <1>1, <1>3, ReturnedCall DEF Return
  <2>3. Unrevoked' /\ Remembered'
    BY <1>3, <2>1, <2>2, NoTokenIsNone DEF Kept, Unrevoked, Remembered, Active
  <2>4. Logouts' /\ Asking' /\ RevokedTokensUnused'
    BY <1>3, <2>1, <2>2 DEF Logouts, Asking, RevokedTokensUnused
  <2>5. QED
    BY <2>3, <2>4 DEF Kept
<1>4. QED
  BY <1>2, <1>3

----------------------------------------------------------------------------
(* Kotlin.                                                                 *)

LEMMA KotlinContinueKept ==
  ASSUME IInv, lang' = "kotlin", Grows, Tokens' = Tokens, expired' = expired,
         revoked \subseteq revoked',
         NEW c, CallOK(c), c.id \in UserIds, c.op # "logout", c.result # "revoked",
         NEW s \in {sudoToken, NoToken}, KotlinContinue(c, s),
         ~failed' => /\ authToken \notin revoked' /\ s \notin revoked'
                     /\ \A t \in Tokens : t \in expired \union revoked' \union {authToken, s}
  PROVE  Kept'
<1>1. sudoId' = c.id /\ sudoToken' = s /\ authToken' = authToken
  BY DEF KotlinContinue
<1>2. activeToken' \in {authToken', sudoToken'} /\ activeToken' \in Slot'
  BY <1>1 DEF activeToken, IInv, Types, SlotsOK, Slot, Grows
<1>3. GoOn(c, Active(authToken), activeToken') /\ Active(authToken) \in BOOLEAN
  BY DEF KotlinContinue, Active
<1>4. \/ c.id = None /\ at' = "idle" /\ (call'.result = "revoked" => activeToken' \in revoked)
      \/ at' = "sudo" /\ call' = c
      \/ ~Active(authToken) /\ at' = "api" /\ call' = c
  BY <1>2, <1>3, GoOnCall DEF Outcome
<1>5. Unrevoked' /\ Remembered'
  BY <1>1, <1>4 DEF Unrevoked, Remembered
<1>6. Logouts'
  BY <1>4 DEF Logouts
<1>7. Asking'
  BY <1>1, <1>4 DEF Asking, Active, Slotted
<1>8. RevokedTokensUnused'
  BY <1>1, <1>2, <1>4 DEF RevokedTokensUnused
<1>9. QED
  BY <1>5, <1>6, <1>7, <1>8 DEF Kept

LEMMA KotlinDoLoginKept ==
  ASSUME IInv, Kept, lang = "kotlin", at = "idle",
         NEW op \in {"login", "request"}, NEW id \in UserIds,
         KotlinDoLogin(Call(op, id))
  PROVE  Kept'
<1> DEFINE c == Call(op, id)
<1>1. /\ CallOK(c) /\ c.id = id /\ c.op = op /\ c.result = "pending"
      /\ Presenting(c, sudoToken).token = sudoToken /\ Presenting(c, sudoToken).op = op
      /\ Presenting(c, sudoToken).result = "pending"
  BY NewCall DEF IInv, Types, SlotsOK
<1> HIDE DEF c
<1>2. UNCHANGED <<lang, failed, owner, expired, revoked, Tokens>>
  BY DEF KotlinDoLogin, server, Tokens
<1>3. CASE KotlinIsSudo /\ at' = "endSudo" /\ call' = Presenting(c, sudoToken) /\ UNCHANGED slots
  <2>1. UNCHANGED <<sudoId, authToken, sudoToken, activeToken>> /\ activeToken = sudoToken
        /\ sudoId # None /\ sudoToken # NoToken
    BY <1>3 DEF slots, activeToken, KotlinIsSudo, Active
  <2>2. QED
    BY <1>1, <1>2, <1>3, <2>1
    DEF Kept, Unrevoked, Remembered, Logouts, Asking, RevokedTokensUnused, Slotted
<1>4. CASE KotlinContinue(c, sudoToken)
  <2>1. Grows
    BY <1>2, SameGrows DEF IInv, Types, server
  <2>2. ~failed' => /\ authToken \notin revoked' /\ sudoToken \notin revoked'
                    /\ \A t \in Tokens : t \in expired \union revoked' \union {authToken, sudoToken}
    BY <1>2 DEF Kept, Unrevoked, Remembered
  <2>3. QED
    BY <1>1, <1>2, <1>4, <2>1, <2>2, KotlinContinueKept
<1>5. QED
  BY <1>3, <1>4 DEF KotlinDoLogin, c

LEMMA KotlinKept ==
  ASSUME IInv, Kept, KotlinCalls \/ KotlinStep PROVE Kept'
<1>1. lang = "kotlin" /\ lang' = lang
  BY DEF KotlinCalls, KotlinLogin, KotlinRequest, KotlinLogout, KotlinDoLogin, KotlinStep,
         KotlinEndSudo, KotlinDelete, KotlinApiLogin, KotlinSudoLogin, Kotlin
<1>2. ServerOK /\ SlotsOK /\ CallOK(call) /\ failed \in BOOLEAN
  BY DEF IInv, Types
<1>3. CASE KotlinLogin
  BY <1>1, <1>3, KotlinDoLoginKept DEF KotlinLogin, Idle, UserIds
<1>4. CASE KotlinRequest
  <2>1. CASE Active(activeToken)
    BY <1>1, <1>4, <2>1, RequestKept DEF KotlinRequest, Idle, UserIds, Slotted, activeToken
  <2>2. CASE ~Active(activeToken)
    BY <1>1, <1>4, <2>2, KotlinDoLoginKept DEF KotlinRequest, Idle, UserIds
  <2>3. QED
    BY <2>1, <2>2
<1>5. CASE KotlinLogout
  BY <1>1, <1>5, LogoutAskedKept DEF KotlinLogout, Idle, Slotted
<1>6. CASE KotlinEndSudo
  <2>1. /\ at = "endSudo" /\ call.token = activeToken /\ call.op # "logout" /\ call.id \in UserIds
        /\ call.result # "revoked" /\ Grows /\ expired' = expired /\ failed' \in BOOLEAN
    BY <1>1, <1>6, LogoutAnswer DEF KotlinEndSudo, Kept, Logouts, Slotted, IInv, Pending
  <2>2. revoked \subseteq revoked' /\ Tokens' = Tokens
    BY <1>6 DEF KotlinEndSudo, Revoke, RevokeFails, Tokens
  <2>3. ~failed' => /\ ~failed /\ revoked' = revoked \union {sudoToken} /\ sudoToken # NoToken
                    /\ authToken \notin revoked' /\ NoToken \notin revoked'
                    /\ \A t \in Tokens : t \in expired \union revoked' \union {authToken, NoToken}
    <3>1. SUFFICES ASSUME ~failed' PROVE
             /\ ~failed /\ revoked' = revoked \union {sudoToken} /\ sudoToken # NoToken
             /\ authToken \notin revoked' /\ NoToken \notin revoked'
             /\ \A t \in Tokens : t \in expired \union revoked' \union {authToken, NoToken}
      OBVIOUS
    <3>2. Revoke(call.token)
      BY <1>6, <3>1 DEF KotlinEndSudo, RevokeFails
    <3>3. ~failed /\ sudoToken # NoToken /\ call.token = sudoToken
      BY <1>1, <2>1, <3>1, <3>2 DEF Revoke, Kept, Logouts, Asking, Slotted, activeToken
    <3>4. revoked' = revoked \union {sudoToken}
      BY <3>2, <3>3 DEF Revoke
    <3>5. authToken \notin revoked' /\ NoToken \notin revoked'
      BY <1>2, <3>3, <3>4, UsersAssumption DEF Kept, Unrevoked, SlotsOK, ServerOK, Tokens, NoToken
    <3>6. \A t \in Tokens : t \in expired \union revoked' \union {authToken, NoToken}
      BY <1>1, <2>1, <3>3, <3>4 DEF Kept, Remembered
    <3>7. QED
      BY <3>3, <3>4, <3>5, <3>6
  <2>4. CASE KotlinContinue(call, NoToken)
    BY <1>1, <1>2, <2>1, <2>2, <2>3, <2>4, KotlinContinueKept
  <2>5. CASE /\ ~Active(authToken) /\ at' = "inner" /\ sudoId' = None /\ sudoToken' = NoToken
             /\ UNCHANGED <<authToken, call>>
    <3>1. Unrevoked' /\ Remembered'
      BY <1>1, <2>1, <2>2, <2>3, <2>5 DEF Unrevoked, Remembered
    <3>2. Logouts' /\ Asking' /\ RevokedTokensUnused'
      BY <1>1, <2>1, <2>5 DEF Logouts, Asking, Active, RevokedTokensUnused
    <3>3. QED
      BY <3>1, <3>2 DEF Kept
  <2>6. QED
    BY <1>6, <2>4, <2>5 DEF KotlinEndSudo
<1>7. CASE KotlinDelete
  <2>1. at = "delete" /\ call.token = activeToken
    BY <1>1, <1>7 DEF KotlinDelete, Kept, Logouts, Slotted
  <2>2. Tokens' = Tokens /\ expired' = expired
    BY <1>7 DEF KotlinDelete, Revoke, RevokeFails, Tokens
  <2>3. /\ at' \in {"idle", "inner"} /\ (at' = "inner" => ~Active(authToken'))
        /\ sudoId' = None /\ sudoToken' = NoToken /\ call'.result \in {"ok", "no"}
        /\ authToken' = IF sudoId # None THEN authToken ELSE NoToken
    BY <1>2, <1>7, <2>2 DEF KotlinDelete, CallOK, Calls, Active
  <2>4. ~failed' => /\ authToken' \notin revoked' /\ sudoToken' \notin revoked'
                    /\ \A t \in Tokens : t \in expired \union revoked' \union {authToken', NoToken}
    <3> SUFFICES ASSUME ~failed' PROVE
           /\ authToken' \notin revoked' /\ NoToken \notin revoked'
           /\ \A t \in Tokens : t \in expired \union revoked' \union {authToken', NoToken}
      BY <2>3
    <3>1. Revoke(call.token)
      BY <1>7 DEF KotlinDelete, RevokeFails
    <3>2. ~failed /\ revoked' = revoked \union {activeToken} /\ activeToken # NoToken
      BY <2>1, <3>1 DEF Revoke, Honours
    <3>3. activeToken = IF sudoId # None THEN sudoToken ELSE authToken
      BY <1>1, <2>1, <3>2 DEF Kept, Logouts, Asking, Slotted, activeToken
    <3>4. authToken' \notin revoked' /\ NoToken \notin revoked'
      BY <1>2, <2>3, <3>2, <3>3, UsersAssumption
      DEF Kept, Unrevoked, SlotsOK, ServerOK, Tokens, NoToken
    <3>5. \A t \in Tokens : t \in expired \union revoked' \union {authToken', NoToken}
      <4>1. \A t \in Tokens : t \in expired \union revoked \union {authToken, sudoToken, activeToken}
        BY <1>1, <2>1, <3>2 DEF Kept, Remembered
      <4>2. CASE sudoId # None
        BY <2>3, <3>2, <3>3, <4>1, <4>2
      <4>3. CASE sudoId = None
        BY <1>1, <2>1, <2>3, <3>2, <3>3, <4>1, <4>3 DEF Kept, Logouts
      <4>4. QED
        BY <4>2, <4>3
    <3>6. QED
      BY <3>4, <3>5
  <2>5. Unrevoked' /\ Remembered'
    BY <1>1, <2>2, <2>3, <2>4 DEF Unrevoked, Remembered
  <2>6. Logouts' /\ Asking' /\ RevokedTokensUnused'
    BY <1>1, <2>2, <2>3 DEF Logouts, Asking, Active, RevokedTokensUnused
  <2>7. QED
    BY <2>5, <2>6 DEF Kept
<1>8. CASE KotlinApiLogin
  <2>1. at \in {"api", "inner"} /\ ~Active(authToken) /\ sudoToken' = sudoToken /\ call.id \in UserIds
    BY <1>8 DEF KotlinApiLogin, Kept, Asking, IInv, Pending
  <2>2. CASE Fails /\ Return("error")
    BY <1>1, <2>2, FailureKept DEF Fails, Return, Returned, Slotted
  <2>3. CASE /\ Issue(Api) /\ authToken' = NewToken
             /\ IF call.op = "logout" THEN at' = "idle" /\ UNCHANGED <<sudoId, call>>
                ELSE sudoId' = call.id /\ GoOn(call, TRUE, activeToken')
    <3>1. /\ Grows /\ NewToken \in Tokens' /\ NewToken # NoToken /\ NewToken \notin revoked
          /\ Tokens' = Tokens \union {NewToken} /\ failed' = failed
          /\ expired' = expired /\ revoked' = revoked
      BY <1>2, <2>3, IssueGrows, IssueTokens
    <3>2. Unrevoked' /\ (at' \notin {"delete", "deleteSudo"} => Remembered')
      BY <1>1, <2>1, <2>3, <3>1, NoTokenIsNone DEF Kept, Unrevoked, Remembered, Active
    <3>3. activeToken' \in {authToken', sudoToken'} /\ activeToken' \in Slot'
      BY <1>2, <2>1, <2>3, <3>1 DEF activeToken, SlotsOK, Slot, Grows
    <3>4. CASE call.op = "logout"
      <4>1. sudoId' = None /\ at' = "idle" /\ call' = call
        BY <1>1, <2>1, <2>3, <3>4 DEF Kept, Asking
      <4>2. call.result # "revoked"
        BY <2>1 DEF IInv, Pending
      <4>3. QED
        BY <1>1, <3>2, <4>1, <4>2 DEF Kept, Logouts, Asking, RevokedTokensUnused
    <3>5. CASE call.op # "logout"
      <4>1. sudoId' = call.id /\ GoOn(call, TRUE, activeToken')
        BY <2>3, <3>5
      <4>2. \/ /\ call.id = None /\ at' = "idle"
               /\ call'.result = "revoked" => activeToken' \in revoked
            \/ at' = "sudo" /\ call' = call
        BY <1>2, <2>1, <3>1, <3>3, <4>1, GoOnCall DEF Outcome
      <4>3. call.result # "revoked"
        BY <2>1 DEF IInv, Pending
      <4>4. RevokedTokensUnused'
        BY <1>1, <3>1, <3>2, <3>3, <4>2, <4>3 DEF RevokedTokensUnused, Unrevoked
      <4>5. QED
        BY <1>1, <3>2, <4>1, <4>2, <4>4 DEF Kept, Logouts, Asking
    <3>6. QED
      BY <3>4, <3>5
  <2>4. QED
    BY <1>8, <2>2, <2>3 DEF KotlinApiLogin
<1>9. CASE KotlinSudoLogin
  BY <1>1, <1>9, SudoLoginKept
  DEF KotlinSudoLogin, Slotted, IInv, Sudo, Return, Returned
<1>10. QED
  BY <1>3, <1>4, <1>5, <1>6, <1>7, <1>8, <1>9 DEF KotlinCalls, KotlinStep

----------------------------------------------------------------------------
(* Swift and C#.                                                           *)

\* What both do once no sudo user is left, with t the token to present.
LEMMA ContinueKept ==
  ASSUME IInv, lang' \in {"swift", "csharp"}, Grows, Tokens' = Tokens, expired' = expired,
         revoked \subseteq revoked',
         NEW c, CallOK(c), c.id \in UserIds, c.result # "revoked",
         NEW s \in {sudoToken, NoToken}, lang' = "swift" => ~Active(s),
         IF Active(authToken)
           THEN sudoId' = c.id /\ sudoToken' = s /\ UNCHANGED authToken
           ELSE SwiftReset,
         NEW t \in {NoToken, authToken', sudoToken'}, GoOn(c, Active(authToken), t),
         lang' = "csharp" => c.op # "logout",
         ~failed' => /\ authToken \notin revoked' /\ s \notin revoked'
                     /\ lang' = "swift" =>
                          \A x \in Tokens : x \in expired \union revoked' \union {authToken, s}
  PROVE  Kept'
<1>1. ServerOK' /\ NoToken \notin Tokens /\ NoToken \notin revoked'
  BY NoTokenIsNone DEF Grows, ServerOK
<1>2. Active(authToken) \in BOOLEAN /\ t \in Slot'
  BY DEF Active, IInv, Types, SlotsOK, Slot, SwiftReset, Grows
<1>3. \/ Active(authToken) /\ c.id = None /\ at' = "idle" /\ (call'.result = "revoked" => t \in revoked)
      \/ Active(authToken) /\ at' = "sudo" /\ call' = c
      \/ ~Active(authToken) /\ at' = "api" /\ call' = c
  BY <1>2, GoOnCall DEF Outcome
<1>4. ~failed' => /\ authToken' \notin revoked' /\ sudoToken' \notin revoked'
                  /\ lang' = "swift" =>
                       \A x \in Tokens : x \in expired \union revoked' \union {authToken', sudoToken'}
  BY <1>1 DEF SwiftReset, Active
<1>5. Unrevoked' /\ Remembered'
  BY <1>4 DEF Unrevoked, Remembered
<1>6. Logouts' /\ RevokedTokensUnused'
  BY <1>1, <1>3, <1>4 DEF Logouts, RevokedTokensUnused
<1>7. Asking'
  BY <1>3 DEF Asking, Active, SwiftReset
<1>8. QED
  BY <1>5, <1>6, <1>7 DEF Kept

\* Both slots are emptied.
LEMMA ResetKept ==
  ASSUME lang' \in {"swift", "csharp"}, SwiftReset, Grows, Tokens' = Tokens, expired' = expired,
         at' \in {"inner", "idle"}, call'.result # "revoked",
         lang' = "csharp" /\ at' = "inner" /\ call'.op = "logout" => call'.id = None,
         ~failed' /\ lang' = "swift" => \A x \in Tokens : x \in expired \union revoked'
  PROVE  Kept'
<1>1. NoToken \notin revoked'
  BY NoTokenIsNone DEF Grows, ServerOK
<1>2. QED
  BY <1>1
  DEF SwiftReset, Kept, Unrevoked, Remembered, Logouts, Asking, RevokedTokensUnused, Active

\* The answer to a login of the API user.
LEMMA ApiLoginKept ==
  ASSUME IInv, Kept, lang \in {"swift", "csharp"}, lang' = lang, at \in {"api", "inner"},
         Issue(Api), authToken' = NewToken, sudoToken' = sudoToken,
         at' \in {"idle", "sudo"}, at' = "idle" => sudoId' = None,
         call'.result = "revoked" => \E t \in {authToken', sudoToken'} : t \in revoked
  PROVE  Kept'
<1>1. /\ NewToken # NoToken /\ NewToken \notin revoked
      /\ Tokens' = Tokens \union {NewToken} /\ failed' = failed
      /\ expired' = expired /\ revoked' = revoked
  BY IssueGrows, IssueTokens DEF IInv, Types
<1>2. Unrevoked' /\ Remembered'
  BY <1>1, NoTokenIsNone DEF Kept, Unrevoked, Remembered, Asking, Active
<1>3. Logouts' /\ Asking' /\ RevokedTokensUnused'
  BY <1>1, <1>2 DEF Logouts, Asking, RevokedTokensUnused, Unrevoked
<1>4. QED
  BY <1>2, <1>3 DEF Kept

\* A logout that was answered: the token in use is that of the slot the session
\* clears.
LEMMA LogoutKept ==
  ASSUME IInv, Kept, lang \in {"swift", "csharp"}, lang' = lang,
         at \in {"endSudo", "delete"}, Revoke(call.token)
  PROVE  /\ Grows /\ Tokens' = Tokens /\ expired' = expired /\ failed' = failed
         /\ revoked \subseteq revoked' /\ NoToken \notin revoked'
         /\ ~failed =>
              /\ sudoId # None => authToken \notin revoked' /\ sudoToken \in revoked'
              /\ lang = "swift" =>
                   \A x \in Tokens :
                     x \in expired \union revoked' \union (IF sudoId # None THEN {authToken} ELSE {})
<1>1. call.token = activeToken /\ activeToken # NoToken /\ revoked' = revoked \union {activeToken}
      /\ failed' = failed
  BY DEF Kept, Logouts, Slotted, Revoke, Honours
<1>2. Grows /\ expired' = expired /\ Tokens' = Tokens
  BY LogoutAnswer DEF Revoke, Tokens
<1>3. NoToken \notin revoked'
  BY <1>2, NoTokenIsNone DEF Grows, ServerOK
<1>4. ASSUME ~failed, sudoId # None
      PROVE  activeToken = sudoToken /\ authToken \notin revoked' /\ sudoToken \in revoked'
  <2>1. sudoToken # NoToken /\ activeToken = sudoToken
    BY <1>4 DEF Kept, Asking, Slotted, activeToken
  <2>2. authToken # sudoToken
    BY <2>1, UsersAssumption DEF IInv, Types, SlotsOK
  <2>3. QED
    BY <1>1, <1>4, <2>1, <2>2 DEF Kept, Unrevoked
<1>5. ASSUME ~failed, lang = "swift", NEW x \in Tokens
      PROVE  x \in expired \union revoked' \union (IF sudoId # None THEN {authToken} ELSE {})
  <2>1. x \in expired \union revoked' \union {authToken, sudoToken}
    BY <1>1, <1>5 DEF Kept, Remembered
  <2>2. CASE sudoId # None
    BY <1>4, <1>5, <2>1, <2>2
  <2>3. CASE sudoId = None
    <3>1. sudoToken = NoToken /\ activeToken = authToken
      BY <1>5, <2>3 DEF Kept, Logouts, Slotted, activeToken
    <3>2. QED
      BY <1>1, <2>1, <2>3, <3>1, NoTokenIsNone
  <2>4. QED
    BY <2>2, <2>3
<1>6. QED
  BY <1>1, <1>2, <1>3, <1>4, <1>5

\* Enter, with the sudo token to present if there is one.
LEMMA EndSudoKept ==
  ASSUME IInv, Kept, lang \in {"swift", "csharp"}, UNCHANGED <<lang, slots, server, failed>>,
         at = "idle", NEW op \in {"login", "request"}, NEW id \in UserIds,
         sudoId # None, at' = "endSudo", call' = Presenting(Call(op, id), activeToken)
  PROVE  Kept'
<1>1. call'.token = activeToken /\ call'.op = op /\ call'.result = "pending"
  BY DEF Presenting, Call
<1>2. UNCHANGED <<sudoId, authToken, sudoToken, owner, expired, revoked, activeToken, Tokens, failed, lang>>
  BY DEF slots, server, activeToken, Tokens
<1>3. QED
  BY <1>1, <1>2
  DEF Kept, Unrevoked, Remembered, Logouts, Asking, RevokedTokensUnused, Slotted

----------------------------------------------------------------------------
(* Swift.                                                                  *)

LEMMA SwiftEnterKept ==
  ASSUME IInv, Kept, lang = "swift", at = "idle",
         NEW op \in {"login", "request"}, NEW id \in UserIds, SwiftEnter(Call(op, id))
  PROVE  Kept'
<1> DEFINE c == Call(op, id)
<1>1. CallOK(c) /\ c.id = id /\ c.op = op /\ c.result = "pending"
  BY NewCall DEF Slot
<1> HIDE DEF c
<1>2. UNCHANGED <<lang, failed, server, expired, revoked, Tokens>> /\ Grows
  BY SameGrows DEF SwiftEnter, server, Tokens, IInv, Types
<1>3. CASE SwiftIsSudo /\ at' = "endSudo" /\ call' = Presenting(c, sudoToken) /\ UNCHANGED slots
  BY <1>2, <1>3, EndSudoKept DEF SwiftIsSudo, Active, activeToken, c
<1>4. CASE ~SwiftIsSudo /\ SwiftContinue(c, sudoToken)
  <2>1. ~Active(sudoToken)
    BY <1>4, UsersAssumption DEF SwiftIsSudo, IInv, Types, SlotsOK, Sudo, Active
  <2>2. SwiftHeader(activeToken') \in {NoToken, authToken', sudoToken'}
    BY DEF SwiftHeader, activeToken
  <2>3. GoOn(c, Active(authToken), SwiftHeader(activeToken'))
    BY <1>4 DEF SwiftContinue
  <2>4. ~failed' => /\ authToken \notin revoked' /\ sudoToken \notin revoked'
                    /\ \A x \in Tokens : x \in expired \union revoked' \union {authToken, sudoToken}
    BY <1>2 DEF Kept, Unrevoked, Remembered
  <2>5. QED
    BY <1>1, <1>2, <1>4, <2>1, <2>2, <2>3, <2>4, ContinueKept DEF SwiftContinue
<1>5. QED
  BY <1>3, <1>4 DEF SwiftEnter, c

LEMMA SwiftKept ==
  ASSUME IInv, Kept, SwiftCalls \/ SwiftStep PROVE Kept'
<1>1. lang = "swift" /\ lang' = lang
  BY DEF SwiftCalls, SwiftLogin, SwiftRequest, SwiftLogout, SwiftEnter, SwiftStep,
         SwiftEndSudo, SwiftDelete, SwiftApiLogin, SwiftSudoLogin, Swift
<1>2. ServerOK /\ SlotsOK /\ CallOK(call) /\ failed \in BOOLEAN
      /\ (at # "idle" => call.id \in UserIds /\ call.result # "revoked")
  BY DEF IInv, Types, Pending
<1>3. CASE SwiftLogin
  <2>1. PICK id \in UserIds :
          \/ SwiftEnter(Call("login", id))
          \/ Returned(Call("login", id), "ok") /\ UNCHANGED <<lang, slots, server, failed>>
    BY <1>3 DEF SwiftLogin, UserIds
  <2>2. CASE SwiftEnter(Call("login", id))
    BY <1>1, <1>3, <2>2, SwiftEnterKept DEF SwiftLogin, Idle
  <2>3. CASE Returned(Call("login", id), "ok") /\ UNCHANGED <<lang, slots, server, failed>>
    <3>1. at' = "idle" /\ call'.result = "ok" /\ at = "idle"
      BY <1>3, <2>3 DEF Returned, Call, SwiftLogin, Idle
    <3>2. UNCHANGED <<sudoId, authToken, sudoToken, owner, expired, revoked, Tokens>>
      BY <2>3 DEF slots, server, Tokens
    <3>3. QED
      BY <1>1, <2>3, <3>1, <3>2
      DEF Kept, Unrevoked, Remembered, Logouts, Asking, RevokedTokensUnused, Slotted
  <2>4. QED
    BY <2>1, <2>2, <2>3
<1>4. CASE SwiftRequest
  <2>1. CASE Active(activeToken)
    BY <1>1, <1>4, <2>1, RequestKept DEF SwiftRequest, Idle, UserIds, Slotted, activeToken
  <2>2. CASE ~Active(activeToken)
    BY <1>1, <1>4, <2>2, SwiftEnterKept DEF SwiftRequest, Idle, UserIds
  <2>3. QED
    BY <2>1, <2>2
<1>5. CASE SwiftLogout
  BY <1>1, <1>5, LogoutAskedKept DEF SwiftLogout, Idle, Slotted
<1>6. CASE SwiftEndSudo
  <2>1. at = "endSudo" /\ sudoId # None
    BY <1>1, <1>6 DEF SwiftEndSudo, Kept, Logouts, Slotted
  <2>2. CASE Revoke(call.token)
    <3>1. /\ Grows /\ Tokens' = Tokens /\ expired' = expired /\ failed' = failed
          /\ revoked \subseteq revoked' /\ NoToken \notin revoked'
          /\ ~failed => /\ authToken \notin revoked'
                        /\ \A x \in Tokens : x \in expired \union revoked' \union {authToken}
      BY <1>1, <2>1, <2>2, LogoutKept
    <3>2. CASE SwiftContinue(call, NoToken)
      <4>1. SwiftHeader(activeToken') \in {NoToken, authToken', sudoToken'}
        BY DEF SwiftHeader, activeToken
      <4>2. GoOn(call, Active(authToken), SwiftHeader(activeToken')) /\ ~Active(NoToken)
        BY <3>2 DEF SwiftContinue, Active
      <4>3. QED
        BY <1>1, <1>2, <2>1, <3>1, <3>2, <4>1, <4>2, ContinueKept DEF SwiftContinue
    <3>3. CASE ~Active(authToken) /\ SwiftReset /\ at' = "inner" /\ UNCHANGED call
      <4>1. ~failed' => \A x \in Tokens : x \in expired \union revoked'
        BY <3>1, <3>3, NoTokenIsNone DEF Active
      <4>2. QED
        BY <1>1, <1>2, <2>1, <3>1, <3>3, <4>1, ResetKept
    <3>4. QED
      BY <1>6, <2>2, <3>2, <3>3 DEF SwiftEndSudo, Revoke, RevokeFails
  <2>3. CASE RevokeFails(call.token) /\ SwiftContinue(call, NoToken)
    <3>1. Grows /\ expired' = expired /\ failed' = TRUE /\ Tokens' = Tokens
          /\ revoked \subseteq revoked'
      BY <2>3, LogoutAnswer DEF RevokeFails, Tokens
    <3>2. SwiftHeader(activeToken') \in {NoToken, authToken', sudoToken'}
      BY DEF SwiftHeader, activeToken
    <3>3. GoOn(call, Active(authToken), SwiftHeader(activeToken')) /\ ~Active(NoToken)
      BY <2>3 DEF SwiftContinue, Active
    <3>4. QED
      BY <1>1, <1>2, <2>1, <2>3, <3>1, <3>2, <3>3, ContinueKept DEF SwiftContinue
  <2>4. QED
    BY <1>6, <2>2, <2>3 DEF SwiftEndSudo
<1>7. CASE SwiftDelete
  <2>1. at = "delete"
    BY <1>7 DEF SwiftDelete
  <2>2. CASE RevokeFails(call.token) /\ Return("no") /\ UNCHANGED slots
    BY <1>1, <2>2, FailureKept DEF RevokeFails, Return, Returned, Slotted
  <2>3. CASE Revoke(call.token)
    <3>1. /\ Grows /\ Tokens' = Tokens /\ expired' = expired /\ failed' = failed
          /\ revoked \subseteq revoked' /\ NoToken \notin revoked'
          /\ ~failed =>
               /\ sudoId # None => authToken \notin revoked'
               /\ \A x \in Tokens :
                    x \in expired \union revoked' \union (IF sudoId # None THEN {authToken} ELSE {})
      BY <1>1, <2>1, <2>3, LogoutKept
    <3>2. CASE sudoId = None /\ SwiftReset /\ Return("ok")
      <4>1. at' = "idle" /\ call'.result = "ok"
        BY <1>2, <3>2, ReturnedCall DEF Return
      <4>2. QED
        BY <1>1, <3>1, <3>2, <4>1, ResetKept
    <3>3. CASE sudoId # None /\ sudoId' = None /\ sudoToken' = NoToken /\ UNCHANGED authToken /\ Return("ok")
      <4>1. at' = "idle" /\ call'.result = "ok"
        BY <1>2, <3>3, ReturnedCall DEF Return
      <4>2. QED
        BY <1>1, <3>1, <3>3, <4>1
        DEF Kept, Unrevoked, Remembered, Logouts, Asking, RevokedTokensUnused
    <3>4. CASE /\ sudoId # None /\ ~Active(authToken)
               /\ SwiftReset /\ at' = "inner" /\ call' = [call EXCEPT !.result = "ok"]
      <4>1. call'.result = "ok"
        BY <1>2, <3>4 DEF CallOK, Calls
      <4>2. ~failed' => \A x \in Tokens : x \in expired \union revoked'
        BY <3>1, <3>4, NoTokenIsNone DEF Active
      <4>3. QED
        BY <1>1, <3>1, <3>4, <4>1, <4>2, ResetKept
    <3>5. QED
      BY <1>7, <2>2, <2>3, <3>2, <3>3, <3>4 DEF SwiftDelete
  <2>4. QED
    BY <1>7, <2>2, <2>3 DEF SwiftDelete
<1>8. CASE SwiftApiLogin
  <2>1. at \in {"api", "inner"} /\ sudoId = None
    BY <1>1, <1>8 DEF SwiftApiLogin, Kept, Asking
  <2>2. CASE SwiftCrash
    BY <1>1, <2>2, FailureKept DEF SwiftCrash, Fails, Slotted
  <2>3. CASE /\ Issue(Api) /\ authToken' = NewToken /\ UNCHANGED sudoToken
             /\ IF at = "api" THEN UNCHANGED sudoId /\ Authenticated(call, SwiftHeader(activeToken'))
                ELSE IF call.op = "logout" THEN at' = "idle" /\ UNCHANGED <<sudoId, call>>
                ELSE sudoId' = call.id /\ GoOn(call, TRUE, SwiftHeader(activeToken'))
    <3> DEFINE t == SwiftHeader(activeToken')
    <3>1. Grows /\ NewToken \in Tokens'
      BY <1>2, <2>3, IssueGrows
    <3>2. t \in {NoToken, authToken', sudoToken'} /\ t \in Slot'
      BY <1>2, <2>3, <3>1 DEF SwiftHeader, activeToken, SlotsOK, Slot, Grows
    <3> HIDE DEF t
    <3>3. CASE at = "api"
      <4>1. Outcome(call, t) /\ sudoId' = None
        BY <1>2, <2>1, <2>3, <3>1, <3>2, <3>3, AuthenticatedCall DEF t
      <4>2. QED
        BY <1>1, <2>3, <3>2, <3>3, <4>1, ApiLoginKept DEF Outcome
    <3>4. CASE at = "inner" /\ call.op = "logout"
      BY <1>1, <1>2, <2>1, <2>3, <3>4, ApiLoginKept
    <3>5. CASE at = "inner" /\ call.op # "logout"
      <4>1. \/ call.id = None /\ Outcome(call, t)
            \/ at' = "sudo" /\ call' = call
        BY <1>2, <2>3, <3>1, <3>2, <3>5, GoOnCall DEF t
      <4>2. sudoId' = call.id
        BY <2>3, <3>5
      <4>3. QED
        BY <1>1, <1>2, <2>3, <3>2, <3>5, <4>1, <4>2, ApiLoginKept DEF Outcome
    <3>6. QED
      BY <2>1, <3>3, <3>4, <3>5
  <2>4. QED
    BY <1>8, <2>2, <2>3 DEF SwiftApiLogin
<1>9. CASE SwiftSudoLogin
  BY <1>1, <1>9, SudoLoginKept
  DEF SwiftSudoLogin, SwiftCrash, Slotted, IInv, Sudo
<1>10. QED
  BY <1>3, <1>4, <1>5, <1>6, <1>7, <1>8, <1>9 DEF SwiftCalls, SwiftStep

----------------------------------------------------------------------------
(* C#.                                                                     *)

LEMMA CSharpEnterKept ==
  ASSUME IInv, Kept, lang = "csharp", at = "idle",
         NEW op \in {"login", "request"}, NEW id \in UserIds, CSharpEnter(Call(op, id))
  PROVE  Kept'
<1> DEFINE c == Call(op, id)
<1>1. CallOK(c) /\ c.id = id /\ c.op = op /\ c.result = "pending"
  BY NewCall DEF Slot
<1> HIDE DEF c
<1>2. UNCHANGED <<lang, failed, server, expired, revoked, Tokens>> /\ Grows
  BY SameGrows DEF CSharpEnter, server, Tokens, IInv, Types
<1>3. CASE CSharpIsSudo /\ at' = "endSudo" /\ call' = Presenting(c, activeToken) /\ UNCHANGED slots
  BY <1>2, <1>3, EndSudoKept DEF CSharpIsSudo, c
<1>4. CASE CSharpContinue(c, IF CSharpIsSudo THEN NoToken ELSE sudoToken)
  <2> DEFINE s == IF CSharpIsSudo THEN NoToken ELSE sudoToken
  <2>1. s \in {sudoToken, NoToken} /\ NoToken \notin revoked
    BY NoTokenIsNone DEF IInv, Types, ServerOK
  <2>2. activeToken' \in {NoToken, authToken', sudoToken'}
    BY DEF activeToken
  <2>3. ~failed' => authToken \notin revoked' /\ s \notin revoked'
    BY <1>2, <2>1 DEF Kept, Unrevoked
  <2> HIDE DEF s
  <2>4. /\ GoOn(c, Active(authToken), activeToken')
        /\ IF Active(authToken)
             THEN sudoId' = c.id /\ sudoToken' = s /\ UNCHANGED authToken
             ELSE SwiftReset
    BY <1>4 DEF CSharpContinue, CSharpReset, SwiftReset, s
  <2>5. QED
    BY <1>1, <1>2, <2>1, <2>2, <2>3, <2>4, ContinueKept
<1>5. QED
  BY <1>3, <1>4 DEF CSharpEnter, c

LEMMA CSharpKept ==
  ASSUME IInv, Kept, CSharpCalls \/ CSharpStep PROVE Kept'
<1>1. lang = "csharp" /\ lang' = lang
  BY DEF CSharpCalls, CSharpLogin, CSharpRequest, CSharpLogout, CSharpEnter, CSharpStep,
         CSharpEndSudo, CSharpDelete, CSharpApiLogin, CSharpSudoLogin, CSharp
<1>2. ServerOK /\ SlotsOK /\ CallOK(call) /\ failed \in BOOLEAN
      /\ (at # "idle" => call.id \in UserIds /\ call.result # "revoked")
  BY DEF IInv, Types, Pending
<1>3. CASE CSharpLogin
  <2>1. PICK id \in UserIds : CSharpEnter(Call("login", id))
    BY <1>3 DEF CSharpLogin, UserIds
  <2>2. QED
    BY <1>1, <1>3, <2>1, CSharpEnterKept DEF CSharpLogin, Idle
<1>4. CASE CSharpRequest
  <2>1. CASE Active(activeToken)
    BY <1>1, <1>4, <2>1, RequestKept DEF CSharpRequest, Idle, UserIds, Slotted, activeToken
  <2>2. CASE ~Active(activeToken)
    BY <1>1, <1>4, <2>2, CSharpEnterKept DEF CSharpRequest, Idle, UserIds
  <2>3. QED
    BY <2>1, <2>2
<1>5. CASE CSharpLogout
  BY <1>1, <1>5, LogoutAskedKept DEF CSharpLogout, Idle, Slotted
<1>6. CASE CSharpEndSudo
  <2>1. at = "endSudo" /\ sudoId # None /\ call.op # "logout"
    BY <1>1, <1>6 DEF CSharpEndSudo, Kept, Logouts, Slotted
  <2>2. CASE RevokeFails(call.token) /\ CSharpThrows
    BY <1>1, <2>2, FailureKept DEF RevokeFails, CSharpThrows, Return, Returned, Slotted
  <2>3. CASE Revoke(call.token)
    <3>1. /\ Grows /\ Tokens' = Tokens /\ expired' = expired /\ failed' = failed
          /\ revoked \subseteq revoked' /\ NoToken \notin revoked'
          /\ ~failed => authToken \notin revoked'
      BY <1>1, <2>1, <2>3, LogoutKept
    <3>2. CASE CSharpContinue(call, NoToken)
      <4>1. activeToken' \in {NoToken, authToken', sudoToken'}
        BY DEF activeToken
      <4>2. /\ GoOn(call, Active(authToken), activeToken')
            /\ IF Active(authToken)
                 THEN sudoId' = call.id /\ sudoToken' = NoToken /\ UNCHANGED authToken
                 ELSE SwiftReset
        BY <3>2 DEF CSharpContinue, CSharpReset, SwiftReset
      <4>3. QED
        BY <1>1, <1>2, <2>1, <3>1, <4>1, <4>2, ContinueKept
    <3>3. CASE CSharpReset /\ at' = "inner" /\ UNCHANGED call
      BY <1>1, <1>2, <2>1, <3>1, <3>3, ResetKept DEF CSharpReset, SwiftReset
    <3>4. QED
      BY <1>6, <2>2, <3>2, <3>3 DEF CSharpEndSudo
  <2>4. QED
    BY <1>6, <2>2, <2>3 DEF CSharpEndSudo
<1>7. CASE CSharpDelete
  <2>1. at = "delete" /\ (call.op = "logout" => call.id = None)
    BY <1>1, <1>7 DEF CSharpDelete, Kept, Asking
  <2>2. CASE RevokeFails(call.token) /\ CSharpThrows
    BY <1>1, <2>2, FailureKept DEF RevokeFails, CSharpThrows, Return, Returned, Slotted
  <2>3. CASE Revoke(call.token)
    <3>1. /\ Grows /\ Tokens' = Tokens /\ expired' = expired /\ failed' = failed
          /\ revoked \subseteq revoked' /\ NoToken \notin revoked'
          /\ ~failed => (sudoId # None => authToken \notin revoked')
      BY <1>1, <2>1, <2>3, LogoutKept
    <3>2. CASE CSharpReset /\ Return("ok")
      <4>1. at' = "idle" /\ call'.result = "ok"
        BY <1>2, <3>2, ReturnedCall DEF Return
      <4>2. QED
        BY <1>1, <3>1, <3>2, <4>1, ResetKept DEF CSharpReset, SwiftReset
    <3>3. CASE sudoId # None /\ sudoId' = None /\ sudoToken' = NoToken /\ UNCHANGED authToken /\ Return("ok")
      <4>1. at' = "idle" /\ call'.result = "ok"
        BY <1>2, <3>3, ReturnedCall DEF Return
      <4>2. QED
        BY <1>1, <3>1, <3>3, <4>1
        DEF Kept, Unrevoked, Remembered, Logouts, Asking, RevokedTokensUnused
    <3>4. CASE CSharpReset /\ at' = "inner" /\ UNCHANGED call
      BY <1>1, <1>2, <2>1, <3>1, <3>4, ResetKept DEF CSharpReset, SwiftReset
    <3>5. QED
      BY <1>7, <2>2, <3>2, <3>3, <3>4 DEF CSharpDelete, CSharpIsSudo
  <2>4. QED
    BY <1>7, <2>2, <2>3 DEF CSharpDelete
<1>8. CASE CSharpApiLogin
  <2>1. at \in {"api", "inner"} /\ sudoId = None
    BY <1>1, <1>8 DEF CSharpApiLogin, Kept, Asking
  <2>2. CASE Fails /\ CSharpThrows
    BY <1>1, <2>2, FailureKept DEF CSharpThrows, Return, Returned, Fails, Slotted
  <2>3. CASE /\ Issue(Api) /\ authToken' = NewToken /\ UNCHANGED sudoToken
             /\ sudoId' = IF at = "inner" THEN call.id ELSE sudoId
             /\ IF call.op = "logout" THEN Return("ok")
                                      ELSE GoOn(call, TRUE, activeToken')
    <3>1. Grows /\ NewToken \in Tokens'
      BY <1>2, <2>3, IssueGrows
    <3>2. activeToken' \in {authToken', sudoToken'} /\ activeToken' \in Slot'
      BY <1>2, <2>3, <3>1 DEF activeToken, SlotsOK, Slot, Grows
    <3>3. CASE call.op = "logout"
      <4>1. at' = "idle" /\ call'.result = "ok"
        BY <1>2, <2>3, <3>3, ReturnedCall DEF Return
      <4>2. sudoId' = None
        BY <1>1, <2>1, <2>3, <3>3 DEF Kept, Asking
      <4>3. QED
        BY <1>1, <2>1, <2>3, <4>1, <4>2, ApiLoginKept
    <3>4. CASE call.op # "logout"
      <4>1. \/ call.id = None /\ Outcome(call, activeToken')
            \/ at' = "sudo" /\ call' = call
        BY <1>2, <2>1, <2>3, <3>1, <3>2, <3>4, GoOnCall
      <4>2. QED
        BY <1>1, <1>2, <2>1, <2>3, <3>2, <4>1, ApiLoginKept DEF Outcome
    <3>5. QED
      BY <3>3, <3>4
  <2>4. QED
    BY <1>8, <2>2, <2>3 DEF CSharpApiLogin
<1>9. CASE CSharpSudoLogin
  BY <1>1, <1>9, SudoLoginKept DEF CSharpSudoLogin, CSharpThrows, Return, Returned, Slotted
<1>10. QED
  BY <1>3, <1>4, <1>5, <1>6, <1>7, <1>8, <1>9 DEF CSharpCalls, CSharpStep

----------------------------------------------------------------------------
(* Python and Go.                                                          *)

\* The slots and the server stay, and no logout is asked for.
LEMMA SlotsStayKept ==
  ASSUME Kept, lang \in {"python", "go"}, at \notin {"delete", "deleteSudo"},
         UNCHANGED <<lang, authToken, sudoToken, server>>, failed' \in {failed, TRUE}, failed \in BOOLEAN,
         at' \in {"idle", "api", "sudo"}, at' = "api" => ~Active(authToken),
         call'.result # "revoked"
  PROVE  Kept'
<1>1. UNCHANGED <<owner, expired, revoked, Tokens>>
  BY DEF server, Tokens
<1>2. QED
  BY <1>1
  DEF Kept, Unrevoked, Remembered, Logouts, Asking, RevokedTokensUnused, Active, Slotted

\* A token was issued, and put in a slot whose token is not active.
LEMMA IssuedKept ==
  ASSUME IInv, Kept, lang \in {"python", "go"}, lang' = lang, at \in {"api", "sudo"},
         NEW u \in Users \union {Api}, Issue(u), at' \in {"idle", "sudo"},
         call'.result # "revoked",
         \/ authToken' = NewToken /\ UNCHANGED sudoToken /\ ~Active(authToken)
         \/ sudoToken' = NewToken /\ UNCHANGED authToken /\ ~Active(sudoToken)
  PROVE  Kept'
<1>1. /\ NewToken # NoToken /\ NewToken \notin revoked
      /\ Tokens' = Tokens \union {NewToken} /\ failed' = failed
      /\ expired' = expired /\ revoked' = revoked
  BY IssueGrows, IssueTokens DEF IInv, Types
<1>2. QED
  BY <1>1, NoTokenIsNone
  DEF Kept, Unrevoked, Remembered, Logouts, Asking, RevokedTokensUnused, Active, Slotted

LEMMA PythonLogoutKept ==
  ASSUME IInv, Kept, PythonLogout PROVE Kept'
<1>1. lang = "python" /\ at = "idle" /\ UNCHANGED <<lang, server, failed>>
  BY DEF PythonLogout, Python, Idle
<1>2. UNCHANGED <<owner, expired, revoked, Tokens>> /\ NoToken \notin revoked
  BY <1>1, NoTokenIsNone DEF server, Tokens, IInv, Types, ServerOK
<1>3. authToken = NoToken \/ authToken # sudoToken
  BY UsersAssumption DEF IInv, Types, SlotsOK
<1>4. PICK op \in {"logout", "logoutFull"} :
       \/ /\ call' = Presenting(Call(op, None), sudoToken) /\ at' = "deleteSudo"
          /\ sudoToken' = NoToken /\ UNCHANGED authToken
       \/ /\ call' = Presenting(Call(op, None), authToken) /\ at' = "delete"
          /\ authToken' = NoToken /\ UNCHANGED sudoToken
       \/ Returned(Call(op, None), "ok") /\ UNCHANGED <<authToken, sudoToken>>
  BY DEF PythonLogout
<1>5. CASE /\ call' = Presenting(Call(op, None), sudoToken) /\ at' = "deleteSudo"
           /\ sudoToken' = NoToken /\ UNCHANGED authToken
  <2>1. call'.token = sudoToken /\ call'.result = "pending"
    BY <1>5 DEF Presenting, Call
  <2>2. QED
    BY <1>1, <1>2, <1>3, <1>5, <2>1
    DEF Kept, Unrevoked, Remembered, Logouts, Asking, RevokedTokensUnused, Slotted
<1>6. CASE /\ call' = Presenting(Call(op, None), authToken) /\ at' = "delete"
           /\ authToken' = NoToken /\ UNCHANGED sudoToken
  <2>1. call'.token = authToken /\ call'.result = "pending"
    BY <1>6 DEF Presenting, Call
  <2>2. QED
    BY <1>1, <1>2, <1>3, <1>6, <2>1
    DEF Kept, Unrevoked, Remembered, Logouts, Asking, RevokedTokensUnused, Slotted
<1>7. CASE Returned(Call(op, None), "ok") /\ UNCHANGED <<authToken, sudoToken>>
  <2>1. at' = "idle" /\ call'.result = "ok"
    BY <1>7 DEF Returned, Call
  <2>2. QED
    BY <1>1, <1>7, <2>1, SlotsStayKept DEF IInv, Types
<1>8. QED
  BY <1>4, <1>5, <1>6, <1>7

LEMMA PythonKept ==
  ASSUME IInv, Kept, PythonCalls \/ PythonStep PROVE Kept'
<1>1. lang = "python" /\ lang' = lang
  BY DEF PythonCalls, PythonLoginUser, PythonRequest, PythonLogout, PythonStep,
         PythonApiLogin, PythonSudoLogin, PythonDeleteSudo, PythonDelete, Python
<1>2. ServerOK /\ SlotsOK /\ CallOK(call) /\ failed \in BOOLEAN
      /\ (at # "idle" => call.id \in UserIds /\ call.result # "revoked")
  BY DEF IInv, Types, Pending
<1>3. CASE PythonLoginUser
  <2>1. /\ at = "idle" /\ UNCHANGED <<authToken, sudoToken, server, failed>>
        /\ \/ at' = LoginSudo /\ call'.result = "pending"
           \/ at' = "idle" /\ call'.result \in {"ok", "error"}
    <3>1. PICK id \in Users, op \in {"login", "relogin"}, r \in {"ok", "error"} :
            \/ Returned(Call(op, id), r)
            \/ call' = Call(op, id) /\ at' = LoginSudo
      BY <1>3 DEF PythonLoginUser
    <3>2. Returned(Call(op, id), r) => at' = "idle" /\ call'.result = r
      BY DEF Returned, Call
    <3>3. Call(op, id).result = "pending"
      BY DEF Call
    <3>4. QED
      BY <1>3, <3>1, <3>2, <3>3 DEF PythonLoginUser, Idle
  <2>2. at' \in {"idle", "api", "sudo"} /\ (at' = "api" => ~Active(authToken))
    BY <2>1 DEF LoginSudo
  <2>3. QED
    BY <1>1, <1>2, <2>1, <2>2, SlotsStayKept
<1>4. CASE PythonRequest
  <2>1. at = "idle" /\ UNCHANGED <<lang, slots, authToken, sudoToken, server, failed>>
        /\ PythonToken \in {authToken, sudoToken}
    BY <1>4 DEF PythonRequest, Idle, slots, PythonToken
  <2>2. CASE Active(PythonToken)
    BY <1>1, <1>2, <1>4, <2>1, <2>2, RequestKept DEF PythonRequest, SlotsOK
  <2>3. CASE ~Active(PythonToken)
    <3>1. call'.result = "pending" /\ at' = IF sudoId # None THEN LoginSudo ELSE "api"
      BY <1>4, <2>3 DEF PythonRequest, Call
    <3>2. at' \in {"api", "sudo"} /\ (at' = "api" => ~Active(authToken))
      BY <2>3, <3>1 DEF LoginSudo, PythonToken
    <3>3. QED
      BY <1>1, <1>2, <2>1, <3>1, <3>2, SlotsStayKept
  <2>4. QED
    BY <2>2, <2>3
<1>5. CASE PythonLogout
  BY <1>5, PythonLogoutKept
<1>6. CASE at \in {"api", "sudo"} /\ PythonRaises
  <2>1. at' = "idle" /\ call'.result = "error" /\ failed' = TRUE
        /\ UNCHANGED <<server, authToken, sudoToken>>
    BY <1>2, <1>6, ReturnedCall DEF PythonRaises, Return, Fails
  <2>2. QED
    BY <1>1, <1>2, <1>6, <2>1, SlotsStayKept
<1>7. CASE /\ at = "api" /\ Issue(Api) /\ authToken' = NewToken /\ UNCHANGED sudoToken
           /\ GoOn(call, TRUE, authToken')
  <2>1. Grows /\ NewToken \in Tokens' /\ NewToken \notin revoked /\ authToken' \in Slot'
    BY <1>2, <1>7, IssueGrows DEF Slot
  <2>2. ~Active(authToken)
    BY <1>7 DEF Kept, Asking
  <2>3. at' \in {"idle", "sudo"} /\ call'.result # "revoked"
    BY <1>2, <1>7, <2>1, GoOnCall DEF Outcome
  <2>4. QED
    BY <1>1, <1>7, <2>2, <2>3, IssuedKept
<1>8. CASE /\ at = "sudo" /\ Issue(sudoId) /\ sudoToken' = NewToken /\ UNCHANGED authToken
           /\ Authenticated(call, sudoToken')
  <2>1. sudoId \in Users /\ ~Active(sudoToken)
    BY <1>1, <1>8 DEF IInv, Pending, Sudo
  <2>2. Grows /\ NewToken \in Tokens' /\ NewToken \notin revoked /\ sudoToken' \in Slot'
    BY <1>2, <1>8, <2>1, IssueGrows DEF Slot
  <2>3. at' = "idle" /\ call'.result # "revoked"
    BY <1>2, <1>8, <2>2, AuthenticatedCall DEF Outcome
  <2>4. QED
    BY <1>1, <1>8, <2>1, <2>3, IssuedKept
<1>9. CASE PythonDeleteSudo \/ PythonDelete
  <2>1. /\ at \in {"delete", "deleteSudo"} /\ UNCHANGED sudoToken
        /\ Revoke(call.token) \/ RevokeFails(call.token)
    BY <1>9 DEF PythonDeleteSudo, PythonDelete, slots
  <2>2. /\ Tokens' = Tokens /\ expired' = expired /\ ServerOK'
        /\ revoked' \in {revoked, revoked \union {call.token}}
        /\ NoToken \notin revoked'
    BY <1>2, <2>1, LogoutAnswer, NoTokenIsNone DEF Revoke, RevokeFails, Tokens, Grows, ServerOK
  <2>3. authToken \notin revoked' /\ sudoToken \notin revoked'
    BY <1>1, <2>1, <2>2 DEF Kept, Unrevoked, Logouts
  <2>4. ~failed' => /\ ~failed /\ revoked' = revoked \union {call.token}
    BY <1>2, <2>1 DEF Revoke, RevokeFails
  <2>5. ~failed' => \A t \in Tokens : t \in expired \union revoked' \union {authToken, sudoToken}
    BY <1>1, <2>4 DEF Kept, Remembered
  <2>6. CASE Return("ok") \/ Return("error")
    <3>1. at' = "idle" /\ call'.result \in {"ok", "error"}
      BY <1>2, <2>6, ReturnedCall DEF Return
    <3>2. UNCHANGED authToken
      BY <1>9, <2>1, <3>1 DEF PythonDeleteSudo, PythonDelete, slots
    <3>3. QED
      BY <1>1, <2>1, <2>2, <2>3, <2>5, <3>1, <3>2
      DEF Kept, Unrevoked, Remembered, Logouts, Asking, RevokedTokensUnused, Slotted
  <2>7. CASE authToken' = NoToken /\ call' = Presenting(call, authToken) /\ at' = "delete"
    <3>1. call'.token = authToken /\ call'.result # "revoked"
      BY <1>2, <2>1, <2>7 DEF Presenting, CallOK, Calls
    <3>2. authToken = NoToken \/ authToken # sudoToken
      BY <1>2, UsersAssumption DEF SlotsOK
    <3>3. QED
      BY <1>1, <2>1, <2>2, <2>3, <2>5, <2>7, <3>1, <3>2
      DEF Kept, Unrevoked, Remembered, Logouts, Asking, RevokedTokensUnused, Slotted
  <2>8. QED
    BY <1>9, <2>6, <2>7 DEF PythonDeleteSudo, PythonDelete
<1>10. QED
  BY <1>3, <1>4, <1>5, <1>6, <1>7, <1>8, <1>9
  DEF PythonCalls, PythonStep, PythonApiLogin, PythonSudoLogin

LEMMA GoKept ==
  ASSUME IInv, Kept, GoRequest \/ GoLogin PROVE Kept'
<1>1. lang = "go" /\ lang' = lang
  BY DEF GoRequest, GoLogin, Go
<1>2. ServerOK /\ SlotsOK /\ CallOK(call) /\ failed \in BOOLEAN
  BY DEF IInv, Types
<1>3. CASE GoRequest
  <2>1. at = "idle" /\ UNCHANGED <<lang, slots, authToken, sudoToken, server, failed>>
    BY <1>3 DEF GoRequest, Idle, slots
  <2>2. CASE Active(authToken)
    BY <1>1, <1>3, <2>1, <2>2, RequestKept DEF GoRequest, UserIds
  <2>3. CASE ~Active(authToken)
    BY <1>1, <1>2, <1>3, <2>1, <2>3, SlotsStayKept DEF GoRequest, Call
  <2>4. QED
    BY <2>2, <2>3
<1>4. CASE GoLogin
  <2>1. at = "api" /\ sudoToken' = sudoToken /\ ~Active(authToken)
    BY <1>4 DEF GoLogin, Kept, Asking
  <2>2. CASE Fails /\ Return("error") /\ UNCHANGED authToken
    <3>1. at' = "idle" /\ call'.result = "error" /\ failed' = TRUE /\ UNCHANGED server
      BY <1>2, <2>2, ReturnedCall DEF Return, Fails
    <3>2. QED
      BY <1>1, <1>2, <2>1, <2>2, <3>1, SlotsStayKept
  <2>3. CASE Issue(Api) /\ authToken' = NewToken /\ Show(call, authToken')
    <3>1. Grows /\ NewToken \in Tokens' /\ NewToken \notin revoked /\ authToken' \in Slot'
      BY <1>2, <2>3, IssueGrows DEF Slot
    <3>2. at' = "idle" /\ call'.result # "revoked"
      BY <1>2, <2>3, <3>1, ShownCall
    <3>3. QED
      BY <1>1, <2>1, <2>3, <3>2, IssuedKept
  <2>4. QED
    BY <1>4, <2>2, <2>3 DEF GoLogin
<1>5. QED
  BY <1>3, <1>4

----------------------------------------------------------------------------
(* All of them.                                                            *)

LEMMA KeptKept == IInv /\ Kept /\ [Next]_vars => Kept'
<1> SUFFICES ASSUME IInv, Kept, [Next]_vars PROVE Kept'
  OBVIOUS
<1>1. CASE KotlinCalls \/ KotlinStep
  BY <1>1, KotlinKept
<1>2. CASE SwiftCalls \/ SwiftStep
  BY <1>2, SwiftKept
<1>3. CASE CSharpCalls \/ CSharpStep
  BY <1>3, CSharpKept
<1>4. CASE PythonCalls \/ PythonStep
  BY <1>4, PythonKept
<1>5. CASE GoRequest \/ GoLogin
  BY <1>5, GoKept
<1>6. CASE Expire \/ UNCHANGED vars
  <2>1. UNCHANGED <<lang, sudoId, authToken, sudoToken, owner, revoked, call, at, failed, activeToken, Tokens>>
    BY <1>6 DEF Expire, vars, slots, server, activeToken, Tokens
  <2>2. expired \subseteq expired'
    BY <1>6 DEF Expire, vars, server
  <2>3. QED
    BY <2>1, <2>2
    DEF Kept, Unrevoked, Remembered, Logouts, Asking, RevokedTokensUnused, Active
<1>7. QED
  BY <1>1, <1>2, <1>3, <1>4, <1>5, <1>6 DEF Next, Step

\* In every language the session, its call and the server's tokens keep their types.
THEOREM TypeCorrect == Spec => []TypeOK
<1>1. Init => IInv
  BY InvInitially
<1>2. IInv => TypeOK
  <2>1. IInv => Types
    BY DEF IInv
  <2>2. Types => TypeOK
    BY DEF Types, ServerOK, SlotsOK, Slot, UserIds, CallOK, Calls, Places, TypeOK
  <2>3. QED
    BY <2>1, <2>2
<1>3. QED
  BY <1>1, <1>2, InvKept, PTL DEF Spec

\* Apart from C# no session acts for a user it does not know of: the sudo token in
\* use is that of sudoId.
THEOREM SudoTokenIsSudoIdsAlways == Spec => []SudoTokenIsSudoIds
<1>1. IInv => SudoTokenIsSudoIds
  BY DEF IInv, Types, SlotsOK, Sudo, SudoTokenIsSudoIds
<1>2. QED
  BY <1>1, InvInitially, InvKept, PTL DEF Spec

\* A login of the Kotlin or the Python session that succeeded left a session that
\* acts for the user asked for.
THEOREM LoginImpersonatesAlways == Spec => []LoginImpersonates
<1>1. IInv => LoginImpersonates
  BY DEF IInv
<1>2. QED
  BY <1>1, InvInitially, InvKept, PTL DEF Spec

\* Only an expired sudo token is ever presented, or left out, by a request.
THEOREM RequestsAuthenticatedAlways == Spec => []RequestsAuthenticated
<1>1. IInv => RequestsAuthenticated
  BY DEF IInv
<1>2. QED
  BY <1>1, InvInitially, InvKept, PTL DEF Spec

\* The slots of a session agree with the server on which tokens live: no revoked
\* token is presented before a request has failed, by Python and Go never, and but
\* for C# no token that lives is missing from its slot.
THEOREM SlotsMatchServerAlways == Spec => []SlotsMatchServer
<1>1. IInv /\ Kept => SlotsMatchServer
  BY DEF Kept, Remembered, SlotsMatchServer, NoTokenForgotten, Idle
<1>2. Init => IInv /\ Kept
  BY InvInitially, KeptInitially
<1>3. IInv /\ Kept /\ [Next]_vars => IInv' /\ Kept'
  BY InvKept, KeptKept
<1>4. QED
  BY <1>1, <1>2, <1>3, PTL DEF Spec
=============================================================================
