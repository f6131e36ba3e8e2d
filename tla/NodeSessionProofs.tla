------------------------- MODULE NodeSessionProofs -------------------------
(***************************************************************************)
(* Theorems about NodeSession, for any set of users and any number of      *)
(* tokens: what holds of any number of callers, then of one caller.        *)
(***************************************************************************)
EXTENDS NodeSession, TLAPS

(* The frames a caller moves to are frames.                                *)

LEMMA HoldingFrame ==
  ASSUME NEW f \in Frame, NEW pc \in Labels, NEW slot \in {"auth", "sudo"},
         NEW op \in {"none", "login", "authenticate", "logout"}
  PROVE  [f EXCEPT !.pc = pc, !.op = op, !.slot = slot] \in Frame
BY DEF Frame

LEMMA SentFrame ==
  ASSUME NEW f \in Frame, NEW pc \in Labels, NEW k \in {NoToken} \union Tokens
  PROVE  /\ [f EXCEPT !.pc = pc, !.answer = "none", !.got = NoToken] \in Frame
         /\ [f EXCEPT !.pc = pc, !.dying = k, !.answer = "none", !.got = NoToken]
              \in Frame
         /\ [f EXCEPT !.pc = pc, !.cred = k, !.answer = "none", !.got = NoToken]
              \in Frame
<1>1. [f EXCEPT !.pc = pc, !.answer = "none", !.got = NoToken] \in Frame
  BY DEF Frame
<1>2. [f EXCEPT !.pc = pc, !.dying = k, !.answer = "none", !.got = NoToken] \in Frame
  BY DEF Frame
<1>3. [f EXCEPT !.pc = pc, !.cred = k, !.answer = "none", !.got = NoToken] \in Frame
  BY DEF Frame
<1>4. QED
  BY <1>1, <1>2, <1>3

LEMMA ReloginFrame ==
  ASSUME NEW f \in Frame, NEW pc \in Labels, NEW id \in Ids
  PROVE  [f EXCEPT !.pc = pc, !.newId = id, !.relogin = TRUE, !.answer = "none"]
           \in Frame
BY DEF Frame

LEMMA ReturnFrame ==
  ASSUME NEW r \in {"ok", "false", "error"} PROVE Return(r) \in Frame
BY DEF Return, Idle, Frame, Labels, Ids, Tokens

LEMMA BeginFrame ==
  ASSUME NEW op \in {"login", "authenticate", "logout"},
         NEW arg \in Ids \union {NoUser}
  PROVE  /\ Begin(op, arg) \in Frame
         /\ Begin(op, arg).relogin = FALSE
BY DEF Begin, Idle, Frame, Labels, Ids, Tokens

LEMMA HandOverFrame ==
  ASSUME NEW f \in Frame, NEW sudo PROVE HandOver(f, sudo) \in Frame
<1>1. f.op \in {"none", "login", "authenticate", "logout"}
  BY DEF Frame
<1>2. Idle \in Frame
  BY DEF Idle, Frame, Labels, Ids, Tokens
<1>3. Hold(f, sudo) \in Frame
  BY <1>1, <1>2, HoldingFrame DEF Hold, Labels
<1>4. QED
  BY <1>3, ReturnFrame DEF HandOver

LEMMA SendLogoutFrame ==
  ASSUME TypeOK, NEW f \in Frame PROVE SendLogout(f) \in Frame
<1>1. ActiveToken \in {NoToken} \union Tokens
  BY DEF ActiveToken, ActiveTokenOf, TypeOK
<1>2. "logoutSent" \in Labels
  BY DEF Labels
<1>3. QED
  BY <1>1, <1>2, SentFrame DEF SendLogout

LEMMA EnterLoginFrame ==
  ASSUME TypeOK, NEW f \in Frame, NEW id \in Ids PROVE EnterLogin(f, id) \in Frame
<1>1. [f EXCEPT !.outer = id] \in Frame
  BY DEF Frame
<1>2. [f EXCEPT !.pc = "ready", !.newId = id] \in Frame
  BY DEF Frame, Labels
<1>3. QED
  BY <1>1, <1>2, SendLogoutFrame DEF EnterLogin

LEMMA UnnestFrame ==
  ASSUME NEW f \in Frame, NEW pc \in Labels, NEW id \in Ids,
         NEW outer \in Ids \union {Nobody}, NEW k \in {NoToken} \union Tokens
  PROVE  [f EXCEPT !.pc = pc, !.newId = id, !.outer = outer, !.relogin = FALSE,
                   !.answer = "none", !.got = k] \in Frame
BY DEF Frame

LEMMA LeaveLogoutFrame ==
  ASSUME NEW f \in Frame PROVE LeaveLogout(f) \in Frame
<1>1. CASE f.outer # Nobody
  <2>1. f.outer \in Ids
    BY <1>1 DEF Frame
  <2>2. /\ "loggedOut" \in Labels /\ Nobody \in Ids \union {Nobody}
        /\ NoToken \in {NoToken} \union Tokens
    BY DEF Labels
  <2>3. QED
    BY <1>1, <2>1, <2>2, UnnestFrame DEF LeaveLogout
<1>2. CASE f.outer = Nobody
  BY <1>2, ReturnFrame DEF LeaveLogout
<1>3. QED
  BY <1>1, <1>2

LEMMA LeaveLoginFrame ==
  ASSUME NEW f \in Frame, NEW sudo PROVE LeaveLogin(f, sudo) \in Frame
BY LeaveLogoutFrame, HandOverFrame DEF LeaveLogin

LEMMA SendSudoFrame ==
  ASSUME NEW f \in Frame, NEW credential \in {NoToken} \union Tokens
  PROVE  SendSudo(f, credential) \in Frame
<1>1. "sudoSent" \in Labels
  BY DEF Labels
<1>2. QED
  BY <1>1, SentFrame DEF SendSudo

----------------------------------------------------------------------------
(* Type correctness.                                                       *)

\* The server's answer, without and with a token.
LEMMA AnsweredFrame ==
  ASSUME NEW f \in Frame, NEW a \in {"none", "ok", "failed"}
  PROVE  [f EXCEPT !.answer = a] \in Frame
BY DEF Frame

LEMMA GrantedFrame ==
  ASSUME NEW f \in Frame, NEW a \in {"none", "ok", "failed"},
         NEW k \in {NoToken} \union Tokens
  PROVE  [f EXCEPT !.answer = a, !.got = k] \in Frame
BY DEF Frame

LEMMA InitType == Init => TypeOK
BY PartiesAssumption DEF Init, TypeOK, Idle, Frame, Labels, Ids, Tokens

\* Who shares the session does not change.
LEMMA CallersStay == [Next]_vars => callers' = callers
BY DEF Next, Call, Resume, Answer, Expire, vars

LEMMA NextType == TypeOK /\ [Next]_vars => TypeOK'
<1> SUFFICES ASSUME TypeOK, [Next]_vars PROVE TypeOK'
  OBVIOUS
<1>p. callers' = callers /\ callers \subseteq Tasks
  BY CallersStay DEF TypeOK
<1> USE <1>p
<1> USE DEF session
<1>0. ActiveToken \in Tokens \union {NoToken}
  BY DEF TypeOK, ActiveToken, ActiveTokenOf
<1>1. ASSUME NEW t \in Tasks, NEW id \in Ids \union {NoUser}, Login(t, id)
      PROVE TypeOK'
  <2> DEFINE f == Begin("login", id)
             n == IF id = NoUser THEN Undefined ELSE id
  <2>1. f \in Frame /\ n \in Ids
    BY BeginFrame DEF Ids
  <2>2. HandOver(f, sudoTok) \in Frame /\ EnterLogin(f, n) \in Frame
    BY <2>1, HandOverFrame, EnterLoginFrame
  <2> HIDE DEF f, n
  <2>3. task' \in [Tasks -> Frame]
    BY <1>1, <2>2 DEF Login, TypeOK, f, n
  <2>4. QED
    BY <1>1, <2>3 DEF Login, TypeOK
<1>2. ASSUME NEW t \in Tasks, Authenticate(t) PROVE TypeOK'
  <2> DEFINE f == Begin("authenticate", Undefined)
  <2>1. f \in Frame /\ Undefined \in Ids
    BY BeginFrame DEF Ids
  <2>2. HandOver(f, sudoTok) \in Frame /\ EnterLogin(f, Undefined) \in Frame
    BY <2>1, HandOverFrame, EnterLoginFrame
  <2> HIDE DEF f
  <2>3. task' \in [Tasks -> Frame]
    BY <1>2, <2>2 DEF Authenticate, TypeOK, f
  <2>4. QED
    BY <1>2, <2>3 DEF Authenticate, TypeOK
<1>3. ASSUME NEW t \in Tasks, Logout(t) PROVE TypeOK'
  <2> DEFINE f == Begin("logout", Undefined)
  <2>1. f \in Frame
    BY BeginFrame DEF Ids
  <2>2. SendLogout(f) \in Frame /\ Return("false") \in Frame
    BY <2>1, SendLogoutFrame, ReturnFrame
  <2> HIDE DEF f
  <2>3. task' \in [Tasks -> Frame]
    BY <1>3, <2>2 DEF Logout, TypeOK, f
  <2>4. QED
    BY <1>3, <2>3 DEF Logout, TypeOK
<1>4. ASSUME NEW t \in Tasks, AttachHeader(t) PROVE TypeOK'
  BY <1>4, ReturnFrame DEF AttachHeader, TypeOK
<1>5. ASSUME NEW t \in Tasks, SudoLoggedOut(t) PROVE TypeOK'
  <2>1. [task[t] EXCEPT !.pc = "ready"] \in Frame
    BY DEF TypeOK, Frame, Labels
  <2>2. QED
    BY <1>5, <2>1 DEF SudoLoggedOut, TypeOK
<1>6. ASSUME NEW t \in Tasks, LoginWithApiToken(t) PROVE TypeOK'
  <2>1. SendSudo(task[t], ActiveToken) \in Frame /\ LeaveLogin(task[t], sudoTok) \in Frame
    BY <1>0, SendSudoFrame, LeaveLoginFrame DEF TypeOK
  <2>2. task[t].newId \in Ids
    BY DEF TypeOK, Frame
  <2>3. sudoId' \in Users \union {NoUser}
    BY <1>6, <2>2 DEF LoginWithApiToken, Ids
  <2>4. QED
    BY <1>6, <2>1, <2>3 DEF LoginWithApiToken, TypeOK
<1>7. ASSUME NEW t \in Tasks, LoginFresh(t) PROVE TypeOK'
  <2>1. [task[t] EXCEPT !.pc = "apiSent", !.answer = "none", !.got = NoToken] \in Frame
    BY SentFrame DEF TypeOK, Labels
  <2>2. task' \in [Tasks -> Frame]
    BY <1>7, <2>1, ReturnFrame DEF LoginFresh, TypeOK
  <2>3. QED
    BY <1>7, <2>2 DEF LoginFresh, TypeOK
<1>8. ASSUME NEW t \in Tasks, ApiLoggedIn(t) PROVE TypeOK'
  <2>1. task[t] \in Frame /\ authTok' \in Tokens \union {NoToken}
    BY <1>8 DEF ApiLoggedIn, TypeOK, Frame
  <2>2. /\ SendSudo(task[t], ActiveTokenOf(authTok', sudoTok)) \in Frame
        /\ LeaveLogin(task[t], sudoTok) \in Frame
    BY <2>1, SendSudoFrame, LeaveLoginFrame DEF ActiveTokenOf, TypeOK
  <2>3. QED
    BY <1>8, <2>1, <2>2 DEF ApiLoggedIn, TypeOK
<1>9. ASSUME NEW t \in Tasks, SudoLoggedIn(t) PROVE TypeOK'
  <2>1. task[t] \in Frame /\ sudoTok' \in Tokens \union {NoToken}
    BY <1>9 DEF SudoLoggedIn, TypeOK, Frame
  <2>2. LeaveLogin(task[t], sudoTok') \in Frame
    BY <2>1, LeaveLoginFrame
  <2>3. QED
    BY <1>9, <2>1, <2>2 DEF SudoLoggedIn, TypeOK
<1>10. ASSUME NEW t \in Tasks, LoggedOut(t) PROVE TypeOK'
  <2>1. /\ LeaveLogout(task[t]) \in Frame
        /\ [task[t] EXCEPT !.pc = "ready", !.newId = Undefined,
                           !.relogin = TRUE, !.answer = "none"] \in Frame
    <3>1. task[t] \in Frame
      BY DEF TypeOK
    <3>2. "ready" \in Labels /\ Undefined \in Ids
      BY DEF Labels, Ids
    <3>3. QED
      BY <3>1, <3>2, LeaveLogoutFrame, ReloginFrame
  <2>2. task' \in [Tasks -> Frame]
    BY <1>10, <2>1 DEF LoggedOut, TypeOK
  <2>3. QED
    BY <1>10, <2>2 DEF LoggedOut, TypeOK
<1>11. ASSUME NEW t \in Tasks, RequestFailed(t) PROVE TypeOK'
  <2>1. Return("error") \in Frame
    BY ReturnFrame
  <2>2. task' \in [Tasks -> Frame]
    BY <1>11, <2>1 DEF RequestFailed, TypeOK
  <2>3. QED
    BY <1>11, <2>2 DEF RequestFailed, TypeOK
<1>12. ASSUME NEW t \in Tasks, Refuse(t), revoked' \in SUBSET Tokens PROVE TypeOK'
  <2>1. [task[t] EXCEPT !.answer = "failed"] \in Frame
    <3>1. task[t] \in Frame
      BY DEF TypeOK
    <3>2. QED
      BY <3>1, AnsweredFrame
  <2>2. QED
    BY <1>12, <2>1 DEF Refuse, TypeOK
<1>13. ASSUME NEW t \in Tasks, NEW user \in Users \union {ApiUser}, Grant(t, user)
       PROVE TypeOK'
  <2>1. PICK k \in Tokens :
          /\ owner' = [owner EXCEPT ![k] = user]
          /\ task' = [task EXCEPT ![t].answer = "ok", ![t].got = k]
    BY <1>13 DEF Grant
  <2>2. [task[t] EXCEPT !.answer = "ok", !.got = k] \in Frame
    <3>1. task[t] \in Frame
      BY DEF TypeOK
    <3>2. k \in {NoToken} \union Tokens
      OBVIOUS
    <3>3. QED
      BY <3>1, <3>2, GrantedFrame
  <2>3. task' \in [Tasks -> Frame]
    BY <2>1, <2>2 DEF TypeOK
  <2>4. owner' \in [Tokens -> Users \union {ApiUser, Nobody}]
    BY <2>1 DEF TypeOK
  <2>5. QED
    BY <1>13, <2>3, <2>4 DEF Grant, TypeOK
<1>14. ASSUME NEW t \in Tasks, AnswerApiLogin(t) PROVE TypeOK'
  BY <1>12, <1>13, <1>14 DEF AnswerApiLogin, TypeOK
<1>15. ASSUME NEW t \in Tasks, AnswerSudoLogin(t) PROVE TypeOK'
  BY <1>12, <1>13, <1>15 DEF AnswerSudoLogin, TypeOK
<1>16. ASSUME NEW t \in Tasks, AnswerLogout(t) PROVE TypeOK'
  <2>1. revoked' \in SUBSET Tokens
    BY <1>16 DEF AnswerLogout, Honoured, TypeOK
  <2>2. [task[t] EXCEPT !.answer = "ok"] \in Frame
    <3>1. task[t] \in Frame
      BY DEF TypeOK
    <3>2. QED
      BY <3>1, AnsweredFrame
  <2>3. CASE task' = [task EXCEPT ![t].answer = "ok"] /\ UNCHANGED <<session, expired, owner>>
    BY <2>1, <2>2, <2>3 DEF TypeOK
  <2>4. QED
    BY <1>12, <1>16, <2>1, <2>3 DEF AnswerLogout
<1>17. ASSUME Expire PROVE TypeOK'
  BY <1>17 DEF Expire, TypeOK
<1>18. ASSUME UNCHANGED vars PROVE TypeOK'
  BY <1>18 DEF vars, TypeOK
<1>19. QED
  BY <1>1, <1>2, <1>3, <1>4, <1>5, <1>6, <1>7, <1>8, <1>9, <1>10, <1>11,
     <1>14, <1>15, <1>16, <1>17, <1>18 DEF Next, Call, Resume, Answer

\* Every variable keeps its type, whatever the callers and the server do.
THEOREM TypeCorrect == Spec => []TypeOK
BY InitType, NextType, PTL DEF Spec

----------------------------------------------------------------------------
(* Any number of callers: whose tokens the two slots hold.                 *)

\* An answered login carries a token of the user it asked for. SlotOwners alone
\* is not inductive: the slots are filled from the answers.
AnswerOwned(f) ==
  f.answer = "ok" =>
    /\ f.pc = "apiSent" => f.got \in Tokens /\ owner[f.got] = ApiUser
    /\ f.pc = "sudoSent" => /\ f.got \in Tokens
                            /\ f.newId \in Users
                            /\ owner[f.got] = f.newId

OwnerInv == TypeOK /\ SlotOwners /\ \A t \in Tasks : AnswerOwned(task[t])

\* A frame that carries no granted token.
Quiet(f) == ~(f.answer = "ok" /\ f.pc \in {"apiSent", "sudoSent"})

LEMMA ReturnMove ==
  ASSUME NEW r
  PROVE  Quiet(Return(r)) /\ Return(r).pc = "idle" /\ Return(r).relogin = FALSE
BY DEF Quiet, Return, Idle

LEMMA HandOverMove ==
  ASSUME NEW f \in Frame, NEW sudo
  PROVE  /\ Quiet(HandOver(f, sudo))
         /\ HandOver(f, sudo).pc \in {"idle", "holding"}
         /\ f.op # "authenticate" => HandOver(f, sudo).pc = "idle"
         /\ HandOver(f, sudo).relogin = FALSE
         /\ HandOver(f, sudo).pc = "holding" =>
              HandOver(f, sudo).slot = IF sudo # NoToken THEN "sudo" ELSE "auth"
<1>1. /\ Hold(f, sudo).pc = "holding" /\ Hold(f, sudo).relogin = FALSE
      /\ Hold(f, sudo).slot = IF sudo # NoToken THEN "sudo" ELSE "auth"
  BY DEF Hold, Idle
<1>2. QED
  BY <1>1, ReturnMove DEF HandOver, Quiet

LEMMA SendLogoutMove ==
  ASSUME NEW f \in Frame
  PROVE  /\ Quiet(SendLogout(f)) /\ SendLogout(f).pc = "logoutSent"
         /\ SendLogout(f).relogin = f.relogin
BY DEF Quiet, SendLogout, Frame

LEMMA EnterLoginMove ==
  ASSUME NEW f \in Frame, NEW id \in Ids
  PROVE  /\ Quiet(EnterLogin(f, id))
         /\ EnterLogin(f, id).pc \in {"logoutSent", "ready"}
         /\ EnterLogin(f, id).pc = "ready" => ~IsSudo
         /\ EnterLogin(f, id).relogin = f.relogin
BY DEF Quiet, EnterLogin, SendLogout, Frame

LEMMA LeaveLogoutMove ==
  ASSUME NEW f \in Frame
  PROVE  /\ Quiet(LeaveLogout(f))
         /\ LeaveLogout(f).pc \in {"loggedOut", "idle"}
         /\ LeaveLogout(f).relogin = FALSE
<1>1. CASE f.outer # Nobody
  BY <1>1 DEF Quiet, LeaveLogout, Frame
<1>2. CASE f.outer = Nobody
  BY <1>2, ReturnMove DEF LeaveLogout
<1>3. QED
  BY <1>1, <1>2

LEMMA LeaveLoginMove ==
  ASSUME NEW f \in Frame, NEW sudo
  PROVE  /\ Quiet(LeaveLogin(f, sudo))
         /\ LeaveLogin(f, sudo).pc \in {"loggedOut", "idle", "holding"}
         /\ LeaveLogin(f, sudo).pc = "loggedOut" => f.relogin = TRUE
         /\ LeaveLogin(f, sudo).relogin = FALSE
         /\ LeaveLogin(f, sudo).pc = "holding" =>
              LeaveLogin(f, sudo).slot = IF sudo # NoToken THEN "sudo" ELSE "auth"
BY HandOverMove, LeaveLogoutMove DEF LeaveLogin

LEMMA SendSudoMove ==
  ASSUME NEW f \in Frame, NEW k
  PROVE  /\ Quiet(SendSudo(f, k)) /\ SendSudo(f, k).pc = "sudoSent"
         /\ SendSudo(f, k).newId = f.newId /\ SendSudo(f, k).relogin = f.relogin
BY DEF Quiet, SendSudo, Frame

\* Moving one caller to a quiet frame leaves the other answers as they were.
LEMMA QuietStep ==
  ASSUME OwnerInv, TypeOK', SlotOwners', owner' = owner, NEW t \in Tasks,
         task' = [task EXCEPT ![t] = task'[t]], Quiet(task'[t])
  PROVE  OwnerInv'
<1>1. ASSUME NEW s \in Tasks PROVE AnswerOwned(task[s])'
  <2>1. CASE s = t
    BY <2>1 DEF Quiet, AnswerOwned
  <2>2. CASE s # t
    <3>1. task'[s] = task[s]
      BY <2>2 DEF OwnerInv, TypeOK
    <3>2. QED
      BY <3>1 DEF OwnerInv, AnswerOwned
  <2>3. QED
    BY <2>1, <2>2
<1>2. QED
  BY <1>1 DEF OwnerInv

LEMMA InitOwner == Init => OwnerInv
BY InitType DEF Init, OwnerInv, SlotOwners, AnswerOwned, Idle

LEMMA NextOwner == OwnerInv /\ [Next]_vars => OwnerInv'
<1> SUFFICES ASSUME OwnerInv, [Next]_vars PROVE OwnerInv'
  OBVIOUS
<1>p. callers \subseteq Tasks
  BY DEF OwnerInv, TypeOK
<1> USE <1>p
<1> USE DEF session
<1>0. TypeOK /\ TypeOK'
  BY NextType DEF OwnerInv
<1>a. ASSUME NEW t \in Tasks PROVE task[t] \in Frame
  BY <1>0 DEF TypeOK
<1>1. ASSUME NEW t \in Tasks, NEW id \in Ids \union {NoUser}, Login(t, id)
      PROVE OwnerInv'
  <2>1. Begin("login", id) \in Frame
    BY BeginFrame
  <2>2. Quiet(task'[t]) /\ task' = [task EXCEPT ![t] = task'[t]]
    BY <1>0, <1>1, <2>1, HandOverMove, EnterLoginMove DEF Login, TypeOK, Ids
  <2>3. SlotOwners'
    BY <1>1 DEF Login, OwnerInv, SlotOwners
  <2>4. QED
    BY <1>0, <1>1, <2>2, <2>3, QuietStep DEF Login
<1>2. ASSUME NEW t \in Tasks, Authenticate(t) PROVE OwnerInv'
  <2>1. Begin("authenticate", Undefined) \in Frame
    BY BeginFrame DEF Ids
  <2>2. Quiet(task'[t]) /\ task' = [task EXCEPT ![t] = task'[t]]
    BY <1>0, <1>2, <2>1, HandOverMove, EnterLoginMove DEF Authenticate, TypeOK, Ids
  <2>3. SlotOwners'
    BY <1>2 DEF Authenticate, OwnerInv, SlotOwners
  <2>4. QED
    BY <1>0, <1>2, <2>2, <2>3, QuietStep DEF Authenticate
<1>3. ASSUME NEW t \in Tasks, Logout(t) PROVE OwnerInv'
  <2>1. Begin("logout", Undefined) \in Frame
    BY BeginFrame DEF Ids
  <2>2. Quiet(task'[t]) /\ task' = [task EXCEPT ![t] = task'[t]]
    BY <1>0, <1>3, <2>1, SendLogoutMove, ReturnMove DEF Logout, TypeOK
  <2>3. SlotOwners'
    BY <1>3 DEF Logout, OwnerInv, SlotOwners
  <2>4. QED
    BY <1>0, <1>3, <2>2, <2>3, QuietStep DEF Logout
<1>4. ASSUME NEW t \in Tasks, AttachHeader(t) \/ RequestFailed(t) PROVE OwnerInv'
  <2>1. Quiet(task'[t]) /\ task' = [task EXCEPT ![t] = task'[t]]
    BY <1>0, <1>a, <1>4, ReturnMove DEF AttachHeader, RequestFailed, TypeOK
  <2>2. SlotOwners' /\ owner' = owner
    BY <1>4 DEF AttachHeader, RequestFailed, OwnerInv, SlotOwners
  <2>3. QED
    BY <1>0, <2>1, <2>2, QuietStep
<1>5. ASSUME NEW t \in Tasks, SudoLoggedOut(t) PROVE OwnerInv'
  <2>1. Quiet(task'[t]) /\ task' = [task EXCEPT ![t] = task'[t]]
    BY <1>0, <1>a, <1>5 DEF SudoLoggedOut, TypeOK, Quiet, Frame
  <2>2. SlotOwners' /\ owner' = owner
    BY <1>5 DEF SudoLoggedOut, OwnerInv, SlotOwners
  <2>3. QED
    BY <1>0, <2>1, <2>2, QuietStep
<1>6. ASSUME NEW t \in Tasks, LoginWithApiToken(t) PROVE OwnerInv'
  <2>1. Quiet(task'[t]) /\ task' = [task EXCEPT ![t] = task'[t]]
    <3>1. /\ Quiet(LeaveLogin(task[t], sudoTok))
          /\ Quiet(SendSudo(task[t], ActiveToken))
      BY <1>a, LeaveLoginMove, SendSudoMove
    <3>2. QED
      BY <1>0, <1>6, <3>1 DEF LoginWithApiToken, TypeOK
  <2>2. SlotOwners' /\ owner' = owner
    BY <1>6 DEF LoginWithApiToken, OwnerInv, SlotOwners
  <2>3. QED
    BY <1>0, <2>1, <2>2, QuietStep
<1>7. ASSUME NEW t \in Tasks, LoginFresh(t) PROVE OwnerInv'
  <2>1. Quiet([task[t] EXCEPT !.pc = "apiSent", !.answer = "none", !.got = NoToken])
    BY <1>a DEF Quiet, Frame
  <2>2. Quiet(task'[t]) /\ task' = [task EXCEPT ![t] = task'[t]]
    <3>1. Quiet(Return("error"))
      BY ReturnMove
    <3>2. \/ task' = [task EXCEPT ![t] = [task[t] EXCEPT !.pc = "apiSent",
                                          !.answer = "none", !.got = NoToken]]
          \/ task' = [task EXCEPT ![t] = Return("error")]
      BY <1>7 DEF LoginFresh
    <3>3. QED
      BY <1>0, <2>1, <3>1, <3>2 DEF TypeOK
  <2>3. SlotOwners' /\ owner' = owner
    BY <1>7 DEF LoginFresh, SlotOwners
  <2>4. QED
    BY <1>0, <2>2, <2>3, QuietStep
<1>8. ASSUME NEW t \in Tasks, ApiLoggedIn(t) PROVE OwnerInv'
  <2>1. Quiet(task'[t]) /\ task' = [task EXCEPT ![t] = task'[t]]
    <3>1. \/ task'[t] = SendSudo(task[t], ActiveTokenOf(authTok', sudoTok))
          \/ task'[t] = LeaveLogin(task[t], sudoTok)
      BY <1>0, <1>8 DEF ApiLoggedIn, TypeOK
    <3>2. task' = [task EXCEPT ![t] = task'[t]]
      BY <1>0, <1>8 DEF ApiLoggedIn, TypeOK
    <3>3. /\ Quiet(SendSudo(task[t], ActiveTokenOf(authTok', sudoTok)))
          /\ Quiet(LeaveLogin(task[t], sudoTok))
      BY <1>a, LeaveLoginMove, SendSudoMove
    <3>4. QED
      BY <3>1, <3>2, <3>3, Zenon
  <2>2. SlotOwners' /\ owner' = owner
    BY <1>8 DEF ApiLoggedIn, OwnerInv, SlotOwners, AnswerOwned
  <2>3. QED
    BY <1>0, <2>1, <2>2, QuietStep
<1>9. ASSUME NEW t \in Tasks, SudoLoggedIn(t) PROVE OwnerInv'
  <2>1. Quiet(task'[t]) /\ task' = [task EXCEPT ![t] = task'[t]]
    BY <1>0, <1>a, <1>9, LeaveLoginMove DEF SudoLoggedIn, TypeOK
  <2>2. SlotOwners' /\ owner' = owner
    BY <1>9 DEF SudoLoggedIn, OwnerInv, SlotOwners, AnswerOwned
  <2>3. QED
    BY <1>0, <2>1, <2>2, QuietStep
<1>10. ASSUME NEW t \in Tasks, LoggedOut(t) PROVE OwnerInv'
  <2>1. Quiet([task[t] EXCEPT !.pc = "ready", !.newId = Undefined,
                              !.relogin = TRUE, !.answer = "none"])
    BY <1>a DEF Quiet, Frame
  <2>2. Quiet(task'[t]) /\ task' = [task EXCEPT ![t] = task'[t]]
    BY <1>0, <1>a, <1>10, <2>1, LeaveLogoutMove DEF LoggedOut, TypeOK
  <2>3. SlotOwners' /\ owner' = owner
    BY <1>10 DEF LoggedOut, OwnerInv, SlotOwners
  <2>4. QED
    BY <1>0, <2>2, <2>3, QuietStep
<1>11. ASSUME NEW t \in Tasks, Refuse(t) PROVE OwnerInv'
  <2>1. Quiet(task'[t]) /\ task' = [task EXCEPT ![t] = task'[t]]
    BY <1>0, <1>a, <1>11 DEF Refuse, TypeOK, Quiet, Frame
  <2>2. SlotOwners' /\ owner' = owner
    BY <1>11 DEF Refuse, OwnerInv, SlotOwners
  <2>3. QED
    BY <1>0, <2>1, <2>2, QuietStep
<1>12. ASSUME NEW t \in Tasks, NEW user \in Users \union {ApiUser}, Grant(t, user),
              \/ task[t].pc = "apiSent" /\ user = ApiUser
              \/ task[t].pc = "sudoSent" /\ user \in Users /\ user = task[t].newId
       PROVE OwnerInv'
  <2>1. PICK k \in Tokens : /\ owner[k] = Nobody
                            /\ owner' = [owner EXCEPT ![k] = user]
                            /\ task' = [task EXCEPT ![t].answer = "ok", ![t].got = k]
    BY <1>12 DEF Grant, Issued
  <2>2. SlotOwners'
    BY <1>0, <1>12, <2>1, UsersAssumption
      DEF Grant, OwnerInv, SlotOwners, TypeOK, Nobody, NoToken, Tokens
  <2>3. ASSUME NEW s \in Tasks PROVE AnswerOwned(task[s])'
    <3>1. CASE s = t
      <4>1. task'[s] = [task[t] EXCEPT !.answer = "ok", !.got = k]
        BY <1>0, <2>1, <3>1 DEF TypeOK
      <4>2. /\ task'[s].got = k /\ task'[s].pc = task[t].pc
            /\ task'[s].newId = task[t].newId
        BY <1>a, <4>1 DEF Frame
      <4>3. owner'[k] = user
        BY <1>0, <2>1 DEF TypeOK
      <4>4. QED
        BY <1>12, <4>2, <4>3 DEF AnswerOwned
    <3>2. CASE s # t
      <4>1. task'[s] = task[s]
        BY <1>0, <2>1, <3>2 DEF TypeOK
      <4>2. AnswerOwned(task[s])
        BY DEF OwnerInv
      <4>3. ASSUME NEW j \in Tokens, owner[j] \in Users \union {ApiUser}
            PROVE owner'[j] = owner[j]
        BY <1>0, <2>1, <4>3, UsersAssumption DEF TypeOK, Nobody
      <4>4. QED
        BY <4>1, <4>2, <4>3 DEF AnswerOwned
    <3>3. QED
      BY <3>1, <3>2
  <2>4. QED
    BY <1>0, <2>2, <2>3 DEF OwnerInv
<1>13. ASSUME NEW t \in Tasks, AnswerApiLogin(t) PROVE OwnerInv'
  BY <1>11, <1>12, <1>13 DEF AnswerApiLogin
<1>14. ASSUME NEW t \in Tasks, AnswerSudoLogin(t) PROVE OwnerInv'
  BY <1>11, <1>12, <1>14 DEF AnswerSudoLogin
<1>15. ASSUME NEW t \in Tasks, AnswerLogout(t) PROVE OwnerInv'
  <2>1. CASE task' = [task EXCEPT ![t].answer = "ok"] /\ UNCHANGED <<session, expired, owner>>
    <3>1. Quiet(task'[t]) /\ task' = [task EXCEPT ![t] = task'[t]]
      BY <1>0, <1>a, <1>15, <2>1 DEF AnswerLogout, TypeOK, Quiet, Frame
    <3>2. SlotOwners'
      BY <2>1 DEF OwnerInv, SlotOwners
    <3>3. QED
      BY <1>0, <2>1, <3>1, <3>2, QuietStep
  <2>2. QED
    BY <1>11, <1>15, <2>1 DEF AnswerLogout
<1>16. ASSUME Expire \/ UNCHANGED vars PROVE OwnerInv'
  BY <1>0, <1>16 DEF Expire, vars, OwnerInv, SlotOwners, AnswerOwned
<1>17. QED
  BY <1>1, <1>2, <1>3, <1>4, <1>5, <1>6, <1>7, <1>8, <1>9, <1>10,
     <1>13, <1>14, <1>15, <1>16 DEF Next, Call, Resume, Answer

\* However the awaits of any number of callers interleave, the API slot holds only
\* tokens of the API user and the sudo slot only tokens of impersonated users.
THEOREM SlotOwnersHold == Spec => []SlotOwners
<1>1. OwnerInv => SlotOwners
  BY DEF OwnerInv
<1>2. QED
  BY InitOwner, NextOwner, <1>1, PTL DEF Spec

----------------------------------------------------------------------------
(* One caller at a time: whom the session acts as.                         *)

\* What the frame of the only caller says of the session.
SoloAt(f) ==
  /\ f.pc \in {"ready", "loggedOut"} => ~IsActive(sudoTok)
  /\ f.pc = "apiSent" => sudoId = NoUser /\ sudoTok = NoToken
  /\ f.pc = "sudoSent" => /\ f.newId = sudoId
                          /\ sudoId # NoUser
                          /\ ~IsActive(sudoTok)
  /\ f.pc = "holding" => (IF f.slot = "sudo" THEN sudoTok ELSE authTok) # NoToken
  /\ f.relogin => f.newId = Undefined

Solo ==
  /\ OwnerInv
  /\ IdentityAgrees
  /\ \A t \in callers : SoloAt(task[t])

LEMMA AloneStays == [Next]_vars => (OneCaller' <=> OneCaller)
BY CallersStay DEF OneCaller

LEMMA InitSolo == Init => Solo
<1>1. ASSUME Init, NEW t \in callers PROVE SoloAt(task[t])
  BY <1>1, PartiesAssumption DEF Init, SoloAt, Idle
<1>2. Init => IdentityAgrees
  BY DEF Init, IdentityAgrees, IsActive
<1>3. QED
  BY <1>1, <1>2, InitOwner DEF Solo

LEMMA NextSolo == OneCaller /\ Solo /\ [Next]_vars => Solo'
<1> SUFFICES ASSUME OneCaller, Solo, [Next]_vars PROVE Solo'
  OBVIOUS
<1>p. callers' = callers /\ callers \subseteq Tasks
  BY CallersStay DEF Solo, OwnerInv, TypeOK
<1> USE <1>p
<1> USE DEF session
<1>0. TypeOK /\ TypeOK' /\ OwnerInv /\ OwnerInv'
  BY NextOwner DEF OwnerInv, Solo
<1>a. ASSUME NEW t \in callers
      PROVE  task[t] \in Frame /\ SoloAt(task[t]) /\ task[t].newId \in Ids
  BY <1>0 DEF TypeOK, Solo, Frame
<1>b. ASSUME NEW t \in callers, IdentityAgrees', SoloAt(task[t])' PROVE Solo'
  BY <1>0, <1>b DEF OneCaller, Solo
<1>c. ASSUME NEW t \in callers, NEW g, task' = [task EXCEPT ![t] = g]
      PROVE  task'[t] = g
  BY <1>0, <1>c DEF TypeOK
<1>e. ASSUME NEW t \in callers, NEW sudo, task'[t] = LeaveLogin(task[t], sudo)
      PROVE  /\ task'[t].pc \in {"loggedOut", "idle", "holding"}
             /\ task'[t].pc = "loggedOut" => task[t].relogin = TRUE
             /\ task'[t].relogin = FALSE
             /\ task'[t].pc = "holding" =>
                  task'[t].slot = IF sudo # NoToken THEN "sudo" ELSE "auth"
  <2> DEFINE g == LeaveLogin(task[t], sudo)
  <2>1. /\ g.pc \in {"loggedOut", "idle", "holding"}
        /\ g.pc = "loggedOut" => task[t].relogin = TRUE
        /\ g.relogin = FALSE
        /\ g.pc = "holding" => g.slot = IF sudo # NoToken THEN "sudo" ELSE "auth"
    BY <1>a, LeaveLoginMove
  <2> HIDE DEF g
  <2>2. task'[t] = g
    BY <1>e DEF g
  <2>3. QED
    BY <2>1, <2>2
<1>d. ASSUME sudoTok = NoToken PROVE ~IsActive(sudoTok)
  BY <1>d DEF IsActive
<1>1. ASSUME NEW t \in callers, NEW id \in Ids \union {NoUser}, Login(t, id) PROVE Solo'
  <2> DEFINE f == Begin("login", id)
             n == IF id = NoUser THEN Undefined ELSE id
  <2>1. f \in Frame /\ ~f.relogin /\ n \in Ids /\ f.op = "login"
    BY BeginFrame DEF Ids, Begin, Idle
  <2> HIDE DEF f, n
  <2>2. task'[t] = HandOver(f, sudoTok) \/ task'[t] = EnterLogin(f, n)
    BY <1>0, <1>1 DEF Login, TypeOK, f, n
  <2>3. SoloAt(task[t])' /\ IdentityAgrees'
    <3>1. UNCHANGED <<session, expired, owner>>
      BY <1>1 DEF Login
    <3>2. IdentityAgrees /\ IdentityAgrees'
      BY <3>1 DEF Solo, IdentityAgrees, IsActive
    <3>3. HandOver(f, sudoTok).pc = "idle"
      BY <2>1, HandOverMove
    <3>4. CASE task'[t] = HandOver(f, sudoTok)
      BY <2>1, <3>2, <3>3, <3>4, HandOverMove DEF SoloAt
    <3>5. CASE task'[t] = EnterLogin(f, n)
      <4>1. task'[t].pc = "ready" => ~IsActive(sudoTok)'
        BY <2>1, <3>1, <3>2, <3>5, EnterLoginMove DEF IsSudo, IdentityAgrees, IsActive
      <4>2. task'[t].pc \in {"logoutSent", "ready"} /\ ~task'[t].relogin
        BY <2>1, <3>5, EnterLoginMove
      <4>3. QED
        BY <3>2, <4>1, <4>2 DEF SoloAt
    <3>6. QED
      BY <2>2, <3>4, <3>5
  <2>4. QED
    BY <1>b, <2>3
<1>2. ASSUME NEW t \in callers, Authenticate(t) PROVE Solo'
  <2> DEFINE f == Begin("authenticate", Undefined)
  <2>1. f \in Frame /\ ~f.relogin /\ Undefined \in Ids
    BY BeginFrame DEF Ids
  <2> HIDE DEF f
  <2>2. \/ IsAuthenticated /\ task'[t] = HandOver(f, sudoTok)
        \/ task'[t] = EnterLogin(f, Undefined)
    BY <1>0, <1>2 DEF Authenticate, TypeOK, f
  <2>3. SoloAt(task[t])' /\ IdentityAgrees'
    <3>1. UNCHANGED <<session, expired, owner>>
      BY <1>2 DEF Authenticate
    <3>2. IdentityAgrees /\ IdentityAgrees'
      BY <3>1 DEF Solo, IdentityAgrees, IsActive
    <3>3. CASE IsAuthenticated /\ task'[t] = HandOver(f, sudoTok)
      <4>1. task'[t].pc \in {"idle", "holding"} /\ ~task'[t].relogin
        BY <2>1, <3>3, HandOverMove
      <4>2. task'[t].pc = "holding"
              => task'[t].slot = IF sudoTok # NoToken THEN "sudo" ELSE "auth"
        BY <2>1, <3>3, HandOverMove
      <4>3. ActiveToken # NoToken
        BY <3>3 DEF IsAuthenticated, IsActive
      <4>4. QED
        BY <3>1, <3>2, <4>1, <4>2, <4>3 DEF SoloAt, ActiveToken, ActiveTokenOf
    <3>4. CASE task'[t] = EnterLogin(f, Undefined)
      <4>1. task'[t].pc = "ready" => ~IsActive(sudoTok)'
        BY <2>1, <3>1, <3>2, <3>4, EnterLoginMove DEF IsSudo, IdentityAgrees, IsActive
      <4>2. task'[t].pc \in {"logoutSent", "ready"} /\ ~task'[t].relogin
        BY <2>1, <3>4, EnterLoginMove
      <4>3. QED
        BY <3>2, <4>1, <4>2 DEF SoloAt
    <3>5. QED
      BY <2>2, <3>3, <3>4
  <2>4. QED
    BY <1>b, <2>3
<1>3. ASSUME NEW t \in callers, Logout(t) PROVE Solo'
  <2> DEFINE f == Begin("logout", Undefined)
  <2>1. f \in Frame /\ ~f.relogin
    BY BeginFrame DEF Ids
  <2> HIDE DEF f
  <2>2. task'[t] = SendLogout(f) \/ task'[t] = Return("false")
    BY <1>0, <1>3 DEF Logout, TypeOK, f
  <2>3. task'[t].pc \in {"logoutSent", "idle"} /\ ~task'[t].relogin
    BY <2>1, <2>2, SendLogoutMove, ReturnMove
  <2>4. IdentityAgrees'
    BY <1>3 DEF Logout, Solo, IdentityAgrees, IsActive
  <2>5. QED
    BY <1>b, <2>3, <2>4 DEF SoloAt
<1>4. ASSUME NEW t \in callers, AttachHeader(t) \/ RequestFailed(t) PROVE Solo'
<2>2. task'[t].pc = "idle" /\ ~task'[t].relogin
    BY <1>0, <1>4, ReturnMove DEF AttachHeader, RequestFailed, TypeOK
  <2>3. IdentityAgrees'
    BY <1>4 DEF AttachHeader, RequestFailed, Solo, IdentityAgrees, IsActive
  <2>4. QED
    BY <1>b, <2>2, <2>3 DEF SoloAt
<1>5. ASSUME NEW t \in callers, SudoLoggedOut(t) PROVE Solo'
  <2>1. /\ task'[t].pc = "ready" /\ task'[t].relogin = task[t].relogin
        /\ task'[t].newId = task[t].newId
    BY <1>0, <1>a, <1>5 DEF SudoLoggedOut, TypeOK, Frame
  <2>2. ~IsActive(sudoTok)'
    BY <1>5 DEF SudoLoggedOut, IsActive
  <2>3. QED
    BY <1>a, <1>b, <2>1, <2>2 DEF SoloAt, IdentityAgrees
<1>6. ASSUME NEW t \in callers, LoginWithApiToken(t) PROVE Solo'
  <2>1. ~IsActive(sudoTok) /\ ~IsActive(sudoTok)'
    BY <1>a, <1>6 DEF LoginWithApiToken, SoloAt, IsActive
  <2>2. IdentityAgrees'
    BY <2>1 DEF IdentityAgrees
  <2>3. CASE task[t].newId = Undefined
    <3>1. task'[t] = LeaveLogin(task[t], sudoTok)
      BY <1>6, <1>c, <2>3 DEF LoginWithApiToken
    <3>2. task'[t].pc \in {"loggedOut", "idle", "holding"} /\ ~task'[t].relogin
      BY <1>e, <3>1
    <3>3. task'[t].pc = "holding"
            => task'[t].slot = IF sudoTok # NoToken THEN "sudo" ELSE "auth"
      BY <1>e, <3>1
    <3>4. authTok # NoToken /\ UNCHANGED <<authTok, sudoTok>>
      BY <1>6 DEF LoginWithApiToken, IsActive
    <3>5. QED
      BY <1>b, <2>1, <2>2, <3>2, <3>3, <3>4 DEF SoloAt
  <2>4. CASE task[t].newId # Undefined
    <3>1. sudoId' = task[t].newId /\ sudoId' \in Users
      BY <1>a, <1>6, <2>4 DEF LoginWithApiToken, Ids
    <3>2. sudoId' # NoUser
      BY <3>1, UsersAssumption DEF NoUser
    <3>3. task'[t] = SendSudo(task[t], ActiveToken)
      BY <1>6, <1>c, <3>2 DEF LoginWithApiToken
    <3>4. /\ task'[t].pc = "sudoSent" /\ task'[t].newId = task[t].newId
          /\ task'[t].relogin = task[t].relogin
      BY <1>a, <3>3, SendSudoMove
    <3>5. QED
      BY <1>a, <1>b, <2>1, <2>2, <3>1, <3>2, <3>4 DEF SoloAt
  <2>5. QED
    BY <2>3, <2>4
<1>7. ASSUME NEW t \in callers, LoginFresh(t) PROVE Solo'
  <2>1. sudoId' = NoUser /\ sudoTok' = NoToken
    BY <1>7 DEF LoginFresh
  <2>2. CASE task' = [task EXCEPT ![t].pc = "apiSent", ![t].answer = "none",
                                  ![t].got = NoToken]
    <3>1. /\ task'[t].pc = "apiSent" /\ task'[t].newId = task[t].newId
          /\ task'[t].relogin = task[t].relogin
      BY <1>0, <1>a, <2>2 DEF TypeOK, Frame
    <3>2. QED
      BY <1>a, <1>b, <2>1, <3>1 DEF SoloAt, IdentityAgrees, IsActive
  <2>3. CASE task' = [task EXCEPT ![t] = Return("error")]
    <3>1. task'[t].pc = "idle" /\ ~task'[t].relogin
      BY <1>c, <2>3, ReturnMove
    <3>2. QED
      BY <1>b, <2>1, <3>1 DEF SoloAt, IdentityAgrees, IsActive
  <2>4. QED
    BY <1>7, <2>2, <2>3 DEF LoginFresh
<1>8. ASSUME NEW t \in callers, ApiLoggedIn(t) PROVE Solo'
  <2>1. sudoId = NoUser /\ sudoTok = NoToken /\ UNCHANGED <<sudoId, sudoTok>>
    BY <1>a, <1>8 DEF ApiLoggedIn, SoloAt
  <2>2. task'[t] = LeaveLogin(task[t], sudoTok)
    BY <1>8, <1>c, <2>1 DEF ApiLoggedIn
  <2>3. task'[t].pc \in {"loggedOut", "idle", "holding"} /\ ~task'[t].relogin
    BY <1>e, <2>2
  <2>4. task'[t].pc = "holding" => task'[t].slot = "auth"
    BY <1>e, <2>1, <2>2
  <2>5. authTok' # NoToken
    BY <1>0, <1>8 DEF ApiLoggedIn, OwnerInv, AnswerOwned, Tokens, NoToken
  <2>6. ~IsActive(sudoTok)'
    BY <2>1 DEF IsActive
  <2>7. QED
    BY <1>b, <2>3, <2>4, <2>5, <2>6 DEF SoloAt, IdentityAgrees
<1>9. ASSUME NEW t \in callers, SudoLoggedIn(t) PROVE Solo'
  <2>1. /\ task[t].newId = sudoId /\ sudoId # NoUser
        /\ task[t].got \in Tokens /\ task[t].newId \in Users
        /\ owner[task[t].got] = sudoId
    BY <1>0, <1>a, <1>9 DEF SudoLoggedIn, SoloAt, OwnerInv, AnswerOwned
  <2>2. ~task[t].relogin
    BY <1>a, <2>1, UsersAssumption DEF SoloAt, Undefined
  <2>3. sudoTok' = task[t].got /\ UNCHANGED <<sudoId, owner>> /\ sudoTok' # NoToken
    BY <1>9, <2>1 DEF SudoLoggedIn, Tokens, NoToken
  <2>4. task'[t] = LeaveLogin(task[t], sudoTok')
    BY <1>9, <1>c DEF SudoLoggedIn
  <2>5. task'[t].pc \in {"idle", "holding"} /\ ~task'[t].relogin
    BY <1>e, <2>2, <2>4
  <2>6. task'[t].pc = "holding" => task'[t].slot = "sudo"
    BY <1>e, <2>3, <2>4
  <2>7. IdentityAgrees'
    BY <2>1, <2>3 DEF IdentityAgrees
  <2>8. QED
    BY <1>b, <2>3, <2>5, <2>6, <2>7 DEF SoloAt
<1>10. ASSUME NEW t \in callers, LoggedOut(t) PROVE Solo'
  <2>1. sudoTok' = NoToken
    BY <1>10 DEF LoggedOut
  <2>2. ~IsActive(sudoTok)'
    BY <2>1 DEF IsActive
  <2>3. CASE task'[t] = LeaveLogout(task[t])
    <3>1. task'[t].pc \in {"loggedOut", "idle"} /\ ~task'[t].relogin
      BY <1>a, <2>3, LeaveLogoutMove
    <3>2. QED
      BY <1>b, <2>2, <3>1 DEF SoloAt, IdentityAgrees
  <2>4. CASE task'[t] = [task[t] EXCEPT !.pc = "ready", !.newId = Undefined,
                                        !.relogin = TRUE, !.answer = "none"]
    <3>1. task'[t].pc = "ready" /\ task'[t].newId = Undefined
      BY <1>a, <2>4 DEF Frame
    <3>2. QED
      BY <1>b, <2>2, <3>1 DEF SoloAt, IdentityAgrees
  <2>5. QED
    BY <1>10, <1>c, <2>3, <2>4 DEF LoggedOut
<1>11. ASSUME NEW t \in callers, NEW g \in Frame, task' = [task EXCEPT ![t] = g],
              g.pc = task[t].pc, g.newId = task[t].newId, g.relogin = task[t].relogin,
              g.slot = task[t].slot, UNCHANGED <<session, expired>>,
              \A k \in Tokens : owner[k] # Nobody => owner'[k] = owner[k]
       PROVE Solo'
  <2>1. SoloAt(task[t])'
    BY <1>a, <1>c, <1>11 DEF SoloAt, IsActive
  <2>2. IdentityAgrees'
    <3>1. CASE IsActive(sudoTok)
      <4>1. sudoTok \in Tokens /\ owner[sudoTok] \in Users /\ owner[sudoTok] = sudoId
        BY <1>0, <3>1 DEF Solo, IdentityAgrees, OwnerInv, SlotOwners, TypeOK, IsActive
      <4>2. owner'[sudoTok] = owner[sudoTok]
        BY <1>11, <4>1, UsersAssumption DEF Nobody
      <4>3. QED
        BY <1>11, <3>1, <4>1, <4>2 DEF Solo, IdentityAgrees
    <3>2. CASE ~IsActive(sudoTok)
      BY <1>11, <3>2 DEF IdentityAgrees, IsActive
    <3>3. QED
      BY <3>1, <3>2
  <2>3. QED
    BY <1>b, <2>1, <2>2
<1>12. ASSUME NEW t \in callers, Answer(t) PROVE Solo'
  <2>1. ASSUME NEW a \in {"ok", "failed"}, task' = [task EXCEPT ![t].answer = a],
               UNCHANGED <<session, expired, owner>>
        PROVE  Solo'
    <3> DEFINE g == [task[t] EXCEPT !.answer = a]
    <3>1. /\ g \in Frame /\ g.pc = task[t].pc /\ g.newId = task[t].newId
          /\ g.relogin = task[t].relogin /\ g.slot = task[t].slot
      BY <1>a DEF Frame
    <3>2. task' = [task EXCEPT ![t] = g]
      BY <2>1
    <3> HIDE DEF g
    <3>3. QED
      BY <1>11, <2>1, <3>1, <3>2
  <2>2. ASSUME NEW user, Grant(t, user) PROVE Solo'
    <3>1. PICK k \in Tokens : /\ owner[k] = Nobody
                              /\ owner' = [owner EXCEPT ![k] = user]
                              /\ task' = [task EXCEPT ![t].answer = "ok", ![t].got = k]
      BY <2>2 DEF Grant, Issued
    <3> DEFINE g == [task[t] EXCEPT !.answer = "ok", !.got = k]
    <3>2. /\ g \in Frame /\ g.pc = task[t].pc /\ g.newId = task[t].newId
          /\ g.relogin = task[t].relogin /\ g.slot = task[t].slot
      BY <1>a DEF Frame
    <3>3. task' = [task EXCEPT ![t] = g]
      BY <3>1
    <3> HIDE DEF g
    <3>4. \A j \in Tokens : owner[j] # Nobody => owner'[j] = owner[j]
      BY <1>0, <3>1 DEF TypeOK
    <3>5. QED
      BY <1>11, <2>2, <3>2, <3>3, <3>4 DEF Grant
  <2>3. Refuse(t) => Solo'
    BY <2>1 DEF Refuse
  <2>4. QED
    BY <1>12, <2>1, <2>2, <2>3 DEF Answer, AnswerApiLogin, AnswerSudoLogin, AnswerLogout
<1>13. ASSUME Expire PROVE Solo'
  BY <1>0, <1>13 DEF Expire, Solo, SoloAt, IdentityAgrees, IsActive
<1>14. ASSUME UNCHANGED vars PROVE Solo'
  BY <1>0, <1>14 DEF vars, Solo, SoloAt, IdentityAgrees, IsActive
<1>15. QED
  BY <1>1, <1>2, <1>3, <1>4, <1>5, <1>6, <1>7, <1>8, <1>9, <1>10,
     <1>12, <1>13, <1>14 DEF Next, Call, Resume

LEMMA SoloHolds == Spec => [](OneCaller => Solo)
<1>1. Init => (OneCaller => Solo)
  BY InitSolo
<1>2. (OneCaller => Solo) /\ [Next]_vars => (OneCaller => Solo)'
  BY NextSolo, AloneStays
<1>3. QED
  BY <1>1, <1>2, PTL DEF Spec

\* One caller at a time: an active sudo token is the token of the user sudoId
\* names, whatever fails, expires or is refused on the way, and a sudo login asks
\* for that user, never for /login/undefined or the user of an earlier call.
THEOREM SudoIdIsTrueAlone == Spec => []SudoIdIsTrue
<1>1. (OneCaller => Solo) => SudoIdIsTrue
  BY DEF Solo, SoloAt, SudoIdIsTrue, SudoRequestNamesSudoId
<1>2. QED
  BY <1>1, SoloHolds, PTL

\* One caller at a time: no request reaches the server without the bearer token
\* getToken promised.
THEOREM AuthenticateDecoratesAlone == Spec => []AuthenticateDecorates
<1>1. (OneCaller => Solo) => AuthenticateDecorates
  BY DEF Solo, SoloAt, AuthenticateDecorates, HeldToken
<1>2. QED
  BY <1>1, SoloHolds, PTL

\* One caller at a time: the session never turns from acting as one impersonated
\* user into acting as another; a logout or an expiry lies between.
THEOREM NoDirectSwitchAlone == Spec => NoDirectSwitch
<1>1. (OneCaller => Solo) /\ [Next]_vars =>
        [OneCaller /\ Who \in Users /\ Who' \in Users => Who' = Who]_vars
  <2> SUFFICES ASSUME OneCaller, Solo, Solo', Next, Who \in Users, Who' \in Users
               PROVE  Who' = Who
    BY NextSolo
  <2>1. IsActive(sudoTok) /\ Who = sudoId
    BY UsersAssumption DEF Solo, OwnerInv, SlotOwners, Who, IsAuthenticated,
       ActiveToken, ActiveTokenOf, IsActive, IdentityAgrees, Nobody
  <2>2. IsActive(sudoTok)' /\ Who' = sudoId'
    BY UsersAssumption DEF Solo, OwnerInv, SlotOwners, Who, IsAuthenticated,
       ActiveToken, ActiveTokenOf, IsActive, IdentityAgrees, Nobody
  <2>3. sudoId' = sudoId
    BY <2>1, <2>2 DEF Next, Call, Resume, Answer, Login, Authenticate, Logout,
       AttachHeader, SudoLoggedOut, LoginWithApiToken, LoginFresh, ApiLoggedIn,
       SudoLoggedIn, LoggedOut, RequestFailed, AnswerApiLogin, AnswerSudoLogin,
       AnswerLogout, Grant, Refuse, Expire, session, Solo, SoloAt, IsActive
  <2>4. QED
    BY <2>1, <2>2, <2>3
<1>2. QED
  BY <1>1, SoloHolds, PTL DEF Spec, NoDirectSwitch

----------------------------------------------------------------------------
(* One caller at a time: what its calls come to.                           *)

\* The user a login is for.
Target(f) == IF f.arg = NoUser THEN Undefined ELSE f.arg

\* What the frame remembers of the call: the id of the login survives in newId
\* or, during the logout that comes first, in outer; a logout has no login
\* around it.
Course(f) ==
  /\ f.pc = "holding" => f.op = "authenticate"
  /\ f.pc \in {"logoutSent", "loggedOut"} => ~f.relogin
  /\ f.op \in {"login", "authenticate"} =>
       IF f.pc = "logoutSent" \/ f.relogin THEN f.outer = Target(f) ELSE f.newId = Target(f)
  /\ f.op = "logout" => /\ f.outer = Nobody
                        /\ f.pc \in {"logoutSent", "ready", "apiSent"}
                        /\ f.pc = "logoutSent" \/ f.relogin

\* What it knows of the tokens: a token just granted is in neither slot, not
\* expired and not the one logged out; a logout in flight that is about an
\* impersonated user's token finds sudoId set.
Stakes(f) ==
  /\ f.dying \in Issued \union {NoToken}
  /\ f.pc = "logoutSent" \/ f.op = "logout" => f.dying # NoToken
  /\ f.pc = "logoutSent" => (owner[f.dying] \in Users => sudoId # NoUser)
  /\ f.pc = "ready" /\ f.relogin => ~IsActive(authTok)
  /\ f.pc \in {"apiSent", "sudoSent"} /\ f.answer = "ok" =>
       f.got \notin expired \union {authTok, sudoTok, f.dying}

ExpiredIssued == expired \subseteq Issued

Sure ==
  /\ Solo
  /\ ExpiredIssued
  /\ \A t \in callers : Course(task[t]) /\ Stakes(task[t])

LEMMA InitSure == Init => Sure
<1>1. ASSUME Init, NEW t \in callers PROVE Course(task[t]) /\ Stakes(task[t])
  BY <1>1, PartiesAssumption DEF Init, Course, Stakes, Idle
<1>2. Init => ExpiredIssued
  BY DEF Init, ExpiredIssued
<1>3. QED
  BY <1>1, <1>2, InitSolo DEF Sure

\* What a slot holds was issued.
LEMMA SlotsIssued ==
  ASSUME OwnerInv
  PROVE  authTok \in Issued \union {NoToken} /\ sudoTok \in Issued \union {NoToken}
BY UsersAssumption DEF OwnerInv, SlotOwners, TypeOK, Issued, Nobody

LEMMA TokensAreNotNoToken == NoToken \notin Tokens /\ NoToken \notin Issued
BY DEF NoToken, Tokens, Issued

\* The fields of the frames a caller moves to.
LEMMA ReturnFields ==
  ASSUME NEW r
  PROVE  LET g == Return(r) IN
         /\ g.pc = "idle" /\ g.op = "none" /\ g.relogin = FALSE /\ g.dying = NoToken
         /\ g.result = r
BY DEF Return, Idle

LEMMA BeginFields ==
  ASSUME NEW op, NEW arg
  PROVE  LET g == Begin(op, arg) IN
         /\ g.op = op /\ g.arg = arg /\ g.relogin = FALSE /\ g.dying = NoToken
         /\ g.outer = Nobody
BY DEF Begin, Idle

LEMMA HandOverFields ==
  ASSUME NEW f, NEW sudo
  PROVE  LET g == HandOver(f, sudo) IN
         /\ g.relogin = FALSE /\ g.dying = NoToken
         /\ \/ f.op # "authenticate" /\ g.pc = "idle" /\ g.op = "none"
            \/ /\ f.op = "authenticate" /\ g.pc = "holding" /\ g.op = "authenticate"
               /\ g.arg = Undefined /\ g.newId = Undefined
               /\ g.slot = IF sudo # NoToken THEN "sudo" ELSE "auth"
<1>1. CASE f.op = "authenticate"
  BY <1>1 DEF HandOver, Hold, Idle
<1>2. CASE f.op # "authenticate"
  BY <1>2, ReturnFields DEF HandOver
<1>3. QED
  BY <1>1, <1>2

LEMMA SendLogoutFields ==
  ASSUME NEW f \in Frame
  PROVE  LET g == SendLogout(f) IN
         /\ g.pc = "logoutSent" /\ g.op = f.op /\ g.arg = f.arg /\ g.outer = f.outer
         /\ g.newId = f.newId /\ g.relogin = f.relogin /\ g.dying = ActiveToken
         /\ g.answer = "none"
BY DEF SendLogout, Frame

LEMMA EnterLoginFields ==
  ASSUME NEW f \in Frame, NEW id \in Ids
  PROVE  LET g == EnterLogin(f, id) IN
         /\ g.op = f.op /\ g.arg = f.arg /\ g.relogin = f.relogin
         /\ \/ IsSudo /\ g.pc = "logoutSent" /\ g.outer = id /\ g.dying = ActiveToken
            \/ ~IsSudo /\ g.pc = "ready" /\ g.newId = id /\ g.dying = f.dying
<1>1. CASE IsSudo
  <2> DEFINE h == [f EXCEPT !.outer = id]
  <2>1. h \in Frame /\ h.op = f.op /\ h.arg = f.arg /\ h.relogin = f.relogin /\ h.outer = id
    BY DEF Frame
  <2> HIDE DEF h
  <2>2. EnterLogin(f, id) = SendLogout(h)
    BY <1>1 DEF EnterLogin, h
  <2>3. QED
    BY <1>1, <2>1, <2>2, SendLogoutFields
<1>2. CASE ~IsSudo
  BY <1>2 DEF EnterLogin, Frame
<1>3. QED
  BY <1>1, <1>2

LEMMA LeaveLogoutFields ==
  ASSUME NEW f \in Frame
  PROVE  LET g == LeaveLogout(f) IN
         \/ /\ f.outer # Nobody /\ g.pc = "loggedOut" /\ g.op = f.op /\ g.arg = f.arg
            /\ g.newId = f.outer /\ g.relogin = FALSE /\ g.dying = f.dying
         \/ f.outer = Nobody /\ g = Return("ok")
BY DEF LeaveLogout, Frame

LEMMA SendSudoFields ==
  ASSUME NEW f \in Frame, NEW k
  PROVE  LET g == SendSudo(f, k) IN
         /\ g.pc = "sudoSent" /\ g.op = f.op /\ g.arg = f.arg /\ g.outer = f.outer
         /\ g.newId = f.newId /\ g.relogin = f.relogin /\ g.dying = f.dying
         /\ g.answer = "none"
BY DEF SendSudo, Frame

LEMMA TargetId == ASSUME NEW f \in Frame PROVE Target(f) \in Ids /\ Target(f) # Nobody
BY UsersAssumption DEF Target, Frame, Ids, Undefined, Nobody, NoUser

\* A call that has returned has nothing left to keep.
LEMMA ReturnSure ==
  ASSUME NEW t \in callers, NEW r, task'[t] = Return(r)
  PROVE  Course(task[t])' /\ Stakes(task[t])'
<1>1. /\ task'[t].pc = "idle" /\ task'[t].op = "none" /\ task'[t].relogin = FALSE
      /\ task'[t].dying = NoToken
  BY DEF Return, Idle
<1>2. QED
  BY <1>1 DEF Course, Stakes

LEMMA HandOverSure ==
  ASSUME NEW t \in callers, NEW f, NEW sudo, task'[t] = HandOver(f, sudo)
  PROVE  Course(task[t])' /\ Stakes(task[t])'
<1> DEFINE g == HandOver(f, sudo)
<1>1. /\ g.relogin = FALSE /\ g.dying = NoToken
      /\ \/ g.pc = "idle" /\ g.op = "none"
         \/ /\ g.pc = "holding" /\ g.op = "authenticate"
            /\ g.arg = Undefined /\ g.newId = Undefined
  <2>1. CASE f.op = "authenticate"
    BY <2>1 DEF HandOver, Hold, Idle
  <2>2. CASE f.op # "authenticate"
    BY <2>2 DEF HandOver, Return, Idle
  <2>3. QED
    BY <2>1, <2>2
<1> HIDE DEF g
<1>2. task'[t] = g
  BY DEF g
<1>3. QED
  BY <1>1, <1>2, UsersAssumption DEF Course, Stakes, Target, Undefined, NoUser

\* _logout done: the login around it goes on, or the call returns.
LEMMA LeaveLogoutSure ==
  ASSUME TypeOK, NEW t \in callers, Course(task[t]), Stakes(task[t]), Issued \subseteq Issued',
         task[t].pc = "logoutSent" \/ task[t].relogin, task'[t] = LeaveLogout(task[t])
  PROVE  Course(task[t])' /\ Stakes(task[t])'
<1> DEFINE f == task[t]
           g == LeaveLogout(f)
<1>1. f \in Frame
  BY DEF TypeOK
<1>2. \/ /\ f.outer # Nobody /\ g.pc = "loggedOut" /\ g.op = f.op /\ g.arg = f.arg
         /\ g.newId = f.outer /\ g.relogin = FALSE /\ g.dying = f.dying
      \/ f.outer = Nobody /\ g = Return("ok")
  BY <1>1, LeaveLogoutFields
<1> HIDE DEF g
<1>3. task'[t] = g
  BY DEF g
<1>4. CASE g = Return("ok")
  BY <1>3, <1>4, ReturnSure
<1>5. CASE g # Return("ok")
  <2>1. g.op # "logout"
    BY <1>2, <1>5 DEF Course
  <2>2. g.op \in {"login", "authenticate"} => g.newId = Target(g)
    BY <1>2, <1>5 DEF Course, Target
  <2>3. g.dying \in Issued' \union {NoToken}
    BY <1>2, <1>5 DEF Stakes
  <2>4. QED
    BY <1>2, <1>3, <1>5, <2>1, <2>2, <2>3 DEF Course, Stakes, Target
<1>6. QED
  BY <1>4, <1>5

LEMMA LeaveLoginSure ==
  ASSUME TypeOK, NEW t \in callers, Course(task[t]), Stakes(task[t]), Issued \subseteq Issued',
         NEW sudo, task'[t] = LeaveLogin(task[t], sudo)
  PROVE  Course(task[t])' /\ Stakes(task[t])'
<1>1. CASE task[t].relogin
  BY <1>1, LeaveLogoutSure DEF LeaveLogin
<1>2. CASE ~task[t].relogin
  BY <1>2, HandOverSure DEF LeaveLogin
<1>3. QED
  BY <1>1, <1>2

LEMMA NextSure == OneCaller /\ Sure /\ [Next]_vars => Sure'
<1> SUFFICES ASSUME OneCaller, Sure, [Next]_vars PROVE Sure'
  OBVIOUS
<1>p. callers' = callers /\ callers \subseteq Tasks
  BY CallersStay DEF Sure, Solo, OwnerInv, TypeOK
<1> USE <1>p
<1> USE DEF session
<1>0. Solo /\ Solo' /\ OwnerInv /\ OwnerInv' /\ TypeOK /\ TypeOK' /\ ExpiredIssued
  BY NextSolo DEF Sure, Solo, OwnerInv
<1>a. ASSUME NEW t \in callers
      PROVE  /\ task[t] \in Frame /\ SoloAt(task[t]) /\ Course(task[t]) /\ Stakes(task[t])
             /\ task[t].newId \in Ids /\ AnswerOwned(task[t])
  BY <1>0 DEF TypeOK, Sure, Solo, OwnerInv, Frame
<1>b. ASSUME NEW t \in callers, Course(task[t])', Stakes(task[t])', ExpiredIssued' PROVE Sure'
  BY <1>0, <1>b DEF OneCaller, Sure
<1>c. ASSUME NEW t \in callers, NEW g, task' = [task EXCEPT ![t] = g] PROVE task'[t] = g
  BY <1>0, <1>c DEF TypeOK
<1>d. ASSUME owner' = owner, expired' = expired
      PROVE  Issued' = Issued /\ ExpiredIssued'
  BY <1>0, <1>d DEF Issued, ExpiredIssued
<1>e. ActiveToken \in Issued \union {NoToken}
  BY <1>0, SlotsIssued DEF ActiveToken, ActiveTokenOf
<1>f. ASSUME IsAuthenticated
      PROVE  /\ ActiveToken \in Issued /\ ActiveToken # NoToken
             /\ owner[ActiveToken] \in Users => sudoId # NoUser
  <2>1. ActiveToken # NoToken /\ IsActive(ActiveToken)
    BY <1>f DEF IsAuthenticated, IsActive
  <2>2. owner[ActiveToken] \in Users => ActiveToken = sudoTok
    BY <1>0, <2>1, UsersAssumption DEF OwnerInv, SlotOwners, ActiveToken, ActiveTokenOf
  <2>3. QED
    BY <1>0, <1>e, <2>1, <2>2 DEF Solo, IdentityAgrees
<1>g. IsSudo => IsAuthenticated
  BY DEF IsSudo, IsAuthenticated, IsActive, ActiveToken, ActiveTokenOf
<1>h. ASSUME NEW t \in callers, NEW f \in Frame, f.op \in {"login", "authenticate"},
             f.relogin = FALSE, f.dying = NoToken,
             task'[t] = EnterLogin(f, Target(f)), UNCHANGED <<session, expired, owner>>
      PROVE  Sure'
  <2> DEFINE g == EnterLogin(f, Target(f))
  <2>1. /\ g.op = f.op /\ g.arg = f.arg /\ g.relogin = FALSE
        /\ \/ IsSudo /\ g.pc = "logoutSent" /\ g.outer = Target(f) /\ g.dying = ActiveToken
           \/ ~IsSudo /\ g.pc = "ready" /\ g.newId = Target(f) /\ g.dying = NoToken
    BY <1>h, TargetId, EnterLoginFields
  <2> HIDE DEF g
  <2>2. task'[t] = g
    BY <1>h DEF g
  <2>3. Issued' = Issued /\ ExpiredIssued'
    BY <1>d, <1>h
  <2>4. Course(task[t])'
    BY <1>h, <2>1, <2>2 DEF Course, Target
  <2>5. Stakes(task[t])'
    <3>1. CASE IsSudo
      BY <1>f, <1>g, <1>h, <2>1, <2>2, <2>3, <3>1 DEF Stakes
    <3>2. CASE ~IsSudo
      BY <1>h, <2>1, <2>2, <2>3, <3>2 DEF Stakes
    <3>3. QED
      BY <3>1, <3>2
  <2>6. QED
    BY <1>b, <2>3, <2>4, <2>5
<1>1. ASSUME NEW t \in callers, NEW id \in Ids \union {NoUser}, Login(t, id) PROVE Sure'
  <2> DEFINE f == Begin("login", id)
  <2>1. f \in Frame /\ f.relogin = FALSE /\ f.dying = NoToken /\ f.op = "login" /\ f.arg = id
    <3>1. f \in Frame
      BY BeginFrame
    <3>2. QED
      BY <3>1 DEF Begin, Idle
  <2>2. UNCHANGED <<session, expired, owner>>
    BY <1>1 DEF Login
  <2>3. Target(f) = IF id = NoUser THEN Undefined ELSE id
    BY <2>1 DEF Target
  <2>4. task'[t] = HandOver(f, sudoTok) \/ task'[t] = EnterLogin(f, Target(f))
    BY <1>0, <1>1, <2>3 DEF Login, TypeOK
  <2> HIDE DEF f
  <2>5. CASE task'[t] = HandOver(f, sudoTok)
    BY <1>b, <1>d, <2>2, <2>5, HandOverSure
  <2>6. CASE task'[t] = EnterLogin(f, Target(f))
    BY <1>h, <2>1, <2>2, <2>6
  <2>7. QED
    BY <2>4, <2>5, <2>6
<1>2. ASSUME NEW t \in callers, Authenticate(t) PROVE Sure'
  <2> DEFINE f == Begin("authenticate", Undefined)
  <2>1. /\ f \in Frame /\ f.relogin = FALSE /\ f.dying = NoToken /\ f.op = "authenticate"
        /\ f.arg = Undefined
    BY BeginFrame, BeginFields DEF Ids
  <2>2. UNCHANGED <<session, expired, owner>>
    BY <1>2 DEF Authenticate
  <2>3. Target(f) = Undefined
    BY <2>1 DEF Target
  <2>4. task'[t] = HandOver(f, sudoTok) \/ task'[t] = EnterLogin(f, Target(f))
    BY <1>0, <1>2, <2>3 DEF Authenticate, TypeOK
  <2> HIDE DEF f
  <2>5. CASE task'[t] = HandOver(f, sudoTok)
    BY <1>b, <1>d, <2>2, <2>5, HandOverSure
  <2>6. CASE task'[t] = EnterLogin(f, Target(f))
    BY <1>h, <2>1, <2>2, <2>6
  <2>7. QED
    BY <2>4, <2>5, <2>6
<1>3. ASSUME NEW t \in callers, Logout(t) PROVE Sure'
  <2> DEFINE f == Begin("logout", Undefined)
  <2>1. f \in Frame /\ f.relogin = FALSE /\ f.op = "logout" /\ f.outer = Nobody
    BY BeginFrame, BeginFields DEF Ids
  <2>2. UNCHANGED <<session, expired, owner>>
    BY <1>3 DEF Logout
  <2>3. \/ IsAuthenticated /\ task'[t] = SendLogout(f)
        \/ task'[t] = Return("false")
    BY <1>0, <1>3 DEF Logout, TypeOK
  <2> HIDE DEF f
  <2>4. Issued' = Issued /\ ExpiredIssued'
    BY <1>d, <2>2
  <2>5. CASE task'[t] = Return("false")
    BY <1>b, <2>4, <2>5, ReturnSure
  <2>6. CASE IsAuthenticated /\ task'[t] = SendLogout(f)
    <3> DEFINE g == SendLogout(f)
    <3>1. /\ g.pc = "logoutSent" /\ g.op = "logout" /\ g.outer = Nobody /\ g.relogin = FALSE
          /\ g.dying = ActiveToken
      BY <2>1, SendLogoutFields
    <3> HIDE DEF g
    <3>2. task'[t] = g
      BY <2>6 DEF g
    <3>3. Course(task[t])'
      BY <3>1, <3>2 DEF Course
    <3>4. Stakes(task[t])'
      BY <1>f, <2>2, <2>4, <2>6, <3>1, <3>2 DEF Stakes
    <3>5. QED
      BY <1>b, <2>4, <3>3, <3>4
  <2>7. QED
    BY <2>3, <2>5, <2>6
<1>4. ASSUME NEW t \in callers, AttachHeader(t) \/ RequestFailed(t) PROVE Sure'
  <2>1. (task'[t] = Return("ok") \/ task'[t] = Return("error")) /\ UNCHANGED <<expired, owner>>
    BY <1>0, <1>4 DEF AttachHeader, RequestFailed, TypeOK
  <2>2. QED
    BY <1>b, <1>d, <2>1, ReturnSure
<1>5. ASSUME NEW t \in callers, SudoLoggedOut(t) PROVE Sure'
  <2>1. /\ task'[t].pc = "ready" /\ task'[t].relogin = task[t].relogin
        /\ task'[t].newId = task[t].newId /\ task'[t].op = task[t].op
        /\ task'[t].arg = task[t].arg /\ task'[t].outer = task[t].outer
        /\ task'[t].dying = task[t].dying /\ task[t].pc = "loggedOut"
    BY <1>0, <1>a, <1>5 DEF SudoLoggedOut, TypeOK, Frame
  <2>2. Issued' = Issued /\ ExpiredIssued' /\ authTok' = authTok /\ expired' = expired
    BY <1>d, <1>5 DEF SudoLoggedOut
  <2>3. Course(task[t])'
    BY <1>a, <2>1 DEF Course, Target
  <2>4. ~task[t].relogin
    BY <1>a, <2>1 DEF Course
  <2>5. QED
    BY <1>a, <1>b, <2>1, <2>2, <2>3, <2>4 DEF Stakes
<1>6. ASSUME NEW t \in callers, LoginWithApiToken(t) PROVE Sure'
  <2>1. /\ task[t].pc = "ready" /\ IsActive(authTok)
        /\ UNCHANGED <<authTok, sudoTok, expired, owner, revoked>>
    BY <1>6 DEF LoginWithApiToken
  <2>2. Issued' = Issued /\ ExpiredIssued'
    BY <1>d, <2>1
  <2>3. \/ task'[t] = SendSudo(task[t], ActiveToken)
        \/ task'[t] = LeaveLogin(task[t], sudoTok)
    BY <1>6, <1>c DEF LoginWithApiToken
  <2>4. CASE task'[t] = LeaveLogin(task[t], sudoTok)
    BY <1>0, <1>a, <1>b, <2>2, <2>4, LeaveLoginSure
  <2>5. CASE task'[t] = SendSudo(task[t], ActiveToken)
    <3> DEFINE f == task[t]
               g == SendSudo(f, ActiveToken)
    <3>1. f \in Frame /\ Course(f) /\ Stakes(f) /\ ~f.relogin
      BY <1>a, <2>1 DEF Stakes
    <3>2. /\ g.pc = "sudoSent" /\ g.op = f.op /\ g.arg = f.arg /\ g.outer = f.outer
          /\ g.newId = f.newId /\ g.relogin = f.relogin /\ g.dying = f.dying
          /\ g.answer = "none"
      BY <3>1, SendSudoFields
    <3> HIDE DEF g
    <3>3. task'[t] = g
      BY <2>5 DEF g
    <3>4. f.op # "logout"
      BY <2>1, <3>1 DEF Course
    <3>5. Course(task[t])'
      BY <2>1, <3>1, <3>2, <3>3, <3>4 DEF Course, Target
    <3>6. Stakes(task[t])'
      BY <2>2, <3>1, <3>2, <3>3, <3>4 DEF Stakes
    <3>7. QED
      BY <1>b, <2>2, <3>5, <3>6
  <2>6. QED
    BY <2>3, <2>4, <2>5
<1>7. ASSUME NEW t \in callers, LoginFresh(t) PROVE Sure'
  <2>1. task[t].pc = "ready" /\ UNCHANGED <<expired, owner, revoked>>
    BY <1>7 DEF LoginFresh
  <2>2. Issued' = Issued /\ ExpiredIssued'
    BY <1>d, <2>1
  <2>3. CASE task' = [task EXCEPT ![t].pc = "apiSent", ![t].answer = "none",
                                  ![t].got = NoToken]
    <3>1. /\ task'[t].pc = "apiSent" /\ task'[t].newId = task[t].newId
          /\ task'[t].relogin = task[t].relogin /\ task'[t].op = task[t].op
          /\ task'[t].arg = task[t].arg /\ task'[t].outer = task[t].outer
          /\ task'[t].dying = task[t].dying /\ task'[t].answer = "none"
      BY <1>0, <1>a, <2>3 DEF TypeOK, Frame
    <3>2. Course(task[t])'
      BY <1>a, <2>1, <3>1 DEF Course, Target
    <3>3. Stakes(task[t])'
      BY <1>a, <2>1, <2>2, <3>1 DEF Stakes
    <3>4. QED
      BY <1>b, <2>2, <3>2, <3>3
  <2>4. CASE task' = [task EXCEPT ![t] = Return("error")]
    BY <1>b, <1>c, <2>2, <2>4, ReturnSure
  <2>5. QED
    BY <1>7, <2>3, <2>4 DEF LoginFresh
<1>8. ASSUME NEW t \in callers, ApiLoggedIn(t) PROVE Sure'
  <2>1. sudoId = NoUser /\ UNCHANGED <<expired, owner, revoked>>
    BY <1>a, <1>8 DEF ApiLoggedIn, SoloAt
  <2>2. Issued' = Issued /\ ExpiredIssued'
    BY <1>d, <2>1
  <2>3. task'[t] = LeaveLogin(task[t], sudoTok)
    BY <1>8, <1>c, <2>1 DEF ApiLoggedIn
  <2>4. QED
    BY <1>0, <1>a, <1>b, <2>2, <2>3, LeaveLoginSure
<1>9. ASSUME NEW t \in callers, SudoLoggedIn(t) PROVE Sure'
  <2>1. UNCHANGED <<expired, owner, revoked>>
    BY <1>9 DEF SudoLoggedIn
  <2>2. Issued' = Issued /\ ExpiredIssued'
    BY <1>d, <2>1
  <2>3. task'[t] = LeaveLogin(task[t], sudoTok')
    BY <1>9, <1>c DEF SudoLoggedIn
  <2>4. QED
    BY <1>0, <1>a, <1>b, <2>2, <2>3, LeaveLoginSure
<1>10. ASSUME NEW t \in callers, LoggedOut(t) PROVE Sure'
  <2>1. task[t].pc = "logoutSent" /\ UNCHANGED <<expired, owner, revoked>>
    BY <1>10 DEF LoggedOut
  <2>2. Issued' = Issued /\ ExpiredIssued'
    BY <1>d, <2>1
  <2>3. CASE task'[t] = LeaveLogout(task[t])
    BY <1>0, <1>a, <1>b, <2>1, <2>2, <2>3, LeaveLogoutSure
  <2>4. CASE /\ task' = [task EXCEPT ![t] = [@ EXCEPT !.pc = "ready", !.newId = Undefined,
                                                      !.relogin = TRUE, !.answer = "none"]]
             /\ authTok' = authTok /\ ~IsActive(authTok)
    <3>1. /\ task'[t].pc = "ready" /\ task'[t].relogin = TRUE /\ task'[t].op = task[t].op
          /\ task'[t].arg = task[t].arg /\ task'[t].outer = task[t].outer
          /\ task'[t].dying = task[t].dying
      BY <1>0, <1>a, <2>4 DEF TypeOK, Frame
    <3>2. Course(task[t])'
      BY <1>a, <2>1, <3>1 DEF Course, Target
    <3>3. ~IsActive(authTok)'
      BY <2>1, <2>4 DEF IsActive
    <3>4. Stakes(task[t])'
      BY <1>a, <2>1, <2>2, <3>1, <3>3 DEF Stakes
    <3>5. QED
      BY <1>b, <2>2, <3>2, <3>4
  <2>5. QED
    BY <1>10, <1>c, <2>3, <2>4 DEF LoggedOut
\* The server's answers.
<1>11. ASSUME NEW t \in callers, NEW a \in {"ok", "failed"}, task' = [task EXCEPT ![t].answer = a],
              a = "ok" => task[t].pc = "logoutSent", UNCHANGED <<session, expired, owner>>
       PROVE  Sure'
  <2>1. Issued' = Issued /\ ExpiredIssued'
    BY <1>d, <1>11
  <2>2. /\ task'[t].pc = task[t].pc /\ task'[t].newId = task[t].newId
        /\ task'[t].relogin = task[t].relogin /\ task'[t].op = task[t].op
        /\ task'[t].arg = task[t].arg /\ task'[t].outer = task[t].outer
        /\ task'[t].dying = task[t].dying /\ task'[t].answer = a
    BY <1>0, <1>a, <1>11 DEF TypeOK, Frame
  <2>3. Course(task[t])'
    BY <1>a, <2>2 DEF Course, Target
  <2>4. IsActive(authTok)' = IsActive(authTok)
    BY <1>11 DEF IsActive
  <2>5. Stakes(task[t])'
    BY <1>a, <1>11, <2>1, <2>2, <2>4 DEF Stakes
  <2>6. QED
    BY <1>b, <2>1, <2>3, <2>5
<1>12. ASSUME NEW t \in callers, task[t].pc \in {"apiSent", "sudoSent"}, NEW user, user # Nobody,
              Grant(t, user)
       PROVE  Sure'
  <2>1. PICK k \in Tokens : /\ k \notin Issued
                            /\ owner' = [owner EXCEPT ![k] = user]
                            /\ task' = [task EXCEPT ![t].answer = "ok", ![t].got = k]
    BY <1>12 DEF Grant
  <2>2. UNCHANGED <<session, expired>>
    BY <1>12 DEF Grant
  <2>3. Issued \subseteq Issued' /\ ExpiredIssued'
    BY <1>0, <1>12, <2>1, <2>2 DEF Issued, ExpiredIssued, TypeOK
  <2>4. /\ task'[t].pc = task[t].pc /\ task'[t].newId = task[t].newId
        /\ task'[t].relogin = task[t].relogin /\ task'[t].op = task[t].op
        /\ task'[t].arg = task[t].arg /\ task'[t].outer = task[t].outer
        /\ task'[t].dying = task[t].dying /\ task'[t].got = k
    BY <1>0, <1>a, <2>1 DEF TypeOK, Frame
  <2>5. Course(task[t])'
    BY <1>a, <2>4 DEF Course, Target
  <2>6. k \notin expired \union {authTok, sudoTok, task[t].dying}
    BY <1>0, <1>a, <2>1, SlotsIssued, TokensAreNotNoToken DEF ExpiredIssued, Stakes
  <2>7. Stakes(task[t])'
    BY <1>a, <1>12, <2>2, <2>3, <2>4, <2>6 DEF Stakes
  <2>8. QED
    BY <1>b, <2>3, <2>5, <2>7
<1>13. ASSUME NEW t \in callers, Answer(t) PROVE Sure'
  <2>1. ApiUser # Nobody /\ \A u \in Users : u # Nobody
    BY UsersAssumption DEF Nobody
  <2>2. Refuse(t) => Sure'
    BY <1>11 DEF Refuse
  <2>3. AnswerApiLogin(t) => Sure'
    BY <1>12, <2>1, <2>2 DEF AnswerApiLogin
  <2>4. AnswerSudoLogin(t) => Sure'
    BY <1>12, <2>1, <2>2 DEF AnswerSudoLogin
  <2>5. AnswerLogout(t) => Sure'
    BY <1>11, <2>2 DEF AnswerLogout
  <2>6. QED
    BY <1>13, <2>3, <2>4, <2>5 DEF Answer
<1>14. ASSUME Expire PROVE Sure'
  <2>1. PICK k \in {authTok, sudoTok} \ ({NoToken} \union expired) : expired' = expired \union {k}
    BY <1>14 DEF Expire
  <2>2. UNCHANGED <<session, owner, revoked, task>>
    BY <1>14 DEF Expire
  <2>3. Issued' = Issued
    BY <2>2 DEF Issued
  <2>4. ExpiredIssued'
    BY <1>0, <2>1, <2>3, SlotsIssued DEF ExpiredIssued
  <2>5. ~IsActive(authTok) => ~IsActive(authTok)'
    BY <2>1, <2>2 DEF IsActive
  <2>6. ASSUME NEW t \in callers PROVE Course(task[t])' /\ Stakes(task[t])'
    <3>1. Course(task[t])'
      BY <1>a, <2>2 DEF Course, Target
    <3>2. Stakes(task[t])'
      BY <1>a, <2>1, <2>2, <2>3, <2>5 DEF Stakes
    <3>3. QED
      BY <3>1, <3>2
  <2>7. QED
    BY <1>0, <2>4, <2>6 DEF Sure
<1>15. ASSUME UNCHANGED vars PROVE Sure'
  BY <1>0, <1>15 DEF vars, Sure, ExpiredIssued, Issued, Course, Stakes, Target, IsActive
<1>16. QED
  BY <1>1, <1>2, <1>3, <1>4, <1>5, <1>6, <1>7, <1>8, <1>9, <1>10,
     <1>13, <1>14, <1>15 DEF Next, Call, Resume

LEMMA SureHolds == Spec => [](OneCaller => Sure)
<1>1. Init => (OneCaller => Sure)
  BY InitSure
<1>2. (OneCaller => Sure) /\ [Next]_vars => (OneCaller => Sure)'
  BY NextSure, AloneStays
<1>3. QED
  BY <1>1, <1>2, PTL DEF Spec

\* Whom the session acts as once a token has been put in a slot.
LEMMA ActsAsApiUser ==
  ASSUME OwnerInv, sudoTok = NoToken, IsActive(authTok)
  PROVE  Who = ApiUser
BY DEF OwnerInv, SlotOwners, Who, IsAuthenticated, ActiveToken, ActiveTokenOf, IsActive

LEMMA ActsAsSudo ==
  ASSUME IsActive(sudoTok)
  PROVE  Who = owner[sudoTok]
BY DEF Who, IsAuthenticated, ActiveToken, ActiveTokenOf, IsActive

\* The steps in which a call returns.
LEMMA ReturningSteps ==
  ASSUME OneCaller, Sure, Next, NEW t \in callers, Returns(t, "ok"),
         task[t].op \in {"login", "logout"}
  PROVE  LoginWithApiToken(t) \/ ApiLoggedIn(t) \/ SudoLoggedIn(t) \/ LoggedOut(t)
<1> USE DEF session
<1>0. /\ TypeOK /\ task[t] \in Frame /\ Course(task[t])
      /\ task[t].pc # "idle" /\ task'[t].pc = "idle" /\ task'[t].result = "ok"
  BY DEF Sure, Solo, OwnerInv, TypeOK, Returns
<1>1. ASSUME NEW s \in callers, Call(s) PROVE FALSE
  BY <1>0, <1>1 DEF OneCaller, Call, Login, Authenticate, Logout
<1>2. ASSUME NEW s \in callers, Answer(s) PROVE FALSE
  <2>1. s = t
    BY DEF OneCaller
  <2>2. \/ \E a \in {"ok", "failed"} : task' = [task EXCEPT ![t].answer = a]
        \/ \E k \in Tokens : task' = [task EXCEPT ![t].answer = "ok", ![t].got = k]
    BY <1>2, <2>1 DEF Answer, AnswerApiLogin, AnswerSudoLogin, AnswerLogout, Grant, Refuse
  <2>3. task'[t].pc = task[t].pc
    BY <1>0, <2>2 DEF TypeOK, Frame
  <2>4. QED
    BY <1>0, <2>3
<1>3. ~Expire
  BY <1>0 DEF Expire
<1>4. ~RequestFailed(t)
  <2>1. RequestFailed(t) => task'[t].result = "error"
    BY <1>0 DEF RequestFailed, TypeOK, Return, Idle
  <2>2. QED
    BY <1>0, <2>1
<1>5. ~AttachHeader(t)
  BY <1>0 DEF AttachHeader, Course
<1>6. ~SudoLoggedOut(t)
  BY <1>0 DEF SudoLoggedOut, TypeOK, Frame
<1>7. ~LoginFresh(t)
  <2>1. CASE task' = [task EXCEPT ![t].pc = "apiSent", ![t].answer = "none", ![t].got = NoToken]
    BY <1>0, <2>1 DEF TypeOK, Frame
  <2>2. CASE task' = [task EXCEPT ![t] = Return("error")]
    <3>1. task'[t].result = "error"
      BY <1>0, <2>2 DEF TypeOK, Return, Idle
    <3>2. QED
      BY <1>0, <3>1
  <2>3. QED
    BY <2>1, <2>2 DEF LoginFresh
<1>8. PICK s \in callers : Resume(s)
  BY <1>1, <1>2, <1>3 DEF Next
<1>9. s = t
  BY DEF OneCaller
<1>10. QED
  BY <1>4, <1>5, <1>6, <1>7, <1>8, <1>9 DEF Resume

\* A call that returns from its login has no logout around it that a login is
\* waiting for.
LEMMA LeaveLoginReturns ==
  ASSUME NEW f \in Frame, NEW sudo, LeaveLogin(f, sudo).pc = "idle"
  PROVE  f.relogin => f.outer = Nobody
<1>1. f.relogin /\ f.outer # Nobody => LeaveLogin(f, sudo).pc = "loggedOut"
  BY LeaveLogoutFields DEF LeaveLogin
<1>2. QED
  BY <1>1

LEMMA SendSudoStays ==
  ASSUME NEW f \in Frame, NEW k PROVE SendSudo(f, k).pc # "idle"
BY SendSudoFields

\* The API token just granted is active, and the session acts as the API user.
LEMMA ApiLoggedInActs ==
  ASSUME OneCaller, Sure, Sure', NEW t \in callers, ApiLoggedIn(t)
  PROVE  /\ sudoId = NoUser /\ sudoId' = NoUser /\ sudoTok' = NoToken
         /\ task'[t] = LeaveLogin(task[t], NoToken)
         /\ authTok' = task[t].got /\ authTok' # task[t].dying
         /\ IsActive(authTok)' /\ Who' = ApiUser
<1>1. /\ task[t].pc = "apiSent" /\ task[t].answer = "ok" /\ authTok' = task[t].got
      /\ UNCHANGED <<sudoId, sudoTok, expired>>
  BY DEF ApiLoggedIn
<1>2. sudoId = NoUser /\ sudoTok = NoToken /\ TypeOK
  BY <1>1 DEF Sure, Solo, SoloAt, OwnerInv
<1>3. /\ task[t].got \in Tokens
      /\ task[t].got \notin expired \union {authTok, sudoTok, task[t].dying}
  <2>1. t \in Tasks
    BY DEF Sure, Solo, OwnerInv, TypeOK
  <2>2. QED
    BY <1>1, <2>1 DEF Sure, Solo, OwnerInv, AnswerOwned, Stakes
<1>4. IsActive(authTok)'
  BY <1>1, <1>3, TokensAreNotNoToken DEF IsActive
<1>5. Who' = ApiUser
  BY <1>1, <1>2, <1>4 DEF Sure, Solo, OwnerInv, SlotOwners, Who, IsAuthenticated, ActiveToken,
     ActiveTokenOf, IsActive
<1>6. task'[t] = LeaveLogin(task[t], NoToken)
  BY <1>2 DEF ApiLoggedIn, TypeOK
<1>7. QED
  BY <1>1, <1>2, <1>3, <1>4, <1>5, <1>6

\* The impersonated user's token just granted is active.
LEMMA SudoLoggedInActs ==
  ASSUME OneCaller, Sure, Sure', NEW t \in callers, SudoLoggedIn(t)
  PROVE  /\ task[t].newId \in Users /\ sudoId' = task[t].newId /\ ~task[t].relogin
         /\ IsActive(sudoTok)' /\ Who' = task[t].newId
         /\ task'[t] = LeaveLogin(task[t], sudoTok')
<1>1. /\ task[t].pc = "sudoSent" /\ task[t].answer = "ok" /\ sudoTok' = task[t].got
      /\ UNCHANGED <<sudoId, authTok, expired, owner>>
  BY DEF SudoLoggedIn
<1>2. task[t].newId = sudoId /\ TypeOK /\ (task[t].relogin => task[t].newId = Undefined)
  BY <1>1 DEF Sure, Solo, SoloAt, OwnerInv
<1>3. /\ task[t].got \in Tokens /\ task[t].newId \in Users /\ owner[task[t].got] = task[t].newId
      /\ task[t].got \notin expired \union {authTok, sudoTok, task[t].dying}
  <2>1. t \in Tasks
    BY DEF Sure, Solo, OwnerInv, TypeOK
  <2>2. QED
    BY <1>1, <2>1 DEF Sure, Solo, OwnerInv, AnswerOwned, Stakes
<1>4. IsActive(sudoTok)'
  BY <1>1, <1>3, TokensAreNotNoToken DEF IsActive
<1>5. Who' = task[t].newId
  BY <1>1, <1>3, <1>4 DEF Who, IsAuthenticated, ActiveToken, ActiveTokenOf, IsActive
<1>6. ~task[t].relogin
  BY <1>2, <1>3, UsersAssumption DEF Undefined
<1>7. task'[t] = LeaveLogin(task[t], sudoTok')
  BY <1>2 DEF SudoLoggedIn, TypeOK
<1>8. QED
  BY <1>1, <1>2, <1>3, <1>4, <1>5, <1>6, <1>7

\* _logout after the DELETE: it is done, or the API user is logged in again first.
LEMMA LoggedOutGoesOn ==
  ASSUME TypeOK, NEW t \in callers, LoggedOut(t)
  PROVE  /\ sudoId' = NoUser /\ sudoTok' = NoToken /\ UNCHANGED <<expired, owner>>
         /\ \/ /\ task'[t] = LeaveLogout(task[t])
               /\ \/ sudoId # NoUser /\ authTok' = authTok /\ IsActive(authTok)
                  \/ sudoId = NoUser /\ authTok' = NoToken
            \/ task'[t].pc = "ready"
<1> DEFINE again == [task[t] EXCEPT !.pc = "ready", !.newId = Undefined,
                                    !.relogin = TRUE, !.answer = "none"]
<1>1. task[t] \in Frame
  BY DEF TypeOK
<1>2. again.pc = "ready"
  BY <1>1 DEF Frame
<1>3. /\ sudoId' = NoUser /\ sudoTok' = NoToken /\ UNCHANGED <<expired, owner>>
      /\ \/ /\ sudoId # NoUser /\ authTok' = authTok
            /\ task' = [task EXCEPT ![t] =
                 IF IsActive(authTok) THEN LeaveLogout(task[t]) ELSE again]
         \/ /\ sudoId = NoUser /\ authTok' = NoToken
            /\ task' = [task EXCEPT ![t] = LeaveLogout(task[t])]
  BY DEF LoggedOut
<1> HIDE DEF again
<1>4. \/ /\ sudoId # NoUser /\ authTok' = authTok
         /\ task'[t] = IF IsActive(authTok) THEN LeaveLogout(task[t]) ELSE again
      \/ /\ sudoId = NoUser /\ authTok' = NoToken
         /\ task'[t] = LeaveLogout(task[t])
  BY <1>3 DEF TypeOK
<1>5. QED
  BY <1>2, <1>3, <1>4

\* One caller at a time: a login for a user that succeeds leaves the session acting
\* for that user and saying so, unless the API token was fetched last.
THEOREM LoginImpersonatesAlone == Spec => LoginImpersonates
<1>1. (OneCaller => Sure) /\ (OneCaller => Sure)' /\ [Next]_vars =>
        [\A t \in callers :
           /\ OneCaller /\ task[t].op = "login" /\ task[t].arg \in Users
           /\ Returns(t, "ok") /\ task[t].pc # "apiSent"
           => sudoId' = task[t].arg /\ Who' = task[t].arg]_vars
  <2> SUFFICES ASSUME OneCaller, Sure, Sure', Next, NEW t \in callers, task[t].op = "login",
                      task[t].arg \in Users, Returns(t, "ok"), task[t].pc # "apiSent"
               PROVE  sudoId' = task[t].arg /\ Who' = task[t].arg
    BY AloneStays
  <2>1. LoginWithApiToken(t) \/ ApiLoggedIn(t) \/ SudoLoggedIn(t) \/ LoggedOut(t)
    BY ReturningSteps
  <2>2. /\ TypeOK /\ task[t] \in Frame /\ Course(task[t]) /\ SoloAt(task[t])
        /\ task'[t].pc = "idle"
    BY DEF Sure, Solo, OwnerInv, TypeOK, Returns
  <2>3. Target(task[t]) = task[t].arg /\ task[t].arg # Undefined /\ task[t].arg # Nobody
    BY UsersAssumption DEF Target, NoUser, Undefined, Nobody
  <2>4. ~task[t].relogin \/ task[t].outer # Nobody
    BY <2>2, <2>3 DEF Course
  <2>5. ~LoginWithApiToken(t)
    <3> SUFFICES ASSUME LoginWithApiToken(t) PROVE FALSE
      OBVIOUS
    <3>1. /\ task[t].pc = "ready"
          /\ sudoId' = IF task[t].newId = Undefined THEN NoUser ELSE task[t].newId
          /\ task'[t] = IF sudoId' # NoUser THEN SendSudo(task[t], ActiveToken)
                                            ELSE LeaveLogin(task[t], sudoTok)
      BY <2>2 DEF LoginWithApiToken, TypeOK
    <3>2. CASE task[t].relogin
      <4>1. sudoId' = NoUser
        BY <2>2, <3>1, <3>2 DEF SoloAt
      <4>2. LeaveLogin(task[t], sudoTok).pc = "idle"
        BY <2>2, <3>1, <4>1
      <4>3. QED
        BY <2>2, <2>4, <3>2, <4>2, LeaveLoginReturns
    <3>3. CASE ~task[t].relogin
      <4>1. task[t].newId = task[t].arg
        BY <2>2, <2>3, <3>1, <3>3 DEF Course
      <4>2. sudoId' # NoUser
        BY <2>3, <3>1, <4>1, UsersAssumption DEF NoUser
      <4>3. SendSudo(task[t], ActiveToken).pc = "idle"
        BY <2>2, <3>1, <4>2
      <4>4. QED
        BY <2>2, <4>3, SendSudoStays
    <3>4. QED
      BY <3>2, <3>3
  <2>6. ~ApiLoggedIn(t)
    BY DEF ApiLoggedIn
  <2>7. CASE SudoLoggedIn(t)
    <3>1. task[t].pc = "sudoSent" /\ ~task[t].relogin
      BY <2>7, SudoLoggedInActs DEF SudoLoggedIn
    <3>2. task[t].newId = task[t].arg
      BY <2>2, <2>3, <3>1 DEF Course
    <3>3. QED
      BY <2>7, <3>1, <3>2, SudoLoggedInActs
  <2>8. ~LoggedOut(t)
    <3> SUFFICES ASSUME LoggedOut(t) PROVE FALSE
      OBVIOUS
    <3>1. task[t].pc = "logoutSent"
      BY DEF LoggedOut
    <3>2. task[t].outer # Nobody
      BY <2>2, <2>3, <3>1 DEF Course
    <3>3. \/ task'[t] = LeaveLogout(task[t])
          \/ task'[t].pc = "ready"
      BY <2>2, LoggedOutGoesOn
    <3>4. LeaveLogout(task[t]).pc = "loggedOut"
      BY <2>2, <3>2, LeaveLogoutFields
    <3>5. QED
      BY <2>2, <3>3, <3>4
  <2>9. QED
    BY <2>1, <2>5, <2>6, <2>7, <2>8
<1>2. QED
  BY <1>1, SureHolds, PTL DEF Spec, LoginImpersonates

\* One caller at a time: the token object getToken() hands over is active, but for a
\* sudo token that expired while the API token lives, which nothing renews.
THEOREM GetTokenIsActiveAlone == Spec => GetTokenIsActive
<1>1. (OneCaller => Sure) /\ (OneCaller => Sure)' /\ [Next]_vars =>
        [\A t \in callers : OneCaller /\ task[t].pc # "holding" /\ task'[t].pc = "holding"
           => IsAuthenticated' \/ (task'[t].slot = "sudo" /\ IsActive(authTok)')]_vars
  <2> SUFFICES ASSUME OneCaller, Sure, Sure', Next, NEW t \in callers, task[t].pc # "holding",
                      task'[t].pc = "holding"
               PROVE  IsAuthenticated' \/ (task'[t].slot = "sudo" /\ IsActive(authTok)')
    BY AloneStays
  <2> USE DEF session
  <2>0. TypeOK /\ task[t] \in Frame
    BY DEF Sure, Solo, OwnerInv, TypeOK
  <2>1. ASSUME NEW s \in callers, Call(s) PROVE IsAuthenticated'
    <3>1. s = t
      BY DEF OneCaller
    <3>2. ASSUME NEW f \in Frame, NEW id \in Ids PROVE EnterLogin(f, id).pc # "holding"
      BY EnterLoginMove
    <3>3. ASSUME NEW id \in Ids \union {NoUser}, Login(t, id) PROVE FALSE
      <4> DEFINE f == Begin("login", id)
                 n == IF id = NoUser THEN Undefined ELSE id
      <4>1. f \in Frame /\ n \in Ids /\ f.op = "login"
        BY BeginFrame DEF Ids, Begin, Idle
      <4>2. task'[t] = HandOver(f, sudoTok) \/ task'[t] = EnterLogin(f, n)
        BY <2>0, <3>3 DEF Login, TypeOK
      <4> HIDE DEF f, n
      <4>3. HandOver(f, sudoTok).pc # "holding"
        BY <4>1, HandOverMove
      <4>4. QED
        BY <3>2, <4>1, <4>2, <4>3
    <3>4. CASE Authenticate(t)
      <4> DEFINE f == Begin("authenticate", Undefined)
      <4>1. f \in Frame
        BY BeginFrame DEF Ids
      <4>2. IsAuthenticated \/ task'[t] = EnterLogin(f, Undefined)
        BY <2>0, <3>4 DEF Authenticate, TypeOK
      <4> HIDE DEF f
      <4>3. IsAuthenticated
        BY <3>2, <4>1, <4>2 DEF Ids
      <4>4. QED
        BY <3>4, <4>3 DEF Authenticate, IsAuthenticated, ActiveToken, ActiveTokenOf, IsActive
    <3>5. ASSUME Logout(t) PROVE FALSE
      <4> DEFINE f == Begin("logout", Undefined)
      <4>1. f \in Frame
        BY BeginFrame DEF Ids
      <4>2. task'[t] = SendLogout(f) \/ task'[t] = Return("false")
        BY <2>0, <3>5 DEF Logout, TypeOK
      <4> HIDE DEF f
      <4>3. QED
        BY <4>1, <4>2, SendLogoutMove, ReturnMove
    <3>6. QED
      BY <2>1, <3>1, <3>3, <3>4, <3>5 DEF Call
  <2>2. ASSUME NEW s \in callers, Answer(s) PROVE FALSE
    <3>1. s = t
      BY DEF OneCaller
    <3>2. \/ \E a \in {"ok", "failed"} : task' = [task EXCEPT ![t].answer = a]
          \/ \E k \in Tokens : task' = [task EXCEPT ![t].answer = "ok", ![t].got = k]
      BY <2>2, <3>1 DEF Answer, AnswerApiLogin, AnswerSudoLogin, AnswerLogout, Grant, Refuse
    <3>3. task'[t].pc = task[t].pc
      BY <2>0, <3>2 DEF TypeOK, Frame
    <3>4. QED
      BY <3>3
  <2>3. ~Expire
    BY DEF Expire
  <2>4. PICK s \in callers : Call(s) \/ Resume(s)
    BY <2>2, <2>3 DEF Next
  <2>5. s = t
    BY DEF OneCaller
  <2>6. ~AttachHeader(t) /\ ~RequestFailed(t) /\ ~SudoLoggedOut(t) /\ ~LoginFresh(t)
    <3>1. ~AttachHeader(t)
      BY DEF AttachHeader
    <3>2. ~RequestFailed(t)
      BY <2>0, ReturnMove DEF RequestFailed, TypeOK
    <3>3. ~SudoLoggedOut(t)
      BY <2>0 DEF SudoLoggedOut, TypeOK, Frame
    <3>4. CASE task' = [task EXCEPT ![t].pc = "apiSent", ![t].answer = "none", ![t].got = NoToken]
      BY <2>0, <3>1, <3>2, <3>3, <3>4 DEF TypeOK, Frame
    <3>5. CASE task' = [task EXCEPT ![t] = Return("error")]
      BY <2>0, <3>5, ReturnMove DEF TypeOK
    <3>6. QED
      BY <3>1, <3>2, <3>3, <3>4, <3>5 DEF LoginFresh
  <2>7. ~LoggedOut(t)
    <3>1. LeaveLogout(task[t]).pc # "holding"
      BY <2>0, LeaveLogoutMove
    <3>2. LoggedOut(t) => task'[t] = LeaveLogout(task[t]) \/ task'[t].pc = "ready"
      BY <2>0, LoggedOutGoesOn
    <3>3. QED
      BY <3>1, <3>2
  <2>8. CASE LoginWithApiToken(t)
    <3>1. /\ IsActive(authTok)' /\ UNCHANGED <<authTok, sudoTok, expired>>
          /\ \/ task'[t] = SendSudo(task[t], ActiveToken)
             \/ task'[t] = LeaveLogin(task[t], sudoTok)
      BY <2>0, <2>8 DEF LoginWithApiToken, TypeOK, IsActive
    <3>2. task'[t] = LeaveLogin(task[t], sudoTok)
      BY <2>0, <3>1, SendSudoMove
    <3>3. task'[t].slot = IF sudoTok # NoToken THEN "sudo" ELSE "auth"
      <4> DEFINE g == LeaveLogin(task[t], sudoTok)
      <4>1. g.pc = "holding" => g.slot = IF sudoTok # NoToken THEN "sudo" ELSE "auth"
        BY <2>0, LeaveLoginMove
      <4> HIDE DEF g
      <4>2. task'[t] = g
        BY <3>2 DEF g
      <4>3. QED
        BY <4>1, <4>2
    <3>4. sudoTok' = NoToken => IsAuthenticated'
      BY <3>1 DEF IsAuthenticated, ActiveToken, ActiveTokenOf
    <3>5. QED
      BY <3>1, <3>3, <3>4
  <2>9. CASE ApiLoggedIn(t)
    BY <2>9, ApiLoggedInActs DEF IsAuthenticated, ActiveToken, ActiveTokenOf
  <2>10. CASE SudoLoggedIn(t)
    <3>1. IsActive(sudoTok)'
      BY <2>10, SudoLoggedInActs
    <3>2. QED
      BY <3>1 DEF IsAuthenticated, ActiveToken, ActiveTokenOf, IsActive
  <2>11. QED
    BY <2>1, <2>4, <2>5, <2>6, <2>7, <2>8, <2>9, <2>10 DEF Resume
<1>2. QED
  BY <1>1, SureHolds, PTL DEF Spec, GetTokenIsActive

\* One caller at a time: a logout that reports success leaves the session acting as
\* the API user if it logged an impersonated user out, and the token it logged out in
\* neither slot - but for an API token logged out while sudoId names a user.
THEOREM LogoutTakesEffectAlone == Spec => LogoutTakesEffect
<1>1. (OneCaller => Sure) /\ (OneCaller => Sure)' /\ [Next]_vars =>
        [\A t \in callers :
           OneCaller /\ task[t].op = "logout" /\ Returns(t, "ok") =>
             LET impersonated == owner[task[t].dying] \in Users IN
               /\ impersonated => Who' = ApiUser
               /\ impersonated \/ sudoId = NoUser =>
                    task[t].dying \notin {authTok', sudoTok'}]_vars
  <2> SUFFICES ASSUME OneCaller, Sure, Sure', Next, NEW t \in callers, task[t].op = "logout", Returns(t, "ok")
               PROVE  /\ owner[task[t].dying] \in Users => Who' = ApiUser
                      /\ owner[task[t].dying] \in Users \/ sudoId = NoUser =>
                           task[t].dying \notin {authTok', sudoTok'}
    BY AloneStays
  <2>1. LoginWithApiToken(t) \/ ApiLoggedIn(t) \/ SudoLoggedIn(t) \/ LoggedOut(t)
    BY ReturningSteps
  <2>2. /\ TypeOK /\ OwnerInv /\ OwnerInv' /\ Course(task[t]) /\ Stakes(task[t])
        /\ task'[t].pc = "idle"
    BY DEF Sure, Solo, OwnerInv, Returns
  <2>3. /\ task[t].pc \in {"logoutSent", "ready", "apiSent"}
        /\ task[t].pc = "logoutSent" \/ task[t].relogin
        /\ task[t].dying # NoToken
    BY <2>2 DEF Course, Stakes
  <2>4. ~LoginWithApiToken(t)
    BY <2>2, <2>3 DEF LoginWithApiToken, Stakes
  <2>5. ~SudoLoggedIn(t)
    BY <2>3 DEF SudoLoggedIn
  <2>6. CASE ApiLoggedIn(t)
    BY <2>3, <2>6, ApiLoggedInActs
  <2>7. CASE LoggedOut(t)
    <3>1. /\ sudoId' = NoUser /\ sudoTok' = NoToken /\ UNCHANGED <<expired, owner>>
          /\ \/ sudoId # NoUser /\ authTok' = authTok /\ IsActive(authTok)
             \/ sudoId = NoUser /\ authTok' = NoToken
      BY <2>2, <2>7, LoggedOutGoesOn
    <3>2. owner[task[t].dying] \in Users => sudoId # NoUser
      BY <2>2, <2>7 DEF LoggedOut, Stakes
    <3>3. CASE sudoId # NoUser /\ authTok' = authTok /\ IsActive(authTok)
      <4>1. IsActive(authTok)'
        BY <3>1, <3>3 DEF IsActive
      <4>2. Who' = ApiUser
        BY <2>2, <3>1, <4>1 DEF OwnerInv, SlotOwners, Who, IsAuthenticated, ActiveToken,
           ActiveTokenOf, IsActive
      <4>3. owner[authTok] = ApiUser
        BY <2>2, <3>3 DEF OwnerInv, SlotOwners, IsActive
      <4>4. owner[task[t].dying] \in Users => task[t].dying # authTok
        BY <4>3, UsersAssumption
      <4>5. QED
        BY <2>3, <3>1, <3>3, <4>2, <4>4
    <3>4. CASE sudoId = NoUser /\ authTok' = NoToken
      BY <2>3, <3>1, <3>2, <3>4
    <3>5. QED
      BY <3>1, <3>3, <3>4
  <2>8. QED
    BY <2>1, <2>4, <2>5, <2>6, <2>7
<1>2. QED
  BY <1>1, SureHolds, PTL DEF Spec, LogoutTakesEffect
============================================================================
