------------------------- MODULE OAuthSessionProofs -------------------------
(***************************************************************************)
(* Theorems about OAuthSession for any bounds: what holds for any number   *)
(* of callers, and what holds when calls are made one at a time by callers *)
(* who wait while the browser leaves the page.                             *)
(***************************************************************************)
EXTENDS OAuthSession, TLAPS

OneCaller == Patient /\ \A s, t \in Tasks : s = t

----------------------------------------------------------------------------
(* Types.                                                                  *)

LEMMA IdleFrame == Idle \in Frame
BY DEF Idle, Frame

LEMMA ReturnFrame ==
  ASSUME NEW result \in {"none", "ok", "false", "error"}
  PROVE  Return(result) \in Frame /\ Return(result).pc = "idle"
BY DEF Return, Idle, Frame

LEMMA FetchTokenFrame ==
  ASSUME TypeOK
  PROVE  /\ FetchToken \in Frame
         /\ FetchToken.pc \in {"idle", "refreshing"}
         /\ FetchToken.pc = "refreshing" => refresh # None
<1>1. CASE ~IsAuthenticated /\ refresh # None
  <2>1. FetchToken = SendRefresh
    BY <1>1 DEF FetchToken
  <2>2. SendRefresh \in Frame /\ SendRefresh.pc = "refreshing"
    BY DEF SendRefresh, Idle, Frame, TypeOK
  <2>3. QED
    BY <1>1, <2>1, <2>2
<1>2. CASE ~(~IsAuthenticated /\ refresh # None)
  <2>1. FetchToken = Return("ok")
    BY <1>2 DEF FetchToken
  <2>2. QED
    BY <2>1, ReturnFrame
<1>3. QED
  BY <1>1, <1>2

\* A call that changes only its own frame.
LEMMA OneFrame ==
  ASSUME TypeOK, NEW t \in Tasks, NEW f \in Frame, call' = [call EXCEPT ![t] = f]
  PROVE  call' \in [Tasks -> Frame] /\ call'[t] = f
BY DEF TypeOK

\* What an answer changes of a frame.
LEMMA GrantedFrame ==
  ASSUME NEW f \in Frame,
         NEW k \in {None} \union Tokens, NEW keep \in {None} \union Logins,
         NEW g, g = [f EXCEPT !.answer = "ok", !.got = k, !.keep = keep]
  PROVE  g \in Frame
BY DEF Frame

LEMMA MarkedFrame ==
  ASSUME NEW f \in Frame, NEW answer \in {"ok", "failed"},
         NEW g, g = [f EXCEPT !.answer = answer]
  PROVE  g \in Frame /\ g.pc = f.pc /\ g.ver = f.ver /\ g.answer = answer
<1>1. g \in Frame
  BY DEF Frame
<1>2. g.pc = f.pc /\ g.ver = f.ver /\ g.answer = answer
  BY DEF Frame
<1>3. QED
  BY <1>1, <1>2

\* A granted answer carries a token, and an answer of the server moves no caller.
LEMMA ServerStep ==
  ASSUME TypeOK, NEW t \in Tasks,
         AnswerCode(t) \/ AnswerRefresh(t) \/ AnswerLogout(t)
  PROVE  \E g \in Frame :
           /\ call' = [call EXCEPT ![t] = g]
           /\ g.pc = call[t].pc /\ g.ver = call[t].ver
           /\ g.answer = "ok" /\ g.pc \in {"redeeming", "refreshing"} => g.got # None
           /\ UNCHANGED <<storage, active, expired, browser, made>>
<1>0. call[t] \in Frame
  BY DEF TypeOK
<1>1. CASE Refuse(t)
  <2>1. PICK g : g = [call[t] EXCEPT !.answer = "failed"]
    OBVIOUS
  <2>2. g \in Frame /\ g.pc = call[t].pc /\ g.ver = call[t].ver /\ g.answer = "failed"
    BY <1>0, <2>1, MarkedFrame
  <2>3. call' = [call EXCEPT ![t] = g] /\ UNCHANGED <<storage, active, expired, browser, made>>
    BY <1>1, <2>1 DEF Refuse, Answer
  <2>4. QED
    BY <2>2, <2>3
<1>2. CASE Grant(t)
  <2>1. PICK k \in Tokens, keep \in {None, call[t].code} :
          Answer(t, [call[t] EXCEPT !.answer = "ok", !.got = k, !.keep = keep])
    BY <1>2 DEF Grant
  <2>2. keep \in {None} \union Logins /\ k \in {None} \union Tokens /\ k # None
    BY <1>0 DEF Frame, Tokens, None
  <2>3. PICK g : g = [call[t] EXCEPT !.answer = "ok", !.got = k, !.keep = keep]
    OBVIOUS
  <2>4. g \in Frame /\ g.pc = call[t].pc /\ g.ver = call[t].ver /\ g.got = k
    <3> DEFINE f == call[t]
    <3>1. f \in Frame /\ g = [f EXCEPT !.answer = "ok", !.got = k, !.keep = keep]
      BY <1>0, <2>3
    <3> HIDE DEF f
    <3>2. g \in Frame
      BY <2>2, <3>1, GrantedFrame
    <3>3. g.pc = f.pc /\ g.ver = f.ver /\ g.got = k
      BY <3>1 DEF Frame
    <3>4. QED
      BY <3>2, <3>3 DEF f
  <2>5. call' = [call EXCEPT ![t] = g] /\ UNCHANGED <<storage, active, expired, browser, made>>
    BY <2>1, <2>3 DEF Answer
  <2>6. QED
    BY <2>2, <2>4, <2>5
<1>3. ASSUME NEW answer \in {"ok", "failed"}, call[t].pc = "loggingOut",
             Answer(t, [call[t] EXCEPT !.answer = answer])
      PROVE  \E g \in Frame :
               /\ call' = [call EXCEPT ![t] = g]
               /\ g.pc = "loggingOut" /\ g.ver = call[t].ver
               /\ UNCHANGED <<storage, active, expired, browser, made>>
  <2>1. PICK g : g = [call[t] EXCEPT !.answer = answer]
    OBVIOUS
  <2>2. g \in Frame /\ g.pc = call[t].pc /\ g.ver = call[t].ver
    BY <1>0, <2>1, MarkedFrame
  <2>3. QED
    BY <1>3, <2>1, <2>2 DEF Answer
<1>4. CASE AnswerLogout(t) /\ ~Refuse(t)
  <2>1. PICK answer \in {"ok", "failed"} : Answer(t, [call[t] EXCEPT !.answer = answer])
    BY <1>4 DEF AnswerLogout
  <2>2. call[t].pc = "loggingOut"
    BY <1>4 DEF AnswerLogout
  <2>3. QED
    BY <1>3, <2>1, <2>2
<1>5. QED
  BY <1>1, <1>2, <1>4 DEF AnswerCode, AnswerRefresh

LEMMA ServerTypes ==
  ASSUME TypeOK, NEW t \in Tasks,
         AnswerCode(t) \/ AnswerRefresh(t) \/ AnswerLogout(t)
  PROVE  /\ issued' \in [Tokens -> {None} \union Logins]
         /\ spent' \in SUBSET ({None} \union Logins)
         /\ ended' \in SUBSET ({None} \union Logins)
<1>0. /\ call[t].code \in {None} \union Logins /\ call[t].dying \in {None} \union Logins
      /\ issued \in [Tokens -> {None} \union Logins]
      /\ spent \in SUBSET ({None} \union Logins)
      /\ ended \in SUBSET ({None} \union Logins)
  BY DEF TypeOK, Frame
<1>1. ASSUME Grant(t) PROVE issued' \in [Tokens -> {None} \union Logins]
  BY <1>0, <1>1 DEF Grant
<1>2. QED
  BY <1>0, <1>1 DEF AnswerCode, AnswerRefresh, AnswerLogout, Refuse, server

LEMMA NextType == TypeOK /\ [Next]_vars => TypeOK'
<1> SUFFICES ASSUME TypeOK, [Next]_vars PROVE TypeOK'
  OBVIOUS
<1> USE DEF storage, active, browser, server
<1>1. ASSUME NEW t \in Tasks, NEW f \in Frame, call' = [call EXCEPT ![t] = f]
      PROVE  call' \in [Tasks -> Frame]
  BY <1>1 DEF TypeOK
<1>2. CASE UNCHANGED vars
  BY <1>2 DEF vars, TypeOK
<1>3. ASSUME NEW t \in Tasks, GetToken(t) \/ FetchRedeemed(t) PROVE TypeOK'
  BY <1>1, <1>3, FetchTokenFrame DEF GetToken, FetchRedeemed, TypeOK
<1>4. ASSUME NEW t \in Tasks, LoginAgain(t) \/ RequestFailed(t) PROVE TypeOK'
  BY <1>1, <1>4, ReturnFrame DEF LoginAgain, RequestFailed, TypeOK
<1>5. ASSUME NEW t \in Tasks, StartLogin(t) PROVE TypeOK'
  <2>1. made' \in Logins
    BY <1>5, MaxLoginsAssumption DEF StartLogin, TypeOK, Logins, None
  <2>2. [Idle EXCEPT !.pc = "hashing", !.ver = made'] \in Frame
    BY <2>1 DEF Idle, Frame
  <2>3. QED
    BY <1>1, <1>5, <2>1, <2>2 DEF StartLogin, TypeOK
<1>6. ASSUME NEW t \in Tasks, LeaveForAuth(t) PROVE TypeOK'
  <2>1. target' \in {None} \union Logins
    BY <1>6 DEF LeaveForAuth, TypeOK, Frame
  <2>2. QED
    BY <1>1, <1>6, <2>1, FetchTokenFrame DEF LeaveForAuth, TypeOK
<1>7. ASSUME NEW t \in Tasks, ReturnFromAuth(t) PROVE TypeOK'
  <2>1. [Idle EXCEPT !.pc = "redeeming",
                     !.code = url, !.ver = verifier] \in Frame
    BY DEF Idle, Frame, TypeOK
  <2>2. call' \in [Tasks -> Frame]
    BY <1>1, <1>7, <2>1, ReturnFrame DEF ReturnFromAuth
  <2>3. QED
    BY <1>7, <2>2 DEF ReturnFromAuth, TypeOK
<1>8. ASSUME NEW t \in Tasks, TokenReceived(t) PROVE TypeOK'
  <2>1. call[t].got \in {None} \union Tokens /\ call[t].keep \in {None} \union Logins
    BY DEF TypeOK, Frame
  <2>2. access' \in {None} \union Tokens /\ refresh' \in {None} \union Logins
    BY <1>8, <2>1 DEF TokenReceived, SetToken, TypeOK
  <2>3. [Idle EXCEPT !.pc = "redeemed"] \in Frame
    BY DEF Idle, Frame
  <2>4. call' \in [Tasks -> Frame]
    BY <1>1, <1>8, <2>3, ReturnFrame DEF TokenReceived
  <2>5. QED
    BY <1>8, <2>2, <2>4 DEF TokenReceived, TypeOK
<1>9. ASSUME NEW t \in Tasks, Logout(t) PROVE TypeOK'
  <2>1. ASSUME access # None
        PROVE  [Idle EXCEPT !.pc = "loggingOut",
                            !.dying = issued[access]] \in Frame
    BY <2>1 DEF Idle, Frame, TypeOK
  <2>2. call' \in [Tasks -> Frame]
    BY <1>1, <1>9, <2>1, ReturnFrame DEF Logout
  <2>3. QED
    BY <1>9, <2>2 DEF Logout, TypeOK
<1>10. ASSUME NEW t \in Tasks, LoggedOut(t) PROVE TypeOK'
  BY <1>1, <1>10, ReturnFrame DEF LoggedOut, TypeOK
<1>11. ASSUME NEW t \in Tasks, AnswerCode(t) \/ AnswerRefresh(t) \/ AnswerLogout(t)
       PROVE  TypeOK'
  BY <1>1, <1>11, ServerStep, ServerTypes DEF TypeOK
<1>12. ASSUME Expire \/ LeaveAuth \/ Restore PROVE TypeOK'
  BY <1>12 DEF Expire, LeaveAuth, Restore, TypeOK, IsAuthenticated, IsActive
<1>13. ASSUME Unload \/ Reload PROVE TypeOK'
  BY <1>13, IdleFrame DEF Unload, Reload, PageLost, TypeOK
<1>14. QED
  BY <1>2, <1>3, <1>4, <1>5, <1>6, <1>7, <1>8, <1>9, <1>10, <1>11, <1>12, <1>13 DEF Next

LEMMA InitType == Init => TypeOK
BY IdleFrame DEF Init, TypeOK

\* Every variable keeps its type, for any number of callers.
THEOREM TypeCorrect == Spec => []TypeOK
BY InitType, NextType, PTL DEF Spec

----------------------------------------------------------------------------
(* Any number of callers.                                                  *)

\* No answer takes the refresh token from a session that keeps its access token:
\* setToken keeps the old one, and nothing else but a logout and the end of the
\* page writes it.
THEOREM RefreshKeptHolds == Spec => RefreshKept
<1>1. ASSUME [Next]_vars, refresh # None, refresh' = None
      PROVE  access' = None
  <2> USE <1>1 DEF active, server, browser
  <2>1. CASE UNCHANGED vars
    BY <2>1 DEF vars
  <2>2. ASSUME NEW t \in Tasks,
               GetToken(t) \/ LoginAgain(t) \/ StartLogin(t) \/ ReturnFromAuth(t)
                 \/ Logout(t) \/ LeaveForAuth(t) \/ FetchRedeemed(t) \/ RequestFailed(t)
        PROVE  FALSE
    BY <2>2 DEF GetToken, LoginAgain, StartLogin, ReturnFromAuth, Logout,
                LeaveForAuth, FetchRedeemed, RequestFailed
  <2>3. ASSUME NEW t \in Tasks, AnswerCode(t) \/ AnswerRefresh(t) \/ AnswerLogout(t)
        PROVE  FALSE
    BY <2>3 DEF AnswerCode, AnswerRefresh, AnswerLogout, Refuse, Grant, Answer
  <2>4. ASSUME NEW t \in Tasks, TokenReceived(t)
        PROVE  FALSE
    BY <2>4 DEF TokenReceived, SetToken
  <2>5. ASSUME NEW t \in Tasks, LoggedOut(t)
        PROVE  access' = None
    BY <2>5 DEF LoggedOut
  <2>6. ASSUME Expire \/ LeaveAuth \/ Restore
        PROVE  FALSE
    BY <2>6 DEF Expire, LeaveAuth, Restore
  <2>7. ASSUME Unload \/ Reload
        PROVE  access' = None
    BY <2>7 DEF Unload, Reload, PageLost
  <2>8. QED
    BY <2>1, <2>2, <2>3, <2>4, <2>5, <2>6, <2>7 DEF Next
<1>2. [Next]_vars => [refresh # None /\ refresh' = None => access' = None]_vars
  BY <1>1
<1>3. QED
  BY <1>2, PTL DEF Spec, RefreshKept

----------------------------------------------------------------------------
(* One caller.                                                             *)

\* A login on its way keeps its verifier and the mark in the session storage, and
\* the caller does nothing that could touch them.
LoginHeld ==
  /\ page = "auth" => target # None
  /\ target # None => returnUrl /\ verifier = target

\* What each await implies.
Parked ==
  \A t \in Tasks :
    /\ page = "auth" => call[t].pc = "idle"
    /\ call[t].pc = "hashing" =>
         page = "app" /\ target = None /\ verifier = call[t].ver /\ verifier # None
    /\ call[t].pc = "refreshing" => access # None
    /\ call[t].pc = "loggingOut" => target = None
    /\ call[t].answer = "ok" /\ call[t].pc \in {"redeeming", "refreshing"} =>
         call[t].got # None

Alone == TypeOK /\ LoginHeld /\ (refresh # None => access # None) /\ Parked

LEMMA InitAlone == Init => Alone
BY InitType DEF Init, Alone, LoginHeld, Parked, Idle

LEMMA NextAlone ==
  ASSUME OneCaller, Alone, [Next]_vars
  PROVE  LoginHeld' /\ (refresh # None => access # None)' /\ Parked'
<1> USE DEF storage, active, browser, server
<1>0. TypeOK /\ LoginHeld /\ (refresh # None => access # None) /\ Parked
  BY DEF Alone
<1>1. ASSUME NEW t \in Tasks, NEW f, call' = [call EXCEPT ![t] = f]
      PROVE  \A s \in Tasks : call'[s] = f /\ call[s] = call[t]
  BY <1>0, <1>1 DEF OneCaller, TypeOK
<1>2. CASE UNCHANGED vars
  BY <1>0, <1>2 DEF vars, LoginHeld, Parked
<1>a. ASSUME NEW result PROVE Return(result).pc = "idle" /\ Return(result).answer = "none"
  BY DEF Return, Idle
<1>3. /\ FetchToken.pc \in {"idle", "refreshing"}
      /\ FetchToken.pc = "refreshing" => access # None
      /\ FetchToken.answer = "none"
  BY <1>0 DEF FetchToken, SendRefresh, Return, Idle
<1>4. ASSUME NEW t \in Tasks, GetToken(t) \/ FetchRedeemed(t)
      PROVE  LoginHeld' /\ (refresh # None => access # None)' /\ Parked'
  <2>1. \A s \in Tasks : call'[s] = FetchToken
    BY <1>1, <1>4 DEF GetToken, FetchRedeemed
  <2>2. page # "auth" /\ UNCHANGED <<storage, active, browser>>
    BY <1>0, <1>4 DEF GetToken, FetchRedeemed, Ready, Parked
  <2>3. QED
    BY <1>0, <1>3, <2>1, <2>2 DEF LoginHeld, Parked
<1>5. ASSUME NEW t \in Tasks, LoginAgain(t) \/ RequestFailed(t)
      PROVE  LoginHeld' /\ (refresh # None => access # None)' /\ Parked'
  <2>1. \A s \in Tasks : call'[s].pc = "idle" /\ call'[s].answer = "none"
    <3>1. \A s \in Tasks : call'[s] \in {Return("ok"), Return("error")}
      BY <1>1, <1>5 DEF LoginAgain, RequestFailed
    <3>2. QED
      BY <3>1, <1>a
  <2>2. UNCHANGED <<storage, active, browser>>
    BY <1>5 DEF LoginAgain, RequestFailed
  <2>3. QED
    BY <1>0, <2>1, <2>2 DEF LoginHeld, Parked
<1>6. ASSUME NEW t \in Tasks, StartLogin(t)
      PROVE  LoginHeld' /\ (refresh # None => access # None)' /\ Parked'
  <2>1. \A s \in Tasks : /\ call'[s].pc = "hashing" /\ call'[s].ver = made'
                         /\ call'[s].answer = "none"
    <3> DEFINE f == [Idle EXCEPT !.pc = "hashing", !.ver = made']
    <3>1. call' = [call EXCEPT ![t] = f]
      BY <1>6 DEF StartLogin
    <3>2. f.pc = "hashing" /\ f.ver = made' /\ f.answer = "none"
      BY DEF Idle
    <3> HIDE DEF f
    <3>3. QED
      BY <1>1, <3>1, <3>2
  <2>2. /\ page = "app" /\ target = None /\ verifier' = made' /\ made' # None
        /\ UNCHANGED <<returnUrl, active, browser>>
    BY <1>0, <1>6, MaxLoginsAssumption
       DEF StartLogin, Ready, OneCaller, TypeOK, Logins, None
  <2>3. QED
    BY <1>0, <2>1, <2>2 DEF LoginHeld, Parked
<1>7. ASSUME NEW t \in Tasks, LeaveForAuth(t)
      PROVE  LoginHeld' /\ (refresh # None => access # None)' /\ Parked'
  <2>1. \A s \in Tasks : call'[s] = FetchToken
    BY <1>1, <1>7 DEF LeaveForAuth
  <2>2. /\ page = "app" /\ returnUrl' /\ target' = verifier
        /\ UNCHANGED <<verifier, active, page>>
    BY <1>0, <1>7 DEF LeaveForAuth, Parked
  <2>3. QED
    BY <1>0, <1>3, <2>1, <2>2 DEF LoginHeld, Parked
<1>8. ASSUME NEW t \in Tasks, ReturnFromAuth(t)
      PROVE  LoginHeld' /\ (refresh # None => access # None)' /\ Parked'
  <2>1. \A s \in Tasks : call'[s].pc \in {"idle", "redeeming"} /\ call'[s].answer = "none"
    <3> DEFINE f == [Idle EXCEPT !.pc = "redeeming",
                                 !.code = url, !.ver = verifier]
    <3>1. \A s \in Tasks : call'[s] \in {Return("error"), f}
      <4> DEFINE h == IF verifier = None \/ url = None THEN Return("error") ELSE f
      <4>1. call' = [call EXCEPT ![t] = h]
        BY <1>8 DEF ReturnFromAuth
      <4> HIDE DEF h
      <4>2. \A s \in Tasks : call'[s] = h
        BY <1>1, <4>1
      <4>3. QED
        BY <4>2 DEF h
    <3>2. f.pc = "redeeming" /\ f.answer = "none"
      BY DEF Idle
    <3>3. QED
      BY <3>1, <3>2, <1>a
  <2>2. page = "app" /\ target = None /\ UNCHANGED <<verifier, active, browser>>
    BY <1>8 DEF ReturnFromAuth, Ready, OneCaller
  <2>3. QED
    BY <1>0, <2>1, <2>2 DEF LoginHeld, Parked
<1>9. ASSUME NEW t \in Tasks, TokenReceived(t)
      PROVE  LoginHeld' /\ (refresh # None => access # None)' /\ Parked'
  <2>1. \A s \in Tasks : call'[s].pc \in {"idle", "redeemed"} /\ call'[s].answer = "none"
    <3> DEFINE f == [Idle EXCEPT !.pc = "redeemed"]
    <3> DEFINE h == IF call[t].pc = "redeeming" THEN f ELSE Return("ok")
    <3>1. call' = [call EXCEPT ![t] = h]
      BY <1>9 DEF TokenReceived
    <3>2. f.pc = "redeemed" /\ f.answer = "none"
      BY DEF Idle
    <3>3. h.pc \in {"idle", "redeemed"} /\ h.answer = "none"
      BY <3>2, <1>a
    <3> HIDE DEF h
    <3>4. \A s \in Tasks : call'[s] = h
      BY <1>1, <3>1
    <3>5. QED
      BY <3>3, <3>4
  <2>2. page # "auth" /\ access' # None /\ UNCHANGED <<storage, browser>>
    BY <1>0, <1>9 DEF TokenReceived, SetToken, Parked
  <2>3. QED
    BY <1>0, <2>1, <2>2 DEF LoginHeld, Parked
<1>10. ASSUME NEW t \in Tasks, Logout(t)
       PROVE  LoginHeld' /\ (refresh # None => access # None)' /\ Parked'
  <2>1. \A s \in Tasks : call'[s].pc \in {"idle", "loggingOut"} /\ call'[s].answer = "none"
    <3> DEFINE f == [Idle EXCEPT !.pc = "loggingOut",
                                 !.dying = issued[access]]
    <3>1. \A s \in Tasks : call'[s] \in {Return("false"), f}
      <4> DEFINE h == IF access = None THEN Return("false") ELSE f
      <4>1. call' = [call EXCEPT ![t] = h]
        BY <1>10 DEF Logout
      <4> HIDE DEF h
      <4>2. \A s \in Tasks : call'[s] = h
        BY <1>1, <4>1
      <4>3. QED
        BY <4>2 DEF h
    <3>2. f.pc = "loggingOut" /\ f.answer = "none"
      BY DEF Idle
    <3>3. QED
      BY <3>1, <3>2, <1>a
  <2>2. page = "app" /\ target = None /\ UNCHANGED <<storage, active, browser>>
    BY <1>10 DEF Logout, Ready, OneCaller
  <2>3. QED
    BY <1>0, <2>1, <2>2 DEF LoginHeld, Parked
<1>11. ASSUME NEW t \in Tasks, LoggedOut(t)
       PROVE  LoginHeld' /\ (refresh # None => access # None)' /\ Parked'
  <2>1. \A s \in Tasks : call'[s].pc = "idle" /\ call'[s].answer = "none"
    <3>1. \A s \in Tasks : call'[s] = Return("ok")
      BY <1>1, <1>11 DEF LoggedOut
    <3>2. QED
      BY <3>1, <1>a
  <2>2. target = None /\ page # "auth" /\ refresh' = None /\ UNCHANGED browser
    BY <1>0, <1>11 DEF LoggedOut, Parked
  <2>3. QED
    BY <2>1, <2>2 DEF LoginHeld, Parked
<1>12. ASSUME NEW t \in Tasks, AnswerCode(t) \/ AnswerRefresh(t) \/ AnswerLogout(t)
       PROVE  LoginHeld' /\ (refresh # None => access # None)' /\ Parked'
  <2>1. PICK g \in Frame :
          /\ call' = [call EXCEPT ![t] = g]
          /\ g.pc = call[t].pc /\ g.ver = call[t].ver
          /\ g.answer = "ok" /\ g.pc \in {"redeeming", "refreshing"} => g.got # None
          /\ UNCHANGED <<storage, active, expired, browser, made>>
    BY <1>0, <1>12, ServerStep
  <2>2. \A s \in Tasks : call'[s] = g /\ call[s] = call[t]
    BY <1>1, <2>1
  <2>3. QED
    BY <1>0, <2>1, <2>2 DEF LoginHeld, Parked
<1>13. ASSUME Expire \/ Restore
       PROVE  LoginHeld' /\ (refresh # None => access # None)' /\ Parked'
  BY <1>0, <1>13 DEF Expire, Restore, LoginHeld, Parked
<1>14. ASSUME LeaveAuth
       PROVE  LoginHeld' /\ (refresh # None => access # None)' /\ Parked'
  BY <1>0, <1>14 DEF LeaveAuth, LoginHeld, Parked
<1>15. ASSUME Unload \/ Reload
       PROVE  LoginHeld' /\ (refresh # None => access # None)' /\ Parked'
  <2>1. \A s \in Tasks : call'[s].pc = "idle" /\ call'[s].answer = "none"
    BY <1>15 DEF Unload, Reload, PageLost, Idle
  <2>2. refresh' = None /\ UNCHANGED storage
    BY <1>15 DEF Unload, Reload, PageLost
  <2>3. LoginHeld'
    BY <1>0, <1>15, <2>2 DEF Unload, Reload, LoginHeld
  <2>4. QED
    BY <2>1, <2>2, <2>3 DEF Parked
<1>16. QED
  BY <1>2, <1>4, <1>5, <1>6, <1>7, <1>8, <1>9, <1>10, <1>11, <1>12, <1>13, <1>14, <1>15
     DEF Next

LEMMA AloneInvariant == ASSUME OneCaller PROVE Spec => []Alone
<1>1. Alone /\ [Next]_vars => Alone'
  BY NextAlone, NextType DEF Alone
<1>2. QED
  BY InitAlone, <1>1, PTL DEF Spec

\* With one caller, the login at /auth is the one the session storage is for.
THEOREM ChallengeShownAlone == ASSUME OneCaller PROVE Spec => []ChallengeShown
<1>1. Alone => ChallengeShown
  BY DEF Alone, LoginHeld, ChallengeShown
<1>2. QED
  BY AloneInvariant, <1>1, PTL

\* With one caller, a session that was logged out stays so until a new login.
THEOREM LogoutStaysAlone == ASSUME OneCaller PROVE Spec => LogoutStays
<1>1. ASSUME Alone, [Next]_vars, access = None, access' # None
      PROVE  \E t \in Tasks : call[t].pc = "redeeming"
  <2> USE <1>1 DEF active, server, browser
  <2>1. ASSUME NEW t \in Tasks, TokenReceived(t)
        PROVE  call[t].pc = "redeeming"
    BY <2>1 DEF TokenReceived, Alone, Parked
  <2>2. ASSUME NEW t \in Tasks,
               GetToken(t) \/ LoginAgain(t) \/ StartLogin(t) \/ ReturnFromAuth(t)
                 \/ Logout(t) \/ LeaveForAuth(t) \/ FetchRedeemed(t) \/ LoggedOut(t)
                 \/ RequestFailed(t)
        PROVE  FALSE
    BY <2>2 DEF GetToken, LoginAgain, StartLogin, ReturnFromAuth, Logout,
                LeaveForAuth, FetchRedeemed, LoggedOut, RequestFailed
  <2>3. ASSUME NEW t \in Tasks, AnswerCode(t) \/ AnswerRefresh(t) \/ AnswerLogout(t)
        PROVE  FALSE
    BY <2>3 DEF AnswerCode, AnswerRefresh, AnswerLogout, Refuse, Grant, Answer
  <2>4. ASSUME Expire \/ LeaveAuth \/ Restore \/ Unload \/ Reload \/ UNCHANGED vars
        PROVE  FALSE
    BY <2>4 DEF Expire, LeaveAuth, Restore, Unload, Reload, PageLost, vars
  <2>5. QED
    BY <2>1, <2>2, <2>3, <2>4 DEF Next
<1>2. Alone /\ [Next]_vars =>
        [access = None /\ access' # None => \E t \in Tasks : call[t].pc = "redeeming"]_vars
  BY <1>1
<1>3. QED
  BY AloneInvariant, <1>2, PTL DEF Spec, LogoutStays
=============================================================================
