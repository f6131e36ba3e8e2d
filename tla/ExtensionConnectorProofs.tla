---------------------- MODULE ExtensionConnectorProofs ----------------------
(***************************************************************************)
(* Theorems about ExtensionConnector for any routes, callers, versions and *)
(* bounds.  A message is what its type says, so what the handlers read of  *)
(* it is there; the rest is about what is on its way in the two queues.    *)
(***************************************************************************)
EXTENDS ExtensionConnector, TLAPS

----------------------------------------------------------------------------
(* Types.                                                                  *)

\* What the handlers read of a message.
LEMMA MessageParts ==
  ASSUME NEW m \in Messages
  PROVE  /\ m.type = "INITIALIZE" =>
              /\ m.version \in Versions /\ m.context \in Nat
              /\ m.place \in Places \union {NoPlace}
         /\ m.type = "ROUTE_CHANGED" => m.place \in Places
BY DEF Messages

LEMMA InitializeMade ==
  ASSUME NEW v \in Versions, NEW p \in Places \union {NoPlace}, NEW n \in Nat
  PROVE  Initialize(v, p, n) \in Messages
BY DEF Messages, Initialize

LEMMA OtherMade == Other \in Messages
BY DEF Messages, Other

LEMMA RouteMade ==
  ASSUME NEW p \in Places
  PROVE  RouteChanged(p) \in Messages
BY DEF Messages, RouteChanged

\* The first message and the rest.
LEMMA InboxParts ==
  ASSUME HostTypeOK, inbox # <<>>
  PROVE  /\ Head(inbox) \in Messages /\ Head(inbox) = inbox[1]
         /\ Tail(inbox) \in Seq(Messages)
         /\ Len(inbox) \in Nat \ {0}
         /\ Len(Tail(inbox)) = Len(inbox) - 1
         /\ \A i \in 1 .. Len(inbox) - 1 : Tail(inbox)[i] = inbox[i + 1]
BY DEF HostTypeOK

LEMMA NotifyParts ==
  ASSUME HostTypeOK, NEW m \in Messages, Notify(m)
  PROVE  /\ inbox' \in Seq(Messages)
         /\ Len(inbox') = Len(inbox) + 1 /\ Len(inbox) \in Nat
         /\ \A i \in 1 .. Len(inbox) : inbox'[i] = inbox[i]
         /\ inbox'[Len(inbox) + 1] = m
BY DEF HostTypeOK, Notify

LEMMA SettleType ==
  ASSUME HostTypeOK, NEW o \in {"resolved", "rejected"}, Settle(o)
  PROVE  promise' \in {"pending", "resolved", "rejected"}
BY DEF HostTypeOK, Settle

CallSet == [op : {"idle", "save", "refresh"}, got : Nat \union {Absent},
            need : Nat \union {Absent}]

LEMMA IdleCall == Idle \in CallSet
BY DEF Idle, CallSet, Absent

LEMMA NewCall ==
  ASSUME NEW o \in {"save", "refresh"}, NEW n \in Nat \union {Absent}
  PROVE  /\ Call(o, n) \in CallSet
         /\ Call(o, n).op = o /\ Call(o, n).got = Absent /\ Call(o, n).need = n
BY DEF Call, CallSet, Absent

LEMMA ServedCall ==
  ASSUME NEW call \in CallSet, NEW n \in Nat, NEW g, g = [call EXCEPT !.got = n]
  PROVE  g \in CallSet /\ g.op = call.op /\ g.got = n /\ g.need = call.need
BY DEF CallSet

\* The requests about the context data leave the connection alone.
LEMMA ContextFrame ==
  ASSUME NEW c \in Callers, ContextStep(c)
  PROVE  UNCHANGED <<connection, inbox, sent, hostAt>>
BY DEF ContextStep, saveContextData, refreshContextData, ContextServed, SaveAnswered,
       RefreshAnswered, CallFailed

LEMMA ContextTypes ==
  ASSUME HostTypeOK, NEW c \in Callers, ContextStep(c)
  PROVE  HostTypeOK'
<1>0. /\ calls \in [Callers -> CallSet] /\ calls[c] \in CallSet
      /\ mine \in Nat \union {Absent} /\ server \in Nat
      /\ contextData \in Nat \union {Absent}
  BY DEF HostTypeOK, CallSet
<1>1. UNCHANGED <<connection, inbox, sent, hostAt>>
  BY ContextFrame
<1>2. /\ calls' \in [Callers -> CallSet] /\ mine' \in Nat \union {Absent}
      /\ server' \in Nat /\ contextData' \in Nat \union {Absent}
  <2>1. ASSUME NEW op \in {"save", "refresh"}, Request(c, op)
        PROVE  calls' \in [Callers -> CallSet]
    BY <1>0, <2>1, NewCall DEF Request
  <2>2. CASE saveContextData(c)
    BY <1>0, <2>1, <2>2 DEF saveContextData
  <2>3. CASE refreshContextData(c)
    BY <1>0, <2>1, <2>3 DEF refreshContextData
  <2>4. CASE ContextServed(c)
    <3>1. server' \in Nat
      BY <1>0, <2>4 DEF ContextServed
    <3>2. PICK g : g = [calls[c] EXCEPT !.got = server']
      OBVIOUS
    <3>3. calls' = [calls EXCEPT ![c] = g]
      BY <2>4, <3>2 DEF ContextServed
    <3>4. g \in CallSet
      BY <1>0, <3>1, <3>2, ServedCall
    <3>5. QED
      BY <1>0, <2>4, <3>1, <3>3, <3>4 DEF ContextServed
  <2>5. CASE SaveAnswered(c)
    <3>1. calls[c].got \in Nat
      BY <1>0, <2>5 DEF SaveAnswered, CallSet
    <3>2. QED
      BY <1>0, <2>5, <3>1, IdleCall DEF SaveAnswered
  <2>6. CASE RefreshAnswered(c)
    <3>1. calls[c].got \in Nat
      BY <1>0, <2>6 DEF RefreshAnswered, CallSet
    <3>2. QED
      BY <1>0, <2>6, <3>1, IdleCall DEF RefreshAnswered
  <2>7. CASE CallFailed(c)
    BY <1>0, <2>7, IdleCall DEF CallFailed
  <2>8. QED
    BY <2>2, <2>3, <2>4, <2>5, <2>6, <2>7 DEF ContextStep
<1>3. QED
  BY <1>1, <1>2 DEF HostTypeOK, connection, CallSet

LEMMA ReceiveTypes ==
  ASSUME HostTypeOK, Receive
  PROVE  HostTypeOK'
<1>1. inbox # <<>> /\ inbox' = Tail(inbox)
  BY DEF Receive
<1>2. PICK m \in Messages : m = Head(inbox)
  BY <1>1, InboxParts
<1>3. inbox' \in Seq(Messages)
  BY <1>1, InboxParts
<1>4. hostData' \in Versions \union {NoData} /\ contextData' \in Nat \union {Absent}
  BY <1>2, MessageParts DEF Receive, HostTypeOK
<1>5. /\ timer' \in {"set", "fired", "cleared", "late"}
      /\ promise' \in {"pending", "resolved", "rejected"}
      /\ told' \in {"nothing", "connected", "error"}
  BY <1>2 DEF Receive, HostTypeOK, Cleared, initialized, Unexpected, Settle
<1>6. UNCHANGED <<chatty, sent, hostAt, contextVars>>
  BY DEF Receive
<1>7. QED
  BY <1>3, <1>4, <1>5, <1>6 DEF HostTypeOK, contextVars

LEMMA HostTypes ==
  ASSUME HostTypeOK, HostStep
  PROVE  HostTypeOK'
<1>1. CASE Timeout
  BY <1>1 DEF Timeout, HostTypeOK, Settle, contextVars
<1>2. CASE ChattyConnected
  BY <1>2 DEF ChattyConnected, HostTypeOK, contextVars
<1>3. CASE ChattyFailed
  BY <1>3 DEF ChattyFailed, HostTypeOK, Settle, Cleared, contextVars
<1>4. CASE HostInitializes
  <2>1. PICK v \in Versions, p \in {hostAt, NoPlace} : Notify(Initialize(v, p, server))
    BY <1>4 DEF HostInitializes
  <2>2. Initialize(v, p, server) \in Messages
    BY InitializeMade DEF HostTypeOK
  <2>3. inbox' \in Seq(Messages)
    BY <2>1, <2>2, NotifyParts
  <2>4. QED
    BY <1>4, <2>3 DEF HostInitializes, HostTypeOK, connection, contextVars
<1>5. CASE HostSendsOther
  <2>1. inbox' \in Seq(Messages)
    BY <1>5, OtherMade, NotifyParts DEF HostSendsOther
  <2>2. QED
    BY <1>5, <2>1 DEF HostSendsOther, HostTypeOK, connection, contextVars
<1>6. CASE OtherUserSaves
  BY <1>6 DEF OtherUserSaves, HostTypeOK, connection
<1>7. CASE \E p \in Places : HostNavigates(p)
  <2>1. PICK p \in Places : HostNavigates(p)
    BY <1>7
  <2>2. inbox' \in Seq(Messages)
    BY <2>1, RouteMade, NotifyParts DEF HostNavigates
  <2>3. QED
    BY <2>1, <2>2 DEF HostNavigates, HostTypeOK, connection, contextVars
<1>8. CASE \E c \in Callers : ContextStep(c)
  BY <1>8, ContextTypes
<1>9. QED
  BY <1>1, <1>2, <1>3, <1>4, <1>5, <1>6, <1>7, <1>8 DEF HostStep

\* Steps of the component alone.
LEMMA HostSame ==
  ASSUME HostTypeOK, UNCHANGED hostVars
  PROVE  HostTypeOK'
<1>1. UNCHANGED <<timer, chatty, promise, told, hostData, contextData, inbox, sent, hostAt>>
  BY DEF hostVars, connection
<1>2. UNCHANGED <<server, calls, mine>>
  BY DEF hostVars, contextVars
<1>3. QED
  BY <1>1, <1>2 DEF HostTypeOK

LEMMA TypesInitially == Init => TypeOK
<1>1. ASSUME Init PROVE HostTypeOK
  <2>1. HostInit
    BY <1>1 DEF Init
  <2>2. calls \in [Callers -> CallSet]
    BY <2>1, IdleCall DEF HostInit
  <2>3. inbox \in Seq(Messages)
    BY <2>1 DEF HostInit
  <2>4. QED
    BY <2>1, <2>2, <2>3 DEF HostInit, HostTypeOK, CallSet
<1>2. ASSUME Init PROVE TypeOK
  <2>1. outbox \in Seq(Places)
    <3>1. outbox = <<>>
      BY <1>2 DEF Init
    <3>2. QED
      BY <3>1
  <2>2. location \in Places
    BY <1>2, HomeAssumption DEF Init
  <2>3. QED
    BY <1>1, <1>2, <2>1, <2>2 DEF Init, TypeOK
<1>3. QED
  BY <1>2

LEMMA TypesKept ==
  ASSUME TypeOK, [Next]_vars
  PROVE  TypeOK'
<1>0. HostTypeOK
  BY DEF TypeOK
<1>1. CASE HostStep /\ UNCHANGED reactVars
  BY <1>0, <1>1, HostTypes DEF TypeOK, reactVars
<1>2. CASE ReceiveInComponent
  <2>1. Receive /\ inbox # <<>>
    BY <1>2 DEF ReceiveInComponent, Receive
  <2>2. HostTypeOK'
    BY <1>0, <2>1, ReceiveTypes
  <2>3. PICK m \in Messages : m = Head(inbox)
    BY <1>0, <2>1, InboxParts
  <2>4. CASE m.type = "INITIALIZE"
    <3>1. m.place \in Places \union {NoPlace}
      BY <2>4, MessageParts
    <3>2. Connected(m.place) /\ UNCHANGED <<hostRoute, passed>>
      BY <1>2, <2>3, <2>4 DEF ReceiveInComponent
    <3>3. location' \in Places /\ registered' \in BOOLEAN /\ context' \in BOOLEAN
      BY <3>1, <3>2 DEF Connected, TypeOK
    <3>4. QED
      BY <1>2, <2>2, <3>2, <3>3 DEF ReceiveInComponent, TypeOK
  <2>5. CASE m.type = "ROUTE_CHANGED"
    <3>1. m.place \in Places
      BY <2>5, MessageParts
    <3>2. hostChangedRoute(m.place) /\ UNCHANGED <<registered, location>>
      BY <1>2, <2>3, <2>5 DEF ReceiveInComponent
    <3>3. /\ hostRoute' \in Places \union {NoPlace} /\ context' \in BOOLEAN
          /\ passed' \in BOOLEAN
      BY <3>1, <3>2 DEF hostChangedRoute, ContextUpdated, TypeOK
    <3>4. QED
      BY <1>2, <2>2, <3>2, <3>3 DEF ReceiveInComponent, TypeOK
  <2>6. CASE m.type \notin {"INITIALIZE", "ROUTE_CHANGED"}
    <3>1. UNCHANGED <<registered, context, location, hostRoute, passed>>
      BY <1>2, <2>3, <2>6 DEF ReceiveInComponent
    <3>2. QED
      BY <1>2, <2>2, <3>1 DEF ReceiveInComponent, TypeOK
  <2>7. QED
    BY <2>4, <2>5, <2>6
<1>3. CASE Unmount
  <2>1. HostTypeOK'
    BY <1>0, <1>3, HostSame DEF Unmount
  <2>2. QED
    BY <1>3, <2>1 DEF Unmount, TypeOK
<1>4. CASE \E p \in Places : Navigate(p)
  <2>1. HostTypeOK'
    BY <1>0, <1>4, HostSame DEF Navigate
  <2>2. QED
    BY <1>4, <2>1 DEF Navigate, TypeOK
<1>5. CASE Flush
  <2>1. HostTypeOK'
    BY <1>0, <1>5, HostSame DEF Flush
  <2>0. hostRoute \in Places \union {NoPlace} /\ NoPlace.route = ""
    BY DEF TypeOK, NoPlace
  <2>2. HostTold => hostRoute \in Places
    BY <2>0 DEF HostTold
  <2>3. hostRoute.route \in { p.route : p \in Places } \union {""}
    BY <2>0
  <2>4. Append(outbox, location) \in Seq(Places)
    <3>1. outbox \in Seq(Places) /\ location \in Places
      BY DEF TypeOK
    <3>2. QED
      BY <3>1
  <2>5. location' \in Places
    BY <1>5, <2>2 DEF Flush, TypeOK
  <2>6. outbox' \in Seq(Places)
    BY <1>5, <2>4 DEF Flush, TypeOK
  <2>7. pushedRoute' \in { p.route : p \in Places } \union {""}
    BY <1>5, <2>3 DEF Flush, TypeOK
  <2>8. mounted' \in BOOLEAN /\ moved' \in BOOLEAN /\ registered' \in BOOLEAN
    BY <1>5 DEF Flush, TypeOK, HostTold
  <2>9. QED
    BY <1>5, <2>1, <2>5, <2>6, <2>7, <2>8 DEF Flush, TypeOK
<1>6. CASE HostFollows
  <2>0. outbox \in Seq(Places) /\ outbox # <<>>
    BY <1>6 DEF HostFollows, TypeOK
  <2>1. hostAt' \in Places /\ outbox' \in Seq(Places)
    BY <1>6, <2>0 DEF HostFollows
  <2>2. UNCHANGED <<connection, contextData, inbox, sent, contextVars>>
    BY <1>6 DEF HostFollows
  <2>3. HostTypeOK'
    BY <1>0, <2>1, <2>2 DEF HostTypeOK, connection, contextVars
  <2>4. QED
    BY <1>6, <2>1, <2>3 DEF HostFollows, TypeOK
<1>7. CASE UNCHANGED vars
  <2>1. HostTypeOK'
    BY <1>0, <1>7, HostSame DEF vars
  <2>2. QED
    BY <1>7, <2>1 DEF vars, reactVars, TypeOK
<1>8. QED
  BY <1>1, <1>2, <1>3, <1>4, <1>5, <1>6, <1>7 DEF Next

\* For any routes, callers and bounds every variable keeps its type.
THEOREM TypeCorrect == Spec => []TypeOK
BY TypesInitially, TypesKept, PTL DEF Spec

----------------------------------------------------------------------------
(* The connection.                                                         *)

\* What a message is not can be read of the messages there are.
NoneIn(q, type) == \A i \in 1 .. Len(q) : q[i].type # type

\* Has INITIALIZE been handled: with data, or as the first message.
Heard == hostData # NoData \/ promise = "resolved"

\* The host sends INITIALIZE once, and only the first message settles anything;
\* as long as the timer is recorded there was no message.
ConnectionInv ==
  /\ timer = "set" => promise = "pending"
  /\ timer = "fired" => promise = "rejected"
  /\ IsFirst => told = "nothing" /\ hostData = NoData
  /\ inbox # <<>> \/ Heard => chatty = "up"
  /\ Heard => sent
  /\ ~sent \/ Heard => NoneIn(inbox, "INITIALIZE")
  /\ \A i, j \in 1 .. Len(inbox) :
       inbox[i].type = "INITIALIZE" /\ inbox[j].type = "INITIALIZE" => i = j
  /\ ConnectedToRequired

LEMMA SentTypes ==
  ASSUME NEW v, NEW p, NEW n
  PROVE  /\ Initialize(v, p, n).type = "INITIALIZE" /\ Initialize(v, p, n).context = n
         /\ RouteChanged(p).type = "ROUTE_CHANGED" /\ RouteChanged(p).place = p
         /\ Other.type = "OTHER"
BY DEF Initialize, RouteChanged, Other

\* A message of another type at the end.
LEMMA AppendOther ==
  ASSUME HostTypeOK, NEW m \in Messages, Notify(m), NEW type, m.type # type, NoneIn(inbox, type)
  PROVE  NoneIn(inbox', type)
<1>1. /\ Len(inbox') = Len(inbox) + 1 /\ Len(inbox) \in Nat
      /\ \A i \in 1 .. Len(inbox) : inbox'[i] = inbox[i]
      /\ inbox'[Len(inbox) + 1] = m
  BY NotifyParts
<1>2. ASSUME NEW i \in 1 .. Len(inbox') PROVE inbox'[i].type # type
  <2>1. CASE i \in 1 .. Len(inbox)
    BY <1>1, <2>1 DEF NoneIn
  <2>2. CASE i = Len(inbox) + 1
    BY <1>1, <2>2
  <2>3. QED
    BY <1>1, <2>1, <2>2
<1>3. QED
  BY <1>2 DEF NoneIn

LEMMA TailNone ==
  ASSUME HostTypeOK, inbox # <<>>, NEW type, NoneIn(inbox, type)
  PROVE  NoneIn(Tail(inbox), type)
<1>1. /\ Len(inbox) \in Nat \ {0} /\ Len(Tail(inbox)) = Len(inbox) - 1
      /\ \A i \in 1 .. Len(inbox) - 1 : Tail(inbox)[i] = inbox[i + 1]
  BY InboxParts
<1>2. ASSUME NEW i \in 1 .. Len(Tail(inbox)) PROVE Tail(inbox)[i].type # type
  <2>1. Tail(inbox)[i] = inbox[i + 1] /\ i + 1 \in 1 .. Len(inbox)
    BY <1>1
  <2>2. QED
    BY <2>1 DEF NoneIn
<1>3. QED
  BY <1>2 DEF NoneIn

\* The connection is a matter of these variables.
LEMMA ConnectionSame ==
  ASSUME ConnectionInv, UNCHANGED <<connection, inbox, sent>>
  PROVE  ConnectionInv'
BY DEF ConnectionInv, connection, IsFirst, NoneIn, Heard, ConnectedToRequired, Refused, Satisfied

LEMMA ConnectionInitially == Init => ConnectionInv
<1>1. SUFFICES ASSUME Init PROVE ConnectionInv
  OBVIOUS
<1>2. /\ timer = "set" /\ promise = "pending" /\ told = "nothing" /\ hostData = NoData
      /\ inbox = <<>> /\ Len(inbox) = 0 /\ ~sent
  BY <1>1 DEF Init, HostInit
<1>3. NoneIn(inbox, "INITIALIZE")
  BY <1>2 DEF NoneIn
<1>4. QED
  BY <1>2, <1>3 DEF ConnectionInv, IsFirst, Heard, ConnectedToRequired

\* A message at the end: INITIALIZE if none was sent, or another.
LEMMA ConnectionNotified ==
  ASSUME HostTypeOK, ConnectionInv, chatty = "up", UNCHANGED connection,
         NEW m \in Messages, Notify(m),
         \/ m.type = "INITIALIZE" /\ ~sent /\ sent'
         \/ m.type # "INITIALIZE" /\ UNCHANGED sent
  PROVE  ConnectionInv'
<1>1. /\ Len(inbox') = Len(inbox) + 1 /\ Len(inbox) \in Nat
      /\ \A i \in 1 .. Len(inbox) : inbox'[i] = inbox[i]
      /\ inbox'[Len(inbox) + 1] = m
  BY NotifyParts
<1>2. UNCHANGED <<timer, chatty, promise, told, hostData>>
  BY DEF connection
<1>0. UNCHANGED Heard
  BY <1>2 DEF Heard
<1>3. ~sent' \/ Heard' => NoneIn(inbox', "INITIALIZE")
  <2>1. CASE m.type # "INITIALIZE" /\ UNCHANGED sent
    BY <1>0, <2>1, AppendOther DEF ConnectionInv
  <2>2. CASE m.type = "INITIALIZE" /\ ~sent /\ sent'
    BY <1>0, <2>2 DEF ConnectionInv
  <2>3. QED
    BY <2>1, <2>2
<1>4. \A i, j \in 1 .. Len(inbox') :
        inbox'[i].type = "INITIALIZE" /\ inbox'[j].type = "INITIALIZE" => i = j
  <2>1. CASE m.type # "INITIALIZE"
    BY <1>1, <2>1 DEF ConnectionInv
  <2>2. CASE ~sent
    <3>1. \A i \in 1 .. Len(inbox) : inbox'[i].type # "INITIALIZE"
      BY <1>1, <2>2 DEF ConnectionInv, NoneIn
    <3>2. QED
      BY <1>1, <3>1
  <2>3. QED
    BY <2>1, <2>2
<1>5. Heard' => sent'
  BY <1>0 DEF ConnectionInv
<1>6. ConnectedToRequired'
  BY <1>2 DEF ConnectionInv, ConnectedToRequired, Refused, Satisfied
<1>7. QED
  BY <1>0, <1>2, <1>3, <1>4, <1>5, <1>6 DEF ConnectionInv, IsFirst

LEMMA ConnectionReceived ==
  ASSUME HostTypeOK, ConnectionInv, Receive
  PROVE  ConnectionInv'
<1>1. inbox # <<>> /\ inbox' = Tail(inbox) /\ UNCHANGED <<chatty, sent>> /\ chatty = "up"
  BY DEF Receive, ConnectionInv
<1>2. PICK m \in Messages : m = Head(inbox) /\ m = inbox[1]
  BY <1>1, InboxParts
<1>3. /\ Len(inbox) \in Nat \ {0} /\ Len(inbox') = Len(inbox) - 1
      /\ \A i \in 1 .. Len(inbox) - 1 : inbox'[i] = inbox[i + 1]
  BY <1>1, InboxParts
<1>4. \A i, j \in 1 .. Len(inbox') :
        inbox'[i].type = "INITIALIZE" /\ inbox'[j].type = "INITIALIZE" => i = j
  <2>1. SUFFICES ASSUME NEW i \in 1 .. Len(inbox'), NEW j \in 1 .. Len(inbox'),
                        inbox'[i].type = "INITIALIZE", inbox'[j].type = "INITIALIZE"
                 PROVE  i = j
    OBVIOUS
  <2>2. /\ inbox'[i] = inbox[i + 1] /\ i + 1 \in 1 .. Len(inbox)
        /\ inbox'[j] = inbox[j + 1] /\ j + 1 \in 1 .. Len(inbox)
    BY <1>3
  <2>3. i + 1 = j + 1
    BY <2>1, <2>2 DEF ConnectionInv
  <2>4. QED
    BY <2>3
<1>5. CASE m.type = "INITIALIZE"
  <2>1. hostData = NoData /\ promise # "resolved" /\ sent
    BY <1>2, <1>3, <1>5 DEF ConnectionInv, Heard, NoneIn
  <2>2. NoneIn(inbox', "INITIALIZE")
    <3>1. ASSUME NEW i \in 1 .. Len(inbox') PROVE inbox'[i].type # "INITIALIZE"
      <4>1. /\ inbox'[i] = inbox[i + 1] /\ i + 1 \in 1 .. Len(inbox)
            /\ 1 \in 1 .. Len(inbox) /\ i + 1 # 1
        BY <1>3
      <4>2. QED
        BY <1>2, <1>5, <4>1 DEF ConnectionInv
    <3>2. QED
      BY <3>1 DEF NoneIn
  <2>3. hostData' = m.version
    BY <1>2, <1>5 DEF Receive
  <2>4. CASE IsFirst
    <3>1. timer' = Cleared /\ initialized(m.version)
      BY <1>2, <1>5, <2>4 DEF Receive
    <3>2. promise \in {"pending", "rejected"}
      BY <2>1 DEF HostTypeOK
    <3>3. ConnectedToRequired'
      <4>1. UNCHANGED <<chatty, sent>> /\ sent /\ chatty = "up"
        BY <1>1, <2>1
      <4>2. CASE Refused(m.version)
        <5>1. told' = "error" /\ promise' = "rejected"
          BY <3>1, <3>2, <4>2 DEF initialized, Settle
        <5>2. QED
          BY <5>1 DEF ConnectedToRequired
      <4>3. CASE ~Refused(m.version)
        <5>1. told' = "connected"
          BY <3>1, <4>3 DEF initialized
        <5>2. ~Refused(hostData')
          BY <2>3, <4>3
        <5>3. QED
          BY <4>1, <5>1, <5>2 DEF ConnectedToRequired, Refused, Satisfied
      <4>4. QED
        BY <4>2, <4>3
    <3>4. timer' \in {"cleared", "late"}
      BY <3>1 DEF Cleared
    <3>5. QED
      BY <1>1, <1>4, <2>1, <2>2, <3>3, <3>4 DEF ConnectionInv, IsFirst
  <2>5. CASE ~IsFirst
    <3>1. UNCHANGED <<timer, promise, told>>
      BY <1>2, <2>5 DEF Receive
    <3>3. ConnectedToRequired'
      BY <2>1, <3>1 DEF ConnectionInv, ConnectedToRequired
    <3>4. timer' \notin {"set", "fired"}
      BY <2>5, <3>1 DEF IsFirst
    <3>5. QED
      BY <1>1, <1>4, <2>1, <2>2, <3>3, <3>4 DEF ConnectionInv, IsFirst
  <2>6. QED
    BY <2>4, <2>5
<1>6. CASE m.type # "INITIALIZE"
  <2>1. UNCHANGED hostData
    BY <1>2, <1>6 DEF Receive
  <2>2. NoneIn(inbox, "INITIALIZE") => NoneIn(inbox', "INITIALIZE")
    BY <1>1, TailNone
  <2>3. CASE IsFirst
    <3>1. timer' = Cleared /\ Unexpected
      BY <1>2, <1>6, <2>3 DEF Receive
    <3>2. timer' \in {"cleared", "late"}
      BY <3>1 DEF Cleared
    <3>3. told' = "nothing" /\ promise' # "resolved"
      BY <2>3, <3>1 DEF Unexpected, Settle, ConnectionInv, IsFirst
    <3>4. Heard' => Heard
      BY <2>1, <3>3 DEF Heard
    <3>5. QED
      BY <1>1, <1>4, <2>2, <3>2, <3>3, <3>4 DEF ConnectionInv, IsFirst, ConnectedToRequired
  <2>4. CASE ~IsFirst
    <3>1. UNCHANGED <<timer, promise, told>>
      BY <1>2, <2>4 DEF Receive
    <3>2. ConnectedToRequired'
      BY <1>1, <2>1, <3>1 DEF ConnectionInv, ConnectedToRequired, Refused, Satisfied
    <3>3. UNCHANGED Heard
      BY <2>1, <3>1 DEF Heard
    <3>4. timer' \notin {"set", "fired"}
      BY <2>4, <3>1 DEF IsFirst
    <3>5. QED
      BY <1>1, <1>4, <2>2, <3>2, <3>3, <3>4 DEF ConnectionInv, IsFirst
  <2>5. QED
    BY <2>3, <2>4
<1>7. QED
  BY <1>5, <1>6

LEMMA ConnectionKept ==
  ASSUME TypeOK, ConnectionInv, [Next]_vars
  PROVE  ConnectionInv'
<1>0. HostTypeOK
  BY DEF TypeOK
<1>1. CASE Timeout
  <2>1. UNCHANGED <<chatty, told, hostData, inbox, sent>>
    BY <1>1 DEF Timeout
  <2>2. timer = "set" /\ timer' = "fired" /\ promise' = "rejected"
    BY <1>1 DEF Timeout, Settle, ConnectionInv
  <2>3. QED
    BY <2>1, <2>2 DEF ConnectionInv, IsFirst, NoneIn, Heard, ConnectedToRequired
<1>2. CASE ChattyConnected
  BY <1>2 DEF ChattyConnected, ConnectionInv, IsFirst, NoneIn, Heard, ConnectedToRequired,
     Refused, Satisfied
<1>3. CASE ChattyFailed
  <2>1. UNCHANGED <<told, hostData, inbox, sent>> /\ inbox = <<>> /\ ~Heard
    BY <1>3 DEF ChattyFailed, ConnectionInv
  <2>2. promise \in {"pending", "rejected"}
    BY <1>0, <2>1 DEF Heard, HostTypeOK
  <2>3. timer' \in {"cleared", "late"} /\ promise' = "rejected"
    BY <1>3, <2>2 DEF ChattyFailed, Cleared, Settle
  <2>4. ~Heard' /\ ConnectedToRequired'
    BY <2>1, <2>3 DEF Heard, ConnectedToRequired
  <2>5. QED
    BY <2>1, <2>3, <2>4 DEF ConnectionInv, IsFirst, NoneIn
<1>4. CASE HostInitializes
  <2>1. PICK v \in Versions, p \in {hostAt, NoPlace} : Notify(Initialize(v, p, server))
    BY <1>4 DEF HostInitializes
  <2>2. Initialize(v, p, server) \in Messages
    BY <1>0, InitializeMade DEF HostTypeOK
  <2>3. Initialize(v, p, server).type = "INITIALIZE"
    BY SentTypes
  <2>4. chatty = "up" /\ UNCHANGED connection /\ ~sent /\ sent'
    BY <1>4 DEF HostInitializes
  <2>5. QED
    BY <1>0, <2>1, <2>2, <2>3, <2>4, ConnectionNotified
<1>5. CASE HostSendsOther
  <2>1. Other \in Messages /\ Other.type # "INITIALIZE"
    BY OtherMade DEF Other
  <2>2. chatty = "up" /\ UNCHANGED connection /\ UNCHANGED sent /\ Notify(Other)
    BY <1>5 DEF HostSendsOther
  <2>3. QED
    BY <1>0, <2>1, <2>2, ConnectionNotified
<1>6. CASE \E p \in Places : HostNavigates(p)
  <2>1. PICK p \in Places : HostNavigates(p)
    BY <1>6
  <2>2. RouteChanged(p) \in Messages /\ RouteChanged(p).type # "INITIALIZE"
    BY RouteMade DEF RouteChanged
  <2>3. chatty = "up" /\ UNCHANGED connection /\ UNCHANGED sent /\ Notify(RouteChanged(p))
    BY <2>1 DEF HostNavigates
  <2>4. QED
    BY <1>0, <2>2, <2>3, ConnectionNotified
<1>7. CASE OtherUserSaves
  BY <1>7, ConnectionSame DEF OtherUserSaves
<1>8. CASE \E c \in Callers : ContextStep(c)
  BY <1>8, ContextFrame, ConnectionSame
<1>9. CASE ReceiveInComponent
  BY <1>0, <1>9, ConnectionReceived DEF ReceiveInComponent
<1>10. CASE Unmount \/ (\E p \in Places : Navigate(p)) \/ Flush \/ UNCHANGED vars
  <2>1. UNCHANGED hostVars
    BY <1>10 DEF Unmount, Navigate, Flush, vars
  <2>2. QED
    BY <2>1, ConnectionSame DEF hostVars
<1>11. CASE HostFollows
  BY <1>11, ConnectionSame DEF HostFollows
<1>12. QED
  BY <1>1, <1>2, <1>3, <1>4, <1>5, <1>6, <1>7, <1>8, <1>9, <1>10, <1>11 DEF Next, HostStep

\* connectExtensionHost with any number of messages, of any kind and at any time:
\* who gets the host has its INITIALIZE, of no version that is refused.
THEOREM ConnectedToRequiredAlways == Spec => []ConnectedToRequired
<1>1. Init => TypeOK /\ ConnectionInv
  BY TypesInitially, ConnectionInitially
<1>2. TypeOK /\ ConnectionInv /\ [Next]_vars => TypeOK' /\ ConnectionInv'
  BY TypesKept, ConnectionKept
<1>3. ConnectionInv => ConnectedToRequired
  BY DEF ConnectionInv
<1>4. QED
  BY <1>1, <1>2, <1>3, PTL DEF Spec

----------------------------------------------------------------------------
(* The context data.                                                       *)

\* Nothing the extension or a message knows is later than what the server has.
ContextInv ==
  /\ ContextIsSaved
  /\ \A c \in Callers :
       /\ calls[c].got <= server /\ calls[c].need <= server
       /\ calls[c].op = "refresh" /\ calls[c].got # Absent => calls[c].got >= calls[c].need
  /\ \A i \in 1 .. Len(inbox) : inbox[i].type = "INITIALIZE" => inbox[i].context <= server

LEMMA CallParts ==
  ASSUME HostTypeOK, NEW c \in Callers
  PROVE  /\ calls \in [Callers -> CallSet] /\ calls[c] \in CallSet
         /\ calls[c].got \in Int /\ calls[c].need \in Int
         /\ server \in Nat /\ mine \in Int /\ contextData \in Int
         /\ mine \in Nat \union {Absent}
<1>1. calls \in [Callers -> CallSet]
  BY DEF HostTypeOK, CallSet
<1>2. calls[c] \in CallSet
  BY <1>1
<1>3. calls[c].got \in Int /\ calls[c].need \in Int
  BY <1>2 DEF CallSet, Absent
<1>4. QED
  BY <1>1, <1>2, <1>3 DEF HostTypeOK, Absent

\* A call that knows nothing too late keeps the others as they are.
LEMMA CallReplaced ==
  ASSUME HostTypeOK, ContextInv, NEW c \in Callers, NEW g \in CallSet,
         calls' = [calls EXCEPT ![c] = g], server' \in Nat, server' >= server,
         g.got <= server', g.need <= server',
         g.op = "refresh" /\ g.got # Absent => g.got >= g.need
  PROVE  \A d \in Callers :
           /\ calls'[d].got <= server' /\ calls'[d].need <= server'
           /\ calls'[d].op = "refresh" /\ calls'[d].got # Absent
                => calls'[d].got >= calls'[d].need
<1>1. TAKE d \in Callers
<1>2. calls[d].got \in Int /\ calls[d].need \in Int /\ calls \in [Callers -> CallSet]
      /\ server \in Nat
  BY CallParts
<1>3. CASE d = c
  BY <1>2, <1>3
<1>4. CASE d # c
  <2>1. calls'[d] = calls[d]
    BY <1>2, <1>4
  <2>2. calls[d].got <= server' /\ calls[d].need <= server'
    BY <1>2 DEF ContextInv
  <2>3. QED
    BY <2>1, <2>2 DEF ContextInv
<1>5. QED
  BY <1>3, <1>4

LEMMA IdleParts == Idle \in CallSet /\ Idle.got = -1 /\ Idle.need = -1 /\ Idle.op = "idle"
BY DEF Idle, CallSet, Absent

\* Messages that stay have the context of a server that goes forward.
LEMMA ContextsStay ==
  ASSUME HostTypeOK, ContextInv, server' \in Nat, server' >= server, UNCHANGED inbox
  PROVE  \A i \in 1 .. Len(inbox') :
           inbox'[i].type = "INITIALIZE" => inbox'[i].context <= server'
<1>1. TAKE i \in 1 .. Len(inbox')
<1>2. inbox \in Seq(Messages) /\ server \in Nat /\ inbox[i] \in Messages
  BY <1>1 DEF HostTypeOK
<1>3. inbox[i].type = "INITIALIZE" => inbox[i].context \in Nat
  BY <1>2, MessageParts
<1>4. QED
  BY <1>1, <1>2, <1>3 DEF ContextInv

\* One call changes, and nothing becomes known that the server has not.
CallMoved(c) ==
  /\ server' \in Nat /\ server' >= server
  /\ contextData' <= server' /\ mine' <= server'
  /\ \E g \in CallSet :
       /\ calls' = [calls EXCEPT ![c] = g]
       /\ g.got <= server' /\ g.need <= server'
       /\ g.op = "refresh" /\ g.got # Absent => g.got >= g.need

LEMMA ContextStepKept ==
  ASSUME HostTypeOK, ContextInv, NEW c \in Callers, ContextStep(c)
  PROVE  ContextInv'
<1>0. /\ calls \in [Callers -> CallSet] /\ calls[c] \in CallSet
      /\ calls[c].got \in Int /\ calls[c].need \in Int
      /\ server \in Nat /\ mine \in Int /\ contextData \in Int
      /\ mine \in Nat \union {Absent}
  BY CallParts
<1>1. /\ contextData <= server /\ mine <= server
      /\ calls[c].got <= server /\ calls[c].need <= server
      /\ calls[c].op = "refresh" /\ calls[c].got # Absent => calls[c].got >= calls[c].need
  BY DEF ContextInv, ContextIsSaved
<1>2. UNCHANGED inbox
  BY ContextFrame
<1>3. CallMoved(c)
  <2>1. ASSUME NEW op \in {"save", "refresh"}, Request(c, op),
               UNCHANGED <<server, mine, contextData>>
        PROVE  CallMoved(c)
    <3>1. PICK g \in CallSet : g = Call(op, mine) /\ g.got = -1 /\ g.need = mine
      BY <1>0, NewCall DEF Absent
    <3>2. calls' = [calls EXCEPT ![c] = g]
      BY <2>1, <3>1 DEF Request
    <3>3. server' = server /\ contextData' <= server /\ mine' <= server
      BY <1>1, <2>1
    <3>4. g.got <= server' /\ g.need <= server' /\ g.got = Absent
      BY <1>0, <1>1, <3>1, <3>3 DEF Absent
    <3>5. server' \in Nat /\ server' >= server
      BY <1>0, <3>3
    <3>6. QED
      BY <3>2, <3>3, <3>4, <3>5 DEF CallMoved
  <2>2. CASE saveContextData(c)
    BY <2>1, <2>2 DEF saveContextData
  <2>3. CASE refreshContextData(c)
    BY <2>1, <2>3 DEF refreshContextData
  <2>4. CASE ContextServed(c)
    <3>1. PICK g : g = [calls[c] EXCEPT !.got = server']
      OBVIOUS
    <3>2. calls' = [calls EXCEPT ![c] = g] /\ UNCHANGED <<contextData, mine>>
      BY <2>4, <3>1 DEF ContextServed
    <3>3. server' \in Nat /\ server' >= server
      BY <1>0, <2>4 DEF ContextServed
    <3>4. g \in CallSet /\ g.got = server' /\ g.need = calls[c].need
      BY <1>0, <3>1, <3>3, ServedCall
    <3>5. g.need <= server' /\ g.got <= server' /\ g.got >= g.need
      BY <1>0, <1>1, <3>3, <3>4
    <3>6. contextData' <= server' /\ mine' <= server'
      BY <1>0, <1>1, <3>2, <3>3
    <3>7. QED
      BY <3>2, <3>3, <3>4, <3>5, <3>6 DEF CallMoved
  <2>5. CASE SaveAnswered(c)
    <3>1. /\ calls' = [calls EXCEPT ![c] = Idle] /\ server' = server
          /\ contextData' <= server /\ mine' <= server
      BY <1>1, <2>5 DEF SaveAnswered
    <3>2. /\ server' \in Nat /\ server' >= server
          /\ Idle.got <= server' /\ Idle.need <= server' /\ Idle.op # "refresh"
      BY <1>0, <3>1, IdleParts
    <3>3. QED
      BY <3>1, <3>2, IdleParts DEF CallMoved
  <2>6. CASE RefreshAnswered(c)
    <3>1. /\ calls' = [calls EXCEPT ![c] = Idle] /\ server' = server
          /\ contextData' <= server /\ mine' <= server
      BY <1>1, <2>6 DEF RefreshAnswered
    <3>2. /\ server' \in Nat /\ server' >= server
          /\ Idle.got <= server' /\ Idle.need <= server' /\ Idle.op # "refresh"
      BY <1>0, <3>1, IdleParts
    <3>3. QED
      BY <3>1, <3>2, IdleParts DEF CallMoved
  <2>7. CASE CallFailed(c)
    <3>1. /\ calls' = [calls EXCEPT ![c] = Idle] /\ server' = server
          /\ contextData' <= server /\ mine' <= server
      BY <1>1, <2>7 DEF CallFailed
    <3>2. /\ server' \in Nat /\ server' >= server
          /\ Idle.got <= server' /\ Idle.need <= server' /\ Idle.op # "refresh"
      BY <1>0, <3>1, IdleParts
    <3>3. QED
      BY <3>1, <3>2, IdleParts DEF CallMoved
  <2>8. QED
    BY <2>2, <2>3, <2>4, <2>5, <2>6, <2>7 DEF ContextStep
<1>4. \A i \in 1 .. Len(inbox') :
        inbox'[i].type = "INITIALIZE" => inbox'[i].context <= server'
  BY <1>2, <1>3, ContextsStay DEF CallMoved
<1>5. QED
  BY <1>3, <1>4, CallReplaced DEF CallMoved, ContextInv, ContextIsSaved

\* A message at the end that has the context data of now, if it is INITIALIZE.
LEMMA ContextNotified ==
  ASSUME HostTypeOK, ContextInv, NEW m \in Messages, Notify(m),
         m.type = "INITIALIZE" => m.context = server,
         UNCHANGED <<contextData, contextVars>>
  PROVE  ContextInv'
<1>1. /\ Len(inbox') = Len(inbox) + 1 /\ Len(inbox) \in Nat
      /\ \A i \in 1 .. Len(inbox) : inbox'[i] = inbox[i]
      /\ inbox'[Len(inbox) + 1] = m
  BY NotifyParts
<1>2. UNCHANGED <<server, calls, mine>> /\ server \in Nat
  BY DEF contextVars, HostTypeOK
<1>3. ASSUME NEW i \in 1 .. Len(inbox'), inbox'[i].type = "INITIALIZE"
      PROVE  inbox'[i].context <= server'
  <2>1. CASE i \in 1 .. Len(inbox)
    BY <1>1, <1>2, <1>3, <2>1 DEF ContextInv
  <2>2. CASE i = Len(inbox) + 1
    BY <1>1, <1>2, <1>3, <2>2
  <2>3. QED
    BY <1>1, <2>1, <2>2
<1>4. QED
  BY <1>2, <1>3 DEF ContextInv, ContextIsSaved

LEMMA ContextReceived ==
  ASSUME HostTypeOK, ContextInv, Receive
  PROVE  ContextInv'
<1>1. inbox # <<>> /\ inbox' = Tail(inbox) /\ UNCHANGED <<server, calls, mine>>
  BY DEF Receive, contextVars
<1>2. PICK m \in Messages : m = Head(inbox) /\ m = inbox[1]
  BY <1>1, InboxParts
<1>3. /\ Len(inbox) \in Nat \ {0} /\ Len(inbox') = Len(inbox) - 1
      /\ \A i \in 1 .. Len(inbox) - 1 : inbox'[i] = inbox[i + 1]
  BY <1>1, InboxParts
<1>4. ASSUME NEW i \in 1 .. Len(inbox'), inbox'[i].type = "INITIALIZE"
      PROVE  inbox'[i].context <= server'
  <2>1. inbox'[i] = inbox[i + 1] /\ i + 1 \in 1 .. Len(inbox)
    BY <1>3
  <2>2. QED
    BY <1>1, <1>4, <2>1 DEF ContextInv
<1>5. contextData' <= server'
  <2>1. CASE m.type = "INITIALIZE"
    <3>1. contextData' = contextData \/ contextData' = m.context
      BY <1>2, <2>1 DEF Receive
    <3>2. 1 \in 1 .. Len(inbox)
      BY <1>3
    <3>3. contextData <= server /\ m.context <= server
      BY <1>2, <2>1, <3>2 DEF ContextInv, ContextIsSaved
    <3>4. QED
      BY <1>1, <3>1, <3>3
  <2>2. CASE m.type # "INITIALIZE"
    <3>1. UNCHANGED contextData
      BY <1>2, <2>2 DEF Receive
    <3>2. QED
      BY <1>1, <3>1 DEF ContextInv, ContextIsSaved
  <2>3. QED
    BY <2>1, <2>2
<1>6. QED
  BY <1>1, <1>4, <1>5 DEF ContextInv, ContextIsSaved

LEMMA ContextSame ==
  ASSUME ContextInv, UNCHANGED <<contextData, inbox, contextVars>>
  PROVE  ContextInv'
BY DEF ContextInv, ContextIsSaved, contextVars

LEMMA ContextInitially == Init => ContextInv
<1>1. SUFFICES ASSUME Init PROVE ContextInv
  OBVIOUS
<1>2. /\ inbox = <<>> /\ Len(inbox) = 0 /\ server = 0 /\ mine = -1 /\ contextData = -1
      /\ \A c \in Callers : calls[c] = Idle
  BY <1>1 DEF Init, HostInit, Absent
<1>3. QED
  BY <1>2, IdleParts DEF ContextInv, ContextIsSaved

LEMMA ContextKept ==
  ASSUME TypeOK, ContextInv, [Next]_vars
  PROVE  ContextInv'
<1>0. HostTypeOK
  BY DEF TypeOK
<1>1. CASE Timeout \/ ChattyConnected \/ ChattyFailed
  BY <1>1, ContextSame DEF Timeout, ChattyConnected, ChattyFailed
<1>2. CASE HostInitializes
  <2>1. PICK v \in Versions, p \in {hostAt, NoPlace} : Notify(Initialize(v, p, server))
    BY <1>2 DEF HostInitializes
  <2>2. Initialize(v, p, server) \in Messages
    BY <1>0, InitializeMade DEF HostTypeOK
  <2>3. Initialize(v, p, server).context = server
    BY SentTypes
  <2>4. UNCHANGED <<contextData, contextVars>>
    BY <1>2 DEF HostInitializes
  <2>5. QED
    BY <1>0, <2>1, <2>2, <2>3, <2>4, ContextNotified
<1>3. CASE HostSendsOther
  <2>1. Other \in Messages /\ Other.type # "INITIALIZE"
    BY OtherMade DEF Other
  <2>2. QED
    BY <1>0, <1>3, <2>1, ContextNotified DEF HostSendsOther
<1>4. CASE \E p \in Places : HostNavigates(p)
  <2>1. PICK p \in Places : HostNavigates(p)
    BY <1>4
  <2>2. RouteChanged(p) \in Messages /\ RouteChanged(p).type # "INITIALIZE"
    BY RouteMade DEF RouteChanged
  <2>3. QED
    BY <1>0, <2>1, <2>2, ContextNotified DEF HostNavigates
<1>5. CASE OtherUserSaves
  <2>1. UNCHANGED <<contextData, inbox, calls, mine>> /\ server' = server + 1 /\ server \in Nat
    BY <1>0, <1>5 DEF OtherUserSaves, HostTypeOK
  <2>2. \A i \in 1 .. Len(inbox') :
          inbox'[i].type = "INITIALIZE" => inbox'[i].context <= server'
    BY <1>0, <2>1, ContextsStay
  <2>3. mine \in Int /\ contextData \in Int
    BY <1>0 DEF HostTypeOK, Absent
  <2>4. \A c \in Callers : calls[c].got \in Int /\ calls[c].need \in Int
    BY <1>0, CallParts
  <2>5. QED
    BY <2>1, <2>2, <2>3, <2>4 DEF ContextInv, ContextIsSaved
<1>6. CASE \E c \in Callers : ContextStep(c)
  BY <1>0, <1>6, ContextStepKept
<1>7. CASE ReceiveInComponent
  BY <1>0, <1>7, ContextReceived DEF ReceiveInComponent
<1>8. CASE Unmount \/ (\E p \in Places : Navigate(p)) \/ Flush \/ UNCHANGED vars
  <2>1. UNCHANGED hostVars
    BY <1>8 DEF Unmount, Navigate, Flush, vars
  <2>2. QED
    BY <2>1, ContextSame DEF hostVars
<1>9. CASE HostFollows
  BY <1>9, ContextSame DEF HostFollows
<1>10. QED
  BY <1>1, <1>2, <1>3, <1>4, <1>5, <1>6, <1>7, <1>8, <1>9 DEF Next, HostStep

\* With any number of callers, saves, refreshes and failures a refresh shows what the
\* extension knew as saved when it asked.
THEOREM RefreshIsCurrentAlways == Spec => RefreshIsCurrent
<1>1. Init => TypeOK /\ ContextInv
  BY TypesInitially, ContextInitially
<1>2. TypeOK /\ ContextInv /\ [Next]_vars => TypeOK' /\ ContextInv'
  BY TypesKept, ContextKept
<1>3. ContextInv =>
        [\A c \in Callers : RefreshAnswered(c) => contextData' >= calls[c].need]_hostVars
  BY DEF ContextInv, RefreshAnswered
<1>4. QED
  BY <1>1, <1>2, <1>3, PTL DEF Spec, RefreshIsCurrent

----------------------------------------------------------------------------
(* The context and the core SDKs.                                          *)

SdkInv ==
  /\ ContextKeepsSdk
  /\ IF provider = "ExtensionProviderBase" THEN ~registered
     ELSE mounted /\ promise = "resolved" => registered

\* A message connects, or leaves the promise resolved or not as it was.
LEMMA ReceivePromise ==
  ASSUME HostTypeOK, ConnectionInv, Receive
  PROVE  /\ promise = "resolved" => promise' = "resolved"
         /\ Head(inbox).type # "INITIALIZE" => (promise' = "resolved" <=> promise = "resolved")
BY DEF Receive, initialized, Unexpected, Settle

\* Every other step keeps it, too.
LEMMA PromiseKept ==
  ASSUME TypeOK, HostStep
  PROVE  promise' = "resolved" <=> promise = "resolved"
<1>1. CASE Timeout \/ ChattyConnected \/ ChattyFailed
  BY <1>1 DEF Timeout, ChattyConnected, ChattyFailed, Settle
<1>2. CASE HostInitializes \/ HostSendsOther \/ OtherUserSaves
             \/ \E p \in Places : HostNavigates(p)
  BY <1>2 DEF HostInitializes, HostSendsOther, OtherUserSaves, HostNavigates, connection
<1>3. CASE \E c \in Callers : ContextStep(c)
  <2>1. UNCHANGED connection
    BY <1>3, ContextFrame
  <2>2. QED
    BY <2>1 DEF connection
<1>4. QED
  BY <1>1, <1>2, <1>3 DEF HostStep

LEMMA SdkKept ==
  ASSUME TypeOK, ConnectionInv, SdkInv, [Next]_vars
  PROVE  SdkInv'
<1>0. HostTypeOK
  BY DEF TypeOK
<1>1. CASE HostStep /\ UNCHANGED reactVars
  BY <1>1, PromiseKept DEF SdkInv, ContextKeepsSdk, reactVars
<1>2. CASE ReceiveInComponent
  <2>1. Receive /\ UNCHANGED <<provider, mounted>>
    BY <1>2 DEF ReceiveInComponent
  <2>2. CASE Head(inbox).type = "INITIALIZE"
    <3>1. Connected(Head(inbox).place) /\ UNCHANGED hostRoute
      BY <1>2, <2>2 DEF ReceiveInComponent
    <3>2. CASE promise' = "resolved" /\ promise # "resolved"
      <4>1. registered' = (provider # "ExtensionProviderBase") /\ context' = mounted
        BY <3>1, <3>2 DEF Connected
      <4>2. QED
        BY <2>1, <4>1 DEF SdkInv, ContextKeepsSdk
    <3>3. CASE ~(promise' = "resolved" /\ promise # "resolved")
      <4>1. UNCHANGED <<registered, context>>
        BY <3>1, <3>3 DEF Connected
      <4>2. QED
        BY <2>1, <3>1, <3>3, <4>1 DEF SdkInv, ContextKeepsSdk
    <3>4. QED
      BY <3>2, <3>3
  <2>3. CASE Head(inbox).type # "INITIALIZE"
    <3>1. promise' = "resolved" <=> promise = "resolved"
      BY <1>0, <2>1, <2>3, ReceivePromise
    <3>2. UNCHANGED registered
      BY <1>2, <2>3 DEF ReceiveInComponent
    <3>3. \/ UNCHANGED <<hostRoute, context>>
          \/ Head(inbox).type = "ROUTE_CHANGED" /\ hostRoute' = Head(inbox).place /\ context' = ContextUpdated
      BY <1>2, <2>3 DEF ReceiveInComponent, hostChangedRoute
    <3>4. Head(inbox).type = "ROUTE_CHANGED" => Head(inbox).place # NoPlace
      <4>1. Head(inbox) \in Messages
        BY <1>0, <2>1 DEF Receive, HostTypeOK
      <4>2. Head(inbox).type = "ROUTE_CHANGED" => Head(inbox).place \in Places
        BY <4>1 DEF Messages
      <4>3. NoPlace.route = ""
        BY DEF NoPlace
      <4>4. QED
        BY <4>2, <4>3, PlacesAssumption
    <3>5. QED
      BY <2>1, <3>1, <3>2, <3>3, <3>4 DEF SdkInv, ContextKeepsSdk, ContextUpdated
  <2>4. QED
    BY <2>2, <2>3
<1>3. CASE Unmount \/ (\E p \in Places : Navigate(p)) \/ Flush \/ UNCHANGED vars
  <2>1. UNCHANGED hostVars
    BY <1>3 DEF Unmount, Navigate, Flush, vars
  <2>2. UNCHANGED promise
    BY <2>1 DEF hostVars, connection
  <2>3. QED
    BY <1>3, <2>2 DEF Unmount, Navigate, Flush, vars, reactVars, SdkInv, ContextKeepsSdk
<1>4. CASE HostFollows
  BY <1>4 DEF HostFollows, connection, SdkInv, ContextKeepsSdk
<1>5. QED
  BY <1>1, <1>2, <1>3, <1>4 DEF Next

LEMMA SdkInitially == Init => SdkInv
BY DEF Init, HostInit, SdkInv, ContextKeepsSdk

\* Under any provider the context has the extension SDK, and the core SDKs are for
\* global access, from the connection to the unmounting (ExtensionProvider.tsx:64).
THEOREM SdkWhileMountedAlways == Spec => SdkWhileMounted
<1> DEFINE Registration ==
      /\ provider # "ExtensionProviderBase" /\ mounted' /\ promise' = "resolved" => registered'
      /\ registered' /\ ~registered => promise # "resolved"
      /\ mounted /\ ~mounted' => ~registered'
<1>1. Init => TypeOK /\ ConnectionInv /\ SdkInv
  BY TypesInitially, ConnectionInitially, SdkInitially
<1>2. TypeOK /\ ConnectionInv /\ SdkInv /\ [Next]_vars
        => TypeOK' /\ ConnectionInv' /\ SdkInv'
  BY TypesKept, ConnectionKept, SdkKept
<1>3. ASSUME TypeOK, SdkInv, SdkInv', [Next]_vars PROVE [Registration]_vars
  <2>1. /\ provider # "ExtensionProviderBase" /\ mounted' /\ promise' = "resolved" => registered'
        /\ provider = "ExtensionProviderBase" => ~registered'
    <3>1. UNCHANGED provider
      BY <1>3 DEF Next, reactVars, ReceiveInComponent, Unmount, Navigate, Flush, HostFollows, vars
    <3>2. QED
      BY <1>3, <3>1 DEF SdkInv
  <2>2. CASE HostStep /\ UNCHANGED reactVars
    BY <2>1, <2>2 DEF reactVars
  <2>3. CASE ReceiveInComponent
    BY <2>1, <2>3 DEF ReceiveInComponent, Connected
  <2>4. CASE Unmount
    BY <2>4 DEF Unmount
  <2>5. CASE \E p \in Places : Navigate(p)
    BY <2>1, <2>5 DEF Navigate
  <2>6. CASE Flush
    <3>1. CASE moved /\ CannotTell
      BY <2>1, <2>6, <3>1 DEF Flush
    <3>2. CASE ~(moved /\ CannotTell)
      BY <2>1, <2>6, <3>2 DEF Flush
    <3>3. QED
      BY <3>1, <3>2
  <2>7. CASE HostFollows
    BY <2>1, <2>7 DEF HostFollows
  <2>8. CASE UNCHANGED vars
    BY <2>8
  <2>9. QED
    BY <1>3, <2>2, <2>3, <2>4, <2>5, <2>6, <2>7, <2>8 DEF Next
<1>4. QED
  <2>1. ASSUME TypeOK, SdkInv, SdkInv', [Next]_vars
        PROVE  [ContextKeepsSdk' /\ Registration]_vars
    BY <1>3, <2>1 DEF SdkInv
  <2>2. QED
    BY <1>1, <1>2, <2>1, PTL DEF Spec, SdkWhileMounted

----------------------------------------------------------------------------
(* Routes.                                                                 *)

\* What the host will have been told by the extension at last ...
HostSees == IF outbox = <<>> THEN hostAt ELSE outbox[Len(outbox)]

\* ... and the last that the host has told the extension is where the host is: the
\* effect has still to follow, or passes it.
ToldLast ==
  \/ hostRoute = hostAt /\ (HostTold \/ passed) /\ NoneIn(inbox, "ROUTE_CHANGED")
  \/ \E i \in 1 .. Len(inbox) :
       /\ inbox[i].type = "ROUTE_CHANGED" /\ inbox[i].place = hostAt
       /\ \A j \in 1 .. Len(inbox) : i < j => inbox[j].type # "ROUTE_CHANGED"

\* Once the effect has told the host where the extension is, the last word on its
\* way is either that or the host's own.
RouteInv ==
  /\ promise # "resolved" => moved
  /\ Routing /\ ~moved => HostSees = location \/ (outbox = <<>> /\ ToldLast)

\* A message at the end that is no route.
LEMMA ToldNotified ==
  ASSUME HostTypeOK, NEW m \in Messages, Notify(m), m.type # "ROUTE_CHANGED", ToldLast,
         UNCHANGED <<hostRoute, pushedRoute, passed, hostAt>>
  PROVE  ToldLast'
<1>1. /\ Len(inbox') = Len(inbox) + 1 /\ Len(inbox) \in Nat
      /\ \A i \in 1 .. Len(inbox) : inbox'[i] = inbox[i]
      /\ inbox'[Len(inbox) + 1] = m
  BY NotifyParts
<1>2. CASE hostRoute = hostAt /\ (HostTold \/ passed) /\ NoneIn(inbox, "ROUTE_CHANGED")
  <2>1. NoneIn(inbox', "ROUTE_CHANGED")
    BY <1>2, AppendOther
  <2>2. QED
    BY <1>2, <2>1 DEF ToldLast, HostTold
<1>3. ASSUME NEW i \in 1 .. Len(inbox),
             inbox[i].type = "ROUTE_CHANGED" /\ inbox[i].place = hostAt,
             \A j \in 1 .. Len(inbox) : i < j => inbox[j].type # "ROUTE_CHANGED"
      PROVE  ToldLast'
  <2>1. i \in 1 .. Len(inbox') /\ inbox'[i] = inbox[i]
    BY <1>1
  <2>2. ASSUME NEW j \in 1 .. Len(inbox'), i < j
        PROVE  inbox'[j].type # "ROUTE_CHANGED"
    <3>1. CASE j \in 1 .. Len(inbox)
      BY <1>1, <1>3, <2>2, <3>1
    <3>2. CASE j = Len(inbox) + 1
      BY <1>1, <3>2
    <3>3. QED
      BY <1>1, <3>1, <3>2
  <2>3. QED
    BY <1>3, <2>1, <2>2 DEF ToldLast
<1>4. QED
  BY <1>2, <1>3 DEF ToldLast

\* The message the host has just sent is its last.
LEMMA ToldNavigated ==
  ASSUME HostTypeOK, NEW p \in Places, HostNavigates(p)
  PROVE  ToldLast'
<1>1. Notify(RouteChanged(p)) /\ hostAt' = p
  BY DEF HostNavigates
<1>2. PICK m \in Messages : m = RouteChanged(p)
  BY RouteMade
<1>3. /\ Len(inbox') = Len(inbox) + 1 /\ Len(inbox) \in Nat
      /\ inbox'[Len(inbox) + 1] = m
  BY <1>1, <1>2, NotifyParts
<1>4. m.type = "ROUTE_CHANGED" /\ m.place = p
  BY <1>2, SentTypes
<1>5. PICK i : i = Len(inbox')
  OBVIOUS
<1>6. /\ i \in 1 .. Len(inbox') /\ inbox'[i] = m
      /\ \A j \in 1 .. Len(inbox') : ~(i < j)
  BY <1>3, <1>5
<1>7. QED
  BY <1>1, <1>4, <1>6 DEF ToldLast

\* A message that is handled: a route becomes the host's route.
LEMMA ToldReceived ==
  ASSUME HostTypeOK, Receive, ToldLast,
         UNCHANGED pushedRoute,
         IF Head(inbox).type = "ROUTE_CHANGED"
           THEN hostRoute' = Head(inbox).place /\ passed' = (Head(inbox).place.route = pushedRoute)
           ELSE UNCHANGED <<hostRoute, passed>>
  PROVE  ToldLast'
<1>1. inbox # <<>> /\ inbox' = Tail(inbox) /\ UNCHANGED hostAt
  BY DEF Receive
<1>2. PICK m \in Messages : m = Head(inbox) /\ m = inbox[1]
  BY <1>1, InboxParts
<1>3. /\ Len(inbox) \in Nat \ {0} /\ Len(inbox') = Len(inbox) - 1
      /\ \A i \in 1 .. Len(inbox) - 1 : inbox'[i] = inbox[i + 1]
  BY <1>1, InboxParts
<1>4. CASE hostRoute = hostAt /\ (HostTold \/ passed) /\ NoneIn(inbox, "ROUTE_CHANGED")
  <2>1. m.type # "ROUTE_CHANGED"
    BY <1>2, <1>3, <1>4 DEF NoneIn
  <2>2. NoneIn(inbox', "ROUTE_CHANGED")
    BY <1>1, <1>4, TailNone
  <2>3. QED
    BY <1>1, <1>2, <1>4, <2>1, <2>2 DEF ToldLast, HostTold
<1>5. ASSUME NEW i \in 1 .. Len(inbox),
             inbox[i].type = "ROUTE_CHANGED" /\ inbox[i].place = hostAt,
             \A j \in 1 .. Len(inbox) : i < j => inbox[j].type # "ROUTE_CHANGED"
      PROVE  ToldLast'
  <2>1. CASE i = 1
    <3>1. hostRoute' = hostAt'
      BY <1>1, <1>2, <1>5, <2>1
    <3>2. ASSUME NEW j \in 1 .. Len(inbox') PROVE inbox'[j].type # "ROUTE_CHANGED"
      <4>1. inbox'[j] = inbox[j + 1] /\ j + 1 \in 1 .. Len(inbox) /\ i < j + 1
        BY <1>3, <2>1
      <4>2. QED
        BY <1>5, <4>1
    <3>3. HostTold' \/ passed'
      <4>1. m \in Messages /\ m.type = "ROUTE_CHANGED"
        BY <1>1, <1>2, <1>5, <2>1, InboxParts
      <4>2. m.place \in Places /\ m.place.route # ""
        BY <4>1, MessageParts, PlacesAssumption
      <4>3. QED
        BY <1>2, <4>1, <4>2 DEF HostTold
    <3>4. QED
      BY <3>1, <3>2, <3>3 DEF ToldLast, NoneIn
  <2>2. CASE i # 1
    <3>1. PICK k : k = i - 1
      OBVIOUS
    <3>2. k \in 1 .. Len(inbox') /\ inbox'[k] = inbox[i]
      BY <1>3, <2>2, <3>1
    <3>3. ASSUME NEW j \in 1 .. Len(inbox'), k < j PROVE inbox'[j].type # "ROUTE_CHANGED"
      <4>1. inbox'[j] = inbox[j + 1] /\ j + 1 \in 1 .. Len(inbox) /\ i < j + 1
        BY <1>3, <3>1, <3>3
      <4>2. QED
        BY <1>5, <4>1
    <3>4. QED
      BY <1>1, <1>5, <3>2, <3>3 DEF ToldLast
  <2>3. QED
    BY <2>1, <2>2
<1>6. QED
  BY <1>4, <1>5 DEF ToldLast

LEMMA RouteSame ==
  ASSUME TypeOK, RouteInv, UNCHANGED <<inbox, hostAt, reactVars>>,
         promise' = "resolved" <=> promise = "resolved"
  PROVE  RouteInv'
<1>1. UNCHANGED <<HostSees, ToldLast, Routing>>
  BY DEF HostSees, ToldLast, HostTold, NoneIn, Routing, reactVars
<1>2. QED
  BY <1>1 DEF RouteInv, reactVars

LEMMA RouteKept ==
  ASSUME TypeOK, ConnectionInv, RouteInv, [Next]_vars
  PROVE  RouteInv'
<1>0. HostTypeOK
  BY DEF TypeOK
<1>1. CASE HostStep /\ UNCHANGED reactVars
  <2>0. promise' = "resolved" <=> promise = "resolved"
    BY <1>1, PromiseKept
  <2>1. ASSUME ToldLast => ToldLast', UNCHANGED hostAt PROVE RouteInv'
    <3>1. UNCHANGED <<HostSees, Routing>>
      BY <1>1, <2>0, <2>1 DEF HostSees, Routing, reactVars
    <3>2. QED
      BY <1>1, <2>0, <2>1, <3>1 DEF RouteInv, reactVars
  <2>2. UNCHANGED <<hostRoute, pushedRoute, passed, outbox, moved, location>>
    BY <1>1 DEF reactVars
  <2>3. CASE Timeout \/ ChattyConnected \/ ChattyFailed \/ OtherUserSaves
    <3>1. UNCHANGED <<inbox, hostAt>>
      BY <2>3 DEF Timeout, ChattyConnected, ChattyFailed, OtherUserSaves
    <3>2. QED
      BY <1>1, <2>0, <3>1, RouteSame
  <2>4. CASE \E c \in Callers : ContextStep(c)
    <3>1. UNCHANGED <<inbox, hostAt>>
      BY <2>4, ContextFrame
    <3>2. QED
      BY <1>1, <2>0, <3>1, RouteSame
  <2>5. CASE HostInitializes
    <3>1. PICK v \in Versions, p \in {hostAt, NoPlace} : Notify(Initialize(v, p, server))
      BY <2>5 DEF HostInitializes
    <3>2. Initialize(v, p, server) \in Messages
      BY <1>0, InitializeMade DEF HostTypeOK
    <3>3. Initialize(v, p, server).type # "ROUTE_CHANGED"
      BY SentTypes
    <3>4. UNCHANGED hostAt
      BY <2>5 DEF HostInitializes
    <3>5. ToldLast => ToldLast'
      BY <1>0, <2>2, <3>1, <3>2, <3>3, <3>4, ToldNotified
    <3>6. QED
      BY <2>1, <3>4, <3>5
  <2>6. CASE HostSendsOther
    <3>1. Other \in Messages /\ Other.type # "ROUTE_CHANGED"
      BY OtherMade DEF Other
    <3>2. Notify(Other) /\ UNCHANGED hostAt
      BY <2>6 DEF HostSendsOther
    <3>3. ToldLast => ToldLast'
      BY <1>0, <2>2, <3>1, <3>2, ToldNotified
    <3>4. QED
      BY <2>1, <3>2, <3>3
  <2>7. CASE \E p \in Places : HostNavigates(p)
    <3>1. ToldLast'
      BY <1>0, <2>7, ToldNavigated
    <3>2. outbox # <<>> => UNCHANGED HostSees
      BY <2>2 DEF HostSees
    <3>3. QED
      BY <1>1, <2>0, <2>2, <3>1, <3>2 DEF RouteInv, Routing, reactVars
  <2>8. QED
    BY <1>1, <2>3, <2>4, <2>5, <2>6, <2>7 DEF HostStep
<1>2. CASE ReceiveInComponent
  <2>1. /\ Receive /\ inbox # <<>>
        /\ UNCHANGED <<hostAt, outbox, mounted, moved, hostTracksRoute, pushedRoute>>
    BY <1>2 DEF ReceiveInComponent, Receive
  <2>2. promise = "resolved" => promise' = "resolved"
    BY <1>0, <2>1, ReceivePromise
  <2>3. CASE ~Routing
    <3>1. Routing' => moved'
      BY <2>1, <2>3 DEF Routing, RouteInv
    <3>2. QED
      BY <2>1, <2>2, <3>1 DEF RouteInv
  <2>4. CASE Routing
    <3>1. UNCHANGED location
      <4>1. ~IsFirst
        BY <2>4 DEF ConnectionInv, IsFirst, Routing
      <4>2. QED
        BY <1>2, <4>1 DEF ReceiveInComponent, Connected
    <3>2. IF Head(inbox).type = "ROUTE_CHANGED"
            THEN hostRoute' = Head(inbox).place /\ passed' = (Head(inbox).place.route = pushedRoute)
            ELSE UNCHANGED <<hostRoute, passed>>
      BY <1>2, <2>4 DEF ReceiveInComponent, hostChangedRoute, Routing
    <3>3. ToldLast => ToldLast'
      BY <1>0, <2>1, <3>2, ToldReceived
    <3>4. UNCHANGED HostSees
      BY <2>1 DEF HostSees
    <3>5. QED
      BY <2>1, <2>2, <2>4, <3>1, <3>3, <3>4 DEF RouteInv
  <2>5. QED
    BY <2>3, <2>4
<1>3. CASE Unmount
  <2>1. ~Routing' /\ UNCHANGED <<hostVars, moved>>
    BY <1>3 DEF Unmount, Routing
  <2>2. QED
    BY <2>1 DEF RouteInv, hostVars, connection
<1>4. CASE \E p \in Places : Navigate(p)
  BY <1>4 DEF Navigate, RouteInv
<1>5. CASE Flush
  <2>1. UNCHANGED <<promise, hostAt, inbox, hostRoute>> /\ Routing
    BY <1>5 DEF Flush, hostVars, connection
  <2>2. promise = "resolved"
    BY <2>1 DEF Routing
  <2>3. CASE moved /\ CannotTell
    BY <1>5, <2>1, <2>2, <2>3 DEF Flush, RouteInv, Routing
  <2>4. CASE ~(moved /\ CannotTell)
    <3>1. CASE HostTold
      BY <1>5, <2>1, <2>2, <2>4, <3>1 DEF Flush, RouteInv
    <3>2. CASE ~HostTold
      <4>1. outbox' = Append(outbox, location) /\ location' = location
        BY <1>5, <2>4, <3>2 DEF Flush
      <4>2. outbox \in Seq(Places) /\ location \in Places
        BY DEF TypeOK
      <4>3. outbox' # <<>> /\ outbox'[Len(outbox')] = location
        BY <4>1, <4>2
      <4>4. HostSees' = location'
        BY <4>1, <4>3 DEF HostSees
      <4>5. QED
        BY <2>1, <2>2, <4>4 DEF RouteInv
    <3>3. QED
      BY <3>1, <3>2
  <2>5. QED
    BY <2>3, <2>4
<1>6. CASE HostFollows
  <2>1. /\ outbox \in Seq(Places) /\ outbox # <<>>
        /\ hostAt' = Head(outbox) /\ outbox' = Tail(outbox)
        /\ UNCHANGED <<promise, mounted, hostTracksRoute, location, moved>>
    BY <1>6 DEF HostFollows, TypeOK, connection
  <2>2. Len(outbox) \in Nat \ {0} /\ Len(outbox') = Len(outbox) - 1
    BY <2>1
  <2>3. HostSees' = HostSees
    <3>1. CASE Len(outbox) = 1
      BY <2>1, <2>2, <3>1 DEF HostSees
    <3>2. CASE Len(outbox) > 1
      <4>1. outbox' # <<>> /\ outbox'[Len(outbox')] = outbox[Len(outbox)]
        <5>1. PICK n : n = Len(outbox) - 1
          OBVIOUS
        <5>2. n \in 1 .. Len(outbox) - 1 /\ n + 1 = Len(outbox) /\ Len(outbox') = n
          BY <2>2, <3>2, <5>1
        <5>3. \A i \in 1 .. Len(outbox) - 1 : outbox'[i] = outbox[i + 1]
          BY <2>1
        <5>4. outbox' # <<>>
          BY <2>1, <2>2, <3>2
        <5>5. QED
          BY <5>2, <5>3, <5>4
      <4>2. QED
        BY <2>1, <4>1 DEF HostSees
    <3>3. QED
      BY <2>2, <3>1, <3>2
  <2>4. UNCHANGED Routing
    BY <2>1 DEF Routing
  <2>5. QED
    BY <2>1, <2>3, <2>4 DEF RouteInv
<1>7. CASE UNCHANGED vars
  BY <1>7, RouteSame DEF vars, hostVars, connection
<1>8. QED
  BY <1>1, <1>2, <1>3, <1>4, <1>5, <1>6, <1>7 DEF Next

LEMMA RouteInitially == Init => RouteInv
BY DEF Init, HostInit, RouteInv, Routing

\* For any routes and any number of messages on their way, in either direction:
\* once all is quiet host and extension are at the same place, unless the host's last
\* message was of the route the effect had run for last and the host stays there.
THEOREM RoutesAgreeAlways == Spec => []RoutesAgree
<1>1. Init => TypeOK /\ ConnectionInv /\ RouteInv
  BY TypesInitially, ConnectionInitially, RouteInitially
<1>2. TypeOK /\ ConnectionInv /\ RouteInv /\ [Next]_vars
        => TypeOK' /\ ConnectionInv' /\ RouteInv'
  BY TypesKept, ConnectionKept, RouteKept
<1>3. RouteInv => RoutesAgree
  <2>1. ASSUME RouteInv, Routing, ~moved, ~HostTold, inbox = <<>>, outbox = <<>>
        PROVE  location = hostAt \/ (passed /\ hostRoute = hostAt)
    <3>1. Len(inbox) = 0
      BY <2>1
    <3>2. QED
      BY <2>1, <3>1 DEF RouteInv, HostSees, ToldLast
  <2>2. QED
    BY <2>1 DEF RoutesAgree
<1>4. QED
  BY <1>1, <1>2, <1>3, PTL DEF Spec
=============================================================================
