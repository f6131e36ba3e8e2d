---------------------------- MODULE ExtensionHost ----------------------------
(***************************************************************************)
(* packages/extension-sdk/src/connect: an extension in its iframe connects *)
(* to the Looker host.  The connection is established when the host's      *)
(* first notification arrives, which ought to be INITIALIZE; a timer, the  *)
(* failure of the channel and the version of the host may prevent that.    *)
(* The host delivers notifications in order (a message port); it answers   *)
(* requests in any order, late, or never.                                  *)
(*                                                                         *)
(* One action is one task of the event loop.  The promise is settled in    *)
(* the task that handles the message, so its continuations belong to it.   *)
(***************************************************************************)
EXTENDS Integers, Sequences

CONSTANTS
  Places,      \* routes with their state: [route, state]
  Callers,     \* code of the extension that uses the context data
  Versions,    \* what INITIALIZE may say of the host: see Kinds
  Required,    \* does the configuration name a required Looker version
  MaxQueue,    \* bound: messages on their way in one direction
  MaxContext   \* bound: how often the context data is saved

\* A host says its version, which a requirement accepts or not; it says none
\* (lookerVersion is absent), or it sends nothing with INITIALIZE.
NoData == "none"  \* _lookerHostData is undefined
Kinds  == {"new", "old", "unnamed", NoData}

ASSUME VersionsAssumption == Versions \subseteq Kinds
ASSUME RequiredAssumption == Required \in BOOLEAN
ASSUME PlacesAssumption == \A p \in Places : p.route # ""
ASSUME BoundsAssumption == MaxQueue \in Nat /\ MaxContext \in Nat

Absent  == -1
NoPlace == [route |-> "", state |-> "undefined"]

\* A version of the context data is known by its number: each save makes one.
Initialize(v, p, n) == [type |-> "INITIALIZE", version |-> v, place |-> p, context |-> n]
RouteChanged(p)     == [type |-> "ROUTE_CHANGED", place |-> p]
Other               == [type |-> "OTHER"]  \* a type of a later host

Idle       == [op |-> "idle", got |-> Absent, need |-> Absent]
Call(o, n) == [op |-> o, got |-> Absent, need |-> n]

VARIABLES
  timer,        \* initializationTimer: "late" is cleared after it had fired
  chatty,       \* the channel
  promise,      \* what connectExtensionHost returned
  told,         \* what initializedCallback was called with
  hostData,     \* _lookerHostData, by its version
  contextData,  \* the copy of the context data in the extension
  inbox,        \* notifications on their way from the host
  sent,         \* has the host sent INITIALIZE
  hostAt,       \* the route the host shows
  server,       \* the context data the Looker server has
  calls,        \* calls[c]: c's request about the context data
  mine          \* the latest version the extension knows it saved

connection  == <<timer, chatty, promise, told, hostData>>
contextVars == <<server, calls, mine>>
hostVars    == <<connection, contextData, inbox, sent, hostAt, contextVars>>

Settle(outcome) == promise' = IF promise = "pending" THEN outcome ELSE promise

----------------------------------------------------------------------------
(* connectExtensionHost.                                                   *)

\* The id of a timer that fired is not forgotten.
Timeout ==
  /\ timer = "set"
  /\ timer' = "fired"
  /\ Settle("rejected")
  /\ UNCHANGED <<chatty, told, hostData, contextData, inbox, sent, hostAt, contextVars>>

ChattyConnected ==
  /\ chatty = "connecting"
  /\ chatty' = "up"
  /\ UNCHANGED <<timer, promise, told, hostData, contextData, inbox, sent, hostAt, contextVars>>

Cleared == IF timer = "set" THEN "cleared" ELSE "late"

ChattyFailed ==
  /\ chatty = "connecting"
  /\ chatty' = "failed"
  /\ timer' = Cleared
  /\ Settle("rejected")
  /\ UNCHANGED <<told, hostData, contextData, inbox, sent, hostAt, contextVars>>

\* getExtensionSDK(), and the promise: the api is there and has heard of the host.
Usable == chatty = "up" /\ hostData # NoData

\* verifyLookerVersion, for the version required and for the context data: a host
\* that does not say its version is taken for the first that had extensions.
Satisfied(v) == v = "new"

----------------------------------------------------------------------------
(* Notifications.                                                          *)

\* The first message decides, however late it comes.
IsFirst == timer \in {"set", "fired"}

\* Mutant: initialized() does not look at errorMessage.
InitializedUnchecked(v) == Settle("resolved") /\ told' = "connected"

\* The version required is verified of a host that says its version.
Refused(v) == Required /\ v \notin {"unnamed", NoData} /\ ~Satisfied(v)

\* initialized(response) for a host of version v.
initialized(v) ==
  /\ told' = IF Refused(v) THEN "error" ELSE "connected"
  /\ Settle(IF Refused(v) THEN "rejected" ELSE "resolved")

\* Mutant: no response is no answer yet.
UnexpectedIgnored == UNCHANGED <<promise, told>>

\* No response to the first message, or an exception.
Unexpected == Settle("rejected") /\ UNCHANGED told

Receive ==
  /\ inbox # <<>>
  /\ inbox' = Tail(inbox)
  /\ LET m == Head(inbox) IN
     /\ IF m.type = "INITIALIZE"
          THEN /\ hostData' = m.version
               /\ contextData' = IF m.version = NoData THEN contextData ELSE m.context
          ELSE UNCHANGED <<hostData, contextData>>
     /\ IF ~IsFirst THEN UNCHANGED <<timer, promise, told>>
        ELSE /\ timer' = Cleared
             /\ IF m.type = "INITIALIZE" THEN initialized(m.version) ELSE Unexpected
  /\ UNCHANGED <<chatty, sent, hostAt, contextVars>>

----------------------------------------------------------------------------
(* The Looker host.                                                        *)

Notify(m) == Len(inbox) < MaxQueue /\ inbox' = Append(inbox, m)

\* With the route the host shows, if it tracks routes.
HostInitializes ==
  /\ chatty = "up" /\ ~sent
  /\ \E v \in Versions, p \in {hostAt, NoPlace} :
       /\ v = NoData => p = NoPlace
       /\ Notify(Initialize(v, p, server))
  /\ sent' = TRUE
  /\ UNCHANGED <<connection, contextData, hostAt, contextVars>>

\* The user goes elsewhere with the host: its back button, say.
HostNavigates(p) ==
  /\ chatty = "up" /\ p # hostAt
  /\ Notify(RouteChanged(p))
  /\ hostAt' = p
  /\ UNCHANGED <<connection, contextData, sent, contextVars>>

\* Of these the first message alone can matter.
HostSendsOther ==
  /\ chatty = "up" /\ IsFirst /\ inbox = <<>>
  /\ Notify(Other)
  /\ UNCHANGED <<connection, contextData, sent, hostAt, contextVars>>

----------------------------------------------------------------------------
(* The context data, which all users of the extension share.               *)

Request(c, op) ==
  /\ Usable /\ Satisfied(hostData)
  /\ calls[c] = Idle
  /\ calls' = [calls EXCEPT ![c] = Call(op, mine)]

saveContextData(c) ==
  /\ Request(c, "save")
  /\ UNCHANGED <<connection, contextData, inbox, sent, hostAt, server, mine>>

refreshContextData(c) ==
  /\ Request(c, "refresh")
  /\ UNCHANGED <<connection, contextData, inbox, sent, hostAt, server, mine>>

\* The server does what the request says.
ContextServed(c) ==
  /\ calls[c].op # "idle" /\ calls[c].got = Absent
  /\ \/ /\ calls[c].op = "save" /\ server < MaxContext
        /\ server' = server + 1
     \/ calls[c].op = "refresh" /\ UNCHANGED server
  /\ calls' = [calls EXCEPT ![c].got = server']
  /\ UNCHANGED <<connection, contextData, inbox, sent, hostAt, mine>>

\* Another user saves, or a request of this one whose caller gave up.
OtherUserSaves ==
  /\ server < MaxContext
  /\ server' = server + 1
  /\ UNCHANGED <<connection, contextData, inbox, sent, hostAt, calls, mine>>

\* The copy stays what it was, and is what the call returns.
SaveAnswered(c) ==
  /\ calls[c].op = "save" /\ calls[c].got # Absent
  /\ mine' = IF calls[c].got > mine THEN calls[c].got ELSE mine
  /\ calls' = [calls EXCEPT ![c] = Idle]
  /\ UNCHANGED <<connection, contextData, inbox, sent, hostAt, server>>

\* Mutant: the answer is returned and not kept.
RefreshNotKept(c) ==
  /\ calls[c].op = "refresh" /\ calls[c].got # Absent
  /\ calls' = [calls EXCEPT ![c] = Idle]
  /\ UNCHANGED <<connection, contextData, inbox, sent, hostAt, server, mine>>

RefreshAnswered(c) ==
  /\ calls[c].op = "refresh" /\ calls[c].got # Absent
  /\ contextData' = calls[c].got
  /\ calls' = [calls EXCEPT ![c] = Idle]
  /\ UNCHANGED <<connection, inbox, sent, hostAt, server, mine>>

\* The host refuses, or does not answer in the time chatty gives it.
CallFailed(c) ==
  /\ calls[c] # Idle
  /\ calls' = [calls EXCEPT ![c] = Idle]
  /\ UNCHANGED <<connection, contextData, inbox, sent, hostAt, server, mine>>

----------------------------------------------------------------------------
HostInit ==
  /\ timer = "set" /\ chatty = "connecting" /\ promise = "pending" /\ told = "nothing"
  /\ hostData = NoData /\ contextData = Absent
  /\ inbox = <<>> /\ sent = FALSE /\ hostAt \in Places
  /\ server = 0 /\ calls = [c \in Callers |-> Idle] /\ mine = Absent

ContextStep(c) ==
  \/ saveContextData(c) \/ refreshContextData(c)
  \/ ContextServed(c) \/ SaveAnswered(c) \/ RefreshAnswered(c) \/ CallFailed(c)

\* The steps in which nothing happens in the extension but in connect/.
HostStep ==
  \/ Timeout \/ ChattyConnected \/ ChattyFailed
  \/ HostInitializes \/ HostSendsOther \/ OtherUserSaves
  \/ \E p \in Places : HostNavigates(p)
  \/ \E c \in Callers : ContextStep(c)

----------------------------------------------------------------------------
(* Properties.                                                             *)

Messages ==
  [type : {"INITIALIZE"}, version : Versions, place : Places \union {NoPlace}, context : Nat]
    \union [type : {"ROUTE_CHANGED"}, place : Places]
    \union [type : {"OTHER"}]

HostTypeOK ==
  /\ timer \in {"set", "fired", "cleared", "late"}
  /\ chatty \in {"connecting", "up", "failed"}
  /\ promise \in {"pending", "resolved", "rejected"}
  /\ told \in {"nothing", "connected", "error"}
  /\ hostData \in Versions \union {NoData}
  /\ contextData \in Nat \union {Absent}
  /\ inbox \in Seq(Messages)
  /\ sent \in BOOLEAN /\ hostAt \in Places
  /\ server \in Nat /\ mine \in Nat \union {Absent}
  /\ calls \in [Callers -> [op : {"idle", "save", "refresh"},
                            got : Nat \union {Absent}, need : Nat \union {Absent}]]

\* connectExtensionHost: who got the host has its INITIALIZE and a channel, whatever
\* came late, failed or was unexpected, and a host that says its version says one
\* that the extension accepts; the legacy callback heard of it, and who was told of
\* an error has no host.
ConnectedToRequired ==
  /\ promise = "resolved" =>
       /\ chatty = "up" /\ sent /\ told = "connected"
       /\ ~Refused(hostData)
  /\ told = "error" => promise = "rejected"

\* "If this happens it's a bug in the host code" (connect_extension_host.ts:50):
\* even then the promise is settled.
ConnectSettles == promise = "pending" ~> promise # "pending"

\* What is known of the context data the server has: no copy is ahead of it,
\* whatever saves failed.
ContextIsSaved == contextData <= server /\ mine <= server

\* "Get the lastest version of context data from the Looker server"
\* (types.ts:598): a refresh shows what the extension knew as saved when it asked,
\* however the saves, refreshes and failures of its callers mix.
RefreshIsCurrent ==
  [][\A c \in Callers : RefreshAnswered(c) => contextData' >= calls[c].need]_hostVars

\* "Subsequent calls to getContext will return the updated context data"
\* (types.ts:587): the copy getContextData reads is no older than what a call of
\* saveContextData has returned from.
SavedContextIsReturned == mine <= contextData
=============================================================================
