------------------------- MODULE ExtensionConnector -------------------------
(***************************************************************************)
(* packages/extension-sdk-react: a provider connects the extension to the  *)
(* host (ExtensionHost), puts the SDKs into its context, and keeps the     *)
(* route of the extension and the route the host shows the same.           *)
(*                                                                         *)
(* The connection is made in an effect of the first rendering, so the      *)
(* callbacks given to connectExtensionHost keep the props and the state of *)
(* the first rendering.  Effects run in a task of their own (Flush): what  *)
(* changed before is seen at once, and intermediate values are not.        *)
(* The host shows the route the extension tells it, without an answer.     *)
(***************************************************************************)
EXTENDS ExtensionHost

CONSTANTS
  Home,       \* the route of a MemoryRouter without initial entries
  Providers   \* the providers of the extension, of the three there are

ASSUME HomeAssumption == Home \in Places
ASSUME ProvidersAssumption ==
  Providers \subseteq {"ExtensionProvider", "ExtensionProvider2", "ExtensionProviderBase"}

VARIABLES
  provider,      \* which provider the extension uses
  hostTracksRoute,
  mounted,       \* is the provider mounted
  context,       \* extensionSDK in the context of the provider
  registered,    \* the core SDKs registered for global access
  hostRoute,     \* hostRouteData; the context's route is the same
  pushedRoute,   \* the host route the effect of RouteChangeListener ran for last
  location,      \* where the router of the extension is
  moved,         \* has the location effect still to run
  passed,        \* was the last message of the host about its route one whose route
                 \* the effect had run for last, so that it will not run (a history)
  outbox         \* clientRouteChanged messages on their way to the host

reactVars == <<provider, hostTracksRoute, mounted, context, registered,
               hostRoute, pushedRoute, location, moved, passed, outbox>>
vars == <<hostVars, reactVars>>

\* The children are rendered, with a router if the host tracks the route.
Routing == mounted /\ hostTracksRoute /\ promise = "resolved"

----------------------------------------------------------------------------
(* What the messages of the host do in the component.                      *)

\* Mutant: an update of the context replaces it.
ContextReplaced == FALSE

\* updateContextData merges what it gets, which is made of the context of the
\* first rendering, into the context; that of ExtensionProviderBase replaces it.
ContextUpdated == IF provider = "ExtensionProviderBase" THEN FALSE ELSE context

\* hostChangedRoute: compared with the route of the first rendering, no route is
\* the same.
hostChangedRoute(p) ==
  IF mounted THEN /\ hostRoute' = p /\ context' = ContextUpdated
                  /\ passed' = (p.route = pushedRoute)
             ELSE UNCHANGED <<hostRoute, context, passed>>

\* setInitialRoute, if there is a route, and connectedCallback, in the same task.
\* The SDKs are registered though the component be unmounted by now.
Connected(p) ==
  /\ IF promise' = "resolved" /\ promise # "resolved"
       THEN /\ registered' = (provider # "ExtensionProviderBase")
            /\ context' = mounted
       ELSE UNCHANGED <<registered, context>>
  /\ location' = IF IsFirst /\ hostTracksRoute /\ p # NoPlace THEN p ELSE location

ReceiveInComponent ==
  /\ Receive
  /\ LET m == Head(inbox) IN
     CASE m.type = "INITIALIZE" ->
            Connected(m.place) /\ UNCHANGED <<hostRoute, passed>>
       [] m.type = "ROUTE_CHANGED" ->
            hostChangedRoute(m.place) /\ UNCHANGED <<registered, location>>
       [] OTHER -> UNCHANGED <<registered, context, location, hostRoute, passed>>
  /\ UNCHANGED <<provider, hostTracksRoute, mounted, pushedRoute, moved, outbox>>

Unmount ==
  /\ mounted
  /\ mounted' = FALSE
  /\ registered' = FALSE  \* unloadedCallback
  /\ UNCHANGED <<hostVars, provider, hostTracksRoute, context,
                 hostRoute, pushedRoute, location, moved, passed, outbox>>

----------------------------------------------------------------------------
(* Routes.                                                                 *)

\* The user follows a link within the extension.
Navigate(p) ==
  /\ Routing
  /\ location' = p
  /\ moved' = TRUE
  /\ UNCHANGED <<hostVars, provider, hostTracksRoute, mounted, context, registered,
                 hostRoute, pushedRoute, passed, outbox>>

HostTold == hostRoute.route # "" /\ hostRoute.route # pushedRoute

\* Mutant: the host's route is rendered, and the router not told of it.
FlushNotPushed ==
  /\ Routing /\ (moved \/ HostTold)
  /\ Len(outbox) < MaxQueue
  /\ outbox' = IF moved THEN Append(outbox, location) ELSE outbox
  /\ moved' = FALSE
  /\ pushedRoute' = hostRoute.route
  /\ UNCHANGED <<hostVars, provider, hostTracksRoute, mounted, context, registered,
                 hostRoute, location, passed>>

\* clientRouteChanged throws without an SDK in the context, and if the host sent no
\* data with INITIALIZE (send); an error in an effect unmounts the extension.
CannotTell == ~context \/ hostData = NoData

\* The effects of RouteChangeListener, in order: tell the host of the location,
\* then go where the host is.
Flush ==
  /\ Routing /\ (moved \/ HostTold)
  /\ Len(outbox) < MaxQueue
  /\ IF moved /\ CannotTell
       THEN /\ mounted' = FALSE /\ registered' = FALSE
            /\ UNCHANGED <<outbox, location, moved, pushedRoute>>
       ELSE /\ outbox' = IF moved THEN Append(outbox, location) ELSE outbox
            /\ location' = IF HostTold THEN hostRoute ELSE location
            /\ moved' = HostTold
            /\ pushedRoute' = hostRoute.route
            /\ UNCHANGED <<mounted, registered>>
  /\ UNCHANGED <<hostVars, provider, hostTracksRoute, context, hostRoute, passed>>

\* The host shows the route of the extension.
HostFollows ==
  /\ outbox # <<>>
  /\ hostAt' = Head(outbox)
  /\ outbox' = Tail(outbox)
  /\ UNCHANGED <<connection, contextData, inbox, sent, contextVars,
                 provider, hostTracksRoute, mounted, context, registered,
                 hostRoute, pushedRoute, location, moved, passed>>

----------------------------------------------------------------------------
Init ==
  /\ HostInit
  /\ provider \in Providers /\ hostTracksRoute \in BOOLEAN
  /\ mounted = TRUE /\ context = FALSE /\ registered = FALSE
  /\ hostRoute = NoPlace /\ pushedRoute = ""
  /\ location = Home /\ moved = TRUE /\ passed = FALSE
  /\ outbox = <<>>

Next ==
  \/ HostStep /\ UNCHANGED reactVars
  \/ ReceiveInComponent
  \/ Unmount
  \/ \E p \in Places : Navigate(p)
  \/ Flush
  \/ HostFollows

\* Timers fire.
Spec == Init /\ [][Next]_vars /\ WF_vars(Timeout /\ UNCHANGED reactVars)

----------------------------------------------------------------------------
(* Properties.                                                             *)

TypeOK ==
  /\ HostTypeOK
  /\ provider \in Providers /\ hostTracksRoute \in BOOLEAN
  /\ mounted \in BOOLEAN /\ context \in BOOLEAN /\ registered \in BOOLEAN
  /\ hostRoute \in Places \union {NoPlace}
  /\ pushedRoute \in { p.route : p \in Places } \union {""}
  /\ location \in Places /\ moved \in BOOLEAN /\ passed \in BOOLEAN
  /\ outbox \in Seq(Places)

\* The context has the "Extension SDK" (ExtensionConnector/types.ts:34) as long as
\* the extension is connected and mounted, wherever the host and the user go - but
\* under ExtensionProviderBase only until the first route change of the host, which
\* replaces the context by one without it (ExtensionProviderBase.tsx:69).
ContextKeepsSdk ==
  mounted /\ promise = "resolved" =>
    context \/ (provider = "ExtensionProviderBase" /\ hostRoute # NoPlace)

\* With nothing on its way and no effect to run the extension and the host are at
\* the same place, whichever of them moved and however their messages crossed -
\* unless the host stays where its last message led, whose route was that of the
\* message followed before it, so that the effect did not run.
RoutesAgree ==
  Routing /\ ~moved /\ ~HostTold /\ inbox = <<>> /\ outbox = <<>> =>
    location = hostAt \/ (passed /\ hostRoute = hostAt)

\* The SDK is there as long as the extension is connected and mounted: in the
\* context, and for global access, where the core SDKs are "when it is unloaded" no
\* more (unregisterCore40SDK) - unless the extension was unmounted before it was
\* connected.
SdkWhileMounted ==
  [][/\ ContextKeepsSdk'
     /\ provider # "ExtensionProviderBase" /\ mounted' /\ promise' = "resolved" => registered'
     /\ registered' /\ ~registered => promise # "resolved"
     /\ mounted /\ ~mounted' => ~registered']_vars
=============================================================================
