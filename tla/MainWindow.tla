----------------------------- MODULE MainWindow -------------------------------
(***************************************************************************)
(* How the window and the map follow the session of the user. A client     *)
(* that reads its session signals it to the thread of the interface and to *)
(* the thread of the map; both queues outlive the client, and both threads *)
(* read the same pointer to it and the same rights.                        *)
(*                                                                         *)
(* Clients are numbered in the order they are made.                        *)
(***************************************************************************)
EXTENDS Integers, Sequences

CONSTANTS
  MaxClients,  \* bound on the connections
  NullClient

ClientsAssumption == MaxClients \in Nat /\ NullClient \notin 1..MaxClients

Client == 1..MaxClients
Widget == {"toys", "audio", "sheets", "atoms", "editor"}

VARIABLES
  rpzClient,   \* ConnectivityObserver::_rpzClient
  made,        \* clients made so far
  identity,    \* the role in each client's table of users, "none" before its session
  initialMap,  \* clients whose _initialMapSetupReceived is set
  isHostAble,  \* Authorisations::_isHostAble
  uiInbox,     \* queued for the interface: sessions, and ends
  hintInbox,   \* queued for the map: sessions
  hintReads,   \* the session being handled by the map's thread, and the role it read
  remote,      \* MapHint::_isRemote
  mapMenu,     \* whether the menu of the map is enabled
  mode,        \* _currentAppUIMode
  leftTab, rightTab,  \* the widgets in the tabs
  histories,   \* history variable: whose session had the map sent, and by which client
  windowSlips, \* history variable: causes for which the map may not follow
  windowCrash  \* history variable: the pointer that was followed while it was null

windowVars == <<rpzClient, made, identity, initialMap, isHostAble, uiInbox, hintInbox, hintReads,
                remote, mapMenu, mode, leftTab, rightTab, histories, windowSlips, windowCrash>>

tabVars == <<mode, leftTab, rightTab>>
hintVars == <<hintInbox, hintReads, remote, histories>>

NoSession == [of |-> NullClient, isHost |-> FALSE]

\* _initUI sets the default mode up; loadDefaultRPZMap makes the map a local one
WindowInit ==
  /\ rpzClient = NullClient /\ made = 0
  /\ identity = [c \in Client |-> "none"] /\ initialMap = {}
  /\ isHostAble = TRUE
  /\ uiInbox = <<>> /\ hintInbox = <<>> /\ hintReads = NoSession
  /\ remote = FALSE /\ mapMenu = TRUE
  /\ mode = "Full" /\ leftTab = {"toys", "audio", "sheets"} /\ rightTab = {"atoms", "editor"}
  /\ histories = {} /\ windowSlips = {} /\ windowCrash = "no"

---------------------------------------------------------------------------
(* The thread of a client *)

SessionComes ==
  /\ rpzClient # NullClient /\ identity[rpzClient] = "none"
  /\ \E role \in {"host", "guest"} :
       /\ identity' = [identity EXCEPT ![rpzClient] = role]
       /\ isHostAble' = (role = "host")
  /\ uiInbox' = Append(uiInbox, [type |-> "session", of |-> rpzClient])
  /\ hintInbox' = Append(hintInbox, rpzClient)
  /\ UNCHANGED <<rpzClient, made, initialMap, hintReads, remote, mapMenu, tabVars, histories,
                 windowSlips, windowCrash>>

\* _onMapChangeReceived, after the session was signalled: who does not host gets a map
InitialMapComes ==
  /\ rpzClient # NullClient /\ identity[rpzClient] = "guest"
  /\ initialMap' = initialMap \cup {rpzClient}
  /\ UNCHANGED <<rpzClient, made, identity, isHostAble, uiInbox, hintVars, mapMenu, tabVars,
                 windowSlips, windowCrash>>

ConnectionEnds ==
  /\ rpzClient # NullClient
  /\ \A i \in DOMAIN uiInbox : uiInbox[i] # [type |-> "ended", of |-> rpzClient]
  /\ uiInbox' = Append(uiInbox, [type |-> "ended", of |-> rpzClient])
  /\ UNCHANGED <<rpzClient, made, identity, initialMap, isHostAble, hintVars, mapMenu, tabVars,
                 windowSlips, windowCrash>>

---------------------------------------------------------------------------
(* The interface *)

\* bindObservedClient
Connect ==
  /\ rpzClient = NullClient /\ made < MaxClients
  /\ made' = made + 1 /\ rpzClient' = made + 1
  /\ UNCHANGED <<identity, initialMap, isHostAble, uiInbox, hintVars, mapMenu, tabVars,
                 windowSlips, windowCrash>>

\* _setupAppUI: nothing is moved in the mode there is
setupAppUI(newMode) ==
  /\ mode' = newMode
  /\ IF newMode = mode THEN UNCHANGED <<leftTab, rightTab>>
     ELSE \/ /\ newMode = "Full"
             /\ leftTab' = leftTab \cup {"audio", "sheets"}
             /\ rightTab' = (rightTab \ {"audio", "sheets"}) \cup {"atoms", "editor"}
          \/ /\ newMode = "Player"
             /\ leftTab' = leftTab \ {"audio", "sheets"}
             /\ rightTab' = (rightTab \cup {"audio", "sheets"}) \ {"atoms", "editor"}

resetHostAbility == isHostAble' = TRUE

\* What the end of a client leaves to the thread of the map
endSlips ==
  (IF identity[rpzClient] = "guest" /\ rpzClient \notin initialMap THEN {"midway"} ELSE {})
  \cup (IF hintReads # NoSession THEN {"raced"} ELSE {})
  \cup (IF hintInbox # <<>> THEN {"late"} ELSE {})

\* endClient, from the button or from the end of a client, whichever it was
endClient ==
  IF rpzClient = NullClient
  THEN /\ windowCrash' = "ended"
       /\ UNCHANGED <<rpzClient, isHostAble, tabVars, remote, mapMenu, windowSlips>>
  ELSE /\ rpzClient' = NullClient
       /\ resetHostAbility
       /\ setupAppUI("Full")
       /\ remote' = (remote /\ rpzClient \notin initialMap)
       /\ mapMenu' = TRUE
       /\ windowSlips' = windowSlips \cup endSlips
       /\ UNCHANGED windowCrash

Disconnect ==
  /\ rpzClient # NullClient
  /\ endClient
  /\ UNCHANGED <<made, identity, initialMap, uiInbox, hintInbox, hintReads, histories>>

HearEnd ==
  /\ uiInbox # <<>> /\ Head(uiInbox).type = "ended"
  /\ uiInbox' = Tail(uiInbox)
  /\ endClient
  /\ UNCHANGED <<made, identity, initialMap, hintInbox, hintReads, histories>>

\* _onGameSessionReceived of the window
HearSession ==
  /\ uiInbox # <<>> /\ Head(uiInbox).type = "session"
  /\ uiInbox' = Tail(uiInbox)
  /\ setupAppUI(IF isHostAble THEN "Full" ELSE "Player")
  /\ UNCHANGED <<rpzClient, made, identity, initialMap, isHostAble, hintVars, mapMenu,
                 windowSlips, windowCrash>>

---------------------------------------------------------------------------
(* The thread of the map: _onGameSessionReceived of the hint. The client it reads may *)
(* end between its reads, and may be another one.                                     *)

ReadSession ==
  /\ hintReads = NoSession /\ hintInbox # <<>>
  /\ hintInbox' = Tail(hintInbox)
  /\ IF rpzClient = NullClient
     THEN windowCrash' = "session" /\ UNCHANGED <<hintReads, histories>>
     ELSE /\ hintReads' = [of |-> Head(hintInbox), isHost |-> identity[rpzClient] = "host"]
          /\ histories' = IF isHostAble THEN histories \cup {<<Head(hintInbox), rpzClient>>}
                          ELSE histories
          /\ UNCHANGED windowCrash
  /\ UNCHANGED <<rpzClient, made, identity, initialMap, isHostAble, uiInbox, remote, mapMenu,
                 tabVars, windowSlips>>

\* remoteChanged is bound to no object: the menu changes in this thread
AckRemoteness ==
  /\ hintReads # NoSession
  /\ hintReads' = NoSession
  /\ IF rpzClient = NullClient
     THEN windowCrash' = "session" /\ UNCHANGED <<remote, mapMenu>>
     ELSE remote' = ~hintReads.isHost /\ mapMenu' = hintReads.isHost /\ UNCHANGED windowCrash
  /\ UNCHANGED <<rpzClient, made, identity, initialMap, isHostAble, uiInbox, hintInbox, tabVars,
                 histories, windowSlips>>

WindowNext ==
  /\ windowCrash = "no"
  /\ \/ SessionComes \/ InitialMapComes \/ ConnectionEnds
     \/ Connect \/ Disconnect \/ HearEnd \/ HearSession
     \/ ReadSession \/ AckRemoteness

WindowSpec == WindowInit /\ [][WindowNext]_windowVars

---------------------------------------------------------------------------
(* Properties *)

isGuest == rpzClient # NullClient /\ identity[rpzClient] = "guest"

(* Once the interface has heard all, who joined another's session has a player's window  *)
(* and everybody else the full one, whatever was heard late, and each widget is in one   *)
(* place. The map is remote, and its menu disabled, with the same people, unless a client *)
(* ended before the map's thread was done with its session (MapHint.cpp:221) or before    *)
(* its map came (MapHint.cpp:203); and a map is sent by the client whose session asks it. *)
WindowFollowsSession ==
  /\ uiInbox = <<>> /\ windowCrash = "no" =>
       /\ mode = IF isGuest THEN "Player" ELSE "Full"
       /\ leftTab \cap rightTab = {}
       /\ leftTab = IF isGuest THEN {"toys"} ELSE {"toys", "audio", "sheets"}
       /\ leftTab \cup rightTab = IF isGuest THEN Widget \ {"atoms", "editor"} ELSE Widget
  /\ hintInbox = <<>> /\ hintReads = NoSession /\ windowSlips = {} =>
       /\ remote <=> isGuest
       /\ mapMenu <=> ~remote
  /\ \A h \in histories : h[1] = h[2] \/ "late" \in windowSlips
  /\ windowCrash = "session" => windowSlips \cap {"late", "raced"} # {}
=============================================================================
