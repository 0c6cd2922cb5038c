---------------------------- MODULE Connectivity ------------------------------
(***************************************************************************)
(* The address and the uPnP state that the status bar tells: a thread      *)
(* watches the network, and each time it comes back another one maps the   *)
(* port of the server on the router. Both signal what they find to the     *)
(* interface, whose queue outlives the second.                             *)
(***************************************************************************)
EXTENDS Integers, Sequences

CONSTANT MaxChanges   \* bound on the changes of the network

VARIABLES
  changes,    \* changes that were signalled
  helper,     \* whether the ConnectivityHelper is alive
  heard,      \* what the interface heard last of the network
  mapper,     \* _upnpThread, numbered; 0 is none
  mappers,    \* mappers made
  working,    \* whether that thread is running
  ports,      \* the threads whose mapping the router has
  found,      \* what the current thread found
  netInbox,   \* signals queued for the interface
  address,    \* the state of the address label, and of the uPnP label with it
  spinning,   \* whether the label shows its spinner
  netSlips    \* history variable: causes for which the labels may tell otherwise

netVars == <<changes, helper, heard, mapper, mappers, working, ports, found, netInbox, address,
             spinning, netSlips>>

NoMapper == 0

NetInit ==
  /\ changes = 0 /\ helper = TRUE /\ heard = "nothing"
  /\ mapper = NoMapper /\ mappers = 0 /\ working = FALSE /\ ports = {} /\ found = "nothing"
  /\ netInbox = <<>>
  /\ address = "pending" /\ spinning = FALSE
  /\ netSlips = {}

\* RPZStatusLabel::updateState of both labels: only what goes on spins
updateState(text) == address' = text /\ spinning' = (text = "searching")

---------------------------------------------------------------------------
(* The threads *)

\* CMThread, at its start and whenever the network changes
ConnectivityChanges ==
  /\ helper /\ changes < MaxChanges
  /\ changes' = changes + 1
  /\ \E state \in {"online", "offline"} : netInbox' = Append(netInbox, [type |-> state, of |-> 0])
  /\ UNCHANGED <<helper, heard, mapper, mappers, working, ports, found, address, spinning, netSlips>>

\* uPnPThread::run
MapPort ==
  /\ working /\ working' = FALSE
  /\ \E result \in {"mapped", "unmapped"} :
       /\ found' = result
       /\ netInbox' = Append(netInbox, [type |-> result, of |-> mapper])
       /\ ports' = IF result = "mapped" THEN ports \cup {mapper} ELSE ports
  /\ UNCHANGED <<changes, helper, heard, mapper, mappers, address, spinning, netSlips>>

---------------------------------------------------------------------------
(* The interface *)

\* _mayClearUPnPThread: waits for the thread, whose destructor removes its mapping
portsCleared == ports \ {mapper}

signalIs(type) ==
  /\ helper /\ netInbox # <<>> /\ Head(netInbox).type = type
  /\ netInbox' = Tail(netInbox)

GoOffline ==
  /\ signalIs("offline")
  /\ heard' = "offline" /\ updateState("error")
  /\ UNCHANGED <<changes, helper, mapper, mappers, working, ports, found, netSlips>>

\* _requestUPnPHandshake
GoOnline ==
  /\ signalIs("online") /\ ~working
  /\ heard' = "online" /\ updateState("searching")
  /\ ports' = portsCleared
  /\ mapper' = mappers + 1 /\ mappers' = mappers + 1
  /\ working' = TRUE /\ found' = "nothing"
  /\ UNCHANGED <<changes, helper, netSlips>>

\* _onUPnPSuccess, _onUPnPError: nothing tells which thread it comes from
HearMapping ==
  /\ \E result \in {"mapped", "unmapped"} : signalIs(result) /\ updateState(result)
  /\ netSlips' = IF heard = "offline" \/ Head(netInbox).of # mapper
                 THEN netSlips \cup {"stale"} ELSE netSlips
  /\ UNCHANGED <<changes, helper, heard, mapper, mappers, working, ports, found>>

\* ~ConnectivityHelper
EndHelper ==
  /\ helper /\ helper' = FALSE /\ ~working
  /\ ports' = portsCleared /\ mapper' = NoMapper
  /\ UNCHANGED <<changes, heard, mappers, working, found, netInbox, address, spinning, netSlips>>

NetNext ==
  \/ ConnectivityChanges \/ MapPort
  \/ GoOffline \/ GoOnline \/ HearMapping
  \/ EndHelper

NetSpec == NetInit /\ [][NetNext]_netVars

---------------------------------------------------------------------------
(* Properties *)

(* Once all is heard the labels tell an error without network, a search while the port   *)
(* is being mapped and its result then, and spin for a search only, unless the result of *)
(* another thread was heard, or one after the network went (ConnectivityHelper.cpp:89).  *)
(* The router keeps no mapping but that of the last thread, and none after the helper.   *)
AddressTold ==
  /\ helper /\ netInbox = <<>> /\ netSlips = {} =>
       /\ address = CASE heard = "nothing" -> "pending"
                      [] heard = "offline" -> "error"
                      [] heard \notin {"nothing", "offline"} /\ working -> "searching"
                      [] OTHER -> found
       /\ spinning <=> heard = "online" /\ working
  /\ ports \subseteq {mapper} \ {NoMapper}
=============================================================================
