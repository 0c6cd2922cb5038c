------------------------------ MODULE RPZTable ------------------------------
(***************************************************************************)
(* What players share around the map: the chat, the music and documents.   *)
(*                                                                         *)
(* A Process is a running application, which outlives its connections; a   *)
(* connection is one RPZClient in a thread of its own, numbered as the     *)
(* server numbers users. What the client reads is signalled to the         *)
(* interface's thread, whose queue outlives the client: signals of a       *)
(* connection that has ended are still handled. The server runs within the *)
(* process of the game master or in one of its own, and shares with the    *)
(* first the table of documents.                                           *)
(***************************************************************************)
EXTENDS Observers, Naturals, Sequences

CONSTANTS
  Process,         \* the applications
  Loopback,        \* those on the server's machine, whose users play nobody
  ServerProcesses, \* where the server may run: a process or Alone
  Alone,
  MaxConnections,  \* bound: connections opened
  MaxActs          \* bound: what users do, and network failures

ASSUME LoopbackAssumption == Loopback \subseteq Process
ASSUME ServerProcessesAssumption == ServerProcesses \subseteq Process \cup {Alone}
ASSUME AloneAssumption == Alone \notin Process
ASSUME BoundsAssumption == MaxConnections \in Nat /\ MaxActs \in Nat

Conn == 1..MaxConnections
NoConn == 0

VARIABLES
  serverProcess,   \* where the server runs
  processOf,       \* the process of each connection opened so far
  link,            \* idle, up, then down once closed, gone once the server knows
  toServer,        \* sent by a client, not handled by the server yet
  toClient,        \* sent by the server, not read by the client's thread yet
  users,           \* the roles of _usersById: absent, new (no handshake), host, guest
  messages,        \* _messages
  tracker,         \* _tracker
  client,          \* ConnectivityObserver::_rpzClient
  hostAble,        \* Authorisations::_isHostAble
  signals,         \* what is queued for the interface
  button,          \* ConnectWidget::_state
  chat, audio, shelf,
  acts,            \* bounded by MaxActs
  crashed,         \* history variable: where a null pointer was followed
  slips            \* history variable: what the properties excuse

networkVars == <<link, toServer, toClient>>
serverVars == <<users, messages, tracker>>
interfaceVars == <<button, chat, audio, shelf>>
constantVars == <<serverProcess, processOf>>
historyVars == <<acts, crashed, slips>>
vars == <<constantVars, networkVars, serverVars, client, hostAble, signals, interfaceVars,
          historyVars>>

Init ==
  /\ serverProcess \in ServerProcesses
  /\ processOf = <<>>
  /\ link = [k \in Conn |-> "idle"]
  /\ toServer = [k \in Conn |-> <<>>]
  /\ toClient = [k \in Conn |-> <<>>]
  /\ users = [k \in Conn |-> "absent"]
  /\ messages = {}
  /\ tracker = ClearedState
  /\ client = [p \in Process |-> NoConn]
  /\ hostAble = [p \in Process |-> TRUE]
  /\ signals = [p \in Process |-> <<>>]
  /\ button = [p \in Process |-> "NotConnected"]
  /\ chat = [p \in Process |-> EmptyChat]
  /\ audio = [p \in Process |-> NewPlayer]
  /\ shelf = [p \in Process |-> EmptyShelf]
  /\ acts = 0 /\ crashed = "no" /\ slips = {}

\* RPZMessage
message(command, from, to, n) == [command |-> command, from |-> from, to |-> to, n |-> n]

Opened == DOMAIN processOf
Live == {k \in Conn : users[k] # "absent"}
Host == {k \in Conn : users[k] = "host"}
Named == {k \in Conn : users[k] \in {"host", "guest"}}

TypeOK ==
  /\ Len(processOf) <= MaxConnections
  /\ link \in [Conn -> {"idle", "up", "down", "gone"}]
  /\ users \in [Conn -> {"absent", "new", "host", "guest"}]
  /\ Live \subseteq {k \in Opened : link[k] # "gone"}
  /\ tracker \in Tracker
  /\ client \in [Process -> Conn \cup {NoConn}]
  /\ \A p \in Process : client[p] # NoConn => processOf[client[p]] = p
  /\ hostAble \in [Process -> BOOLEAN]
  /\ button \in [Process -> {"NotConnected", "Connecting", "Connected"}]
  /\ \A p \in Process : \A m \in chat[p].lines : m.command \in Command
  /\ \A p \in Process : chat[p].waiting \subseteq chat[p].lines
  /\ audio \in [Process -> Player]
  /\ shelf \in [Process -> Shelf]
  /\ crashed \in {"no", "ended", "response", "document", "stream"}

\* A socket that is not connected sends nothing.
ServerSends(sent) ==
  toClient' = [k \in Conn |-> IF link[k] = "up" THEN toClient[k] \o sent[k] ELSE toClient[k]]

ToAll(S, m) == [k \in Conn |-> IF k \in S THEN <<m>> ELSE <<>>]

\* A call to the client that there is, if any.
ClientSends(p, sent) ==
  toServer' = IF client[p] # NoConn /\ link[client[p]] = "up"
              THEN [toServer EXCEPT ![client[p]] = @ \o sent] ELSE toServer

\* The server's view of SharedDocHint.
serverNames == IF serverProcess = Alone THEN {} ELSE shelf[serverProcess].names
serverStore == IF serverProcess = Alone THEN {} ELSE shelf[serverProcess].store

---------------------------------------------------------------------------
(* The server *)

Peers(k) == Live \ {k}

onNewConnection(k) ==
  /\ link[k] \in {"up", "down"}
  /\ k \notin Live
  /\ users' = [users EXCEPT ![k] = "new"]
  /\ UNCHANGED <<networkVars, messages, tracker, slips>>

\* Mutant: the comings and goings are told, not stored.
logUserAsMessageOnly(m) == UNCHANGED messages

logUserAsMessage(m) == messages' = messages \cup {m}

usersWithout(k) == [users EXCEPT ![k] = "absent"]

\* What the client sent and the server did not read is lost.
onClientSocketDisconnected(k) ==
  LET out == message("logout", k, NoConn, 0) IN
  /\ link[k] = "down"
  /\ k \in Live
  /\ link' = [link EXCEPT ![k] = "gone"]
  /\ toServer' = [toServer EXCEPT ![k] = <<>>]
  /\ users' = usersWithout(k)
  /\ logUserAsMessage(out)
  /\ ServerSends(ToAll(Peers(k), [method |-> "Message", message |-> out]))
  /\ slips' = IF \E n \in DOMAIN toServer[k] : toServer[k][n].method = "DocAvailable"
              THEN slips \cup {"dropped alone"} ELSE slips
  /\ UNCHANGED tracker

attributedRole(k) ==
  IF processOf[k] \in Loopback /\ Host = {} THEN "host" ELSE "guest"

\* The session has the message of this very login; the host is not told of music.
handshake(k) ==
  LET role == attributedRole(k)
      arrived == message("login", k, NoConn, 0)
      session == [method |-> "Session", messages |-> messages', names |-> serverNames,
                  host |-> role = "host", stream |-> tracker]
  IN /\ users' = [users EXCEPT ![k] = role]
     /\ logUserAsMessage(arrived)
     /\ ServerSends([ToAll(Peers(k), [method |-> "Message", message |-> arrived])
                       EXCEPT ![k] = <<session>>])
     /\ UNCHANGED tracker

answered(k, m, stored) == <<[method |-> "Response", message |-> m]>>

\* Mutant: a whisper is stored as what is said.
whisperSaid(m) == {m}

whisperStored(m) == {}

\* A message is stored and told to the others, or whispered to the one it is for
\* if there is one, or neither; a throw has a result, told to all. In every
\* case who sent it is answered.
interpretMessage(k, m) ==
  LET told(stored, toPeers, toSelf, whispered) ==
        /\ messages' = messages \cup stored
        /\ ServerSends([j \in Conn |->
             (IF j \in Peers(k) THEN toPeers ELSE <<>>) \o
             (IF j \in whispered THEN <<[method |-> "Message", message |-> m]>> ELSE <<>>) \o
             (IF j = k THEN toSelf \o answered(k, m, stored) ELSE <<>>)])
      relayed == <<[method |-> "Message", message |-> m]>>
      result == message("result", k, NoConn, m.n)
      resultTold == <<[method |-> "Message", message |-> result]>>
  IN /\ \/ m.command = "say" /\ told({m}, relayed, <<>>, {})
        \/ m.command = "throw" /\ told({m, result}, relayed \o resultTold, resultTold, {})
        \/ m.command = "help" /\ told({}, <<>>, <<>>, {})
        \/ m.command = "whisper" /\ told(whisperStored(m), <<>>, <<>>, {m.to} \cap Named)
     /\ UNCHANGED <<users, tracker>>

relay(k, m) == ServerSends(ToAll(Peers(k), m))

\* Mutant: a pause is relayed and not registered.
playStateRelayed(isPlaying) == UNCHANGED tracker

playStateChanged(isPlaying) ==
  \E over \in BOOLEAN : tracker' = updatePlayingState(tracker, isPlaying, over)

\* A document that the server does not have is sent empty.
onClientPayloadReceived(k) ==
  /\ k \in Live
  /\ toServer[k] # <<>>
  /\ toServer' = [toServer EXCEPT ![k] = Tail(@)]
  /\ LET m == Head(toServer[k]) IN
       \/ m.method = "Handshake" /\ handshake(k)
       \/ m.method = "Message" /\ interpretMessage(k, m.message)
       \/ /\ m.method \in {"Url", "PlayingState", "Position"}
          /\ \/ m.method = "Url" /\ tracker' = m.state
             \/ m.method = "PlayingState" /\ playStateChanged(m.isPlaying)
             \/ m.method = "Position" /\ tracker' = updatePosition(tracker)
          /\ relay(k, m)
          /\ UNCHANGED <<users, messages>>
       \/ /\ m.method = "DocAvailable"
          /\ relay(k, m)
          /\ UNCHANGED serverVars
       \/ /\ m.method = "DocRequested"
          /\ ServerSends(ToAll({k}, [method |-> "Doc", hashes |-> {m.hash} \cap serverStore]))
          /\ UNCHANGED serverVars
  /\ UNCHANGED <<link, slips>>

ServerStep ==
  /\ \E k \in Conn :
       onNewConnection(k) \/ onClientSocketDisconnected(k) \/ onClientPayloadReceived(k)
  /\ UNCHANGED <<constantVars, client, hostAble, signals, interfaceVars, acts, crashed>>

---------------------------------------------------------------------------
(* The thread of a client *)

\* The host ability is defined in this thread, the rest is signalled.
onPayloadReceived(k) ==
  LET m == Head(toClient[k])
      p == processOf[k]
  IN /\ link[k] = "up"
     /\ toClient[k] # <<>>
     /\ toClient' = [toClient EXCEPT ![k] = Tail(@)]
     /\ hostAble' = IF m.method = "Session" THEN [hostAble EXCEPT ![p] = m.host] ELSE hostAble
     /\ signals' = [signals EXCEPT ![p] = Append(@, [conn |-> k, payload |-> m])]
     /\ UNCHANGED <<link, toServer, client, interfaceVars, historyVars>>

\* The connection fails: the client says that it ended.
onError(k) ==
  LET p == processOf[k] IN
  /\ link[k] = "up"
  /\ acts < MaxActs
  /\ acts' = acts + 1
  /\ link' = [link EXCEPT ![k] = "down"]
  /\ toClient' = [toClient EXCEPT ![k] = <<>>]
  /\ signals' = [signals EXCEPT ![p] = Append(@, [conn |-> k, payload |-> [method |-> "Ended"]])]
  /\ UNCHANGED <<toServer, client, hostAble, interfaceVars, crashed, slips>>

ClientStep ==
  /\ \E k \in Conn : onPayloadReceived(k) \/ onError(k)
  /\ UNCHANGED <<constantVars, serverVars>>

---------------------------------------------------------------------------
(* The interface: connections *)

\* A server within a process starts with its first connection.
listening(p) ==
  serverProcess \in {p, Alone} \/ \E k \in Opened : processOf[k] = serverProcess

bindObservedClient(p) ==
  LET k == Len(processOf) + 1 IN
  /\ button[p] = "NotConnected"
  /\ k \in Conn
  /\ listening(p)
  /\ processOf' = Append(processOf, p)
  /\ link' = [link EXCEPT ![k] = "up"]
  /\ toServer' = [toServer EXCEPT ![k] = <<[method |-> "Handshake"]>>]
  /\ client' = [client EXCEPT ![p] = k]
  /\ button' = [button EXCEPT ![p] = "Connecting"]
  /\ chat' = [chat EXCEPT ![p] = clearLines(@)]
  /\ audio' = [audio EXCEPT ![p] = streamConnecting(@)]
  /\ UNCHANGED <<toClient, hostAble, signals, shelf, historyVars>>

\* The client is looked at before anything; its observers are told in turn.
endClient(p) ==
  IF client[p] = NoConn
  THEN /\ crashed' = "ended"
       /\ UNCHANGED <<link, toClient, client, hostAble, interfaceVars>>
  ELSE /\ link' = [link EXCEPT ![client[p]] = "down"]
       /\ toClient' = [toClient EXCEPT ![client[p]] = <<>>]
       /\ client' = [client EXCEPT ![p] = NoConn]
       /\ hostAble' = [hostAble EXCEPT ![p] = TRUE]
       /\ button' = [button EXCEPT ![p] = "NotConnected"]
       /\ chat' = [chat EXCEPT ![p] = disabled(@)]
       /\ audio' = [audio EXCEPT ![p] = streamClosed(@)]
       /\ shelf' = [shelf EXCEPT ![p] = shelfClosed(@)]
       /\ UNCHANGED crashed

\* Names that stay when their items go are never shown again.
forgets(p) == {d \in Document : ~isLocal(shelf[p], d)} # {}
slipsAfterEnd(p) == IF forgets(p) THEN {"relisting"} ELSE {}

onConnectButtonPressed(p) ==
  /\ button[p] # "NotConnected"
  /\ acts < MaxActs
  /\ acts' = acts + 1
  /\ endClient(p)
  /\ slips' = slips \cup slipsAfterEnd(p)
  /\ UNCHANGED <<processOf, toServer, signals>>

---------------------------------------------------------------------------
(* The interface: what users do *)

actOf(p) ==
  /\ acts < MaxActs
  /\ acts' = acts + 1
  /\ UNCHANGED <<processOf, link, toClient, client, hostAble, signals, button>>

\* What the text of a line is found to be, and to whom: anything may be said, and
\* whispered to anyone who is or was there.
interpreted == ({"say", "help", "throw"} \X {NoConn}) \cup ({"whisper"} \X Opened)

sendMessage(p) ==
  /\ chat[p].on
  /\ actOf(p)
  /\ \E said \in interpreted :
       LET m == message(said[1], client[p], said[2], acts') IN
       /\ chat' = [chat EXCEPT ![p] = handleLocalMessage(@, m)]
       /\ ClientSends(p, <<[method |-> "Message", message |-> m]>>)
  /\ UNCHANGED <<audio, shelf, crashed, slips>>

\* What the one in charge of the session's music does is told.
tells(p, sent) == IF audio[p].master THEN ClientSends(p, sent) ELSE UNCHANGED toServer

playTrack(p) ==
  /\ inControl(audio[p])
  /\ ~audio[p].requested
  /\ actOf(p)
  /\ audio' = [audio EXCEPT ![p] = onPlayRequested(@)]
  /\ UNCHANGED <<toServer, chat, shelf, crashed, slips>>

pauseOrPlay(p) ==
  /\ inControl(audio[p])
  /\ audio[p].heard.on \in {"playing", "paused"}
  /\ actOf(p)
  /\ LET isPlaying == audio[p].heard.on = "paused" IN
       /\ \E over \in BOOLEAN :
            audio' = [audio EXCEPT ![p] = onAudioPlayStateChanged(@, isPlaying, over)]
       /\ tells(p, <<[method |-> "PlayingState", isPlaying |-> isPlaying]>>)
  /\ UNCHANGED <<chat, shelf, crashed, slips>>

seek(p) ==
  /\ inControl(audio[p])
  /\ audio[p].heard.on \in {"playing", "paused"}
  /\ actOf(p)
  /\ audio' = [audio EXCEPT ![p] = onSeekingRequested(@)]
  /\ tells(p, <<[method |-> "Position"]>>)
  /\ UNCHANGED <<chat, shelf, crashed, slips>>

urlTold(p) == <<[method |-> "Url", state |-> audio'[p].state]>>

\* The metadata of the track asked for have come, whoever is in charge by then.
metadataRefreshed(p) ==
  /\ audio[p].requested
  /\ \E url \in Track : audio' = [audio EXCEPT ![p] = refreshed(@, url)]
  /\ tells(p, urlTold(p))
  /\ slips' = IF button[p] = "Connected" /\ ~audio[p].master
              THEN slips \cup {"untold"} ELSE slips
  /\ UNCHANGED <<processOf, link, toClient, client, hostAble, signals, button, chat, shelf,
                 acts, crashed>>

\* The track is over: repeated, followed by another, or by none.
onStreamPlayEnded(p) ==
  LET ended == [audio[p] EXCEPT !.heard.on = "ended"] IN
  /\ audio[p].heard.on = "playing"
  /\ actOf(p)
  /\ \/ /\ inControl(audio[p])
        /\ audio' = [audio EXCEPT ![p] = replayed(ended)]
        /\ tells(p, urlTold(p))
        /\ UNCHANGED slips
     \/ /\ inControl(audio[p])
        /\ audio' = [audio EXCEPT ![p] = nextPlayed(ended)]
        /\ UNCHANGED <<toServer, slips>>
     \/ /\ inControl(audio[p]) /\ ~audio[p].chosen
        /\ audio' = [audio EXCEPT ![p] = stopPlayingMusic(ended)]
        /\ slips' = slips \cup {"untold"}
        /\ UNCHANGED toServer
     \/ /\ ~inControl(audio[p])
        /\ audio' = [audio EXCEPT ![p] = ended]
        /\ UNCHANGED <<toServer, slips>>
  /\ UNCHANGED <<chat, shelf, crashed>>

\* The state is cleared and nobody told; the track of the playlist is marked,
\* if there is one.
onStreamError(p) ==
  /\ audio[p].heard.on = "playing"
  /\ actOf(p)
  /\ audio' = [audio EXCEPT ![p].state = ClearedState, ![p].heard.on = "stopped"]
  /\ crashed' = IF audio[p].chosen THEN "no" ELSE "stream"
  /\ slips' = slips \cup {"untold"}
  /\ UNCHANGED <<toServer, chat, shelf>>

\* Until the session is received everybody is taken for a host.
dropEvent(p) ==
  /\ shelf[p].allowDrop
  /\ actOf(p)
  /\ \E d \in Document \ shelf[p].names :
       /\ shelf' = [shelf EXCEPT ![p] = downloaded(@, d)]
       /\ IF hostAble[p]
          THEN ClientSends(p, <<[method |-> "DocAvailable", hash |-> d]>>)
          ELSE UNCHANGED toServer
  /\ slips' = slips \cup
       (IF client[p] = NoConn \/ ~hostAble[p] \/ link[client[p]] # "up" THEN {"dropped alone"}
        ELSE IF button[p] = "Connecting" THEN {"dropped early"} ELSE {})
  /\ UNCHANGED <<chat, audio, crashed>>

onItemDoubleClick(p) ==
  /\ client[p] # NoConn
  /\ \E d \in Document :
       /\ shelf[p].items[d] = "Downloadable"
       /\ shelf' = [shelf EXCEPT ![p] = downloading(@, d)]
       /\ ClientSends(p, <<[method |-> "DocRequested", hash |-> d]>>)
  /\ actOf(p)
  /\ UNCHANGED <<chat, audio, crashed, slips>>

---------------------------------------------------------------------------
(* The interface: signals *)

\* A signal of a connection that is not the one of the process any more.
late(p) == Head(signals[p]).conn # client[p]

slipsBefore(p) == IF late(p) THEN slips \cup {"late"} ELSE slips

\* Music that comes before the session: the server relays it to every socket.
slipsBeforeMusic(p) ==
  slipsBefore(p) \cup (IF button[p] # "Connected" THEN {"early"} ELSE {})

\* Music that is played though it is paused, or goes on though there is none.
slipsOf(a, s, over) ==
  (IF hasPosition(s, over) /\ ~s.playing THEN {"paused"} ELSE {}) \cup
  (IF ~hasPosition(s, over) /\ (a.heard.on # "stopped" \/ s.url # NoTrack) THEN {"over"} ELSE {})

\* The session, for the button, the chat, the documents and the music; who
\* hosts sends their own, the others get that of the session, whose signal is the
\* next in the queue and is handled with it.
onGameSessionReceived(p, m) ==
  LET joined == streamOnSession(audio[p], hostAble[p]) IN
  /\ button' = [button EXCEPT ![p] = "Connected"]
  /\ chat' = [chat EXCEPT ![p] = welcomed(@, m.messages)]
  /\ shelf' = [shelf EXCEPT ![p] = shelfOnSession(@, hostAble[p], m.names)]
  /\ IF hostAble[p] THEN ClientSends(p, <<[method |-> "Url", state |-> joined.state]>>)
     ELSE UNCHANGED toServer
  /\ \E over \in BOOLEAN :
       LET heardOf == ~m.host IN
       /\ audio' = [audio EXCEPT ![p] =
            IF heardOf THEN onAudioSourceStateChanged(joined, m.stream, over) ELSE joined]
       /\ slips' = slipsBefore(p) \cup (IF heardOf THEN slipsOf(joined, m.stream, over) ELSE {})
  /\ UNCHANGED crashed

\* A seek that is received is sought as one of the user's, and told in turn by
\* who is in charge.
onAudioSignal(p, m) ==
  /\ \/ /\ m.method = "Url"
        /\ \E over \in BOOLEAN :
             /\ audio' = [audio EXCEPT ![p] = onAudioSourceStateChanged(@, m.state, over)]
             /\ slips' = slipsBeforeMusic(p) \cup slipsOf(audio[p], m.state, over)
        /\ UNCHANGED toServer
     \/ /\ m.method = "PlayingState"
        /\ \E over \in BOOLEAN :
             audio' = [audio EXCEPT ![p] = onAudioPlayStateChanged(@, m.isPlaying, over)]
        /\ slips' = slipsBeforeMusic(p)
        /\ UNCHANGED toServer
     \/ /\ m.method = "Position"
        /\ audio' = [audio EXCEPT ![p] = onSeekingRequested(@)]
        /\ slips' = slipsBeforeMusic(p)
        /\ tells(p, <<[method |-> "Position"]>>)
  /\ UNCHANGED <<button, chat, shelf, crashed>>

onChatSignal(p, m) ==
  /\ \/ /\ m.method = "Message"
        /\ chat' = [chat EXCEPT ![p] = handleRemoteMessage(@, m.message)]
        /\ UNCHANGED crashed
     \/ /\ m.method = "Response"
        /\ chat' = [chat EXCEPT ![p] = handleResponse(@, m.message)]
        /\ crashed' = IF answersNothing(chat[p], m.message) THEN "response" ELSE "no"
  /\ slips' = slipsBefore(p)
  /\ UNCHANGED <<toServer, button, audio, shelf>>

\* The item of a document that comes is looked up without a test; that of an
\* empty one is none.
onDocumentSignal(p, m) ==
  /\ \/ /\ m.method = "DocAvailable"
        /\ shelf' = [shelf EXCEPT ![p] = temporaryItems(@, {m.hash})]
        /\ UNCHANGED crashed
     \/ /\ m.method = "Doc"
        /\ IF m.hashes = {} \/ \E d \in m.hashes : shelf[p].items[d] = "none"
           THEN crashed' = "document" /\ UNCHANGED shelf
           ELSE /\ \E d \in m.hashes : shelf' = [shelf EXCEPT ![p] = downloaded(@, d)]
                /\ UNCHANGED crashed
  /\ slips' = slipsBefore(p)
  /\ UNCHANGED <<toServer, button, chat, audio>>

onSignal(p) ==
  LET m == Head(signals[p]).payload IN
  /\ signals[p] # <<>>
  /\ signals' = [signals EXCEPT ![p] = Tail(@)]
  /\ \/ /\ \/ m.method = "Session" /\ onGameSessionReceived(p, m)
           \/ m.method \in {"Url", "PlayingState", "Position"} /\ onAudioSignal(p, m)
           \/ m.method \in {"Message", "Response"} /\ onChatSignal(p, m)
           \/ m.method \in {"DocAvailable", "Doc"} /\ onDocumentSignal(p, m)
        /\ UNCHANGED <<link, toClient, client, hostAble>>
     \/ /\ m.method = "Ended"
        /\ endClient(p)
        /\ slips' = slipsBefore(p) \cup slipsAfterEnd(p)
        /\ UNCHANGED toServer
  /\ UNCHANGED <<processOf, acts>>

InterfaceStep ==
  /\ \E p \in Process :
       \/ bindObservedClient(p) \/ onConnectButtonPressed(p)
       \/ sendMessage(p)
       \/ playTrack(p) \/ pauseOrPlay(p) \/ seek(p)
       \/ metadataRefreshed(p) \/ onStreamPlayEnded(p) \/ onStreamError(p)
       \/ dropEvent(p) \/ onItemDoubleClick(p)
       \/ onSignal(p)
  /\ UNCHANGED <<serverProcess, serverVars>>

\* Nothing follows a null pointer.
Next == crashed = "no" /\ (ServerStep \/ ClientStep \/ InterfaceStep)

Spec == Init /\ [][Next]_vars

---------------------------------------------------------------------------
(* Properties *)

\* Nothing is on its way between the process and the server.
settled(p) ==
  LET k == client[p] IN
  /\ k # NoConn
  /\ link[k] = "up"
  /\ toServer[k] = <<>> /\ toClient[k] = <<>> /\ signals[p] = <<>>
  /\ button[p] = "Connected"

isGuest(p) == settled(p) /\ users[client[p]] = "guest"

isSettledHost(p) == settled(p) /\ users[client[p]] = "host" /\ ~audio[p].requested

\* A whisper is shown to the one who said it and to the one it is for, never to
\* another user, and it is not in the history that those who join receive.
WhispersStayPrivate ==
  /\ \A m \in messages : m.command # "whisper"
  /\ \A p \in Process : \A m \in chat[p].lines :
       m.command = "whisper" /\ m.from # NoConn =>
         \E k \in {m.from, m.to} \cap Opened : processOf[k] = p

\* Two ways of learning of a message, the history of the session and what is
\* relayed, make one log: once nothing is on its way a user sees every message
\* of the history, and what all may read is in the history. A log is a set of
\* lines: a line shown twice is not told from one shown once. None stays
\* grey: whatever was said, readable or not, to someone there or not, is answered.
LogsAgree ==
  \A p \in Process : settled(p) =>
    /\ messages \subseteq chat[p].lines
    /\ \A m \in chat[p].lines :
         m.command \in {"say", "result", "login", "logout"} => m \in messages
    /\ chat[p].waiting = {}

\* The server, the host and the guests agree on the track and on whether it is
\* played, and a guest hears nothing else. Not claimed once the music was changed
\* without telling; nor, of what is heard, after music was paused or over when a
\* state of it arrived; nor, of which track, once music was played that came before
\* the session: it is the last one that was heard.
AudioFollowsHost ==
  \A h, p \in Process :
    isSettledHost(h) /\ isGuest(p) /\ slips \cap {"late", "untold"} = {} =>
      /\ \A a \in {audio[h], audio[p]} :
           a.state.url = tracker.url /\ a.state.playing = tracker.playing
      /\ slips \cap {"paused", "over"} = {} /\ audio[p].heard.on = "playing" =>
           tracker.playing /\ ("early" \in slips \/ audio[p].heard.url = tracker.url)

\* A guest is shown every document that the server's process has a name for,
\* and none stays in the course of being downloaded. Not claimed once a document
\* was dropped out of a session, or was hidden by its name after a connection.
DocumentsListed ==
  crashed = "no" => \A p \in Process :
    /\ isGuest(p)
    /\ slips \cap {"relisting", "dropped alone", "dropped early", "late"} = {}
    /\ \A k \in Conn : \A n \in DOMAIN toServer[k] : toServer[k][n].method # "DocAvailable"
    => \A d \in Document :
         /\ d \in serverNames => shelf[p].items[d] # "none"
         /\ shelf[p].items[d] # "Downloading"

\* The pointers that the interface follows without a test are null only for a
\* signal of a connection that had ended (the client, the line answered, the
\* document's item), for a document that the server's process does not have, which
\* takes a host of another process or a guest who drops it before the session, or
\* for a stream that fails at one who only listens, or listened before the session,
\* and never chose a track. The state is otherwise well typed.
ObserversSurvive ==
  /\ TypeOK
  /\ crashed \in {"ended", "response"} => "late" \in slips
  /\ crashed = "document" =>
       ~(Loopback \subseteq {serverProcess}) \/ slips \cap {"late", "dropped early"} # {}
  /\ crashed = "stream" =>
       \/ slips \cap {"late", "early"} # {}
       \/ \E p \in Process : ~inControl(audio[p]) /\ ~audio[p].chosen
=============================================================================
