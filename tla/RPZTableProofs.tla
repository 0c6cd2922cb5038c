-------------------------- MODULE RPZTableProofs ---------------------------
(***************************************************************************)
(* Theorems about the table, whatever the number of its applications and   *)
(* of their connections, and whatever their users say, play and share:     *)
(* whispers are private, and a null pointer is followed only for the       *)
(* reasons that ObserversSurvive names.                                    *)
(***************************************************************************)
EXTENDS RPZTable, SequenceTheorems, TLAPS

---------------------------------------------------------------------------
(* What is in a queue *)

In(s) == {s[n] : n \in DOMAIN s}

LEMMA InEmpty == In(<<>>) = {}
BY DEF In

LEMMA InType ==
  ASSUME NEW S, NEW s \in Seq(S)
  PROVE  In(s) \subseteq S
BY LenProperties DEF In

LEMMA InSingleton ==
  ASSUME NEW S, NEW e \in S
  PROVE  <<e>> \in Seq(S) /\ In(<<e>>) = {e}
BY DEF In

LEMMA InAppend ==
  ASSUME NEW S, NEW s \in Seq(S), NEW e \in S
  PROVE  Append(s, e) \in Seq(S) /\ In(Append(s, e)) = In(s) \cup {e}
<1>1. /\ Append(s, e) \in Seq(S) /\ Len(s) \in Nat
      /\ DOMAIN s = 1..Len(s) /\ DOMAIN Append(s, e) = 1..(Len(s) + 1)
      /\ \A n \in 1..Len(s) : Append(s, e)[n] = s[n]
      /\ Append(s, e)[Len(s) + 1] = e
  BY AppendProperties, LenProperties
<1> QED
  BY <1>1 DEF In

LEMMA InConcat ==
  ASSUME NEW S, NEW s \in Seq(S), NEW t \in Seq(S)
  PROVE  s \o t \in Seq(S) /\ In(s \o t) = In(s) \cup In(t)
<1>1. /\ s \o t \in Seq(S) /\ Len(s) \in Nat /\ Len(t) \in Nat
      /\ Len(s \o t) = Len(s) + Len(t)
      /\ DOMAIN s = 1..Len(s) /\ DOMAIN t = 1..Len(t) /\ DOMAIN (s \o t) = 1..(Len(s) + Len(t))
      /\ \A n \in 1..(Len(s) + Len(t)) :
           (s \o t)[n] = IF n <= Len(s) THEN s[n] ELSE t[n - Len(s)]
  BY ConcatProperties, LenProperties
<1>2. ASSUME NEW n \in DOMAIN (s \o t)
      PROVE  (s \o t)[n] \in In(s) \cup In(t)
  <2>1. CASE n <= Len(s)
    BY <1>1, <2>1 DEF In
  <2>2. CASE ~(n <= Len(s))
    <3>1. n - Len(s) \in DOMAIN t /\ (s \o t)[n] = t[n - Len(s)]
      BY <1>1, <2>2
    <3> QED
      BY <3>1 DEF In
  <2> QED
    BY <2>1, <2>2
<1>3. ASSUME NEW n \in DOMAIN s
      PROVE  s[n] \in In(s \o t)
  <2>1. n \in DOMAIN (s \o t) /\ (s \o t)[n] = s[n]
    BY <1>1
  <2> QED
    BY <2>1 DEF In
<1>4. ASSUME NEW n \in DOMAIN t
      PROVE  t[n] \in In(s \o t)
  <2>1. n + Len(s) \in DOMAIN (s \o t) /\ (s \o t)[n + Len(s)] = t[n]
    BY <1>1
  <2> QED
    BY <2>1 DEF In
<1> QED
  BY <1>1, <1>2, <1>3, <1>4 DEF In

LEMMA InTail ==
  ASSUME NEW S, NEW s \in Seq(S), s # <<>>
  PROVE  /\ Head(s) \in S /\ Tail(s) \in Seq(S)
         /\ In(s) = {Head(s)} \cup In(Tail(s))
<1>1. /\ Head(s) \in S /\ Tail(s) \in Seq(S) /\ Len(Tail(s)) = Len(s) - 1
      /\ \A n \in 1..Len(Tail(s)) : Tail(s)[n] = s[n + 1]
      /\ Head(s) = s[1]
  BY HeadTailProperties
<1>2. DOMAIN s = 1..Len(s) /\ Len(s) \in Nat /\ DOMAIN Tail(s) = 1..Len(Tail(s))
      /\ Len(s) # 0
  BY <1>1, LenProperties, EmptySeq
<1>3. ASSUME NEW n \in DOMAIN s
      PROVE  s[n] \in {Head(s)} \cup In(Tail(s))
  <2>1. CASE n = 1
    BY <1>1, <2>1
  <2>2. CASE n # 1
    <3>1. n - 1 \in DOMAIN Tail(s) /\ Tail(s)[n - 1] = s[n]
      BY <1>1, <1>2, <2>2
    <3> QED
      BY <3>1 DEF In
  <2> QED
    BY <2>1, <2>2
<1>4. ASSUME NEW n \in DOMAIN Tail(s)
      PROVE  Tail(s)[n] \in In(s)
  <2>1. n + 1 \in DOMAIN s /\ Tail(s)[n] = s[n + 1]
    BY <1>1, <1>2
  <2> QED
    BY <2>1 DEF In
<1>5. Head(s) \in In(s)
  BY <1>1, <1>2 DEF In
<1> QED
  BY <1>1, <1>3, <1>4, <1>5 DEF In

---------------------------------------------------------------------------
(* Types *)

Message == [command : Command, from : Conn \cup {NoConn}, to : Conn \cup {NoConn},
            n : 0..MaxActs]

Music == [method : {"Url"}, state : Tracker] \cup [method : {"PlayingState"}, isPlaying : BOOLEAN]
           \cup [method : {"Position"}]

ToServer ==
  Music \cup [method : {"Handshake"}] \cup [method : {"Message"}, message : Message]
    \cup [method : {"DocAvailable", "DocRequested"}, hash : Document]

Session == [method : {"Session"}, messages : SUBSET Message, names : SUBSET Document,
            host : BOOLEAN, stream : Tracker]

ToClient ==
  Music \cup Session \cup [method : {"Message", "Response"}, message : Message]
    \cup [method : {"DocAvailable"}, hash : Document]
    \cup [method : {"Doc"}, hashes : SUBSET Document]

Signal == [conn : Conn, payload : ToClient \cup [method : {"Ended"}]]

Chat == {c \in [on : BOOLEAN, lines : SUBSET Message, waiting : SUBSET Message] :
           c.waiting \subseteq c.lines}

Types ==
  /\ serverProcess \in Process \cup {Alone}
  /\ processOf \in Seq(Process) /\ Len(processOf) <= MaxConnections
  /\ link \in [Conn -> {"idle", "up", "down", "gone"}]
  /\ toServer \in [Conn -> Seq(ToServer)]
  /\ toClient \in [Conn -> Seq(ToClient)]
  /\ users \in [Conn -> {"absent", "new", "host", "guest"}]
  /\ messages \in SUBSET Message
  /\ tracker \in Tracker
  /\ client \in [Process -> Conn \cup {NoConn}]
  /\ hostAble \in [Process -> BOOLEAN]
  /\ signals \in [Process -> Seq(Signal)]
  /\ button \in [Process -> {"NotConnected", "Connecting", "Connected"}]
  /\ chat \in [Process -> Chat]
  /\ audio \in [Process -> Player]
  /\ shelf \in [Process -> Shelf]
  /\ acts \in 0..MaxActs
  /\ crashed \in {"no", "ended", "response", "document", "stream"}

\* The fields of a message, by its method.
LEMMA ToServerFields ==
  ASSUME NEW x \in ToServer
  PROVE  /\ x.method = "Message" => x.message \in Message
         /\ x.method = "Url" => x.state \in Tracker
         /\ x.method = "PlayingState" => x.isPlaying \in BOOLEAN
         /\ x.method \in {"DocAvailable", "DocRequested"} => x.hash \in Document
         /\ x.method \in {"Url", "PlayingState", "Position"} => x \in Music
         /\ x.method = "DocAvailable" => x \in ToClient
         /\ x.method = "Handshake" => x = [method |-> "Handshake"]
         /\ x.method = "Message" => x = [method |-> "Message", message |-> x.message]
BY DEF ToServer, ToClient, Music

LEMMA ToClientFields ==
  ASSUME NEW x \in ToClient
  PROVE  /\ x.method \in {"Message", "Response"} => x.message \in Message
         /\ x.method = "Session" =>
              /\ x.messages \in SUBSET Message /\ x.names \in SUBSET Document
              /\ x.host \in BOOLEAN /\ x.stream \in Tracker
         /\ x.method = "Url" => x.state \in Tracker
         /\ x.method = "PlayingState" => x.isPlaying \in BOOLEAN
         /\ x.method = "DocAvailable" => x.hash \in Document
         /\ x.method = "Doc" => x.hashes \in SUBSET Document
         /\ x.method # "Ended" /\ x.method # "Handshake"
BY DEF ToClient, Session, Music

LEMMA MusicIsSent == Music \subseteq ToServer /\ Music \subseteq ToClient
BY DEF ToServer, ToClient

\* What is sent by a server, typed.
LEMMA MessageSent ==
  ASSUME NEW m \in Message
  PROVE  /\ [method |-> "Message", message |-> m] \in ToClient \cap ToServer
         /\ [method |-> "Response", message |-> m] \in ToClient
BY DEF ToClient, ToServer

LEMMA OpenedConns == Types => Opened = 1..Len(processOf) /\ Opened \subseteq Conn
BY LenProperties, BoundsAssumption DEF Types, Opened, Conn

\* The operators of the chat, the music and the documents.
LEMMA ChatTypes ==
  ASSUME NEW c \in Chat, NEW m \in Message, NEW M \in SUBSET Message
  PROVE  /\ clearLines(c) \in Chat /\ disabled(c) \in Chat
         /\ handleLocalMessage(c, m) \in Chat /\ handleRemoteMessage(c, m) \in Chat
         /\ welcomed(c, M) \in Chat /\ handleResponse(c, m) \in Chat
BY DEF Chat, clearLines, disabled, handleLocalMessage, handleRemoteMessage, welcomed, handleResponse

LEMMA EmptyChatType == EmptyChat \in Chat
BY DEF Chat, EmptyChat

LEMMA TrackerTypes ==
  ASSUME NEW s \in Tracker, NEW url \in Track, NEW b \in BOOLEAN, NEW over \in BOOLEAN
  PROVE  /\ ClearedState \in Tracker /\ registerReplay(s) \in Tracker
         /\ updatePlayingState(s, b, over) \in Tracker /\ updatePosition(s) \in Tracker
         /\ registerNewPlay(url) \in Tracker
BY DEF Tracker, ClearedState, registerReplay, updatePlayingState, updatePosition, registerNewPlay

LEMMA ClearedType == ClearedState \in Tracker
BY DEF Tracker, ClearedState

LEMMA PositionType ==
  ASSUME NEW s \in Tracker
  PROVE  updatePosition(s) \in Tracker /\ registerReplay(s) \in Tracker
BY DEF Tracker, updatePosition, registerReplay

LEMMA PlayerTypes ==
  ASSUME NEW a \in Player
  PROVE  /\ playAudio(a) \in Player /\ stopPlayingMusic(a) \in Player
         /\ streamConnecting(a) \in Player /\ streamClosed(a) \in Player
         /\ onSeekingRequested(a) \in Player /\ onPlayRequested(a) \in Player
         /\ replayed(a) \in Player /\ nextPlayed(a) \in Player
         /\ [a EXCEPT !.heard.on = "ended"] \in Player
         /\ [a EXCEPT !.state = ClearedState, !.heard.on = "stopped"] \in Player
BY ClearedType, PositionType
   DEF Player, Sound, Tracker, playAudio, stopPlayingMusic, streamConnecting, streamClosed,
       onSeekingRequested, onPlayRequested, replayed, nextPlayed, ClearedState, updatePosition,
       registerReplay

LEMMA PlayerStateTypes ==
  ASSUME NEW a \in Player, NEW s \in Tracker, NEW over \in BOOLEAN, NEW b \in BOOLEAN
  PROVE  /\ onAudioSourceStateChanged(a, s, over) \in Player
         /\ onAudioPlayStateChanged(a, b, over) \in Player
         /\ streamOnSession(a, b) \in Player
BY DEF Player, Sound, Tracker, onAudioSourceStateChanged, onAudioPlayStateChanged, streamOnSession,
       playAudio, stopPlayingMusic, ClearedState, updatePosition, updatePlayingState

LEMMA RefreshedType ==
  ASSUME NEW a \in Player, NEW url \in Track
  PROVE  refreshed(a, url) \in Player
BY DEF Player, Sound, Tracker, refreshed, registerNewPlay, playAudio, updatePosition

LEMMA NewPlayerType == NewPlayer \in Player
BY DEF Player, Sound, Tracker, NewPlayer, ClearedState

LEMMA ShelfTypes ==
  ASSUME NEW s \in Shelf, NEW d \in Document
  PROVE  downloaded(s, d) \in Shelf /\ downloading(s, d) \in Shelf
BY DEF Shelf, ItemState, downloaded, downloading

LEMMA ShelfOfferedTypes ==
  ASSUME NEW s \in Shelf, NEW D \in SUBSET Document, NEW b \in BOOLEAN
  PROVE  temporaryItems(s, D) \in Shelf /\ shelfOnSession(s, b, D) \in Shelf
BY DEF Shelf, ItemState, temporaryItems, shelfOnSession

LEMMA ShelfClosedType ==
  ASSUME NEW s \in Shelf
  PROVE  shelfClosed(s) \in Shelf
BY DEF Shelf, ItemState, shelfClosed, isLocal

LEMMA EmptyShelfType == EmptyShelf \in Shelf
BY DEF Shelf, ItemState, EmptyShelf

---------------------------------------------------------------------------
(* What each step does to the queues *)

Asked(m) == [method |-> "Message", message |-> m]
Answer(m) == [method |-> "Response", message |-> m]

\* The queue new is old, then the elements of X.
Extended(new, old, X) == \E t \in Seq(ToClient) : new = old \o t /\ In(t) = X

LEMMA ExtendedElements ==
  ASSUME NEW old \in Seq(ToClient), NEW new, NEW X, Extended(new, old, X)
  PROVE  new \in Seq(ToClient) /\ In(new) = In(old) \cup X
BY InConcat DEF Extended

\* What the server sends on each connection that is up.
ServerTells(X) ==
  /\ toClient' \in [Conn -> Seq(ToClient)]
  /\ \A j \in Conn : Extended(toClient'[j], toClient[j], IF link[j] = "up" THEN X[j] ELSE {})

LEMMA ServerSendsTells ==
  ASSUME Types, NEW sent, sent \in [Conn -> Seq(ToClient)], NEW X, ServerSends(sent),
         \A j \in Conn : X[j] = In(sent[j])
  PROVE  ServerTells(X)
<1>1. ASSUME NEW j \in Conn
      PROVE  Extended(toClient'[j], toClient[j], IF link[j] = "up" THEN X[j] ELSE {})
  <2>1. toClient[j] \in Seq(ToClient) /\ sent[j] \in Seq(ToClient)
    BY DEF Types
  <2>2. CASE link[j] = "up"
    <3>1. toClient'[j] = toClient[j] \o sent[j]
      BY <2>2 DEF ServerSends
    <3> QED
      BY <2>1, <2>2, <3>1 DEF Extended
  <2>3. CASE link[j] # "up"
    <3>1. toClient'[j] = toClient[j]
      BY <2>3 DEF ServerSends
    <3>2. <<>> \in Seq(ToClient) /\ toClient[j] \o <<>> = toClient[j]
      BY <2>1, ConcatEmptySeq, EmptySeq
    <3> QED
      BY <2>3, <3>1, <3>2, InEmpty DEF Extended
  <2> QED
    BY <2>2, <2>3
<1>2. \A j \in Conn : toClient'[j] \in Seq(ToClient)
  BY <1>1, ExtendedElements DEF Types
<1>3. toClient' = [j \in Conn |-> toClient'[j]]
  BY DEF ServerSends
<1> QED
  BY <1>1, <1>2, <1>3 DEF ServerTells

\* Told to some of the connections.
ToSome(S, x) == [j \in Conn |-> IF j \in S THEN {x} ELSE {}]

LEMMA ToAllTells ==
  ASSUME Types, NEW S, NEW x \in ToClient, ServerSends(ToAll(S, x))
  PROVE  ServerTells(ToSome(S, x))
<1>1. ToAll(S, x) \in [Conn -> Seq(ToClient)]
  BY InSingleton, EmptySeq DEF ToAll
<1>2. \A j \in Conn : ToSome(S, x)[j] = In(ToAll(S, x)[j])
  BY InSingleton, InEmpty DEF ToAll, ToSome
<1> QED
  BY <1>1, <1>2, ServerSendsTells

LEMMA CommandMessages ==
  ASSUME NEW k \in Conn
  PROVE  /\ message("login", k, NoConn, 0) \in Message
         /\ message("logout", k, NoConn, 0) \in Message
         /\ \A m \in Message : message("result", k, NoConn, m.n) \in Message
BY BoundsAssumption DEF message, Message, Command, NoConn, Conn

LEMMA Disconnected ==
  ASSUME Types, NEW k \in Conn, onClientSocketDisconnected(k)
  PROVE  \E out \in Message :
           /\ out.command = "logout"
           /\ messages' = messages \cup {out}
           /\ ServerTells(ToSome(Peers(k), Asked(out)))
<1>1. message("logout", k, NoConn, 0) \in Message
  BY CommandMessages
<1>2. Asked(message("logout", k, NoConn, 0)) \in ToClient
  BY <1>1, MessageSent DEF Asked
<1>3. ServerTells(ToSome(Peers(k), Asked(message("logout", k, NoConn, 0))))
  BY <1>2, ToAllTells DEF onClientSocketDisconnected, Asked
<1>4. message("logout", k, NoConn, 0).command = "logout"
  BY DEF message
<1> QED
  BY <1>1, <1>3, <1>4 DEF onClientSocketDisconnected, logUserAsMessage

LEMMA Handshaken ==
  ASSUME Types, NEW k \in Conn, handshake(k)
  PROVE  \E arrived \in Message, s \in Session :
           /\ arrived.command = "login"
           /\ messages' = messages \cup {arrived}
           /\ s.messages = messages' /\ s.names = serverNames
           /\ s.host = (attributedRole(k) = "host") /\ s.stream = tracker
           /\ ServerTells([ToSome(Peers(k), Asked(arrived)) EXCEPT ![k] = {s}])
           /\ toClient'[k] = IF link[k] = "up" THEN Append(toClient[k], s) ELSE toClient[k]
<1> DEFINE arrived == message("login", k, NoConn, 0)
           s == [method |-> "Session", messages |-> messages', names |-> serverNames,
                 host |-> attributedRole(k) = "host", stream |-> tracker]
           sent == [ToAll(Peers(k), [method |-> "Message", message |-> arrived])
                       EXCEPT ![k] = <<s>>]
<1>1. arrived \in Message /\ arrived.command = "login"
  BY CommandMessages DEF message
<1>2. Asked(arrived) \in ToClient
  BY <1>1, MessageSent DEF Asked
<1>3. messages' = messages \cup {arrived} /\ messages' \in SUBSET Message
  BY <1>1 DEF handshake, logUserAsMessage, Types
<1>4. serverNames \in SUBSET Document
  BY DEF serverNames, Types, Shelf
<1>5. s \in Session /\ s \in ToClient
  BY <1>3, <1>4 DEF Session, ToClient, Types
<1>6. ServerSends(sent)
  BY DEF handshake
<1> HIDE DEF arrived, s
<1>7. sent \in [Conn -> Seq(ToClient)]
  BY <1>2, <1>5, InSingleton, EmptySeq DEF ToAll, Asked
<1>8. \A j \in Conn : [ToSome(Peers(k), Asked(arrived)) EXCEPT ![k] = {s}][j] = In(sent[j])
  BY <1>2, <1>5, InSingleton, InEmpty DEF ToAll, ToSome, Asked
<1>9. ServerTells([ToSome(Peers(k), Asked(arrived)) EXCEPT ![k] = {s}])
  <2> HIDE DEF sent
  <2> QED
    BY <1>6, <1>7, <1>8, ServerSendsTells
<1>10. s.messages = messages' /\ s.names = serverNames
       /\ s.host = (attributedRole(k) = "host") /\ s.stream = tracker
  BY DEF s
<1>11. toClient'[k] = IF link[k] = "up" THEN toClient[k] \o <<s>> ELSE toClient[k]
  <2>1. sent[k] = <<s>>
    BY DEF ToAll
  <2> HIDE DEF sent
  <2> QED
    BY <1>6, <2>1 DEF ServerSends
<1>12. toClient[k] \o <<s>> = Append(toClient[k], s)
  BY <1>5, AppendIsConcat DEF Types
<1> QED
  BY <1>1, <1>3, <1>5, <1>9, <1>10, <1>11, <1>12

\* What is told to the others, to whom it is whispered and to who sent m.
Told(k, m, news, whispered) ==
  [j \in Conn |->
     (IF j \in Peers(k) THEN {Asked(x) : x \in news} ELSE {})
       \cup (IF j \in whispered THEN {Asked(m)} ELSE {})
       \cup (IF j = k THEN {Asked(x) : x \in news \ {m}} \cup {Answer(m)} ELSE {})]

LEMMA ThreeSent ==
  ASSUME NEW a \in Seq(ToClient), NEW b \in Seq(ToClient), NEW c \in Seq(ToClient)
  PROVE  a \o b \o c \in Seq(ToClient) /\ In(a \o b \o c) = In(a) \cup In(b) \cup In(c)
<1> DEFINE ab == a \o b
<1>1. ab \in Seq(ToClient) /\ In(ab) = In(a) \cup In(b)
  BY InConcat
<1>2. ASSUME NEW s \in Seq(ToClient)
      PROVE  s \o c \in Seq(ToClient) /\ In(s \o c) = In(s) \cup In(c)
  BY InConcat
<1> HIDE DEF ab
<1>3. ab \o c \in Seq(ToClient) /\ In(ab \o c) = In(ab) \cup In(c)
  BY <1>1, <1>2
<1> QED
  BY <1>1, <1>3 DEF ab

LEMMA TwoSent ==
  ASSUME NEW x \in ToClient, NEW y \in ToClient
  PROVE  <<x>> \o <<y>> \in Seq(ToClient) /\ In(<<x>> \o <<y>>) = {x, y}
<1> DEFINE a == <<x>>
           b == <<y>>
<1>1. a \in Seq(ToClient) /\ b \in Seq(ToClient) /\ In(a) = {x} /\ In(b) = {y}
  BY InSingleton
<1> HIDE DEF a, b
<1>2. a \o b \in Seq(ToClient) /\ In(a \o b) = In(a) \cup In(b)
  BY <1>1, InConcat
<1> QED
  BY <1>1, <1>2 DEF a, b

\* The news are public; what is said is among them.
LEMMA Interpreted ==
  ASSUME Types, NEW k \in Conn, NEW m \in Message, interpretMessage(k, m)
  PROVE  \E news \in SUBSET Message, whispered \in SUBSET Conn :
           /\ messages' = messages \cup news
           /\ \A x \in news : x = m \/ x.command = "result"
           /\ m \in news => m.command \in {"say", "throw"}
           /\ m.command = "say" => m \in news
           /\ whispered = {} \/ (m.command = "whisper" /\ whispered = {m.to} \cap Named)
           /\ ServerTells(Told(k, m, news, whispered))
<1> DEFINE relayed == <<Asked(m)>>
           result == message("result", k, NoConn, m.n)
           resultTold == <<Asked(result)>>
           sent(toPeers, toSelf, whispered) ==
             [j \in Conn |->
               (IF j \in Peers(k) THEN toPeers ELSE <<>>) \o
               (IF j \in whispered THEN <<Asked(m)>> ELSE <<>>) \o
               (IF j = k THEN toSelf \o <<Answer(m)>> ELSE <<>>)]
<1>1. result \in Message /\ result.command = "result"
  BY CommandMessages DEF message
<1>2. /\ Asked(m) \in ToClient /\ Answer(m) \in ToClient /\ Asked(result) \in ToClient
      /\ <<>> \in Seq(ToClient) /\ In(<<>>) = {}
  BY <1>1, MessageSent, InEmpty, EmptySeq DEF Asked, Answer
<1>3. ASSUME NEW toPeers \in Seq(ToClient), NEW toSelf \in Seq(ToClient),
             NEW whispered \in SUBSET Conn, NEW news \in SUBSET Message,
             In(toPeers) = {Asked(x) : x \in news},
             In(toSelf) = {Asked(x) : x \in news \ {m}},
             ServerSends(sent(toPeers, toSelf, whispered))
      PROVE  ServerTells(Told(k, m, news, whispered))
  <2> DEFINE s == sent(toPeers, toSelf, whispered)
  <2>1. ASSUME NEW j \in Conn
        PROVE  s[j] \in Seq(ToClient) /\ Told(k, m, news, whispered)[j] = In(s[j])
    <3> DEFINE a == IF j \in Peers(k) THEN toPeers ELSE <<>>
               b == IF j \in whispered THEN <<Asked(m)>> ELSE <<>>
               c == IF j = k THEN toSelf \o <<Answer(m)>> ELSE <<>>
    <3>1. a \in Seq(ToClient) /\ In(a) = IF j \in Peers(k) THEN {Asked(x) : x \in news} ELSE {}
      BY <1>2, <1>3
    <3>2. b \in Seq(ToClient) /\ In(b) = IF j \in whispered THEN {Asked(m)} ELSE {}
      BY <1>2, InSingleton
    <3>3. <<Answer(m)>> \in Seq(ToClient) /\ In(<<Answer(m)>>) = {Answer(m)}
      BY <1>2, InSingleton
    <3>4. c \in Seq(ToClient)
          /\ In(c) = IF j = k THEN {Asked(x) : x \in news \ {m}} \cup {Answer(m)} ELSE {}
      <4> DEFINE ans == <<Answer(m)>>
      <4>1. ans \in Seq(ToClient) /\ In(ans) = {Answer(m)}
        BY <3>3
      <4> HIDE DEF ans
      <4>2. toSelf \o ans \in Seq(ToClient) /\ In(toSelf \o ans) = In(toSelf) \cup In(ans)
        BY <4>1, InConcat
      <4>3. c = IF j = k THEN toSelf \o ans ELSE <<>>
        BY DEF ans
      <4> QED
        BY <1>2, <1>3, <4>1, <4>2, <4>3
    <3>5. s[j] = a \o b \o c
      OBVIOUS
    <3> HIDE DEF a, b, c
    <3>6. a \o b \o c \in Seq(ToClient) /\ In(a \o b \o c) = In(a) \cup In(b) \cup In(c)
      BY <3>1, <3>2, <3>4, ThreeSent
    <3>7. Told(k, m, news, whispered)[j] = In(a) \cup In(b) \cup In(c)
      BY <3>1, <3>2, <3>4 DEF Told
    <3> QED
      BY <3>5, <3>6, <3>7
  <2>2. s = [j \in Conn |-> s[j]]
    OBVIOUS
  <2>3. ServerSends(s)
    BY <1>3
  <2> HIDE DEF s
  <2>4. s \in [Conn -> Seq(ToClient)]
    BY <2>1, <2>2
  <2> QED
    BY <2>1, <2>3, <2>4, ServerSendsTells
<1>4. /\ relayed \in Seq(ToClient) /\ In(relayed) = {Asked(m)}
      /\ resultTold \in Seq(ToClient) /\ In(resultTold) = {Asked(result)}
      /\ relayed \o resultTold \in Seq(ToClient)
      /\ In(relayed \o resultTold) = {Asked(m), Asked(result)}
  BY <1>2, InSingleton, TwoSent
<1>5. CASE m.command = "say"
  <2>1. ServerSends(sent(relayed, <<>>, {})) /\ messages' = messages \cup {m}
    BY <1>5 DEF interpretMessage, answered, Asked, Answer
  <2>2. In(relayed) = {Asked(x) : x \in {m}} /\ In(<<>>) = {Asked(x) : x \in {m} \ {m}}
    BY <1>2, <1>4
  <2>3. ServerTells(Told(k, m, {m}, {}))
    <3> HIDE DEF sent, relayed
    <3> QED
      BY <1>2, <1>3, <1>4, <2>1, <2>2
  <2> QED
    BY <1>5, <2>1, <2>3
<1>6. CASE m.command = "throw"
  <2>1. ServerSends(sent(relayed \o resultTold, resultTold, {}))
        /\ messages' = messages \cup {m, result}
    BY <1>6 DEF interpretMessage, answered, Asked, Answer
  <2>2. /\ In(relayed \o resultTold) = {Asked(x) : x \in {m, result}}
        /\ In(resultTold) = {Asked(x) : x \in {m, result} \ {m}}
    <3>1. result # m
      BY <1>1, <1>6
    <3> HIDE DEF result, relayed, resultTold
    <3> QED
      BY <1>4, <3>1
  <2>3. ServerTells(Told(k, m, {m, result}, {}))
    <3> HIDE DEF sent, relayed, resultTold, result
    <3> QED
      BY <1>1, <1>3, <1>4, <2>1, <2>2
  <2> HIDE DEF result
  <2> QED
    BY <1>1, <1>6, <2>1, <2>3
<1>7. CASE m.command = "help"
  <2>1. ServerSends(sent(<<>>, <<>>, {})) /\ messages' = messages \cup {}
    BY <1>7 DEF interpretMessage, answered, Asked, Answer
  <2>2. In(<<>>) = {Asked(x) : x \in {}} /\ In(<<>>) = {Asked(x) : x \in {} \ {m}}
    BY <1>2
  <2>3. ServerTells(Told(k, m, {}, {}))
    <3> HIDE DEF sent
    <3> QED
      BY <1>2, <1>3, <2>1, <2>2
  <2> QED
    BY <1>7, <2>1, <2>3
<1>8. CASE m.command = "whisper"
  <2>1. ServerSends(sent(<<>>, <<>>, {m.to} \cap Named)) /\ messages' = messages \cup {}
    BY <1>8 DEF interpretMessage, answered, Asked, Answer, whisperStored
  <2>2. In(<<>>) = {Asked(x) : x \in {}} /\ In(<<>>) = {Asked(x) : x \in {} \ {m}}
    BY <1>2
  <2>3. ServerTells(Told(k, m, {}, {m.to} \cap Named))
    <3>1. {m.to} \cap Named \in SUBSET Conn
      BY DEF Named
    <3> HIDE DEF sent
    <3> QED
      BY <1>2, <1>3, <2>1, <2>2, <3>1
  <2>4. {m.to} \cap Named \in SUBSET Conn
    BY DEF Named
  <2> QED
    BY <1>8, <2>1, <2>3, <2>4
<1> QED
  BY <1>5, <1>6, <1>7, <1>8 DEF interpretMessage

LEMMA Relayed ==
  ASSUME Types, NEW k \in Conn, NEW x \in ToClient, relay(k, x)
  PROVE  ServerTells(ToSome(Peers(k), x))
BY ToAllTells DEF relay

\* What a process sends, if its connection is up.
ClientTells(p, x) ==
  /\ toServer' \in [Conn -> Seq(ToServer)]
  /\ \A k \in Conn : toServer'[k] = IF k = client[p] /\ link[k] = "up"
                                    THEN Append(toServer[k], x) ELSE toServer[k]

LEMMA ClientSendsTells ==
  ASSUME Types, NEW p \in Process, NEW x \in ToServer, ClientSends(p, <<x>>)
  PROVE  ClientTells(p, x)
<1>1. \A k \in Conn : toServer[k] \o <<x>> = Append(toServer[k], x)
                      /\ Append(toServer[k], x) \in Seq(ToServer)
  BY AppendIsConcat, InAppend DEF Types
<1>2. \A k \in Conn : toServer'[k] = IF k = client[p] /\ link[k] = "up"
                                    THEN Append(toServer[k], x) ELSE toServer[k]
  <2>1. CASE client[p] # NoConn /\ link[client[p]] = "up"
    <3>1. toServer' = [toServer EXCEPT ![client[p]] = @ \o <<x>>] /\ client[p] \in Conn
      BY <2>1 DEF ClientSends, Types
    <3> QED
      BY <1>1, <2>1, <3>1 DEF Types
  <2>2. CASE ~(client[p] # NoConn /\ link[client[p]] = "up")
    <3>1. toServer' = toServer
      BY <2>2 DEF ClientSends
    <3>2. \A k \in Conn : k # NoConn
      BY BoundsAssumption DEF Conn, NoConn
    <3> QED
      BY <2>2, <3>1, <3>2
  <2> QED
    BY <2>1, <2>2
<1>3. toServer' \in [Conn -> Seq(ToServer)]
  <2>1. toServer' = [k \in Conn |-> toServer'[k]]
    BY DEF ClientSends, Types
  <2> QED
    BY <1>1, <1>2, <2>1 DEF Types
<1> QED
  BY <1>2, <1>3 DEF ClientTells

\* What users do with the music, and the end of a track.
musicAct(p) ==
  \/ playTrack(p) \/ pauseOrPlay(p) \/ seek(p)
  \/ metadataRefreshed(p) \/ onStreamPlayEnded(p) \/ onStreamError(p)

LEMMA MusicTold ==
  ASSUME Types, NEW p \in Process, musicAct(p)
  PROVE  /\ toServer' = toServer \/ \E x \in Music : ClientTells(p, x)
         /\ audio' \in [Process -> Player]
         /\ audio' = [audio EXCEPT ![p] = audio'[p]]
         /\ UNCHANGED <<processOf, link, toClient, client, hostAble, signals, button, chat, shelf>>
         /\ slips \subseteq slips'
         /\ acts' \in 0..MaxActs
         /\ crashed' \in {"no", "ended", "response", "document", "stream"}
<1>1. ASSUME NEW x \in Music, tells(p, <<x>>)
      PROVE  toServer' = toServer \/ \E y \in Music : ClientTells(p, y)
  BY <1>1, MusicIsSent, ClientSendsTells DEF tells
<1>2. audio[p] \in Player /\ acts \in Nat /\ MaxActs \in Nat
  BY BoundsAssumption DEF Types
<1>3. acts < MaxActs /\ acts' = acts + 1 => acts' \in 0..MaxActs
  BY <1>2
<1>4. CASE playTrack(p)
  BY <1>2, <1>3, <1>4, PlayerTypes DEF playTrack, actOf, Types
<1>5. CASE pauseOrPlay(p)
  <2>1. PICK b \in BOOLEAN, over \in BOOLEAN :
          audio' = [audio EXCEPT ![p] = onAudioPlayStateChanged(@, b, over)]
    BY <1>5 DEF pauseOrPlay
  <2>2. onAudioPlayStateChanged(audio[p], b, over) \in Player
    BY <1>2, PlayerStateTypes, ClearedType
  <2>3. \E x \in Music : tells(p, <<x>>)
    BY <1>5 DEF pauseOrPlay, Music
  <2> QED
    BY <1>1, <1>3, <1>5, <2>1, <2>2, <2>3 DEF pauseOrPlay, actOf, Types
<1>6. CASE seek(p)
  <2>1. \E x \in Music : tells(p, <<x>>)
    BY <1>6 DEF seek, Music
  <2> QED
    BY <1>1, <1>2, <1>3, <1>6, <2>1, PlayerTypes DEF seek, actOf, Types
<1>7. CASE metadataRefreshed(p)
  <2>1. PICK url \in Track : audio' = [audio EXCEPT ![p] = refreshed(@, url)]
    BY <1>7 DEF metadataRefreshed
  <2>2. refreshed(audio[p], url) \in Player
    BY <1>2, RefreshedType
  <2>3. audio'[p] \in Player /\ audio' \in [Process -> Player]
    BY <2>1, <2>2 DEF Types
  <2>4. \E x \in Music : tells(p, <<x>>)
    BY <1>7, <2>3 DEF metadataRefreshed, urlTold, Music, Player
  <2> QED
    BY <1>1, <1>7, <2>1, <2>2, <2>3, <2>4 DEF metadataRefreshed, Types
<1>8. CASE onStreamPlayEnded(p)
  <2> DEFINE ended == [audio[p] EXCEPT !.heard.on = "ended"]
  <2>1. ended \in Player
    BY <1>2, PlayerTypes
  <2>2. /\ audio' \in [Process -> Player]
        /\ audio' = [audio EXCEPT ![p] = audio'[p]]
        /\ slips \subseteq slips'
    <3> HIDE DEF ended
    <3>1. \/ audio' = [audio EXCEPT ![p] = replayed(ended)] /\ slips' = slips
          \/ audio' = [audio EXCEPT ![p] = nextPlayed(ended)] /\ slips' = slips
          \/ audio' = [audio EXCEPT ![p] = stopPlayingMusic(ended)]
             /\ slips' = slips \cup {"untold"}
          \/ audio' = [audio EXCEPT ![p] = ended] /\ slips' = slips
      BY <1>8 DEF onStreamPlayEnded, ended
    <3>2. replayed(ended) \in Player /\ nextPlayed(ended) \in Player
          /\ stopPlayingMusic(ended) \in Player
      BY <2>1, PlayerTypes
    <3>3. slips \subseteq slips'
      BY <3>1
    <3>4. PICK a \in Player : audio' = [audio EXCEPT ![p] = a]
      BY <2>1, <3>1, <3>2
    <3> QED
      BY <3>3, <3>4 DEF Types
  <2>3. toServer' = toServer \/ \E x \in Music : tells(p, <<x>>)
    BY <1>8, <2>2 DEF onStreamPlayEnded, urlTold, Music, Player
  <2> QED
    BY <1>1, <1>3, <1>8, <2>2, <2>3 DEF onStreamPlayEnded, actOf, Types
<1>9. CASE onStreamError(p)
  <2>1. PICK a \in Player : audio' = [audio EXCEPT ![p] = a]
    <3>1. [audio[p] EXCEPT !.state = ClearedState, !.heard.on = "stopped"] \in Player
      BY <1>2, PlayerTypes
    <3>2. audio' = [audio EXCEPT ![p] =
                      [audio[p] EXCEPT !.state = ClearedState, !.heard.on = "stopped"]]
      BY <1>9 DEF onStreamError, Types
    <3> QED
      BY <3>1, <3>2
  <2>2. /\ toServer' = toServer /\ slips \subseteq slips'
        /\ crashed' \in {"no", "ended", "response", "document", "stream"}
        /\ UNCHANGED <<processOf, link, toClient, client, hostAble, signals, button, chat, shelf>>
    BY <1>9 DEF onStreamError, actOf
  <2>3. acts' \in 0..MaxActs
    BY <1>3, <1>9 DEF onStreamError, actOf
  <2>4. audio' \in [Process -> Player] /\ audio' = [audio EXCEPT ![p] = audio'[p]]
    BY <2>1 DEF Types
  <2> QED
    BY <2>2, <2>3, <2>4
<1> QED
  BY <1>4, <1>5, <1>6, <1>7, <1>8, <1>9 DEF musicAct

---------------------------------------------------------------------------
(* Connections, and the types of every state *)

\* A connection is up only as long as it is the one of its process; what is queued
\* for the interface came by a connection of the same process.
Connections ==
  /\ \A k \in Conn \ Opened : link[k] = "idle" /\ toServer[k] = <<>>
  /\ \A k \in Conn : link[k] = "up" => client[processOf[k]] = k
  /\ \A k \in Conn : link[k] # "up" => In(toClient[k]) = {}
  /\ \A k \in Live : link[k] \in {"up", "down"}
  /\ \A k \in Conn : link[k] = "gone" => toServer[k] = <<>>
  /\ \A p \in Process : \A x \in In(signals[p]) : x.conn \in Opened /\ processOf[x.conn] = p
  /\ \A p \in Process : client[p] # NoConn =>
       client[p] \in Opened /\ processOf[client[p]] = p /\ button[p] # "NotConnected"
  /\ \A p \in Process : client[p] = NoConn /\ button[p] # "NotConnected" => "late" \in slips

Base == Types /\ Connections

LEMMA ConnFacts ==
  Base => /\ NoConn \notin Conn
          /\ Opened = 1..Len(processOf) /\ Opened \subseteq Conn
          /\ \A k \in Conn : link[k] # "idle" => k \in Opened
          /\ \A k \in Opened : processOf[k] \in Process
<1>1. NoConn \notin Conn
  BY BoundsAssumption DEF NoConn, Conn
<1>2. ASSUME Base
      PROVE  \A k \in Opened : processOf[k] \in Process
  BY <1>2, LenProperties DEF Base, Types, Opened
<1> QED
  BY <1>1, <1>2, OpenedConns DEF Base, Connections

\* The server takes the first of what a client sent.
LEMMA Handled ==
  ASSUME Types, NEW k \in Conn, onClientPayloadReceived(k)
  PROVE  /\ toServer' \in [Conn -> Seq(ToServer)]
         /\ toServer[k] # <<>> /\ k \in Live
         /\ toServer'[k] = Tail(toServer[k])
         /\ Head(toServer[k]) \in ToServer
         /\ In(toServer[k]) = {Head(toServer[k])} \cup In(toServer'[k])
         /\ \A j \in Conn \ {k} : toServer'[j] = toServer[j]
         /\ UNCHANGED <<link, slips>>
<1>1. toServer[k] \in Seq(ToServer) /\ toServer[k] # <<>> /\ k \in Live
  BY DEF Types, onClientPayloadReceived
<1>2. /\ Head(toServer[k]) \in ToServer /\ Tail(toServer[k]) \in Seq(ToServer)
      /\ In(toServer[k]) = {Head(toServer[k])} \cup In(Tail(toServer[k]))
  BY <1>1, InTail
<1>3. toServer' = [toServer EXCEPT ![k] = Tail(@)] /\ UNCHANGED <<link, slips>>
  BY DEF onClientPayloadReceived
<1> QED
  BY <1>1, <1>2, <1>3 DEF Types

\* The thread of a client signals the first of what it received.
Reads(k, x, p) ==
  /\ x = Head(toClient[k]) /\ p = processOf[k] /\ client[p] = k /\ k \in Opened
  /\ link[k] = "up" /\ toClient[k] # <<>>
  /\ toClient' \in [Conn -> Seq(ToClient)] /\ signals' \in [Process -> Seq(Signal)]
  /\ toClient'[k] = Tail(toClient[k])
  /\ In(toClient[k]) = {x} \cup In(toClient'[k])
  /\ \A j \in Conn \ {k} : toClient'[j] = toClient[j]
  /\ signals'[p] = Append(signals[p], [conn |-> k, payload |-> x])
  /\ In(signals'[p]) = In(signals[p]) \cup {[conn |-> k, payload |-> x]}
  /\ \A q \in Process \ {p} : signals'[q] = signals[q]
  /\ hostAble' = IF x.method = "Session" THEN [hostAble EXCEPT ![p] = x.host] ELSE hostAble
  /\ hostAble' \in [Process -> BOOLEAN]

LEMMA Read ==
  ASSUME Base, NEW k \in Conn, onPayloadReceived(k)
  PROVE  \E x \in ToClient, p \in Process : Reads(k, x, p)
<1> DEFINE x == Head(toClient[k])
           p == processOf[k]
           y == [conn |-> k, payload |-> x]
<1>1. toClient[k] \in Seq(ToClient) /\ toClient[k] # <<>> /\ link[k] = "up"
  BY DEF Base, Types, onPayloadReceived
<1>2. /\ x \in ToClient /\ Tail(toClient[k]) \in Seq(ToClient)
      /\ In(toClient[k]) = {x} \cup In(Tail(toClient[k]))
  BY <1>1, InTail
<1>3. k \in Opened /\ p \in Process /\ client[p] = k
  BY <1>1, ConnFacts DEF Base, Connections
<1>4. y \in Signal /\ signals[p] \in Seq(Signal)
  BY <1>2, <1>3 DEF Signal, Base, Types
<1>5. Append(signals[p], y) \in Seq(Signal) /\ In(Append(signals[p], y)) = In(signals[p]) \cup {y}
  BY <1>4, InAppend
<1>6. /\ toClient' = [toClient EXCEPT ![k] = Tail(@)]
      /\ signals' = [signals EXCEPT ![p] = Append(@, y)]
      /\ hostAble' = IF x.method = "Session" THEN [hostAble EXCEPT ![p] = x.host] ELSE hostAble
  BY DEF onPayloadReceived
<1>7. hostAble' \in [Process -> BOOLEAN]
  BY <1>2, <1>6, ToClientFields DEF Base, Types
<1>8. toClient' \in [Conn -> Seq(ToClient)] /\ toClient'[k] = Tail(toClient[k])
      /\ \A j \in Conn \ {k} : toClient'[j] = toClient[j]
  BY <1>2, <1>6 DEF Base, Types
<1>9. signals' \in [Process -> Seq(Signal)] /\ signals'[p] = Append(signals[p], y)
      /\ \A q \in Process \ {p} : signals'[q] = signals[q]
  BY <1>3, <1>5, <1>6 DEF Base, Types
<1> HIDE DEF x, p, y
<1>10. x = Head(toClient[k]) /\ p = processOf[k] /\ y = [conn |-> k, payload |-> x]
  BY DEF x, p, y
<1> QED
  BY <1>1, <1>2, <1>3, <1>5, <1>6, <1>7, <1>8, <1>9, <1>10 DEF Reads

\* The connection fails.
Fails(k, p) ==
  /\ p = processOf[k] /\ client[p] = k /\ k \in Opened /\ link[k] = "up"
  /\ link' = [link EXCEPT ![k] = "down"]
  /\ toClient' = [toClient EXCEPT ![k] = <<>>]
  /\ toClient' \in [Conn -> Seq(ToClient)] /\ signals' \in [Process -> Seq(Signal)]
  /\ signals'[p] = Append(signals[p], [conn |-> k, payload |-> [method |-> "Ended"]])
  /\ In(signals'[p]) = In(signals[p]) \cup {[conn |-> k, payload |-> [method |-> "Ended"]]}
  /\ \A q \in Process \ {p} : signals'[q] = signals[q]
  /\ acts' \in 0..MaxActs

LEMMA Failed ==
  ASSUME Base, NEW k \in Conn, onError(k)
  PROVE  \E p \in Process : Fails(k, p)
<1> DEFINE p == processOf[k]
           y == [conn |-> k, payload |-> [method |-> "Ended"]]
<1>1. link[k] = "up"
  BY DEF onError
<1>2. k \in Opened /\ p \in Process /\ client[p] = k
  BY <1>1, ConnFacts DEF Base, Connections
<1>3. y \in Signal /\ signals[p] \in Seq(Signal)
  BY <1>2 DEF Signal, Base, Types
<1>4. Append(signals[p], y) \in Seq(Signal) /\ In(Append(signals[p], y)) = In(signals[p]) \cup {y}
  BY <1>3, InAppend
<1>5. /\ link' = [link EXCEPT ![k] = "down"] /\ toClient' = [toClient EXCEPT ![k] = <<>>]
      /\ signals' = [signals EXCEPT ![p] = Append(@, y)]
  BY DEF onError
<1>6. toClient' \in [Conn -> Seq(ToClient)]
  BY <1>5, EmptySeq DEF Base, Types
<1>7. acts' \in 0..MaxActs
  BY BoundsAssumption DEF onError, Base, Types
<1>8. signals' \in [Process -> Seq(Signal)] /\ signals'[p] = Append(signals[p], y)
      /\ \A q \in Process \ {p} : signals'[q] = signals[q]
  BY <1>2, <1>4, <1>5 DEF Base, Types
<1> HIDE DEF p, y
<1>9. p = processOf[k] /\ y = [conn |-> k, payload |-> [method |-> "Ended"]]
  BY DEF p, y
<1> QED
  BY <1>1, <1>2, <1>4, <1>5, <1>6, <1>7, <1>8, <1>9 DEF Fails

\* The interface takes the first of its signals.
LEMMA SignalTaken ==
  ASSUME Base, NEW p \in Process, onSignal(p)
  PROVE  \E k \in Opened, x \in ToClient \cup [method : {"Ended"}] :
           /\ Head(signals[p]) = [conn |-> k, payload |-> x] /\ processOf[k] = p
           /\ signals[p] # <<>>
           /\ signals' \in [Process -> Seq(Signal)]
           /\ signals'[p] = Tail(signals[p])
           /\ In(signals[p]) = {[conn |-> k, payload |-> x]} \cup In(signals'[p])
           /\ \A q \in Process \ {p} : signals'[q] = signals[q]
           /\ late(p) <=> k # client[p]
<1>1. signals[p] \in Seq(Signal) /\ signals[p] # <<>>
  BY DEF Base, Types, onSignal
<1>2. /\ Head(signals[p]) \in Signal /\ Tail(signals[p]) \in Seq(Signal)
      /\ In(signals[p]) = {Head(signals[p])} \cup In(Tail(signals[p]))
  BY <1>1, InTail
<1>3. signals' = [signals EXCEPT ![p] = Tail(@)]
  BY DEF onSignal
<1>4. PICK k \in Conn, x \in ToClient \cup [method : {"Ended"}] :
        Head(signals[p]) = [conn |-> k, payload |-> x]
  BY <1>2 DEF Signal
<1>5. k \in Opened /\ processOf[k] = p
  BY <1>2, <1>4 DEF Base, Connections
<1>6. late(p) <=> k # client[p]
  BY <1>4 DEF late
<1> QED
  BY <1>1, <1>2, <1>3, <1>4, <1>5, <1>6 DEF Base, Types

\* What a process does with its client, if there is one.
LEMMA ClientTellsType ==
  ASSUME Types, NEW p \in Process, NEW x, ClientTells(p, x)
  PROVE  toServer' \in [Conn -> Seq(ToServer)]
BY DEF ClientTells

\* What the user writes: anyone may be whispered to.
LEMMA Said ==
  ASSUME Base, NEW p \in Process, sendMessage(p)
  PROVE  \E m \in Message :
           /\ m.from = client[p] /\ m.to \in Opened \cup {NoConn}
           /\ m.command \in {"say", "help", "throw", "whisper"}
           /\ chat' = [chat EXCEPT ![p] = handleLocalMessage(@, m)]
           /\ chat' \in [Process -> Chat]
           /\ client[p] = NoConn => toServer' = toServer
           /\ toServer' = toServer \/ ClientTells(p, Asked(m))
           /\ client[p] # NoConn /\ link[client[p]] = "up" => ClientTells(p, Asked(m))
           /\ toServer' \in [Conn -> Seq(ToServer)]
           /\ acts' \in 0..MaxActs
           /\ UNCHANGED <<link, toClient, client, hostAble, signals, button, audio, shelf,
                          crashed, slips, processOf>>
<1>1. acts' \in 0..MaxActs
  BY BoundsAssumption DEF sendMessage, actOf, Base, Types
<1>2. PICK said \in interpreted :
        /\ chat' = [chat EXCEPT ![p] =
                      handleLocalMessage(@, message(said[1], client[p], said[2], acts'))]
        /\ ClientSends(p, <<[method |-> "Message",
                             message |-> message(said[1], client[p], said[2], acts')]>>)
  BY DEF sendMessage
<1>3. PICK m : m = message(said[1], client[p], said[2], acts')
  OBVIOUS
<1>4. /\ said[1] \in {"say", "help", "throw", "whisper"} /\ said[2] \in Opened \cup {NoConn}
  BY DEF interpreted
<1>5. m \in Message /\ m.from = client[p] /\ m.to \in Opened \cup {NoConn}
      /\ m.command \in {"say", "help", "throw", "whisper"}
  BY <1>1, <1>3, <1>4, ConnFacts DEF message, Message, Command, Base, Types
<1>6. Asked(m) \in ToServer
  BY <1>5, MessageSent DEF Asked
<1>7. ClientTells(p, Asked(m))
  BY <1>2, <1>3, <1>6, ClientSendsTells DEF Asked, Base
<1>8. client[p] = NoConn => toServer' = toServer
  BY <1>2 DEF ClientSends
<1>9. chat' = [chat EXCEPT ![p] = handleLocalMessage(@, m)] /\ chat' \in [Process -> Chat]
  BY <1>2, <1>3, <1>5, ChatTypes DEF Base, Types
<1>10. toServer' \in [Conn -> Seq(ToServer)]
  BY <1>7 DEF ClientTells
<1> QED
  BY <1>1, <1>5, <1>7, <1>8, <1>9, <1>10 DEF sendMessage, actOf

\* A document is dropped.
LEMMA Dropped ==
  ASSUME Base, NEW p \in Process, dropEvent(p)
  PROVE  \E d \in Document \ shelf[p].names :
           /\ shelf' = [shelf EXCEPT ![p] = downloaded(@, d)]
           /\ shelf' \in [Process -> Shelf]
           /\ \/ toServer' = toServer
              \/ hostAble[p] /\ ClientTells(p, [method |-> "DocAvailable", hash |-> d])
           /\ toServer' \in [Conn -> Seq(ToServer)]
           /\ acts' \in 0..MaxActs
           /\ slips \subseteq slips' /\ slips' \subseteq slips \cup {"dropped alone", "dropped early"}
           /\ UNCHANGED <<link, toClient, client, hostAble, signals, button, audio, chat, crashed,
                          processOf>>
<1>1. acts' \in 0..MaxActs
  <2>1. acts < MaxActs /\ acts' = acts + 1
    BY DEF dropEvent, actOf
  <2> QED
    BY <2>1, BoundsAssumption DEF Base, Types
<1>2. PICK d \in Document \ shelf[p].names :
        /\ shelf' = [shelf EXCEPT ![p] = downloaded(@, d)]
        /\ IF hostAble[p]
           THEN ClientSends(p, <<[method |-> "DocAvailable", hash |-> d]>>)
           ELSE UNCHANGED toServer
  BY DEF dropEvent
<1>3. [method |-> "DocAvailable", hash |-> d] \in ToServer
  BY DEF ToServer
<1>4. \/ toServer' = toServer
      \/ hostAble[p] /\ ClientTells(p, [method |-> "DocAvailable", hash |-> d])
  BY <1>2, <1>3, ClientSendsTells DEF Base
<1>5. shelf' \in [Process -> Shelf]
  BY <1>2, ShelfTypes DEF Base, Types
<1>6. toServer' \in [Conn -> Seq(ToServer)]
  BY <1>4 DEF ClientTells, Base, Types
<1>7. slips \subseteq slips' /\ slips' \subseteq slips \cup {"dropped alone", "dropped early"}
  BY DEF dropEvent
<1> QED
  BY <1>1, <1>2, <1>4, <1>5, <1>6, <1>7 DEF dropEvent, actOf

\* A document is asked for.
LEMMA DocAsked ==
  ASSUME Base, NEW p \in Process, onItemDoubleClick(p)
  PROVE  \E d \in Document :
           /\ shelf[p].items[d] = "Downloadable"
           /\ shelf' = [shelf EXCEPT ![p] = downloading(@, d)]
           /\ shelf' \in [Process -> Shelf]
           /\ ClientTells(p, [method |-> "DocRequested", hash |-> d])
           /\ toServer' \in [Conn -> Seq(ToServer)]
           /\ acts' \in 0..MaxActs
           /\ UNCHANGED <<link, toClient, client, hostAble, signals, button, audio, chat, crashed,
                          slips, processOf>>
<1>1. acts' \in 0..MaxActs
  BY BoundsAssumption DEF onItemDoubleClick, actOf, Base, Types
<1>2. PICK d \in Document :
        /\ shelf[p].items[d] = "Downloadable"
        /\ shelf' = [shelf EXCEPT ![p] = downloading(@, d)]
        /\ ClientSends(p, <<[method |-> "DocRequested", hash |-> d]>>)
  BY DEF onItemDoubleClick
<1>3. [method |-> "DocRequested", hash |-> d] \in ToServer
  BY DEF ToServer
<1>4. ClientTells(p, [method |-> "DocRequested", hash |-> d])
  BY <1>2, <1>3, ClientSendsTells DEF Base
<1>5. shelf' \in [Process -> Shelf]
  BY <1>2, ShelfTypes DEF Base, Types
<1>6. toServer' \in [Conn -> Seq(ToServer)]
  BY <1>4 DEF ClientTells
<1> QED
  BY <1>1, <1>2, <1>4, <1>5, <1>6 DEF onItemDoubleClick, actOf

\* A client is bound to a connection of its own.
LEMMA Bound ==
  ASSUME Base, NEW p \in Process, bindObservedClient(p)
  PROVE  \E k \in Conn \ Opened :
           /\ k = Len(processOf) + 1 /\ Opened' = Opened \cup {k}
           /\ processOf' \in Seq(Process) /\ Len(processOf') <= MaxConnections
           /\ processOf'[k] = p /\ \A j \in Opened : processOf'[j] = processOf[j]
           /\ link' = [link EXCEPT ![k] = "up"]
           /\ toServer' \in [Conn -> Seq(ToServer)]
           /\ toServer'[k] = <<[method |-> "Handshake"]>>
           /\ In(toServer'[k]) = {[method |-> "Handshake"]}
           /\ \A j \in Conn \ {k} : toServer'[j] = toServer[j]
           /\ client' = [client EXCEPT ![p] = k]
<1> DEFINE k == Len(processOf) + 1
<1>1. processOf \in Seq(Process) /\ k \in Conn /\ k \in Nat
  BY BoundsAssumption DEF bindObservedClient, Base, Types, Conn
<1>2. processOf' = Append(processOf, p)
  BY DEF bindObservedClient
<1>3. /\ processOf' \in Seq(Process) /\ Len(processOf') = k
      /\ DOMAIN processOf' = 1..k /\ processOf'[k] = p
      /\ \A j \in 1..Len(processOf) : processOf'[j] = processOf[j]
  BY <1>1, <1>2, AppendProperties, LenProperties
<1>4. k \notin Opened /\ Opened = 1..Len(processOf)
  BY <1>1, ConnFacts
<1>5. Opened' = Opened \cup {k}
  BY <1>1, <1>3, <1>4 DEF Opened
<1>6. k <= MaxConnections
  BY <1>1, BoundsAssumption DEF Conn
<1>7. [method |-> "Handshake"] \in ToServer
  BY DEF ToServer
<1>8. /\ <<[method |-> "Handshake"]>> \in Seq(ToServer)
      /\ In(<<[method |-> "Handshake"]>>) = {[method |-> "Handshake"]}
  BY <1>7, InSingleton
<1>9. toServer' = [toServer EXCEPT ![k] = <<[method |-> "Handshake"]>>]
  BY DEF bindObservedClient
<1>10. toServer' \in [Conn -> Seq(ToServer)] /\ toServer'[k] = <<[method |-> "Handshake"]>>
       /\ \A j \in Conn \ {k} : toServer'[j] = toServer[j]
  BY <1>1, <1>8, <1>9 DEF Base, Types
<1>11. link' = [link EXCEPT ![k] = "up"] /\ client' = [client EXCEPT ![p] = k]
  BY DEF bindObservedClient
<1> HIDE DEF k
<1>12. k = Len(processOf) + 1
  BY DEF k
<1> QED
  BY <1>1, <1>3, <1>4, <1>5, <1>6, <1>8, <1>10, <1>11, <1>12

\* The client ends, or is not there any more.
Ends(p, k) ==
  /\ k = client[p] /\ processOf[k] = p /\ crashed' = crashed
  /\ link' = [link EXCEPT ![k] = "down"]
  /\ toClient' = [toClient EXCEPT ![k] = <<>>]
  /\ toClient' \in [Conn -> Seq(ToClient)]
  /\ client' = [client EXCEPT ![p] = NoConn]
  /\ hostAble' = [hostAble EXCEPT ![p] = TRUE]
  /\ button' = [button EXCEPT ![p] = "NotConnected"]
  /\ chat' = [chat EXCEPT ![p] = disabled(@)] /\ chat' \in [Process -> Chat]
  /\ audio' = [audio EXCEPT ![p] = streamClosed(@)] /\ audio' \in [Process -> Player]
  /\ shelf' = [shelf EXCEPT ![p] = shelfClosed(@)] /\ shelf' \in [Process -> Shelf]

LEMMA Ended ==
  ASSUME Base, NEW p \in Process, endClient(p)
  PROVE  \/ /\ client[p] = NoConn /\ crashed' = "ended"
            /\ UNCHANGED <<link, toClient, client, hostAble, interfaceVars>>
         \/ \E k \in Opened : Ends(p, k)
<1>1. CASE client[p] = NoConn
  BY <1>1 DEF endClient
<1>2. CASE client[p] # NoConn
  <2>1. client[p] \in Opened /\ processOf[client[p]] = p
    BY <1>2 DEF Base, Connections
  <2>2. /\ disabled(chat[p]) \in Chat /\ streamClosed(audio[p]) \in Player
        /\ shelfClosed(shelf[p]) \in Shelf
    <3>1. PICK m : m \in Message
      BY CommandMessages, <2>1, ConnFacts
    <3> QED
      BY <3>1, ChatTypes, PlayerTypes, ShelfClosedType DEF Base, Types
  <2>3. toClient' \in [Conn -> Seq(ToClient)]
    <3>1. toClient' = [toClient EXCEPT ![client[p]] = <<>>]
      BY <1>2 DEF endClient
    <3> QED
      BY <3>1, EmptySeq DEF Base, Types
  <2>4. chat' \in [Process -> Chat] /\ audio' \in [Process -> Player] /\ shelf' \in [Process -> Shelf]
    <3>1. /\ chat \in [Process -> Chat] /\ audio \in [Process -> Player]
          /\ shelf \in [Process -> Shelf]
      BY DEF Base, Types
    <3>2. chat' = [chat EXCEPT ![p] = disabled(@)]
      BY <1>2 DEF endClient
    <3>3. audio' = [audio EXCEPT ![p] = streamClosed(@)]
      BY <1>2 DEF endClient
    <3>4. shelf' = [shelf EXCEPT ![p] = shelfClosed(@)]
      BY <1>2 DEF endClient
    <3>5. chat' \in [Process -> Chat]
      BY ONLY <2>2, <3>1, <3>2, p \in Process
    <3>6. audio' \in [Process -> Player]
      BY ONLY <2>2, <3>1, <3>3, p \in Process
    <3>7. shelf' \in [Process -> Shelf]
      BY ONLY <2>2, <3>1, <3>4, p \in Process
    <3> QED
      BY <3>5, <3>6, <3>7
  <2> QED
    BY <1>2, <2>1, <2>3, <2>4 DEF endClient, Ends
<1> QED
  BY <1>1, <1>2

\* The session reaches the interface.
LEMMA Joins ==
  ASSUME Base, NEW p \in Process, NEW m \in Session, onGameSessionReceived(p, m)
  PROVE  /\ button' = [button EXCEPT ![p] = "Connected"]
         /\ chat' = [chat EXCEPT ![p] = welcomed(@, m.messages)] /\ chat' \in [Process -> Chat]
         /\ shelf' = [shelf EXCEPT ![p] = shelfOnSession(@, hostAble[p], m.names)]
         /\ shelf' \in [Process -> Shelf]
         /\ toServer' = toServer \/ \E x \in Music : ClientTells(p, x)
         /\ toServer' \in [Conn -> Seq(ToServer)]
         /\ \E a \in Player, s \in Tracker, over \in BOOLEAN :
              /\ audio' = [audio EXCEPT ![p] = a]
              /\ \/ a = streamOnSession(audio[p], hostAble[p])
                 \/ a = onAudioSourceStateChanged(streamOnSession(audio[p], hostAble[p]), s, over)
                    /\ ~m.host
         /\ audio' \in [Process -> Player]
         /\ slipsBefore(p) \subseteq slips' /\ crashed' = crashed
         /\ slips' \subseteq slipsBefore(p) \cup {"paused", "over"}
<1> DEFINE joined == streamOnSession(audio[p], hostAble[p])
<1>1. m.messages \in SUBSET Message /\ m.names \in SUBSET Document /\ m.stream \in Tracker
      /\ m.host \in BOOLEAN
  BY DEF Session
<1>2. PICK d : d \in Message
  <2>1. CASE \E k \in Conn : TRUE
    BY <2>1, CommandMessages
  <2>2. CASE Conn = {}
    <3>1. message("say", NoConn, NoConn, 0) \in Message
      BY BoundsAssumption DEF message, Message, Command
    <3> QED
      BY <3>1
  <2> QED
    BY <2>1, <2>2
<1>3. joined \in Player
  BY PlayerStateTypes, <1>1 DEF Base, Types
<1>4. chat' = [chat EXCEPT ![p] = welcomed(@, m.messages)] /\ chat' \in [Process -> Chat]
  BY <1>1, <1>2, ChatTypes DEF onGameSessionReceived, Base, Types
<1>5. shelf' = [shelf EXCEPT ![p] = shelfOnSession(@, hostAble[p], m.names)]
      /\ shelf' \in [Process -> Shelf]
  <2>1. shelfOnSession(shelf[p], hostAble[p], m.names) \in Shelf
    BY <1>1, ShelfOfferedTypes DEF Base, Types
  <2> QED
    BY <2>1 DEF onGameSessionReceived, Base, Types
<1>6. toServer' = toServer \/ \E x \in Music : ClientTells(p, x)
  <2>1. CASE hostAble[p]
    <3>1. [method |-> "Url", state |-> joined.state] \in Music
      BY <1>3 DEF Music, Player
    <3>2. ClientSends(p, <<[method |-> "Url", state |-> joined.state]>>)
      BY <2>1 DEF onGameSessionReceived
    <3> QED
      BY <3>1, <3>2, ClientSendsTells, MusicIsSent DEF Base
  <2>2. CASE ~hostAble[p]
    BY <2>2 DEF onGameSessionReceived
  <2> QED
    BY <2>1, <2>2
<1>7. toServer' \in [Conn -> Seq(ToServer)]
  BY <1>6 DEF ClientTells, Base, Types
<1>8. PICK over \in BOOLEAN :
        /\ audio' = [audio EXCEPT ![p] =
                       IF ~m.host THEN onAudioSourceStateChanged(joined, m.stream, over) ELSE joined]
        /\ slips' = slipsBefore(p) \cup (IF ~m.host THEN slipsOf(joined, m.stream, over) ELSE {})
  BY DEF onGameSessionReceived
<1>9. slipsBefore(p) \subseteq slips' /\ slips' \subseteq slipsBefore(p) \cup {"paused", "over"}
  BY <1>8 DEF slipsOf
<1>10. \E a \in Player, s \in Tracker, b \in BOOLEAN :
         /\ audio' = [audio EXCEPT ![p] = a]
         /\ \/ a = joined
            \/ a = onAudioSourceStateChanged(joined, s, b) /\ ~m.host
  <2>1. onAudioSourceStateChanged(joined, m.stream, over) \in Player
    BY <1>1, <1>3, PlayerStateTypes
  <2> HIDE DEF joined
  <2> QED
    BY <1>1, <1>3, <1>8, <2>1
<1>11. audio' \in [Process -> Player]
  BY <1>10 DEF Base, Types
<1> QED
  BY <1>4, <1>5, <1>6, <1>7, <1>9, <1>10, <1>11 DEF onGameSessionReceived

\* Music reaches the interface.
LEMMA MusicReceived ==
  ASSUME Base, NEW p \in Process, NEW m \in ToClient, onAudioSignal(p, m)
  PROVE  /\ toServer' = toServer \/ \E x \in Music : ClientTells(p, x)
         /\ toServer' \in [Conn -> Seq(ToServer)]
         /\ \E a \in Player, s \in Tracker, b \in BOOLEAN, over \in BOOLEAN :
              /\ audio' = [audio EXCEPT ![p] = a]
              /\ \/ a = onAudioSourceStateChanged(audio[p], s, over)
                 \/ a = onAudioPlayStateChanged(audio[p], b, over)
                 \/ a = onSeekingRequested(audio[p])
         /\ audio' \in [Process -> Player]
         /\ slipsBeforeMusic(p) \subseteq slips'
         /\ slips' \subseteq slipsBeforeMusic(p) \cup {"paused", "over"}
         /\ UNCHANGED <<button, chat, shelf, crashed>>
<1>1. audio[p] \in Player
  BY DEF Base, Types
<1>2. CASE m.method = "Url"
  <2>1. PICK over \in BOOLEAN :
          /\ audio' = [audio EXCEPT ![p] = onAudioSourceStateChanged(@, m.state, over)]
          /\ slips' = slipsBeforeMusic(p) \cup slipsOf(audio[p], m.state, over)
    BY <1>2 DEF onAudioSignal
  <2>2. m.state \in Tracker
    BY <1>2, ToClientFields
  <2>3. onAudioSourceStateChanged(audio[p], m.state, over) \in Player
    BY <1>1, <2>2, PlayerStateTypes
  <2>4. audio' = [audio EXCEPT ![p] = onAudioSourceStateChanged(audio[p], m.state, over)]
        /\ audio' \in [Process -> Player]
    BY <2>1, <2>3 DEF Base, Types
  <2>5. slips' \subseteq slipsBeforeMusic(p) \cup {"paused", "over"}
        /\ slipsBeforeMusic(p) \subseteq slips'
    BY <2>1 DEF slipsOf
  <2>6. toServer' = toServer /\ UNCHANGED <<button, chat, shelf, crashed>>
    BY <1>2 DEF onAudioSignal
  <2> QED
    BY <2>2, <2>3, <2>4, <2>5, <2>6 DEF Base, Types
<1>3. CASE m.method = "PlayingState"
  <2>1. PICK over \in BOOLEAN :
          audio' = [audio EXCEPT ![p] = onAudioPlayStateChanged(@, m.isPlaying, over)]
    BY <1>3 DEF onAudioSignal
  <2>2. m.isPlaying \in BOOLEAN
    BY <1>3, ToClientFields
  <2>3. onAudioPlayStateChanged(audio[p], m.isPlaying, over) \in Player
    BY <1>1, <2>2, PlayerStateTypes, ClearedType
  <2>4. audio' = [audio EXCEPT ![p] = onAudioPlayStateChanged(audio[p], m.isPlaying, over)]
        /\ audio' \in [Process -> Player]
    BY <2>1, <2>3 DEF Base, Types
  <2>5. slips' = slipsBeforeMusic(p) /\ toServer' = toServer /\ UNCHANGED <<button, chat, shelf, crashed>>
    BY <1>3 DEF onAudioSignal
  <2> QED
    BY <2>2, <2>3, <2>4, <2>5, ClearedType DEF Base, Types
<1>4. CASE m.method = "Position"
  <2>1. audio' = [audio EXCEPT ![p] = onSeekingRequested(audio[p])]
        /\ slips' = slipsBeforeMusic(p) /\ UNCHANGED <<button, chat, shelf, crashed>>
        /\ tells(p, <<[method |-> "Position"]>>)
    BY <1>4 DEF onAudioSignal
  <2>2. onSeekingRequested(audio[p]) \in Player
    BY <1>1, PlayerTypes
  <2>3. audio' \in [Process -> Player]
    BY <2>1, <2>2 DEF Base, Types
  <2>4. [method |-> "Position"] \in Music /\ [method |-> "Position"] \in ToServer
    BY DEF Music, ToServer
  <2>5. toServer' = toServer \/ ClientTells(p, [method |-> "Position"])
    BY <2>1, <2>4, ClientSendsTells DEF tells, Base
  <2>6. toServer' \in [Conn -> Seq(ToServer)]
    BY <2>5 DEF ClientTells, Base, Types
  <2> QED
    BY <2>1, <2>2, <2>3, <2>4, <2>5, <2>6, ClearedType
<1> QED
  BY <1>2, <1>3, <1>4 DEF onAudioSignal

\* A line of the chat, or an answer, reaches the interface.
LEMMA ChatReceived ==
  ASSUME Base, NEW p \in Process, NEW m \in ToClient, onChatSignal(p, m)
  PROVE  /\ \/ /\ m.method = "Message" /\ crashed' = crashed
               /\ chat' = [chat EXCEPT ![p] = handleRemoteMessage(@, m.message)]
            \/ /\ m.method = "Response"
               /\ chat' = [chat EXCEPT ![p] = handleResponse(@, m.message)]
               /\ crashed' = IF m.message \in chat[p].lines THEN "no" ELSE "response"
         /\ m.message \in Message
         /\ chat' \in [Process -> Chat]
         /\ slips' = slipsBefore(p)
         /\ UNCHANGED <<toServer, button, audio, shelf>>
<1>1. m.message \in Message
  BY ToClientFields DEF onChatSignal
<1>2. handleRemoteMessage(chat[p], m.message) \in Chat /\ handleResponse(chat[p], m.message) \in Chat
  BY <1>1, ChatTypes DEF Base, Types
<1> QED
  BY <1>1, <1>2 DEF onChatSignal, answersNothing, Base, Types

\* A document, or its name, reaches the interface.
LEMMA DocumentReceived ==
  ASSUME Base, NEW p \in Process, NEW m \in ToClient, onDocumentSignal(p, m)
  PROVE  /\ \/ /\ m.method = "DocAvailable" /\ crashed' = crashed
               /\ shelf' = [shelf EXCEPT ![p] = temporaryItems(@, {m.hash})]
               /\ m.hash \in Document
            \/ /\ m.method = "Doc" /\ crashed' = "document" /\ shelf' = shelf
               /\ m.hashes = {} \/ \E d \in m.hashes : shelf[p].items[d] = "none"
            \/ /\ m.method = "Doc" /\ crashed' = crashed
               /\ \E d \in m.hashes : d \in Document /\ shelf' = [shelf EXCEPT ![p] = downloaded(@, d)]
         /\ shelf' \in [Process -> Shelf]
         /\ slips' = slipsBefore(p)
         /\ UNCHANGED <<toServer, button, chat, audio>>
<1>1. CASE m.method = "DocAvailable"
  <2>1. m.hash \in Document
    BY <1>1, ToClientFields
  <2>2. temporaryItems(shelf[p], {m.hash}) \in Shelf
    <3>1. shelf[p] \in Shelf /\ {m.hash} \in SUBSET Document
      BY <2>1 DEF Base, Types
    <3> QED
      BY <3>1, ShelfOfferedTypes
  <2> QED
    BY <1>1, <2>1, <2>2 DEF onDocumentSignal, Base, Types
<1>2. CASE m.method = "Doc"
  <2>1. m.hashes \in SUBSET Document
    BY <1>2, ToClientFields
  <2>2. ASSUME NEW d \in m.hashes
        PROVE  d \in Document /\ downloaded(shelf[p], d) \in Shelf
    BY <2>1, ShelfTypes DEF Base, Types
  <2> QED
    BY <1>2, <2>2 DEF onDocumentSignal, Base, Types
<1> QED
  BY <1>1, <1>2 DEF onDocumentSignal

LEMMA TypesStep == Base /\ [Next]_vars => Types'
<1> SUFFICES ASSUME Base, [Next]_vars
             PROVE  Types'
  OBVIOUS
<1>1. Types
  BY DEF Base
<1>2. CASE ServerStep
  <2>1. UNCHANGED <<constantVars, client, hostAble, signals, interfaceVars, acts, crashed>>
    BY <1>2 DEF ServerStep
  <2> SUFFICES /\ link' \in [Conn -> {"idle", "up", "down", "gone"}]
               /\ toServer' \in [Conn -> Seq(ToServer)]
               /\ toClient' \in [Conn -> Seq(ToClient)]
               /\ users' \in [Conn -> {"absent", "new", "host", "guest"}]
               /\ messages' \in SUBSET Message
               /\ tracker' \in Tracker
    BY <1>1, <2>1 DEF Types, constantVars, interfaceVars
  <2>2. PICK k \in Conn :
          onNewConnection(k) \/ onClientSocketDisconnected(k) \/ onClientPayloadReceived(k)
    BY <1>2 DEF ServerStep
  <2>3. CASE onNewConnection(k)
    BY <1>1, <2>3 DEF onNewConnection, networkVars, Types
  <2>4. CASE onClientSocketDisconnected(k)
    <3>1. PICK out \in Message : messages' = messages \cup {out}
                                 /\ ServerTells(ToSome(Peers(k), Asked(out)))
      BY <1>1, <2>4, Disconnected
    <3>2. toServer' \in [Conn -> Seq(ToServer)]
      BY <1>1, <2>4, EmptySeq DEF onClientSocketDisconnected, Types
    <3> QED
      BY <1>1, <2>4, <3>1, <3>2 DEF onClientSocketDisconnected, usersWithout, ServerTells, Types
  <2>5. CASE onClientPayloadReceived(k)
    <3> DEFINE m == Head(toServer[k])
    <3>1. m \in ToServer /\ toServer' \in [Conn -> Seq(ToServer)] /\ link' = link
      BY <1>1, <2>5, Handled
    <3>2. CASE m.method = "Handshake" /\ handshake(k)
      <4>1. PICK arrived \in Message, s \in Session :
              /\ messages' = messages \cup {arrived}
              /\ ServerTells([ToSome(Peers(k), Asked(arrived)) EXCEPT ![k] = {s}])
        BY <1>1, <3>2, Handshaken
      <4> QED
        BY <1>1, <3>1, <3>2, <4>1 DEF handshake, attributedRole, ServerTells, Types
    <3>3. CASE m.method = "Message" /\ interpretMessage(k, m.message)
      <4>1. m.message \in Message
        BY <3>1, <3>3, ToServerFields
      <4>2. PICK news \in SUBSET Message, whispered \in SUBSET Conn :
              messages' = messages \cup news /\ ServerTells(Told(k, m.message, news, whispered))
        BY <1>1, <3>3, <4>1, Interpreted
      <4> QED
        BY <1>1, <3>1, <3>3, <4>2 DEF interpretMessage, ServerTells, Types
    <3>4. CASE /\ m.method \in {"Url", "PlayingState", "Position"}
               /\ \/ m.method = "Url" /\ tracker' = m.state
                  \/ m.method = "PlayingState" /\ playStateChanged(m.isPlaying)
                  \/ m.method = "Position" /\ tracker' = updatePosition(tracker)
               /\ relay(k, m)
               /\ UNCHANGED <<users, messages>>
      <4>1. m \in ToClient
        BY <3>1, <3>4, ToServerFields, MusicIsSent
      <4>2. ServerTells(ToSome(Peers(k), m))
        BY <1>1, <3>4, <4>1, Relayed
      <4>3. tracker' \in Tracker
        <5>1. m.method = "Url" => m.state \in Tracker
          BY <3>1, ToServerFields
        <5>2. m.method = "PlayingState" => m.isPlaying \in BOOLEAN
          BY <3>1, ToServerFields
        <5>3. \A b, over \in BOOLEAN : updatePlayingState(tracker, b, over) \in Tracker
          BY <1>1 DEF Types, Tracker, updatePlayingState
        <5>4. updatePosition(tracker) \in Tracker
          BY <1>1, PositionType DEF Types
        <5> HIDE DEF m
        <5> QED
          BY <3>4, <5>1, <5>2, <5>3, <5>4 DEF playStateChanged
      <4> QED
        BY <1>1, <3>1, <3>4, <4>2, <4>3 DEF ServerTells, Types
    <3>5. CASE m.method = "DocAvailable" /\ relay(k, m) /\ UNCHANGED serverVars
      <4>1. m \in ToClient
        BY <3>1, <3>5, ToServerFields
      <4>2. ServerTells(ToSome(Peers(k), m))
        BY <1>1, <3>5, <4>1, Relayed
      <4> QED
        BY <1>1, <3>1, <3>5, <4>2 DEF ServerTells, Types, serverVars
    <3>6. CASE /\ m.method = "DocRequested"
               /\ ServerSends(ToAll({k}, [method |-> "Doc", hashes |-> {m.hash} \cap serverStore]))
               /\ UNCHANGED serverVars
      <4> DEFINE d == [method |-> "Doc", hashes |-> {m.hash} \cap serverStore]
      <4>1. m.hash \in Document
        BY <3>1, <3>6, ToServerFields
      <4>2. d \in ToClient
        BY <4>1 DEF ToClient
      <4>3. ServerTells(ToSome({k}, d))
        <5> HIDE DEF d
        <5>1. ServerSends(ToAll({k}, d))
          BY <3>6 DEF d
        <5> QED
          BY <1>1, <4>2, <5>1, ToAllTells
      <4> QED
        BY <1>1, <3>1, <3>6, <4>3 DEF ServerTells, Types, serverVars
    <3> QED
      BY <2>5, <3>2, <3>3, <3>4, <3>5, <3>6 DEF onClientPayloadReceived
  <2> QED
    BY <2>2, <2>3, <2>4, <2>5
<1>3. CASE ClientStep
  <2>1. UNCHANGED <<constantVars, serverVars>>
    BY <1>3 DEF ClientStep
  <2>2. PICK k \in Conn : onPayloadReceived(k) \/ onError(k)
    BY <1>3 DEF ClientStep
  <2>3. CASE onPayloadReceived(k)
    <3>1. /\ toClient' \in [Conn -> Seq(ToClient)] /\ signals' \in [Process -> Seq(Signal)]
          /\ hostAble' \in [Process -> BOOLEAN]
      BY <2>3, Read DEF Reads
    <3> QED
      BY <1>1, <2>1, <2>3, <3>1
         DEF onPayloadReceived, Types, constantVars, serverVars, interfaceVars, historyVars
  <2>4. CASE onError(k)
    <3>1. /\ link' = [link EXCEPT ![k] = "down"]
          /\ toClient' \in [Conn -> Seq(ToClient)] /\ signals' \in [Process -> Seq(Signal)]
          /\ acts' \in 0..MaxActs
      BY <2>4, Failed DEF Fails
    <3> QED
      BY <1>1, <2>1, <2>4, <3>1 DEF onError, Types, constantVars, serverVars, interfaceVars
  <2> QED
    BY <2>2, <2>3, <2>4
<1>4. CASE InterfaceStep
  <2>1. UNCHANGED <<serverProcess, serverVars>>
    BY <1>4 DEF InterfaceStep
  <2>2. PICK p \in Process :
          \/ bindObservedClient(p) \/ onConnectButtonPressed(p)
          \/ sendMessage(p) \/ musicAct(p)
          \/ dropEvent(p) \/ onItemDoubleClick(p)
          \/ onSignal(p)
    BY <1>4 DEF InterfaceStep, musicAct
  <2>3. CASE bindObservedClient(p)
    <3>1. PICK k \in Conn \ Opened :
            /\ processOf' \in Seq(Process) /\ Len(processOf') <= MaxConnections
            /\ link' = [link EXCEPT ![k] = "up"]
            /\ toServer' \in [Conn -> Seq(ToServer)]
            /\ client' = [client EXCEPT ![p] = k]
      BY <2>3, Bound
    <3>2. chat' \in [Process -> Chat] /\ audio' \in [Process -> Player]
      <4>1. clearLines(chat[p]) \in Chat
        <5>1. chat[p] \in Chat
          BY <1>1 DEF Types
        <5> QED
          BY <5>1 DEF Chat, clearLines
      <4>2. streamConnecting(audio[p]) \in Player
        BY <1>1, PlayerTypes DEF Types
      <4> QED
        BY <1>1, <2>3, <4>1, <4>2 DEF bindObservedClient, Types
    <3>3. button' = [button EXCEPT ![p] = "Connecting"]
          /\ UNCHANGED <<toClient, hostAble, signals, shelf, historyVars>>
      BY <2>3 DEF bindObservedClient
    <3> QED
      BY <1>1, <2>1, <3>1, <3>2, <3>3 DEF Types, serverVars, historyVars
  <2>4. ASSUME endClient(p), UNCHANGED processOf, toServer' \in [Conn -> Seq(ToServer)],
               signals' \in [Process -> Seq(Signal)], acts' \in 0..MaxActs
        PROVE  Types'
    <3>1. CASE /\ client[p] = NoConn /\ crashed' = "ended"
               /\ UNCHANGED <<link, toClient, client, hostAble, interfaceVars>>
      BY <1>1, <2>1, <2>4, <3>1 DEF Types, interfaceVars, serverVars
    <3>2. CASE \E k \in Opened : Ends(p, k)
      BY <1>1, <2>1, <2>4, <3>2 DEF Types, serverVars, Ends
    <3> QED
      BY <2>4, <3>1, <3>2, Ended
  <2>5. CASE onConnectButtonPressed(p)
    <3>1. endClient(p) /\ UNCHANGED <<processOf, toServer, signals>>
      BY <2>5 DEF onConnectButtonPressed
    <3>2. acts' \in 0..MaxActs
      <4>1. acts < MaxActs /\ acts' = acts + 1
        BY <2>5 DEF onConnectButtonPressed
      <4> QED
        BY <1>1, <4>1, BoundsAssumption DEF Types
    <3> QED
      BY <1>1, <2>4, <3>1, <3>2 DEF Types
  <2>6. CASE sendMessage(p)
    <3>1. /\ chat' \in [Process -> Chat] /\ toServer' \in [Conn -> Seq(ToServer)]
          /\ acts' \in 0..MaxActs
          /\ UNCHANGED <<link, toClient, client, hostAble, signals, button, audio, shelf,
                         crashed, slips, processOf>>
      BY <2>6, Said
    <3> QED
      BY <1>1, <2>1, <3>1 DEF Types, serverVars
  <2>7. CASE musicAct(p)
    <3>1. /\ audio' \in [Process -> Player] /\ acts' \in 0..MaxActs
          /\ crashed' \in {"no", "ended", "response", "document", "stream"}
          /\ UNCHANGED <<processOf, link, toClient, client, hostAble, signals, button, chat, shelf>>
      BY <1>1, <2>7, MusicTold
    <3>2. toServer' \in [Conn -> Seq(ToServer)]
      BY <1>1, <2>7, MusicTold DEF ClientTells, Types
    <3> QED
      BY <1>1, <2>1, <3>1, <3>2 DEF Types, serverVars
  <2>8. CASE dropEvent(p)
    <3>1. /\ shelf' \in [Process -> Shelf] /\ toServer' \in [Conn -> Seq(ToServer)]
          /\ acts' \in 0..MaxActs
          /\ UNCHANGED <<link, toClient, client, hostAble, signals, button, audio, chat, crashed,
                         processOf>>
      BY <2>8, Dropped
    <3> QED
      BY <1>1, <2>1, <3>1 DEF Types, serverVars
  <2>9. CASE onItemDoubleClick(p)
    <3>1. /\ shelf' \in [Process -> Shelf] /\ toServer' \in [Conn -> Seq(ToServer)]
          /\ acts' \in 0..MaxActs
          /\ UNCHANGED <<link, toClient, client, hostAble, signals, button, audio, chat, crashed,
                         slips, processOf>>
      BY <2>9, DocAsked
    <3> QED
      BY <1>1, <2>1, <3>1 DEF Types, serverVars
  <2>10. CASE onSignal(p)
    <3>1. signals' \in [Process -> Seq(Signal)] /\ UNCHANGED <<processOf, acts>>
      BY <2>10, SignalTaken DEF onSignal
    <3>2. PICK k \in Opened, m \in ToClient \cup [method : {"Ended"}] :
            Head(signals[p]) = [conn |-> k, payload |-> m]
      BY <2>10, SignalTaken
    <3>3. CASE m.method = "Ended" /\ endClient(p) /\ UNCHANGED toServer
      BY <1>1, <2>4, <3>1, <3>3 DEF Types
    <3>4. ASSUME m \in ToClient, UNCHANGED <<link, toClient, client, hostAble>>
          PROVE  /\ m.method = "Session" /\ onGameSessionReceived(p, m) => Types'
                 /\ onAudioSignal(p, m) => Types'
                 /\ onChatSignal(p, m) => Types'
                 /\ onDocumentSignal(p, m) => Types'
      <4>1. ASSUME m.method = "Session", onGameSessionReceived(p, m)
            PROVE  Types'
        <5>1. m \in Session
          BY <3>4, <4>1 DEF ToClient, Music
        <5>2. /\ button' = [button EXCEPT ![p] = "Connected"] /\ chat' \in [Process -> Chat]
              /\ shelf' \in [Process -> Shelf] /\ toServer' \in [Conn -> Seq(ToServer)]
              /\ audio' \in [Process -> Player] /\ crashed' = crashed
          BY <4>1, <5>1, Joins
        <5> QED
          BY <1>1, <2>1, <3>1, <3>4, <5>2 DEF Types, serverVars
      <4>2. ASSUME onAudioSignal(p, m)
            PROVE  Types'
        <5>1. /\ toServer' \in [Conn -> Seq(ToServer)] /\ audio' \in [Process -> Player]
              /\ UNCHANGED <<button, chat, shelf, crashed>>
          BY <3>4, <4>2, MusicReceived
        <5> QED
          BY <1>1, <2>1, <3>1, <3>4, <5>1 DEF Types, serverVars
      <4>3. ASSUME onChatSignal(p, m)
            PROVE  Types'
        <5>1. /\ chat' \in [Process -> Chat] /\ UNCHANGED <<toServer, button, audio, shelf>>
              /\ crashed' \in {crashed, "no", "response"}
          BY <3>4, <4>3, ChatReceived
        <5> QED
          BY <1>1, <2>1, <3>1, <3>4, <5>1 DEF Types, serverVars
      <4>4. ASSUME onDocumentSignal(p, m)
            PROVE  Types'
        <5>1. /\ shelf' \in [Process -> Shelf] /\ UNCHANGED <<toServer, button, chat, audio>>
              /\ crashed' \in {crashed, "document"}
          BY <3>4, <4>4, DocumentReceived
        <5> QED
          BY <1>1, <2>1, <3>1, <3>4, <5>1 DEF Types, serverVars
      <4> QED
        BY <4>1, <4>2, <4>3, <4>4
    <3>5. m.method = "Ended" \/ m \in ToClient
      BY <3>2
    <3>6. Head(signals[p]).payload = m
      BY <3>2
    <3>7. m.method = "Ended" => m \notin ToClient
      BY <3>2, ToClientFields
    <3> QED
      BY <2>10, <3>3, <3>4, <3>5, <3>6, <3>7 DEF onSignal
  <2> QED
    BY <2>2, <2>3, <2>5, <2>6, <2>7, <2>8, <2>9, <2>10
<1>5. CASE UNCHANGED vars
  BY <1>1, <1>5 DEF Types, vars, constantVars, networkVars, serverVars, interfaceVars, historyVars
<1> QED
  BY <1>2, <1>3, <1>4, <1>5 DEF Next

LEMMA ServerTellsElements ==
  ASSUME Types, NEW X, ServerTells(X)
  PROVE  \A j \in Conn : /\ In(toClient'[j]) = In(toClient[j]) \cup (IF link[j] = "up" THEN X[j] ELSE {})
                         /\ link[j] # "up" => In(toClient'[j]) = In(toClient[j])
<1>1. ASSUME NEW j \in Conn
      PROVE  In(toClient'[j]) = In(toClient[j]) \cup (IF link[j] = "up" THEN X[j] ELSE {})
  <2>1. toClient[j] \in Seq(ToClient)
    BY DEF Types
  <2>2. Extended(toClient'[j], toClient[j], IF link[j] = "up" THEN X[j] ELSE {})
    BY DEF ServerTells
  <2> QED
    BY <2>1, <2>2, ExtendedElements
<1> QED
  BY <1>1

LEMMA ClientTellsElements ==
  ASSUME Types, NEW p \in Process, NEW x \in ToServer, ClientTells(p, x)
  PROVE  \A k \in Conn :
           /\ link[k] # "up" \/ k # client[p] => toServer'[k] = toServer[k]
           /\ In(toServer'[k]) = In(toServer[k]) \cup (IF k = client[p] /\ link[k] = "up" THEN {x} ELSE {})
<1> SUFFICES ASSUME NEW k \in Conn
             PROVE  /\ link[k] # "up" \/ k # client[p] => toServer'[k] = toServer[k]
                    /\ In(toServer'[k]) = In(toServer[k])
                                            \cup (IF k = client[p] /\ link[k] = "up" THEN {x} ELSE {})
  OBVIOUS
<1>1. toServer[k] \in Seq(ToServer)
  BY DEF Types
<1>2. In(Append(toServer[k], x)) = In(toServer[k]) \cup {x}
  BY <1>1, InAppend
<1> QED
  BY <1>2 DEF ClientTells

\* What the connections depend on.
LEMMA QuietStep ==
  ASSUME Base, UNCHANGED <<processOf, link, client, users>>,
         \A k \in Conn : link[k] # "up" => toServer'[k] = toServer[k],
         \A k \in Conn : link[k] # "up" => In(toClient'[k]) = In(toClient[k]),
         slips \subseteq slips',
         \A p \in Process : In(signals'[p]) \subseteq In(signals[p]),
         \A p \in Process : \/ button'[p] = button[p]
                            \/ button'[p] = "Connected" /\ (client[p] = NoConn => "late" \in slips')
  PROVE  Connections'
BY DEF Base, Connections, Types, Opened, Live

\* How one process may change what the connections depend on.
LEMMA InterfaceQuiet ==
  ASSUME Base, NEW p \in Process, UNCHANGED <<processOf, link, client, toClient, users>>,
         \/ toServer' = toServer
         \/ \E x \in ToServer : ClientTells(p, x),
         slips \subseteq slips',
         \A q \in Process : In(signals'[q]) \subseteq In(signals[q]),
         \/ button' = button
         \/ button' = [button EXCEPT ![p] = "Connected"]
            /\ (client[p] = NoConn => "late" \in slips')
  PROVE  Connections'
<1>1. \A k \in Conn : link[k] # "up" => toServer'[k] = toServer[k]
  BY ClientTellsElements DEF Base
<1>2. \A q \in Process : \/ button'[q] = button[q]
                         \/ button'[q] = "Connected" /\ (client[q] = NoConn => "late" \in slips')
  BY DEF Base, Types
<1> QED
  BY <1>1, <1>2, QuietStep

\* The signals that are taken, by what they carry.
Takes(p, k, m) ==
  /\ Head(signals[p]) = [conn |-> k, payload |-> m] /\ processOf[k] = p
  /\ late(p) <=> k # client[p]
  /\ UNCHANGED <<processOf, acts>>

Shows(p, m) ==
  \/ /\ m \in ToClient
     /\ UNCHANGED <<link, toClient, client, hostAble>>
     /\ \/ m \in Session /\ onGameSessionReceived(p, m)
        \/ onAudioSignal(p, m)
        \/ onChatSignal(p, m)
        \/ onDocumentSignal(p, m)
  \/ /\ m.method = "Ended"
     /\ endClient(p)
     /\ slips' = slipsBefore(p) \cup slipsAfterEnd(p)
     /\ UNCHANGED toServer

LEMMA SignalCases ==
  ASSUME Base, NEW p \in Process, onSignal(p)
  PROVE  \E k \in Opened, m \in ToClient \cup [method : {"Ended"}] : Takes(p, k, m) /\ Shows(p, m)
<1>1. PICK k \in Opened, m \in ToClient \cup [method : {"Ended"}] :
        /\ Head(signals[p]) = [conn |-> k, payload |-> m] /\ processOf[k] = p
        /\ late(p) <=> k # client[p]
  BY SignalTaken
<1>2. m.method = "Ended" => m \notin ToClient
  BY ToClientFields
<1>3. m \in ToClient /\ m.method = "Session" => m \in Session
  BY DEF ToClient, Music
<1>4. Head(signals[p]).payload = m
  BY <1>1
<1>5. m \in ToClient \/ m.method = "Ended"
  OBVIOUS
<1>6. Shows(p, m)
  BY <1>2, <1>3, <1>4, <1>5 DEF onSignal, Shows
<1>7. UNCHANGED <<processOf, acts>>
  BY DEF onSignal
<1> QED
  BY <1>1, <1>6, <1>7 DEF Takes

\* What the server does with a message, told apart by the message.
Does(k, m) ==
  \/ m.method = "Handshake" /\ handshake(k)
  \/ m.method = "Message" /\ m.message \in Message /\ interpretMessage(k, m.message)
  \/ m \in Music /\ m \in ToClient /\ ServerTells(ToSome(Peers(k), m)) /\ UNCHANGED <<users, messages>>
  \/ /\ m.method = "DocAvailable" /\ m \in ToClient /\ m.hash \in Document
     /\ ServerTells(ToSome(Peers(k), m)) /\ UNCHANGED serverVars
  \/ /\ m.method = "DocRequested" /\ m.hash \in Document
     /\ \E d \in ToClient : /\ d = [method |-> "Doc", hashes |-> {m.hash} \cap serverStore]
                            /\ ServerTells(ToSome({k}, d))
     /\ UNCHANGED serverVars

LEMMA PayloadCases ==
  ASSUME Types, NEW k \in Conn, onClientPayloadReceived(k)
  PROVE  \E m \in ToServer : /\ m = Head(toServer[k]) /\ In(toServer[k]) = {m} \cup In(toServer'[k])
                             /\ Does(k, m)
<1> USE DEF Does
<1> DEFINE m == Head(toServer[k])
<1>1. m \in ToServer /\ In(toServer[k]) = {m} \cup In(toServer'[k])
  BY Handled
<1>2. CASE m.method = "Handshake" /\ handshake(k)
  BY <1>1, <1>2
<1>3. CASE m.method = "Message" /\ interpretMessage(k, m.message)
  BY <1>1, <1>3, ToServerFields
<1>4. CASE /\ m.method \in {"Url", "PlayingState", "Position"}
           /\ relay(k, m)
           /\ UNCHANGED <<users, messages>>
  <2>1. m \in Music /\ m \in ToClient
    BY <1>1, <1>4, ToServerFields, MusicIsSent
  <2>2. ServerTells(ToSome(Peers(k), m))
    BY <1>4, <2>1, Relayed
  <2> QED
    BY <1>1, <1>4, <2>1, <2>2
<1>5. CASE m.method = "DocAvailable" /\ relay(k, m) /\ UNCHANGED serverVars
  <2>1. m \in ToClient /\ m.hash \in Document
    BY <1>1, <1>5, ToServerFields
  <2>2. ServerTells(ToSome(Peers(k), m))
    BY <1>5, <2>1, Relayed
  <2> QED
    BY <1>1, <1>5, <2>1, <2>2
<1>6. CASE /\ m.method = "DocRequested"
           /\ ServerSends(ToAll({k}, [method |-> "Doc", hashes |-> {m.hash} \cap serverStore]))
           /\ UNCHANGED serverVars
  <2> DEFINE d == [method |-> "Doc", hashes |-> {m.hash} \cap serverStore]
  <2>1. m.hash \in Document
    BY <1>1, <1>6, ToServerFields
  <2>2. d \in ToClient
    BY <2>1 DEF ToClient
  <2>3. ServerSends(ToAll({k}, d))
    BY <1>6
  <2>4. ServerTells(ToSome({k}, d))
    <3> HIDE DEF d
    <3> QED
      BY <2>2, <2>3, ToAllTells
  <2> QED
    BY <1>1, <1>6, <2>1, <2>2, <2>4
<1> QED
  BY <1>2, <1>3, <1>4, <1>5, <1>6 DEF onClientPayloadReceived

LEMMA PayloadTells ==
  ASSUME Types, NEW k \in Conn, onClientPayloadReceived(k)
  PROVE  \E X : ServerTells(X)
BY PayloadCases, Handshaken, Interpreted DEF Does

LEMMA SignalsShrink ==
  ASSUME Base, NEW p \in Process, onSignal(p)
  PROVE  \A q \in Process : In(signals'[q]) \subseteq In(signals[q])
<1>1. \A q \in Process \ {p} : signals'[q] = signals[q]
  BY SignalTaken
<1>2. In(signals'[p]) \subseteq In(signals[p])
  BY SignalTaken
<1> QED
  BY <1>1, <1>2

LEMMA EndedConnections ==
  ASSUME Base, NEW p \in Process, endClient(p), UNCHANGED <<processOf, toServer, users>>,
         slips \subseteq slips',
         \A q \in Process : In(signals'[q]) \subseteq In(signals[q])
  PROVE  Connections'
<1>1. CASE /\ client[p] = NoConn
           /\ UNCHANGED <<link, toClient, client, hostAble, interfaceVars>>
  BY <1>1, InterfaceQuiet DEF interfaceVars
<1>2. CASE \E k \in Opened : Ends(p, k)
  <2>1. PICK k \in Opened :
             /\ k = client[p] /\ processOf[k] = p
             /\ link' = [link EXCEPT ![k] = "down"]
             /\ toClient' = [toClient EXCEPT ![k] = <<>>]
             /\ client' = [client EXCEPT ![p] = NoConn]
             /\ button' = [button EXCEPT ![p] = "NotConnected"]
    BY <1>2 DEF Ends
  <2>3. In(toClient'[k]) = {}
    BY <2>1, ConnFacts, InEmpty DEF Base, Types
  <2>4. Opened' = Opened /\ Opened \subseteq Conn /\ NoConn \notin Conn
    BY ConnFacts DEF Opened
  <2>5. \A j \in Conn : j # k => link'[j] = link[j] /\ toClient'[j] = toClient[j]
    BY <2>1 DEF Base, Types
  <2>6. link'[k] = "down"
    BY <2>1, <2>4 DEF Base, Types
  <2>7. \A q \in Process : q # p => client'[q] = client[q] /\ button'[q] = button[q]
    BY <2>1 DEF Base, Types
  <2>8. client'[p] = NoConn /\ button'[p] = "NotConnected"
    BY <2>1 DEF Base, Types
  <2>9. \A j \in Conn : link'[j] = "up" => client'[processOf'[j]] = j
    <3> SUFFICES ASSUME NEW j \in Conn, link'[j] = "up"
                 PROVE  client'[processOf[j]] = j
      OBVIOUS
    <3>1. j # k /\ link[j] = "up"
      BY <2>5, <2>6
    <3>2. client[processOf[j]] = j /\ processOf[j] \in Process
      BY <3>1, ConnFacts DEF Base, Connections
    <3> QED
      BY <2>1, <2>7, <3>1, <3>2
  <2>10. \A j \in Conn \ Opened' : link'[j] = "idle" /\ toServer'[j] = <<>>
    BY <2>1, <2>4, <2>5 DEF Base, Connections
  <2>11. \A j \in Conn : link'[j] # "up" => In(toClient'[j]) = {}
    BY <2>3, <2>5 DEF Base, Connections
  <2>12. \A j \in Live' : link'[j] \in {"up", "down"}
    BY <2>5, <2>6 DEF Base, Connections, Live
  <2>13. \A j \in Conn : link'[j] = "gone" => toServer'[j] = <<>>
    BY <2>5, <2>6 DEF Base, Connections
  <2>14. \A q \in Process : \A x \in In(signals'[q]) : x.conn \in Opened' /\ processOf'[x.conn] = q
    BY <2>4 DEF Base, Connections
  <2>15. \A q \in Process : client'[q] # NoConn =>
           client'[q] \in Opened' /\ processOf'[client'[q]] = q /\ button'[q] # "NotConnected"
    BY <2>4, <2>7, <2>8 DEF Base, Connections
  <2>16. \A q \in Process : client'[q] = NoConn /\ button'[q] # "NotConnected" => "late" \in slips'
    BY <2>7, <2>8 DEF Base, Connections
  <2> QED
    BY <2>9, <2>10, <2>11, <2>12, <2>13, <2>14, <2>15, <2>16 DEF Connections
<1> QED
  BY <1>1, <1>2, Ended

LEMMA ConnectionsStep == Base /\ [Next]_vars => Connections'
<1> SUFFICES ASSUME Base, [Next]_vars
             PROVE  Connections'
  OBVIOUS
<1>1. Types
  BY DEF Base
<1>2. CASE ServerStep
  <2>1. UNCHANGED <<processOf, client, signals, button>>
    BY <1>2 DEF ServerStep, constantVars, interfaceVars
  <2>2. PICK k \in Conn :
          onNewConnection(k) \/ onClientSocketDisconnected(k) \/ onClientPayloadReceived(k)
    BY <1>2 DEF ServerStep
  <2>3. CASE onNewConnection(k)
    <3>1. /\ UNCHANGED <<link, toServer, toClient, slips>> /\ link[k] \in {"up", "down"}
          /\ users' = [users EXCEPT ![k] = "new"]
      BY <2>3 DEF onNewConnection, networkVars
    <3>2. Live' = Live \cup {k}
      BY <1>1, <3>1 DEF Live, Types
    <3> QED
      BY <2>1, <3>1, <3>2 DEF Base, Connections, Opened
  <2>4. CASE onClientSocketDisconnected(k)
    <3>1. PICK out \in Message : ServerTells(ToSome(Peers(k), Asked(out)))
      BY <1>1, <2>4, Disconnected
    <3>2. /\ link[k] = "down" /\ k \in Live /\ link' = [link EXCEPT ![k] = "gone"]
          /\ toServer' = [toServer EXCEPT ![k] = <<>>] /\ users' = [users EXCEPT ![k] = "absent"]
          /\ slips \subseteq slips'
      BY <2>4 DEF onClientSocketDisconnected, usersWithout
    <3>3. \A j \in Conn : link[j] # "up" => In(toClient'[j]) = In(toClient[j])
      BY <1>1, <3>1, ServerTellsElements
    <3>4. Live' = Live \ {k}
      BY <1>1, <3>2 DEF Live, Types
    <3>5. /\ \A j \in Conn : j # k => link'[j] = link[j] /\ toServer'[j] = toServer[j]
          /\ link'[k] = "gone" /\ toServer'[k] = <<>>
      BY <1>1, <3>2 DEF Types
    <3>6. Opened' = Opened
      BY <2>1 DEF Opened
    <3>7. k \in Opened
      BY <3>2, ConnFacts
    <3>8. \A j \in Conn : link'[j] # "up" => In(toClient'[j]) = {}
      BY <3>2, <3>3, <3>5 DEF Base, Connections
    <3> QED
      BY <2>1, <3>2, <3>4, <3>5, <3>6, <3>7, <3>8 DEF Base, Connections
  <2>5. CASE onClientPayloadReceived(k)
    <3>1. /\ k \in Live /\ toServer[k] # <<>> /\ UNCHANGED <<link, slips>>
          /\ \A j \in Conn \ {k} : toServer'[j] = toServer[j]
      BY <1>1, <2>5, Handled
    <3>2. link[k] \in {"up", "down"}
      BY <3>1 DEF Base, Connections
    <3>3. \A j \in Conn : link[j] # "up" => In(toClient'[j]) = In(toClient[j])
      <4>1. \E X : ServerTells(X)
        BY <2>5, PayloadTells DEF Base
      <4> QED
        BY <1>1, <4>1, ServerTellsElements
    <3>4. Live' = Live
      <4>1. users' = users \/ \E role \in {"host", "guest"} : users' = [users EXCEPT ![k] = role]
        BY <2>5 DEF onClientPayloadReceived, handshake, attributedRole, interpretMessage, serverVars
      <4> QED
        BY <1>1, <3>1, <4>1 DEF Live, Types
    <3>5. k \in Opened /\ Opened' = Opened
      BY <2>1, <3>2, ConnFacts DEF Opened
    <3>6. \A j \in Conn \ Opened : link'[j] = "idle" /\ toServer'[j] = <<>>
      BY <3>1, <3>5 DEF Base, Connections
    <3>7. \A j \in Conn : link'[j] = "gone" => toServer'[j] = <<>>
      BY <3>1, <3>2 DEF Base, Connections
    <3> QED
      BY <2>1, <3>1, <3>3, <3>4, <3>5, <3>6, <3>7 DEF Base, Connections
  <2> QED
    BY <2>2, <2>3, <2>4, <2>5
<1>3. CASE ClientStep
  <2>1. UNCHANGED <<processOf, users>>
    BY <1>3 DEF ClientStep, constantVars, serverVars
  <2>2. Opened' = Opened /\ Live' = Live
    BY <2>1 DEF Opened, Live
  <2>3. PICK k \in Conn : onPayloadReceived(k) \/ onError(k)
    BY <1>3 DEF ClientStep
  <2>4. CASE onPayloadReceived(k)
    <3>1. PICK x \in ToClient, p \in Process : Reads(k, x, p)
      BY <2>4, Read
    <3>2. UNCHANGED <<link, toServer, client, button, slips>>
      BY <2>4 DEF onPayloadReceived, interfaceVars, historyVars
    <3>3. \A q \in Process : \A y \in In(signals'[q]) : y.conn \in Opened /\ processOf[y.conn] = q
      <4>1. \A q \in Process : \A y \in In(signals[q]) : y.conn \in Opened /\ processOf[y.conn] = q
        BY DEF Base, Connections
      <4>2. /\ p = processOf[k] /\ k \in Opened
            /\ In(signals'[p]) = In(signals[p]) \cup {[conn |-> k, payload |-> x]}
            /\ \A q \in Process \ {p} : signals'[q] = signals[q]
        BY <3>1 DEF Reads
      <4> QED
        BY <4>1, <4>2
    <3>4. \A j \in Conn : link[j] # "up" => In(toClient'[j]) = {}
      BY <3>1 DEF Reads, Base, Connections
    <3> QED
      BY <2>1, <2>2, <3>2, <3>3, <3>4 DEF Base, Connections
  <2>5. CASE onError(k)
    <3>1. PICK p \in Process : Fails(k, p)
      BY <2>5, Failed
    <3>2. /\ p = processOf[k] /\ k \in Opened
          /\ link' = [link EXCEPT ![k] = "down"]
          /\ toClient' = [toClient EXCEPT ![k] = <<>>]
          /\ In(signals'[p]) = In(signals[p]) \cup {[conn |-> k, payload |-> [method |-> "Ended"]]}
          /\ \A q \in Process \ {p} : signals'[q] = signals[q]
      BY <3>1 DEF Fails
    <3>3. UNCHANGED <<toServer, client, button, slips>>
      BY <2>5 DEF onError, interfaceVars
    <3>4. \A q \in Process : \A y \in In(signals'[q]) : y.conn \in Opened /\ processOf[y.conn] = q
      BY <3>2 DEF Base, Connections
    <3>5. /\ \A j \in Conn : j # k => link'[j] = link[j] /\ toClient'[j] = toClient[j]
          /\ link'[k] = "down" /\ In(toClient'[k]) = {}
      BY <1>1, <3>2, InEmpty DEF Types
    <3> QED
      BY <2>1, <2>2, <3>2, <3>3, <3>4, <3>5 DEF Base, Connections
  <2> QED
    BY <2>3, <2>4, <2>5
<1>4. CASE InterfaceStep
  <2>1. UNCHANGED users
    BY <1>4 DEF InterfaceStep, serverVars
  <2>2. PICK p \in Process :
          \/ bindObservedClient(p) \/ onConnectButtonPressed(p)
          \/ sendMessage(p) \/ musicAct(p)
          \/ dropEvent(p) \/ onItemDoubleClick(p)
          \/ onSignal(p)
    BY <1>4 DEF InterfaceStep, musicAct
  <2>3. CASE bindObservedClient(p)
    <3>1. PICK k \in Conn \ Opened :
            /\ Opened' = Opened \cup {k}
            /\ processOf'[k] = p /\ \A j \in Opened : processOf'[j] = processOf[j]
            /\ link' = [link EXCEPT ![k] = "up"]
            /\ \A j \in Conn \ {k} : toServer'[j] = toServer[j]
            /\ client' = [client EXCEPT ![p] = k]
      BY <2>3, Bound
    <3>2. /\ button[p] = "NotConnected" /\ button' = [button EXCEPT ![p] = "Connecting"]
          /\ UNCHANGED <<toClient, signals, slips>>
      BY <2>3 DEF bindObservedClient, historyVars
    <3>3. client[p] = NoConn
      BY <3>2 DEF Base, Connections
    <3>4. link[k] = "idle" /\ In(toClient[k]) = {}
      BY <3>1 DEF Base, Connections
    <3>5. /\ \A j \in Conn : j # k => link'[j] = link[j]
          /\ link'[k] = "up"
          /\ \A q \in Process : q # p => client'[q] = client[q] /\ button'[q] = button[q]
          /\ client'[p] = k /\ button'[p] = "Connecting"
      BY <1>1, <3>1, <3>2 DEF Types
    <3>6. k # NoConn /\ Opened \subseteq Conn /\ Live' = Live
          /\ \A j \in Conn : link[j] # "idle" => j \in Opened
      BY <2>1, ConnFacts DEF Live
    <3>7. \A j \in Conn : link'[j] = "up" => client'[processOf'[j]] = j
      <4> SUFFICES ASSUME NEW j \in Conn, link'[j] = "up", j # k
                   PROVE  client'[processOf'[j]] = j
        BY <3>1, <3>5
      <4>1. link[j] = "up" /\ j \in Opened
        BY <3>5, <3>6
      <4>2. client[processOf[j]] = j /\ processOf[j] \in Process /\ processOf'[j] = processOf[j]
        BY <3>1, <4>1, ConnFacts DEF Base, Connections
      <4>3. processOf[j] # p
        BY <3>3, <4>2, ConnFacts
      <4> QED
        BY <3>5, <4>2, <4>3
    <3>8. \A q \in Process : \A y \in In(signals'[q]) : y.conn \in Opened' /\ processOf'[y.conn] = q
      BY <3>1, <3>2 DEF Base, Connections
    <3>9. \A q \in Process : client'[q] # NoConn =>
           client'[q] \in Opened' /\ processOf'[client'[q]] = q /\ button'[q] # "NotConnected"
      <4> SUFFICES ASSUME NEW q \in Process, q # p, client'[q] # NoConn
                   PROVE  client'[q] \in Opened' /\ processOf'[client'[q]] = q
                          /\ button'[q] # "NotConnected"
        BY <3>1, <3>5
      <4>1. client[q] # NoConn /\ client'[q] = client[q] /\ button'[q] = button[q]
        BY <3>5
      <4>2. client[q] \in Opened /\ processOf[client[q]] = q /\ button[q] # "NotConnected"
        BY <4>1 DEF Base, Connections
      <4> QED
        BY <3>1, <4>1, <4>2
    <3>10. \A q \in Process : client'[q] = NoConn /\ button'[q] # "NotConnected" => "late" \in slips'
      BY <3>2, <3>5, <3>6 DEF Base, Connections
    <3>11. \A j \in Conn : link'[j] # "up" => In(toClient'[j]) = {}
      BY <3>2, <3>5 DEF Base, Connections
    <3>12. /\ \A j \in Conn \ Opened' : link'[j] = "idle" /\ toServer'[j] = <<>>
           /\ \A j \in Conn : link'[j] = "gone" => toServer'[j] = <<>>
      BY <3>1, <3>5 DEF Base, Connections
    <3>13. \A j \in Live' : link'[j] \in {"up", "down"}
      BY <3>5, <3>6 DEF Base, Connections, Live
    <3> QED
      BY <3>7, <3>8, <3>9, <3>10, <3>11, <3>12, <3>13 DEF Connections
  <2>4. CASE onConnectButtonPressed(p)
    <3>1. endClient(p) /\ UNCHANGED <<processOf, toServer, signals>> /\ slips \subseteq slips'
      BY <2>4 DEF onConnectButtonPressed
    <3> QED
      BY <2>1, <3>1, EndedConnections
  <2>5. CASE sendMessage(p)
    <3>1. PICK m \in Message : toServer' = toServer \/ ClientTells(p, Asked(m))
      BY <2>5, Said
    <3>2. Asked(m) \in ToServer
      BY MessageSent DEF Asked
    <3>3. UNCHANGED <<processOf, link, client, toClient, signals, button, slips>>
      BY <2>5, Said
    <3> QED
      BY <2>1, <3>1, <3>2, <3>3, InterfaceQuiet
  <2>6. CASE musicAct(p)
    <3>1. UNCHANGED <<processOf, link, client, toClient, signals, button>> /\ slips \subseteq slips'
          /\ (toServer' = toServer \/ \E x \in ToServer : ClientTells(p, x))
      BY <1>1, <2>6, MusicTold, MusicIsSent
    <3> QED
      BY <2>1, <3>1, InterfaceQuiet
  <2>7. CASE dropEvent(p)
    <3>1. PICK d \in Document :
            toServer' = toServer \/ ClientTells(p, [method |-> "DocAvailable", hash |-> d])
      BY <2>7, Dropped
    <3>2. [method |-> "DocAvailable", hash |-> d] \in ToServer
      BY DEF ToServer
    <3>3. UNCHANGED <<processOf, link, client, toClient, signals, button>> /\ slips \subseteq slips'
      BY <2>7, Dropped
    <3> QED
      BY <2>1, <3>1, <3>2, <3>3, InterfaceQuiet
  <2>8. CASE onItemDoubleClick(p)
    <3>1. PICK d \in Document : ClientTells(p, [method |-> "DocRequested", hash |-> d])
      BY <2>8, DocAsked
    <3>2. [method |-> "DocRequested", hash |-> d] \in ToServer
      BY DEF ToServer
    <3>3. UNCHANGED <<processOf, link, client, toClient, signals, button, slips>>
      BY <2>8, DocAsked
    <3> QED
      BY <2>1, <3>1, <3>2, <3>3, InterfaceQuiet
  <2>9. CASE onSignal(p)
    <3>1. \A q \in Process : In(signals'[q]) \subseteq In(signals[q])
      BY <2>9, SignalsShrink
    <3>2. PICK k \in Opened, m \in ToClient \cup [method : {"Ended"}] : Takes(p, k, m) /\ Shows(p, m)
      BY <2>9, SignalCases
    <3>3. slips \subseteq slipsBefore(p) /\ slipsBefore(p) \subseteq slipsBeforeMusic(p)
          /\ (client[p] = NoConn => "late" \in slipsBefore(p))
      BY <3>2, ConnFacts DEF slipsBefore, slipsBeforeMusic, Takes
    <3>4. CASE m \in Session /\ onGameSessionReceived(p, m)
               /\ UNCHANGED <<link, toClient, client, hostAble>>
      <4>1. /\ toServer' = toServer \/ \E x \in ToServer : ClientTells(p, x)
            /\ button' = [button EXCEPT ![p] = "Connected"] /\ slipsBefore(p) \subseteq slips'
        BY <3>4, Joins, MusicIsSent
      <4> QED
        BY <2>1, <3>1, <3>2, <3>3, <3>4, <4>1, InterfaceQuiet DEF Takes
    <3>5. CASE m \in ToClient /\ onAudioSignal(p, m)
               /\ UNCHANGED <<link, toClient, client, hostAble>>
      <4>1. /\ toServer' = toServer \/ \E x \in ToServer : ClientTells(p, x)
            /\ button' = button /\ slipsBeforeMusic(p) \subseteq slips'
        BY <3>5, MusicReceived, MusicIsSent
      <4> QED
        BY <2>1, <3>1, <3>2, <3>3, <3>5, <4>1, InterfaceQuiet DEF Takes
    <3>6. CASE m \in ToClient /\ onChatSignal(p, m)
               /\ UNCHANGED <<link, toClient, client, hostAble>>
      <4>1. toServer' = toServer /\ button' = button /\ slips' = slipsBefore(p)
        BY <3>6, ChatReceived
      <4> QED
        BY <2>1, <3>1, <3>2, <3>3, <3>6, <4>1, InterfaceQuiet DEF Takes
    <3>7. CASE m \in ToClient /\ onDocumentSignal(p, m)
               /\ UNCHANGED <<link, toClient, client, hostAble>>
      <4>1. toServer' = toServer /\ button' = button /\ slips' = slipsBefore(p)
        BY <3>7, DocumentReceived
      <4> QED
        BY <2>1, <3>1, <3>2, <3>3, <3>7, <4>1, InterfaceQuiet DEF Takes
    <3>8. CASE endClient(p) /\ slips' = slipsBefore(p) \cup slipsAfterEnd(p) /\ UNCHANGED toServer
      BY <2>1, <3>1, <3>2, <3>3, <3>8, EndedConnections DEF Takes
    <3> QED
      BY <3>2, <3>4, <3>5, <3>6, <3>7, <3>8 DEF Shows
  <2> QED
    BY <2>2, <2>3, <2>4, <2>5, <2>6, <2>7, <2>8, <2>9
<1>5. CASE UNCHANGED vars
  BY <1>1, <1>5, QuietStep DEF vars, constantVars, networkVars, serverVars, interfaceVars, historyVars
<1> QED
  BY <1>2, <1>3, <1>4, <1>5 DEF Next

---------------------------------------------------------------------------
(* Whispers *)

isWhisper(m) == m.command = "whisper"

\* What is sent by k is from k.
FromSender(k, x) == x.method = "Message" => x.message.from = k

\* What k is sent of whispers is for k.
ForReceiver(k, x) ==
  /\ x.method = "Message" /\ isWhisper(x.message) => x.message.to = k
  /\ x.method = "Session" => \A m \in x.messages : ~isWhisper(m)

\* A whisper that the process p may show.
OfProcess(p, m) ==
  isWhisper(m) /\ m.from # NoConn => \E k \in {m.from, m.to} \cap Opened : processOf[k] = p

\* A whisper is carried to the one it is for, by the server's queue and by that of
\* its process.
Whispers ==
  /\ \A m \in messages : ~isWhisper(m)
  /\ \A k \in Conn : \A x \in In(toServer[k]) : FromSender(k, x)
  /\ \A k \in Conn : \A x \in In(toClient[k]) : ForReceiver(k, x)
  /\ \A p \in Process : \A y \in In(signals[p]) : ForReceiver(y.conn, y.payload)
  /\ \A p \in Process : \A m \in chat[p].lines : OfProcess(p, m)

LEMMA WhispersServer ==
  ASSUME Base, Whispers, UNCHANGED <<processOf, signals, chat>>,
         \A k \in Conn : In(toServer'[k]) \subseteq In(toServer[k]),
         NEW X, ServerTells(X),
         \A j \in Conn : \A x \in X[j] : ForReceiver(j, x),
         \A m \in messages' : ~isWhisper(m)
  PROVE  Whispers'
<1>1. \A j \in Conn : In(toClient'[j]) \subseteq In(toClient[j]) \cup X[j]
  BY ServerTellsElements DEF Base
<1>2. \A j \in Conn : \A x \in In(toClient'[j]) : ForReceiver(j, x)
  BY <1>1 DEF Whispers
<1> QED
  BY <1>2 DEF Whispers, OfProcess, Opened

LEMMA WhispersInterface ==
  ASSUME Base, Whispers, NEW p \in Process, UNCHANGED <<processOf, messages>>,
         \A k \in Conn : In(toClient'[k]) \subseteq In(toClient[k]),
         \A q \in Process : In(signals'[q]) \subseteq In(signals[q]),
         \/ toServer' = toServer
         \/ \E x \in ToServer : ClientTells(p, x) /\ FromSender(client[p], x),
         \A q \in Process : \A m \in chat'[q].lines : m \in chat[q].lines \/ OfProcess(q, m)
  PROVE  Whispers'
<1>1. \A k \in Conn : \A x \in In(toServer'[k]) : FromSender(k, x)
  <2>1. CASE toServer' = toServer
    BY <2>1 DEF Whispers
  <2>2. CASE \E x \in ToServer : ClientTells(p, x) /\ FromSender(client[p], x)
    <3>1. PICK x \in ToServer : ClientTells(p, x) /\ FromSender(client[p], x)
      BY <2>2
    <3>2. \A k \in Conn :
            In(toServer'[k]) = In(toServer[k]) \cup (IF k = client[p] /\ link[k] = "up" THEN {x} ELSE {})
      BY <3>1, ClientTellsElements DEF Base
    <3> QED
      BY <3>1, <3>2 DEF Whispers
  <2> QED
    BY <2>1, <2>2
<1>2. \A q \in Process : \A m \in chat'[q].lines : OfProcess(q, m)'
  BY DEF Whispers, OfProcess, Opened
<1> QED
  BY <1>1, <1>2 DEF Whispers

\* Which lines a chat shows afterwards, and which of them are grey.
LEMMA ChatCleared ==
  ASSUME NEW c \in Chat
  PROVE  /\ clearLines(c).lines = {} /\ clearLines(c).waiting = {}
         /\ disabled(c).lines \subseteq c.lines /\ disabled(c).waiting \subseteq c.waiting
BY DEF Chat, clearLines, disabled

LEMMA ChatWritten ==
  ASSUME NEW c \in Chat, NEW m
  PROVE  /\ handleLocalMessage(c, m).lines = c.lines \cup {m}
         /\ handleLocalMessage(c, m).waiting = c.waiting \cup {m}
         /\ handleRemoteMessage(c, m).lines = c.lines \cup {m}
         /\ handleRemoteMessage(c, m).waiting = c.waiting
         /\ handleResponse(c, m).lines = c.lines
         /\ handleResponse(c, m).waiting = c.waiting \ {m}
BY DEF Chat, handleLocalMessage, handleRemoteMessage, handleResponse

LEMMA ChatWelcomed ==
  ASSUME NEW c \in Chat, NEW M
  PROVE  welcomed(c, M).lines = c.lines \cup M /\ welcomed(c, M).waiting = c.waiting
BY DEF Chat, welcomed

LEMMA EndedShrinks ==
  ASSUME Base, NEW p \in Process, endClient(p)
  PROVE  /\ \A j \in Conn : In(toClient'[j]) \subseteq In(toClient[j])
         /\ \A q \in Process : /\ chat'[q].lines \subseteq chat[q].lines
                               /\ chat'[q].waiting \subseteq chat[q].waiting
<1>1. CASE UNCHANGED <<link, toClient, client, hostAble, interfaceVars>>
  BY <1>1 DEF interfaceVars
<1>2. CASE \E k \in Opened : Ends(p, k)
  <2>1. PICK k \in Opened : Ends(p, k)
    BY <1>2
  <2>2. \A j \in Conn : In(toClient'[j]) \subseteq In(toClient[j])
    BY <2>1, InEmpty DEF Ends, Base, Types
  <2>3. chat[p] \in Chat /\ chat'[p] = disabled(chat[p])
        /\ \A q \in Process : q # p => chat'[q] = chat[q]
    BY <2>1 DEF Ends, Base, Types
  <2> QED
    BY <2>2, <2>3, ChatCleared
<1> QED
  BY <1>1, <1>2, Ended

LEMMA SignalHead ==
  ASSUME Base, NEW p \in Process, onSignal(p)
  PROVE  Head(signals[p]) \in In(signals[p])
<1>1. signals[p] \in Seq(Signal) /\ signals[p] # <<>>
  BY DEF Base, Types, onSignal
<1> QED
  BY <1>1, InTail

LEMMA WhispersStep == Base /\ Whispers /\ [Next]_vars => Whispers'
<1> SUFFICES ASSUME Base, Whispers, [Next]_vars
             PROVE  Whispers'
  OBVIOUS
<1>1. Types
  BY DEF Base
<1>2. CASE ServerStep
  <2>1. UNCHANGED <<processOf, signals, chat>>
    BY <1>2 DEF ServerStep, constantVars, interfaceVars
  <2>2. PICK k \in Conn :
          onNewConnection(k) \/ onClientSocketDisconnected(k) \/ onClientPayloadReceived(k)
    BY <1>2 DEF ServerStep
  <2>3. CASE onNewConnection(k)
    BY <2>1, <2>3 DEF onNewConnection, networkVars, Whispers, OfProcess, Opened
  <2>4. CASE onClientSocketDisconnected(k)
    <3>1. PICK out \in Message : /\ out.command = "logout" /\ messages' = messages \cup {out}
                                 /\ ServerTells(ToSome(Peers(k), Asked(out)))
      BY <1>1, <2>4, Disconnected
    <3>2. \A j \in Conn : \A x \in ToSome(Peers(k), Asked(out))[j] : ForReceiver(j, x)
      BY <3>1 DEF ToSome, Asked, ForReceiver, isWhisper
    <3>3. \A m \in messages' : ~isWhisper(m)
      BY <3>1 DEF Whispers, isWhisper
    <3>4. \A j \in Conn : In(toServer'[j]) \subseteq In(toServer[j])
      BY <1>1, <2>4, InEmpty DEF onClientSocketDisconnected, Types
    <3> QED
      BY <2>1, <3>1, <3>2, <3>3, <3>4, WhispersServer
  <2>5. CASE onClientPayloadReceived(k)
    <3>1. \A j \in Conn : In(toServer'[j]) \subseteq In(toServer[j])
      BY <1>1, <2>5, Handled
    <3>2. PICK m \in ToServer : /\ m = Head(toServer[k]) /\ In(toServer[k]) = {m} \cup In(toServer'[k])
                               /\ Does(k, m)
      BY <1>1, <2>5, PayloadCases
    <3>3. CASE m.method = "Handshake" /\ handshake(k)
      <4>1. PICK arrived \in Message, s \in Session :
              /\ arrived.command = "login" /\ messages' = messages \cup {arrived}
              /\ s.messages = messages'
              /\ ServerTells([ToSome(Peers(k), Asked(arrived)) EXCEPT ![k] = {s}])
        BY <1>1, <3>3, Handshaken
      <4>2. \A x \in messages' : ~isWhisper(x)
        BY <4>1 DEF Whispers, isWhisper
      <4>3. \A j \in Conn : ForReceiver(j, s) /\ ForReceiver(j, Asked(arrived))
        BY <4>1, <4>2 DEF ForReceiver, Session, Asked, isWhisper
      <4>4. \A j \in Conn : \A x \in [ToSome(Peers(k), Asked(arrived)) EXCEPT ![k] = {s}][j] :
              ForReceiver(j, x)
        BY <4>3 DEF ToSome
      <4> QED
        BY <2>1, <3>1, <4>1, <4>2, <4>4, WhispersServer
    <3>4. CASE m.method = "Message" /\ m.message \in Message /\ interpretMessage(k, m.message)
      <4>1. PICK news \in SUBSET Message, whispered \in SUBSET Conn :
              /\ messages' = messages \cup news
              /\ \A x \in news : x = m.message \/ x.command = "result"
              /\ m.message \in news => m.message.command \in {"say", "throw"}
              /\ whispered = {} \/ (m.message.command = "whisper"
                                    /\ whispered = {m.message.to} \cap Named)
              /\ ServerTells(Told(k, m.message, news, whispered))
        BY <1>1, <3>4, Interpreted
      <4>2. \A x \in news : ~isWhisper(x)
        BY <4>1 DEF isWhisper
      <4>3. \A j \in Conn : \A x \in Told(k, m.message, news, whispered)[j] : ForReceiver(j, x)
        <5>1. \A j \in Conn : \A x \in news : ForReceiver(j, Asked(x))
          BY <4>2 DEF ForReceiver, Asked
        <5>2. \A j \in whispered : ForReceiver(j, Asked(m.message))
          BY <4>1 DEF ForReceiver, Asked
        <5>3. \A j \in Conn : ForReceiver(j, Answer(m.message))
          BY DEF ForReceiver, Answer
        <5> QED
          BY <5>1, <5>2, <5>3 DEF Told
      <4>4. \A x \in messages' : ~isWhisper(x)
        BY <4>1, <4>2 DEF Whispers
      <4> QED
        BY <2>1, <3>1, <4>1, <4>3, <4>4, WhispersServer
    <3>5. CASE m \in Music /\ ServerTells(ToSome(Peers(k), m)) /\ UNCHANGED <<users, messages>>
      <4>1. \A j \in Conn : \A x \in ToSome(Peers(k), m)[j] : ForReceiver(j, x)
        BY <3>5 DEF ToSome, ForReceiver, Music
      <4> QED
        BY <2>1, <3>1, <3>5, <4>1, WhispersServer DEF Whispers
    <3>6. CASE /\ m.method = "DocAvailable" /\ ServerTells(ToSome(Peers(k), m))
               /\ UNCHANGED serverVars
      <4>1. \A j \in Conn : \A x \in ToSome(Peers(k), m)[j] : ForReceiver(j, x)
        BY <3>6 DEF ToSome, ForReceiver
      <4> QED
        BY <2>1, <3>1, <3>6, <4>1, WhispersServer DEF Whispers, serverVars
    <3>7. CASE /\ \E d \in ToClient :
                    /\ d = [method |-> "Doc", hashes |-> {m.hash} \cap serverStore]
                    /\ ServerTells(ToSome({k}, d))
               /\ UNCHANGED serverVars
      <4>1. PICK d : d.method = "Doc" /\ ServerTells(ToSome({k}, d))
        BY <3>7
      <4>2. \A j \in Conn : \A x \in ToSome({k}, d)[j] : ForReceiver(j, x)
        BY <4>1 DEF ToSome, ForReceiver
      <4> QED
        BY <2>1, <3>1, <3>7, <4>1, <4>2, WhispersServer DEF Whispers, serverVars
    <3> QED
      BY <3>2, <3>3, <3>4, <3>5, <3>6, <3>7 DEF Does
  <2> QED
    BY <2>2, <2>3, <2>4, <2>5
<1>3. CASE ClientStep
  <2>1. UNCHANGED <<processOf, messages>>
    BY <1>3 DEF ClientStep, constantVars, serverVars
  <2>2. PICK k \in Conn : onPayloadReceived(k) \/ onError(k)
    BY <1>3 DEF ClientStep
  <2>3. CASE onPayloadReceived(k)
    <3>1. PICK x \in ToClient, p \in Process : Reads(k, x, p)
      BY <2>3, Read
    <3>2. UNCHANGED <<toServer, chat>>
      BY <2>3 DEF onPayloadReceived, interfaceVars
    <3>3. \A j \in Conn : In(toClient'[j]) \subseteq In(toClient[j])
      BY <3>1 DEF Reads
    <3>4. /\ In(signals'[p]) = In(signals[p]) \cup {[conn |-> k, payload |-> x]}
          /\ \A q \in Process \ {p} : signals'[q] = signals[q]
          /\ x \in In(toClient[k])
      BY <3>1 DEF Reads
    <3>5. \A q \in Process : \A y \in In(signals'[q]) : ForReceiver(y.conn, y.payload)
      <4>1. ForReceiver(k, x)
        BY <3>4 DEF Whispers
      <4>2. \A y \in In(signals'[p]) : ForReceiver(y.conn, y.payload)
        BY <3>4, <4>1 DEF Whispers
      <4> QED
        BY <3>4, <4>2 DEF Whispers
    <3> QED
      BY <2>1, <3>2, <3>3, <3>5 DEF Whispers, OfProcess, Opened
  <2>4. CASE onError(k)
    <3>1. PICK p \in Process : Fails(k, p)
      BY <2>4, Failed
    <3>2. UNCHANGED <<toServer, chat>>
      BY <2>4 DEF onError, interfaceVars
    <3>3. \A j \in Conn : In(toClient'[j]) \subseteq In(toClient[j])
      BY <1>1, <3>1, InEmpty DEF Types, Fails
    <3>4. \A q \in Process : \A y \in In(signals'[q]) : ForReceiver(y.conn, y.payload)
      <4>1. ForReceiver(k, [method |-> "Ended"])
        BY DEF ForReceiver
      <4>2. /\ In(signals'[p]) = In(signals[p]) \cup {[conn |-> k, payload |-> [method |-> "Ended"]]}
            /\ \A q \in Process \ {p} : signals'[q] = signals[q]
        BY <3>1 DEF Fails
      <4>3. \A y \in In(signals'[p]) : ForReceiver(y.conn, y.payload)
        BY <4>1, <4>2 DEF Whispers
      <4> QED
        BY <4>2, <4>3 DEF Whispers
    <3> QED
      BY <2>1, <3>2, <3>3, <3>4 DEF Whispers, OfProcess, Opened
  <2> QED
    BY <2>2, <2>3, <2>4
<1>4. CASE InterfaceStep
  <2>1. UNCHANGED messages
    BY <1>4 DEF InterfaceStep, serverVars
  <2>2. PICK p \in Process :
          \/ bindObservedClient(p) \/ onConnectButtonPressed(p)
          \/ sendMessage(p) \/ musicAct(p)
          \/ dropEvent(p) \/ onItemDoubleClick(p)
          \/ onSignal(p)
    BY <1>4 DEF InterfaceStep, musicAct
  <2>3. chat[p] \in Chat
    BY <1>1 DEF Types
  <2>4. CASE bindObservedClient(p)
    <3>1. PICK k \in Conn \ Opened :
            /\ Opened' = Opened \cup {k}
            /\ processOf'[k] = p /\ \A j \in Opened : processOf'[j] = processOf[j]
            /\ In(toServer'[k]) = {[method |-> "Handshake"]}
            /\ \A j \in Conn \ {k} : toServer'[j] = toServer[j]
      BY <2>4, Bound
    <3>2. UNCHANGED <<toClient, signals>> /\ chat' = [chat EXCEPT ![p] = clearLines(@)]
      BY <2>4 DEF bindObservedClient
    <3>3. \A j \in Conn : \A x \in In(toServer'[j]) : FromSender(j, x)
      BY <3>1 DEF Whispers, FromSender
    <3>4. \A q \in Process : chat'[q].lines \subseteq chat[q].lines
      BY <1>1, <2>3, <3>2, ChatCleared DEF Types
    <3>5. \A q \in Process : \A m \in chat[q].lines : OfProcess(q, m)'
      BY <3>1 DEF Whispers, OfProcess
    <3> QED
      BY <2>1, <3>2, <3>3, <3>4, <3>5 DEF Whispers
  <2>5. ASSUME endClient(p), UNCHANGED <<processOf, toServer>>,
               \A q \in Process : In(signals'[q]) \subseteq In(signals[q])
        PROVE  Whispers'
    <3>1. \A j \in Conn : In(toClient'[j]) \subseteq In(toClient[j])
      BY <2>5, EndedShrinks
    <3>2. \A q \in Process : chat'[q].lines \subseteq chat[q].lines
      BY <2>5, EndedShrinks
    <3> QED
      BY <2>1, <2>5, <3>1, <3>2, WhispersInterface
  <2>6. CASE onConnectButtonPressed(p)
    <3>1. endClient(p) /\ UNCHANGED <<processOf, toServer, signals>>
      BY <2>6 DEF onConnectButtonPressed
    <3> QED
      BY <2>5, <3>1
  <2>7. CASE sendMessage(p)
    <3>1. PICK m \in Message :
            /\ m.from = client[p]
            /\ chat' = [chat EXCEPT ![p] = handleLocalMessage(@, m)]
            /\ toServer' = toServer \/ ClientTells(p, Asked(m))
      BY <2>7, Said
    <3>2. UNCHANGED <<processOf, toClient, signals>>
      BY <2>7, Said
    <3>3. Asked(m) \in ToServer /\ FromSender(client[p], Asked(m))
      BY <3>1, MessageSent DEF Asked, FromSender
    <3>4. OfProcess(p, m)
      BY <3>1 DEF OfProcess, Base, Connections
    <3>5. \A q \in Process : \A l \in chat'[q].lines : l \in chat[q].lines \/ OfProcess(q, l)
      BY <1>1, <2>3, <3>1, <3>4, ChatWritten DEF Types
    <3> QED
      BY <2>1, <3>1, <3>2, <3>3, <3>5, WhispersInterface
  <2>8. CASE musicAct(p)
    <3>1. UNCHANGED <<processOf, toClient, signals, chat>>
          /\ (toServer' = toServer \/ \E x \in Music : ClientTells(p, x))
      BY <1>1, <2>8, MusicTold
    <3>2. \A x \in Music : x \in ToServer /\ FromSender(client[p], x)
      BY MusicIsSent DEF FromSender, Music
    <3> QED
      BY <2>1, <3>1, <3>2, WhispersInterface
  <2>9. CASE dropEvent(p)
    <3>1. PICK d \in Document :
            toServer' = toServer \/ ClientTells(p, [method |-> "DocAvailable", hash |-> d])
      BY <2>9, Dropped
    <3>2. [method |-> "DocAvailable", hash |-> d] \in ToServer
          /\ FromSender(client[p], [method |-> "DocAvailable", hash |-> d])
      BY DEF ToServer, FromSender
    <3>3. UNCHANGED <<processOf, toClient, signals, chat>>
      BY <2>9, Dropped
    <3> QED
      BY <2>1, <3>1, <3>2, <3>3, WhispersInterface
  <2>10. CASE onItemDoubleClick(p)
    <3>1. PICK d \in Document : ClientTells(p, [method |-> "DocRequested", hash |-> d])
      BY <2>10, DocAsked
    <3>2. [method |-> "DocRequested", hash |-> d] \in ToServer
          /\ FromSender(client[p], [method |-> "DocRequested", hash |-> d])
      BY DEF ToServer, FromSender
    <3>3. UNCHANGED <<processOf, toClient, signals, chat>>
      BY <2>10, DocAsked
    <3> QED
      BY <2>1, <3>1, <3>2, <3>3, WhispersInterface
  <2>11. CASE onSignal(p)
    <3>1. \A q \in Process : In(signals'[q]) \subseteq In(signals[q])
      BY <2>11, SignalsShrink
    <3>2. PICK k \in Opened, m \in ToClient \cup [method : {"Ended"}] : Takes(p, k, m) /\ Shows(p, m)
      BY <2>11, SignalCases
    <3>3. ForReceiver(k, m)
      <4>1. Head(signals[p]) \in In(signals[p])
        BY <2>11, SignalHead
      <4> QED
        BY <3>2, <4>1 DEF Whispers, Takes
    <3>4. \A x \in Music : x \in ToServer /\ FromSender(client[p], x)
      BY MusicIsSent DEF FromSender, Music
    <3>5. CASE m \in Session /\ onGameSessionReceived(p, m) /\ UNCHANGED toClient
      <4>1. /\ chat' = [chat EXCEPT ![p] = welcomed(@, m.messages)]
            /\ toServer' = toServer \/ \E x \in Music : ClientTells(p, x)
        BY <3>5, Joins
      <4>2. \A l \in m.messages : OfProcess(p, l)
        BY <3>3, <3>5 DEF ForReceiver, Session, OfProcess
      <4>3. \A q \in Process : \A l \in chat'[q].lines : l \in chat[q].lines \/ OfProcess(q, l)
        BY <1>1, <2>3, <4>1, <4>2, ChatWelcomed DEF Types
      <4> QED
        BY <2>1, <3>1, <3>2, <3>4, <3>5, <4>1, <4>3, WhispersInterface DEF Takes
    <3>6. CASE m \in ToClient /\ onAudioSignal(p, m) /\ UNCHANGED toClient
      <4>1. chat' = chat /\ (toServer' = toServer \/ \E x \in Music : ClientTells(p, x))
        BY <3>6, MusicReceived
      <4> QED
        BY <2>1, <3>1, <3>2, <3>4, <3>6, <4>1, WhispersInterface DEF Takes
    <3>7. CASE m \in ToClient /\ onChatSignal(p, m) /\ UNCHANGED toClient
      <4>1. /\ \/ /\ m.method = "Message"
                  /\ chat' = [chat EXCEPT ![p] = handleRemoteMessage(@, m.message)]
               \/ chat' = [chat EXCEPT ![p] = handleResponse(@, m.message)]
            /\ toServer' = toServer
        BY <3>7, ChatReceived
      <4>2. m.method = "Message" => OfProcess(p, m.message)
        BY <3>2, <3>3 DEF ForReceiver, OfProcess, Takes
      <4>3. \A q \in Process : \A l \in chat'[q].lines : l \in chat[q].lines \/ OfProcess(q, l)
        <5>1. \A q \in Process : q # p => chat'[q] = chat[q]
          BY <1>1, <4>1 DEF Types
        <5>2. CASE m.method = "Message" /\ chat' = [chat EXCEPT ![p] = handleRemoteMessage(@, m.message)]
          BY <1>1, <2>3, <4>2, <5>1, <5>2, ChatWritten DEF Types
        <5>3. CASE chat' = [chat EXCEPT ![p] = handleResponse(@, m.message)]
          BY <1>1, <2>3, <5>1, <5>3, ChatWritten DEF Types
        <5> QED
          BY <4>1, <5>2, <5>3
      <4> QED
        BY <2>1, <3>1, <3>2, <3>7, <4>1, <4>3, WhispersInterface DEF Takes
    <3>8. CASE m \in ToClient /\ onDocumentSignal(p, m) /\ UNCHANGED toClient
      <4>1. chat' = chat /\ toServer' = toServer
        BY <3>8, DocumentReceived
      <4> QED
        BY <2>1, <3>1, <3>2, <3>8, <4>1, WhispersInterface DEF Takes
    <3>9. CASE endClient(p) /\ UNCHANGED toServer
      BY <2>5, <3>1, <3>2, <3>9 DEF Takes
    <3> QED
      BY <3>2, <3>5, <3>6, <3>7, <3>8, <3>9 DEF Shows
  <2> QED
    BY <2>2, <2>4, <2>6, <2>7, <2>8, <2>9, <2>10, <2>11
<1>5. CASE UNCHANGED vars
  BY <1>5 DEF Whispers, OfProcess, Opened, vars, constantVars, networkVars, interfaceVars, serverVars
<1> QED
  BY <1>2, <1>3, <1>4, <1>5 DEF Next

LEMMA InitBase == Init => Base /\ Whispers
<1> SUFFICES ASSUME Init
             PROVE  Base /\ Whispers
  OBVIOUS
<1>1. Types
  <2>1. serverProcess \in Process \cup {Alone}
    BY ServerProcessesAssumption DEF Init
  <2>2. /\ <<>> \in Seq(Process) /\ <<>> \in Seq(ToServer) /\ <<>> \in Seq(ToClient)
        /\ <<>> \in Seq(Signal) /\ Len(<<>>) = 0
    BY EmptySeq
  <2>3. Len(processOf) <= MaxConnections /\ acts \in 0..MaxActs
    BY <2>2, BoundsAssumption DEF Init
  <2> QED
    BY <2>1, <2>2, <2>3, ClearedType, EmptyChatType, NewPlayerType, EmptyShelfType
       DEF Init, Types
<1>2. Opened = {}
  BY DEF Init, Opened
<1>3. \A k \in Conn : In(toServer[k]) = {} /\ In(toClient[k]) = {}
  BY InEmpty DEF Init
<1>4. \A p \in Process : In(signals[p]) = {} /\ chat[p].lines = {}
  BY InEmpty DEF Init, EmptyChat
<1>5. Connections
  BY <1>2, <1>3, <1>4 DEF Init, Connections, Live
<1>6. Whispers
  BY <1>3, <1>4 DEF Init, Whispers
<1> QED
  BY <1>1, <1>5, <1>6 DEF Base

\* Whatever the applications do, every state is well typed, and at most one
\* connection of a process is up, the one that the process knows.
THEOREM ConnectionsHold == Spec => []Base
<1>1. Init => Base
  BY InitBase
<1>2. Base /\ [Next]_vars => Base'
  BY TypesStep, ConnectionsStep DEF Base
<1> QED
  BY <1>1, <1>2, PTL DEF Spec

\* A whisper is shown only to who said it and to the one it is for, whatever the
\* connections that end and open in the meantime, and no history has it.
THEOREM WhispersAlwaysPrivate == Spec => []WhispersStayPrivate
<1>1. Init => Whispers
  BY InitBase
<1>2. Base /\ Whispers /\ [Next]_vars => Whispers'
  BY WhispersStep
<1>3. Whispers => WhispersStayPrivate
  BY DEF Whispers, WhispersStayPrivate, OfProcess, isWhisper
<1> QED
  BY <1>1, <1>2, <1>3, ConnectionsHold, PTL DEF Spec

---------------------------------------------------------------------------
(* Answers, sessions and music on their way *)

\* What answers a line that the process p wrote on its connection k finds it.
Answered(p, k) ==
  /\ \A x \in In(toServer[k]) : x.method = "Message" => x.message \in chat[p].lines
  /\ \A x \in In(toClient[k]) : x.method = "Response" => x.message \in chat[p].lines
  /\ \A y \in In(signals[p]) :
       y.conn = k /\ y.payload.method = "Response" => y.payload.message \in chat[p].lines

Answers == \A p \in Process : \A k \in Opened : client[p] = k => Answered(p, k)

Shake == [method |-> "Handshake"]
HostSession == {x \in Session : x.host}

\* The signals that came by k.
Of(k, S) == [conn : {k}, payload : S]

\* At most one element of the queue is in S; those in A come before those in B.
Once(S, s) == \A i, j \in DOMAIN s : s[i] \in S /\ s[j] \in S => i = j
Before(A, B, s) == \A i, j \in DOMAIN s : s[i] \in A /\ s[j] \in B => i < j

\* The session of k is to come, or waits in the interface's queue.
Ahead(k) == Shake \in In(toServer[k]) \/ In(toClient[k]) \cap Session # {}
Signalled(p, k) == In(signals[p]) \cap Of(k, Session) # {}

\* A connection greets once and is answered by one session.
Greetings ==
  /\ \A k \in Conn : Once({Shake}, toServer[k]) /\ Once(Session, toClient[k])
  /\ \A p \in Process : \A k \in Conn : Once(Of(k, Session), signals[p])
  /\ \A k \in Conn : Shake \in In(toServer[k]) => k \notin Named /\ In(toClient[k]) \cap Session = {}
  /\ \A k \in Conn : link[k] = "up" /\ Shake \notin In(toServer[k]) => k \in Named
  /\ \A p \in Process : \A k \in Conn : Signalled(p, k) => ~Ahead(k)

\* One connection hosts, of an application on the server's machine; a session says
\* whether it is the one it is sent to.
Hosting ==
  /\ \A k \in Host : processOf[k] \in Loopback
  /\ \A j, k \in Host : j = k
  /\ \A k \in Conn : \A x \in In(toClient[k]) \cap Session : x.host <=> k \in Host
  /\ \A p \in Process : \A k \in Opened : client[p] = k =>
       \A y \in In(signals[p]) \cap Of(k, Session) :
         (y.payload.host <=> hostAble[p]) /\ (link[k] = "up" => (hostAble[p] <=> k \in Host))

\* Who is in charge of the music, and who knows to host.
Mastered(p) ==
  /\ audio[p].localOnly <=> button[p] = "NotConnected"
  /\ audio[p].master => button[p] = "Connected" /\ hostAble[p]
  /\ \A k \in Opened : client[p] = k /\ button[p] = "Connected" =>
       ~Ahead(k) /\ ~Signalled(p, k) /\ (link[k] = "up" => (hostAble[p] <=> k \in Host))

Mastering == "late" \notin slips => \A p \in Process : Mastered(p)

\* Music is sent by who hosts; what the host still receives of it was sent before
\* the session that made it the host.
HostHears(p, k) ==
  /\ Before(Of(k, Music), Of(k, HostSession), signals[p])
  /\ In(signals[p]) \cap Of(k, HostSession) # {} => In(toClient[k]) \cap Music = {}
  /\ audio[p].master =>
       In(toClient[k]) \cap Music = {} /\ In(signals[p]) \cap Of(k, Music) = {}

HostMusic ==
  "late" \notin slips =>
    /\ \A k \in Conn : In(toServer[k]) \cap Music # {} => k \in Host
    /\ \A k \in Conn : Before(Music, HostSession, toClient[k])
    /\ \A p \in Process : \A k \in Opened : client[p] = k => HostHears(p, k)

\* Who is in charge hears what was chosen from the playlist.
Chosen(a, connecting) == a.heard.on # "stopped" /\ (connecting \/ inControl(a)) => a.chosen

Hearing ==
  /\ \A p \in Process : audio[p].requested => audio[p].chosen
  /\ slips \cap {"late", "early"} = {} =>
       \A p \in Process : Chosen(audio[p], button[p] = "Connecting")

\* A payload that offers or brings documents which the server has.
Stocks(x) ==
  /\ x.method = "DocAvailable" => x.hash \in serverStore
  /\ x.method = "Doc" => x.hashes # {}
  /\ x.method = "Session" => x.names \subseteq serverStore

\* The server has what is told of, asked for and shown, as long as only its own
\* process may host.
Stock ==
  /\ serverNames \subseteq serverStore
  /\ \A k \in Conn : \A x \in In(toServer[k]) :
       x.method \in {"DocAvailable", "DocRequested"} => x.hash \in serverStore
  /\ \A k \in Conn : \A x \in In(toClient[k]) : Stocks(x)
  /\ \A p \in Process : \A y \in In(signals[p]) : Stocks(y.payload)
  /\ \A p \in Process : \A d \in Document :
       shelf[p].items[d] \in {"Downloadable", "Downloading"} => d \in serverStore

Stocked ==
  Loopback \subseteq {serverProcess} /\ slips \cap {"late", "dropped early"} = {} => Stock

\* A document that is being fetched on k has its item.
Fetched(p, k) ==
  /\ \A x \in In(toServer[k]) : x.method = "DocRequested" => shelf[p].items[x.hash] # "none"
  /\ \A x \in In(toClient[k]) : x.method = "Doc" => \A d \in x.hashes : shelf[p].items[d] # "none"
  /\ \A y \in In(signals[p]) : y.conn = k /\ y.payload.method = "Doc" =>
       \A d \in y.payload.hashes : shelf[p].items[d] # "none"

Fetching == \A p \in Process : \A k \in Opened : client[p] = k => Fetched(p, k)

\* Nothing but what the property names stops an application.
Stops ==
  /\ crashed \in {"ended", "response"} => "late" \in slips
  /\ crashed = "document" =>
       ~(Loopback \subseteq {serverProcess}) \/ slips \cap {"late", "dropped early"} # {}
  /\ crashed = "stream" =>
       \/ slips \cap {"late", "early"} # {}
       \/ \E p \in Process : ~inControl(audio[p]) /\ ~audio[p].chosen

LEMMA SlipsGrow == Base /\ [Next]_vars => slips \subseteq slips' /\ serverProcess' = serverProcess
<1> SUFFICES ASSUME Base, [Next]_vars
             PROVE  slips \subseteq slips' /\ serverProcess' = serverProcess
  OBVIOUS
<1>1. CASE ServerStep
  BY <1>1 DEF ServerStep, onNewConnection, onClientSocketDisconnected, onClientPayloadReceived,
              constantVars
<1>2. CASE ClientStep
  BY <1>2 DEF ClientStep, onPayloadReceived, onError, constantVars, historyVars
<1>3. CASE InterfaceStep
  <2>1. serverProcess' = serverProcess
    BY <1>3 DEF InterfaceStep
  <2>2. PICK p \in Process :
          \/ bindObservedClient(p) \/ onConnectButtonPressed(p)
          \/ sendMessage(p) \/ musicAct(p)
          \/ dropEvent(p) \/ onItemDoubleClick(p)
          \/ onSignal(p)
    BY <1>3 DEF InterfaceStep, musicAct
  <2>3. CASE bindObservedClient(p) \/ onConnectButtonPressed(p) \/ sendMessage(p)
    BY <2>1, <2>3 DEF bindObservedClient, onConnectButtonPressed, sendMessage, historyVars
  <2>4. CASE musicAct(p)
    BY <2>1, <2>4, MusicTold DEF Base
  <2>5. CASE dropEvent(p)
    BY <2>1, <2>5, Dropped
  <2>6. CASE onItemDoubleClick(p)
    BY <2>1, <2>6, DocAsked
  <2>7. CASE onSignal(p)
    <3>1. PICK k \in Opened, m \in ToClient \cup [method : {"Ended"}] : Takes(p, k, m) /\ Shows(p, m)
      BY <2>7, SignalCases
    <3>2. slips \subseteq slipsBefore(p) /\ slipsBefore(p) \subseteq slipsBeforeMusic(p)
      BY DEF slipsBefore, slipsBeforeMusic
    <3>3. m \in Session /\ onGameSessionReceived(p, m) => slipsBefore(p) \subseteq slips'
      BY Joins
    <3>4. m \in ToClient /\ onAudioSignal(p, m) => slipsBeforeMusic(p) \subseteq slips'
      BY MusicReceived
    <3>5. m \in ToClient /\ (onChatSignal(p, m) \/ onDocumentSignal(p, m)) => slips' = slipsBefore(p)
      BY ChatReceived, DocumentReceived
    <3> QED
      BY <2>1, <3>1, <3>2, <3>3, <3>4, <3>5 DEF Shows
  <2> QED
    BY <2>2, <2>3, <2>4, <2>5, <2>6, <2>7
<1>4. CASE UNCHANGED vars
  BY <1>4 DEF vars, constantVars, historyVars
<1> QED
  BY <1>1, <1>2, <1>3, <1>4 DEF Next

---------------------------------------------------------------------------
(* Answers find the lines they answer *)

LEMMA AnswersKept ==
  ASSUME Answers,
         \A p \in Process : \A k \in Opened' : client'[p] = k =>
           /\ k \in Opened /\ client[p] = k
           /\ chat[p].lines \subseteq chat'[p].lines
           /\ \A x \in In(toServer'[k]) :
                x \in In(toServer[k]) \/ (x.method = "Message" => x.message \in chat'[p].lines)
           /\ \A x \in In(toClient'[k]) :
                x \in In(toClient[k]) \/ (x.method = "Response" => x.message \in chat'[p].lines)
           /\ \A y \in In(signals'[p]) :
                \/ y \in In(signals[p])
                \/ y.conn = k /\ y.payload.method = "Response" => y.payload.message \in chat'[p].lines
  PROVE  Answers'
<1> SUFFICES ASSUME NEW p \in Process, NEW k \in Opened', client'[p] = k
             PROVE  Answered(p, k)'
  BY DEF Answers
<1>1. Answered(p, k)
  BY DEF Answers
<1> QED
  BY <1>1 DEF Answered

LEMMA AnswersServer ==
  ASSUME Base, Answers, UNCHANGED <<processOf, client, signals, chat>>,
         \A k \in Conn : In(toServer'[k]) \subseteq In(toServer[k]),
         NEW X, ServerTells(X),
         \A p \in Process : \A k \in Opened : client[p] = k =>
           \A x \in X[k] : x.method = "Response" => x.message \in chat[p].lines
  PROVE  Answers'
<1>1. \A k \in Conn : In(toClient'[k]) \subseteq In(toClient[k]) \cup X[k]
  BY ServerTellsElements DEF Base
<1>2. Opened' = Opened /\ Opened \subseteq Conn
  BY ConnFacts DEF Opened
<1> QED
  BY <1>1, <1>2, AnswersKept

LEMMA AnswersInterface ==
  ASSUME Base, Answers, NEW p \in Process, UNCHANGED processOf,
         \A q \in Process : client'[q] \in {client[q], NoConn},
         \A q \in Process : client'[q] # NoConn => chat[q].lines \subseteq chat'[q].lines,
         \A k \in Conn : In(toClient'[k]) \subseteq In(toClient[k]),
         \A q \in Process : In(signals'[q]) \subseteq In(signals[q]),
         \/ toServer' = toServer
         \/ \E x \in ToServer : ClientTells(p, x)
                                /\ (x.method = "Message" => x.message \in chat'[p].lines)
  PROVE  Answers'
<1>1. Opened' = Opened /\ Opened \subseteq Conn /\ NoConn \notin Opened
  BY ConnFacts DEF Opened
<1>2. \A q \in Process : \A k \in Opened : client[q] = k =>
        \A x \in In(toServer'[k]) :
          x \in In(toServer[k]) \/ (x.method = "Message" => x.message \in chat'[q].lines)
  <2>1. CASE toServer' = toServer
    BY <2>1
  <2>2. CASE \E x \in ToServer : ClientTells(p, x)
                                /\ (x.method = "Message" => x.message \in chat'[p].lines)
    <3>1. PICK x \in ToServer : ClientTells(p, x)
                                /\ (x.method = "Message" => x.message \in chat'[p].lines)
      BY <2>2
    <3>2. \A k \in Conn :
            In(toServer'[k]) = In(toServer[k]) \cup (IF k = client[p] /\ link[k] = "up" THEN {x} ELSE {})
      BY <3>1, ClientTellsElements DEF Base
    <3>3. \A q \in Process : \A k \in Opened : client[q] = k /\ client[p] = k => q = p
      BY <1>1 DEF Base, Connections
    <3> QED
      BY <1>1, <3>1, <3>2, <3>3
  <2> QED
    BY <2>1, <2>2
<1>3. \A q \in Process : \A k \in Opened' : client'[q] = k => k \in Opened /\ client[q] = k
  BY <1>1
<1>4. \A q \in Process : \A k \in Opened' : client'[q] = k => chat[q].lines \subseteq chat'[q].lines
  BY <1>1
<1> QED
  BY <1>1, <1>2, <1>3, <1>4, AnswersKept

LEMMA AnswersStep == Base /\ Answers /\ [Next]_vars => Answers'
<1> SUFFICES ASSUME Base, Answers, [Next]_vars
             PROVE  Answers'
  OBVIOUS
<1>1. Types
  BY DEF Base
<1>2. CASE ServerStep
  <2>1. UNCHANGED <<processOf, client, signals, chat>>
    BY <1>2 DEF ServerStep, constantVars, interfaceVars
  <2>2. PICK k \in Conn :
          onNewConnection(k) \/ onClientSocketDisconnected(k) \/ onClientPayloadReceived(k)
    BY <1>2 DEF ServerStep
  <2>3. CASE onNewConnection(k)
    BY <2>1, <2>3 DEF onNewConnection, networkVars, Answers, Answered, Opened
  <2>4. CASE onClientSocketDisconnected(k)
    <3>1. PICK out \in Message : ServerTells(ToSome(Peers(k), Asked(out)))
      BY <1>1, <2>4, Disconnected
    <3>2. \A j \in Opened : \A x \in ToSome(Peers(k), Asked(out))[j] : x.method # "Response"
      BY ConnFacts DEF ToSome, Asked
    <3>3. \A j \in Conn : In(toServer'[j]) \subseteq In(toServer[j])
      BY <1>1, <2>4, InEmpty DEF onClientSocketDisconnected, Types
    <3> QED
      BY <2>1, <3>1, <3>2, <3>3, AnswersServer
  <2>5. CASE onClientPayloadReceived(k)
    <3>1. \A j \in Conn : In(toServer'[j]) \subseteq In(toServer[j])
      BY <1>1, <2>5, Handled
    <3>2. PICK m \in ToServer : /\ m = Head(toServer[k]) /\ In(toServer[k]) = {m} \cup In(toServer'[k])
                               /\ Does(k, m)
      BY <1>1, <2>5, PayloadCases
    <3>3. CASE m.method = "Handshake" /\ handshake(k)
      <4>1. PICK arrived \in Message, s \in Session :
              ServerTells([ToSome(Peers(k), Asked(arrived)) EXCEPT ![k] = {s}])
        BY <1>1, <3>3, Handshaken
      <4>2. \A j \in Opened : \A x \in [ToSome(Peers(k), Asked(arrived)) EXCEPT ![k] = {s}][j] :
              x.method # "Response"
        BY ConnFacts DEF ToSome, Asked, Session
      <4> QED
        BY <2>1, <3>1, <4>1, <4>2, AnswersServer
    <3>4. CASE m.method = "Message" /\ m.message \in Message /\ interpretMessage(k, m.message)
      <4>1. PICK news \in SUBSET Message, whispered \in SUBSET Conn :
              ServerTells(Told(k, m.message, news, whispered))
        BY <1>1, <3>4, Interpreted
      <4>2. \A p \in Process : client[p] = k => m.message \in chat[p].lines
        BY <2>1, <3>2, <3>4, ConnFacts DEF Answers, Answered, Base, Connections
      <4>3. \A p \in Process : \A j \in Opened : client[p] = j =>
              \A x \in Told(k, m.message, news, whispered)[j] :
                x.method = "Response" => x.message \in chat[p].lines
        BY <4>2, ConnFacts DEF Told, Asked, Answer
      <4> QED
        BY <2>1, <3>1, <4>1, <4>3, AnswersServer
    <3>5. CASE m.method # "Response" /\ ServerTells(ToSome(Peers(k), m))
      <4>1. \A j \in Opened : \A x \in ToSome(Peers(k), m)[j] : x.method # "Response"
        BY <3>5, ConnFacts DEF ToSome
      <4> QED
        BY <2>1, <3>1, <3>5, <4>1, AnswersServer
    <3>6. CASE \E d \in ToClient :
                 /\ d = [method |-> "Doc", hashes |-> {m.hash} \cap serverStore]
                 /\ ServerTells(ToSome({k}, d))
      <4>1. PICK d : d.method = "Doc" /\ ServerTells(ToSome({k}, d))
        BY <3>6
      <4>2. \A j \in Opened : \A x \in ToSome({k}, d)[j] : x.method # "Response"
        BY <4>1, ConnFacts DEF ToSome
      <4> QED
        BY <2>1, <3>1, <4>1, <4>2, AnswersServer
    <3>7. m \in Music => m.method # "Response"
      BY DEF Music
    <3> QED
      BY <3>2, <3>3, <3>4, <3>5, <3>6, <3>7 DEF Does
  <2> QED
    BY <2>2, <2>3, <2>4, <2>5
<1>3. CASE ClientStep
  <2>1. UNCHANGED processOf /\ Opened' = Opened
    BY <1>3 DEF ClientStep, constantVars, Opened
  <2>2. PICK k \in Conn : onPayloadReceived(k) \/ onError(k)
    BY <1>3 DEF ClientStep
  <2>3. CASE onPayloadReceived(k)
    <3>1. PICK x \in ToClient, p \in Process : Reads(k, x, p)
      BY <2>3, Read
    <3>2. UNCHANGED <<toServer, client, chat>>
      BY <2>3 DEF onPayloadReceived, interfaceVars
    <3>3. \A j \in Conn : In(toClient'[j]) \subseteq In(toClient[j])
      BY <3>1 DEF Reads
    <3>4. /\ In(signals'[p]) = In(signals[p]) \cup {[conn |-> k, payload |-> x]}
          /\ \A q \in Process \ {p} : signals'[q] = signals[q]
          /\ x \in In(toClient[k]) /\ client[p] = k /\ k \in Opened
      BY <3>1 DEF Reads
    <3>5. x.method = "Response" => x.message \in chat[p].lines
      BY <3>4 DEF Answers, Answered
    <3>6. \A q \in Process : \A y \in In(signals'[q]) :
            \/ y \in In(signals[q])
            \/ y.payload.method = "Response" => y.payload.message \in chat[q].lines
      BY <3>4, <3>5
    <3> QED
      BY <2>1, <3>2, <3>3, <3>6, AnswersKept, ConnFacts
  <2>4. CASE onError(k)
    <3>1. PICK p \in Process : Fails(k, p)
      BY <2>4, Failed
    <3>2. UNCHANGED <<toServer, client, chat>>
      BY <2>4 DEF onError, interfaceVars
    <3>3. \A j \in Conn : In(toClient'[j]) \subseteq In(toClient[j])
      BY <1>1, <3>1, InEmpty DEF Types, Fails
    <3>4. /\ In(signals'[p]) = In(signals[p]) \cup {[conn |-> k, payload |-> [method |-> "Ended"]]}
          /\ \A q \in Process \ {p} : signals'[q] = signals[q]
      BY <3>1 DEF Fails
    <3>5. \A q \in Process : \A y \in In(signals'[q]) :
            y \in In(signals[q]) \/ y.payload.method # "Response"
      BY <3>4
    <3> QED
      BY <2>1, <3>2, <3>3, <3>5, AnswersKept, ConnFacts
  <2> QED
    BY <2>2, <2>3, <2>4
<1>4. CASE InterfaceStep
  <2>1. PICK p \in Process :
          \/ bindObservedClient(p) \/ onConnectButtonPressed(p)
          \/ sendMessage(p) \/ musicAct(p)
          \/ dropEvent(p) \/ onItemDoubleClick(p)
          \/ onSignal(p)
    BY <1>4 DEF InterfaceStep, musicAct
  <2>2. chat[p] \in Chat
    BY <1>1 DEF Types
  <2>3. CASE bindObservedClient(p)
    <3>1. PICK k \in Conn \ Opened :
            /\ Opened' = Opened \cup {k}
            /\ In(toServer'[k]) = {[method |-> "Handshake"]}
            /\ \A j \in Conn \ {k} : toServer'[j] = toServer[j]
            /\ client' = [client EXCEPT ![p] = k]
      BY <2>3, Bound
    <3>2. UNCHANGED <<toClient, signals>> /\ chat' = [chat EXCEPT ![p] = clearLines(@)]
      BY <2>3 DEF bindObservedClient
    <3>3. client'[p] = k /\ \A q \in Process \ {p} : client'[q] = client[q] /\ chat'[q] = chat[q]
      BY <1>1, <3>1, <3>2 DEF Types
    <3>4. \A j \in Opened : toServer'[j] = toServer[j]
      BY <3>1, ConnFacts
    <3>5. In(toClient[k]) = {} /\ \A y \in In(signals[p]) : y.conn # k
      BY <3>1 DEF Base, Connections
    <3> SUFFICES ASSUME NEW q \in Process, NEW j \in Opened', client'[q] = j
                 PROVE  Answered(q, j)'
      BY DEF Answers
    <3>6. CASE q = p
      BY <3>1, <3>2, <3>3, <3>5, <3>6 DEF Answered
    <3>7. CASE q # p
      <4>1. client[q] = j /\ chat'[q] = chat[q]
        BY <3>3, <3>7
      <4>2. j \in Opened
        <5>1. client[q] # NoConn
          BY <3>1, <4>1, ConnFacts
        <5> QED
          BY <4>1, <5>1 DEF Base, Connections
      <4>3. Answered(q, j)
        BY <4>1, <4>2 DEF Answers
      <4> QED
        BY <3>2, <3>4, <4>1, <4>2, <4>3 DEF Answered
    <3> QED
      BY <3>6, <3>7
  <2>4. ASSUME endClient(p), UNCHANGED <<processOf, toServer>>,
               \A q \in Process : In(signals'[q]) \subseteq In(signals[q])
        PROVE  Answers'
    <3>1. \A j \in Conn : In(toClient'[j]) \subseteq In(toClient[j])
      BY <2>4, EndedShrinks
    <3>2. \A q \in Process : /\ client'[q] \in {client[q], NoConn}
                             /\ client'[q] # NoConn => chat'[q] = chat[q]
      <4>1. CASE UNCHANGED <<client, interfaceVars>>
        BY <4>1 DEF interfaceVars
      <4>2. CASE \E k \in Opened : Ends(p, k)
        <5>1. client' = [client EXCEPT ![p] = NoConn] /\ chat' = [chat EXCEPT ![p] = disabled(@)]
          BY <4>2 DEF Ends
        <5> QED
          BY <1>1, <5>1 DEF Types
      <4> QED
        BY <2>4, <4>1, <4>2, Ended
    <3> QED
      BY <2>4, <3>1, <3>2, AnswersInterface
  <2>5. CASE onConnectButtonPressed(p)
    <3>1. endClient(p) /\ UNCHANGED <<processOf, toServer, signals>>
      BY <2>5 DEF onConnectButtonPressed
    <3> QED
      BY <2>4, <3>1
  <2>6. CASE sendMessage(p)
    <3>1. PICK m \in Message :
            /\ chat' = [chat EXCEPT ![p] = handleLocalMessage(@, m)]
            /\ toServer' = toServer \/ ClientTells(p, Asked(m))
      BY <2>6, Said
    <3>2. UNCHANGED <<processOf, client, toClient, signals>>
      BY <2>6, Said
    <3>3. m \in chat'[p].lines /\ \A q \in Process : chat[q].lines \subseteq chat'[q].lines
      BY <1>1, <2>2, <3>1, ChatWritten DEF Types
    <3>4. Asked(m) \in ToServer /\ Asked(m).message = m
      BY <3>1, MessageSent DEF Asked
    <3> QED
      BY <3>1, <3>2, <3>3, <3>4, AnswersInterface
  <2>7. CASE musicAct(p)
    <3>1. UNCHANGED <<processOf, client, toClient, signals, chat>>
          /\ (toServer' = toServer \/ \E x \in Music : ClientTells(p, x))
      BY <1>1, <2>7, MusicTold
    <3>2. \A x \in Music : x \in ToServer /\ x.method # "Message"
      BY MusicIsSent DEF Music
    <3> QED
      BY <3>1, <3>2, AnswersInterface
  <2>8. CASE dropEvent(p)
    <3>1. PICK d \in Document :
            toServer' = toServer \/ ClientTells(p, [method |-> "DocAvailable", hash |-> d])
      BY <2>8, Dropped
    <3>2. [method |-> "DocAvailable", hash |-> d] \in ToServer
      BY DEF ToServer
    <3>3. UNCHANGED <<processOf, client, toClient, signals, chat>>
      BY <2>8, Dropped
    <3> QED
      BY <3>1, <3>2, <3>3, AnswersInterface
  <2>9. CASE onItemDoubleClick(p)
    <3>1. PICK d \in Document : ClientTells(p, [method |-> "DocRequested", hash |-> d])
      BY <2>9, DocAsked
    <3>2. [method |-> "DocRequested", hash |-> d] \in ToServer
      BY DEF ToServer
    <3>3. UNCHANGED <<processOf, client, toClient, signals, chat>>
      BY <2>9, DocAsked
    <3> QED
      BY <3>1, <3>2, <3>3, AnswersInterface
  <2>10. CASE onSignal(p)
    <3>1. \A q \in Process : In(signals'[q]) \subseteq In(signals[q])
      BY <2>10, SignalsShrink
    <3>2. PICK k \in Opened, m \in ToClient \cup [method : {"Ended"}] : Takes(p, k, m) /\ Shows(p, m)
      BY <2>10, SignalCases
    <3>3. \A x \in Music : x \in ToServer /\ x.method # "Message"
      BY MusicIsSent DEF Music
    <3>4. UNCHANGED processOf
      BY <3>2 DEF Takes
    <3>5. CASE m \in Session /\ onGameSessionReceived(p, m) /\ UNCHANGED <<toClient, client>>
      <4>1. /\ chat' = [chat EXCEPT ![p] = welcomed(@, m.messages)]
            /\ toServer' = toServer \/ \E x \in Music : ClientTells(p, x)
        BY <3>5, Joins
      <4>2. \A q \in Process : chat[q].lines \subseteq chat'[q].lines
        BY <1>1, <2>2, <4>1, ChatWelcomed DEF Types
      <4> QED
        BY <3>1, <3>3, <3>4, <3>5, <4>1, <4>2, AnswersInterface
    <3>6. CASE m \in ToClient /\ onAudioSignal(p, m) /\ UNCHANGED <<toClient, client>>
      <4>1. chat' = chat /\ (toServer' = toServer \/ \E x \in Music : ClientTells(p, x))
        BY <3>6, MusicReceived
      <4> QED
        BY <3>1, <3>3, <3>4, <3>6, <4>1, AnswersInterface
    <3>7. CASE m \in ToClient /\ onChatSignal(p, m) /\ UNCHANGED <<toClient, client>>
      <4>1. /\ \/ chat' = [chat EXCEPT ![p] = handleRemoteMessage(@, m.message)]
               \/ chat' = [chat EXCEPT ![p] = handleResponse(@, m.message)]
            /\ toServer' = toServer
        BY <3>7, ChatReceived
      <4>2. \A q \in Process : chat[q].lines \subseteq chat'[q].lines
        <5>1. CASE chat' = [chat EXCEPT ![p] = handleRemoteMessage(@, m.message)]
          BY <1>1, <2>2, <5>1, ChatWritten DEF Types
        <5>2. CASE chat' = [chat EXCEPT ![p] = handleResponse(@, m.message)]
          BY <1>1, <2>2, <5>2, ChatWritten DEF Types
        <5> QED
          BY <4>1, <5>1, <5>2
      <4> QED
        BY <3>1, <3>4, <3>7, <4>1, <4>2, AnswersInterface
    <3>8. CASE m \in ToClient /\ onDocumentSignal(p, m) /\ UNCHANGED <<toClient, client>>
      <4>1. chat' = chat /\ toServer' = toServer
        BY <3>8, DocumentReceived
      <4> QED
        BY <3>1, <3>4, <3>8, <4>1, AnswersInterface
    <3>9. CASE endClient(p) /\ UNCHANGED toServer
      BY <2>4, <3>1, <3>4, <3>9
    <3> QED
      BY <3>2, <3>5, <3>6, <3>7, <3>8, <3>9 DEF Shows
  <2> QED
    BY <2>1, <2>3, <2>5, <2>6, <2>7, <2>8, <2>9, <2>10
<1>5. CASE UNCHANGED vars
  BY <1>5 DEF Answers, Answered, Opened, vars, constantVars, networkVars, interfaceVars, serverVars
<1> QED
  BY <1>2, <1>3, <1>4, <1>5 DEF Next

---------------------------------------------------------------------------
(* The order of what is in a queue *)

LEMMA OnceNone ==
  ASSUME NEW S, NEW s, In(s) \cap S = {}
  PROVE  Once(S, s)
BY DEF Once, In

LEMMA OnceAppend ==
  ASSUME NEW T, NEW S, NEW s \in Seq(T), NEW e \in T, Once(S, s), e \in S => In(s) \cap S = {}
  PROVE  Once(S, Append(s, e))
<1>1. /\ Len(s) \in Nat /\ DOMAIN s = 1..Len(s) /\ DOMAIN Append(s, e) = 1..(Len(s) + 1)
      /\ \A n \in 1..Len(s) : Append(s, e)[n] = s[n]
      /\ Append(s, e)[Len(s) + 1] = e
  BY AppendProperties, LenProperties
<1>2. ASSUME NEW i \in DOMAIN Append(s, e), NEW j \in DOMAIN Append(s, e),
             Append(s, e)[i] \in S, Append(s, e)[j] \in S
      PROVE  i = j
  <2>1. CASE e \in S
    <3>1. \A n \in 1..Len(s) : s[n] \notin S
      BY <1>1, <2>1 DEF In
    <3> QED
      BY <1>1, <1>2, <3>1
  <2>2. CASE e \notin S
    <3>1. i \in DOMAIN s /\ j \in DOMAIN s /\ s[i] \in S /\ s[j] \in S
      BY <1>1, <1>2, <2>2
    <3> QED
      BY <3>1 DEF Once
  <2> QED
    BY <2>1, <2>2
<1> QED
  BY <1>2 DEF Once

LEMMA OnceTail ==
  ASSUME NEW T, NEW S, NEW s \in Seq(T), s # <<>>, Once(S, s)
  PROVE  Once(S, Tail(s)) /\ (Head(s) \in S => In(Tail(s)) \cap S = {})
<1>1. /\ Tail(s) \in Seq(T) /\ Len(Tail(s)) = Len(s) - 1 /\ Head(s) = s[1]
      /\ \A n \in 1..Len(Tail(s)) : Tail(s)[n] = s[n + 1]
  BY HeadTailProperties
<1>2. DOMAIN s = 1..Len(s) /\ Len(s) \in Nat /\ DOMAIN Tail(s) = 1..Len(Tail(s)) /\ Len(s) # 0
  BY <1>1, LenProperties, EmptySeq
<1>3. \A n \in DOMAIN Tail(s) : n + 1 \in DOMAIN s /\ Tail(s)[n] = s[n + 1] /\ n \in Nat /\ n # 0
  BY <1>1, <1>2
<1>4. Once(S, Tail(s))
  <2>1. \A i, j \in DOMAIN Tail(s) : i + 1 = j + 1 => i = j
    BY <1>3
  <2> QED
    BY <1>3, <2>1 DEF Once
<1>5. ASSUME Head(s) \in S, NEW n \in DOMAIN Tail(s), Tail(s)[n] \in S
      PROVE  FALSE
  <2>1. 1 \in DOMAIN s /\ s[1] \in S /\ s[n + 1] \in S /\ n + 1 \in DOMAIN s
    BY <1>1, <1>2, <1>3, <1>5
  <2>2. 1 = n + 1
    BY <2>1 DEF Once
  <2> QED
    BY <1>3, <2>2
<1> QED
  BY <1>4, <1>5 DEF In

LEMMA BeforeNone ==
  ASSUME NEW A, NEW B, NEW s, In(s) \cap A = {} \/ In(s) \cap B = {}
  PROVE  Before(A, B, s)
BY DEF Before, In

LEMMA BeforeAppend ==
  ASSUME NEW T, NEW A, NEW B, NEW s \in Seq(T), NEW e \in T, Before(A, B, s),
         e \in A => In(s) \cap B = {} /\ e \notin B
  PROVE  Before(A, B, Append(s, e))
<1>1. /\ Len(s) \in Nat /\ DOMAIN s = 1..Len(s) /\ DOMAIN Append(s, e) = 1..(Len(s) + 1)
      /\ \A n \in 1..Len(s) : Append(s, e)[n] = s[n]
      /\ Append(s, e)[Len(s) + 1] = e
  BY AppendProperties, LenProperties
<1>2. ASSUME NEW i \in DOMAIN Append(s, e), NEW j \in DOMAIN Append(s, e),
             Append(s, e)[i] \in A, Append(s, e)[j] \in B
      PROVE  i < j
  <2>1. CASE i = Len(s) + 1
    <3>1. e \in A /\ e \notin B /\ \A n \in 1..Len(s) : s[n] \notin B
      BY <1>1, <1>2, <2>1 DEF In
    <3> QED
      BY <1>1, <1>2, <3>1
  <2>2. CASE i # Len(s) + 1
    <3>1. i \in DOMAIN s /\ s[i] \in A /\ i \in Nat /\ i < Len(s) + 1
      BY <1>1, <1>2, <2>2
    <3>2. CASE j = Len(s) + 1
      BY <3>1, <3>2
    <3>3. CASE j # Len(s) + 1
      <4>1. j \in DOMAIN s /\ s[j] \in B
        BY <1>1, <1>2, <3>3
      <4> QED
        BY <3>1, <4>1 DEF Before
    <3> QED
      BY <3>2, <3>3
  <2> QED
    BY <2>1, <2>2
<1> QED
  BY <1>2 DEF Before

LEMMA BeforeTail ==
  ASSUME NEW T, NEW A, NEW B, NEW s \in Seq(T), s # <<>>, Before(A, B, s)
  PROVE  Before(A, B, Tail(s)) /\ (Head(s) \in B => In(Tail(s)) \cap A = {})
<1>1. /\ Tail(s) \in Seq(T) /\ Len(Tail(s)) = Len(s) - 1 /\ Head(s) = s[1]
      /\ \A n \in 1..Len(Tail(s)) : Tail(s)[n] = s[n + 1]
  BY HeadTailProperties
<1>2. DOMAIN s = 1..Len(s) /\ Len(s) \in Nat /\ DOMAIN Tail(s) = 1..Len(Tail(s)) /\ Len(s) # 0
  BY <1>1, LenProperties, EmptySeq
<1>3. \A n \in DOMAIN Tail(s) : n + 1 \in DOMAIN s /\ Tail(s)[n] = s[n + 1] /\ n \in Nat /\ n # 0
  BY <1>1, <1>2
<1>4. Before(A, B, Tail(s))
  <2>1. \A i, j \in DOMAIN Tail(s) : i + 1 < j + 1 => i < j
    BY <1>3
  <2> QED
    BY <1>3, <2>1 DEF Before
<1>5. ASSUME Head(s) \in B, NEW n \in DOMAIN Tail(s), Tail(s)[n] \in A
      PROVE  FALSE
  <2>1. 1 \in DOMAIN s /\ s[1] \in B /\ s[n + 1] \in A /\ n + 1 \in DOMAIN s
    BY <1>1, <1>2, <1>3, <1>5
  <2>2. n + 1 < 1
    BY <2>1 DEF Before
  <2> QED
    BY <1>3, <2>2
<1> QED
  BY <1>4, <1>5 DEF In

LEMMA OnceConcat ==
  ASSUME NEW T, NEW S, NEW s \in Seq(T), NEW t \in Seq(T), Once(S, s), In(t) \cap S = {}
  PROVE  Once(S, s \o t)
<1>1. /\ Len(s) \in Nat /\ Len(t) \in Nat
      /\ DOMAIN s = 1..Len(s) /\ DOMAIN t = 1..Len(t) /\ DOMAIN (s \o t) = 1..(Len(s) + Len(t))
      /\ \A n \in 1..(Len(s) + Len(t)) :
           (s \o t)[n] = IF n <= Len(s) THEN s[n] ELSE t[n - Len(s)]
  BY ConcatProperties, LenProperties
<1>2. ASSUME NEW n \in DOMAIN (s \o t), (s \o t)[n] \in S
      PROVE  n \in DOMAIN s /\ s[n] \in S
  <2>1. CASE n <= Len(s)
    BY <1>1, <1>2, <2>1
  <2>2. CASE ~(n <= Len(s))
    <3>1. n - Len(s) \in DOMAIN t /\ (s \o t)[n] = t[n - Len(s)]
      BY <1>1, <2>2
    <3> QED
      BY <1>2, <3>1 DEF In
  <2> QED
    BY <2>1, <2>2
<1> QED
  BY <1>2 DEF Once

LEMMA BeforeConcat ==
  ASSUME NEW T, NEW A, NEW B, NEW s \in Seq(T), NEW t \in Seq(T), Before(A, B, s), In(t) \cap A = {}
  PROVE  Before(A, B, s \o t)
<1>1. /\ Len(s) \in Nat /\ Len(t) \in Nat
      /\ DOMAIN s = 1..Len(s) /\ DOMAIN t = 1..Len(t) /\ DOMAIN (s \o t) = 1..(Len(s) + Len(t))
      /\ \A n \in 1..(Len(s) + Len(t)) :
           (s \o t)[n] = IF n <= Len(s) THEN s[n] ELSE t[n - Len(s)]
  BY ConcatProperties, LenProperties
<1>2. ASSUME NEW n \in DOMAIN (s \o t), (s \o t)[n] \in A
      PROVE  n \in DOMAIN s /\ s[n] \in A /\ n \in Nat /\ n <= Len(s)
  <2>1. CASE n <= Len(s)
    BY <1>1, <1>2, <2>1
  <2>2. CASE ~(n <= Len(s))
    <3>1. n - Len(s) \in DOMAIN t /\ (s \o t)[n] = t[n - Len(s)]
      BY <1>1, <2>2
    <3> QED
      BY <1>2, <3>1 DEF In
  <2> QED
    BY <2>1, <2>2
<1>3. ASSUME NEW i \in DOMAIN (s \o t), NEW j \in DOMAIN (s \o t), (s \o t)[i] \in A, (s \o t)[j] \in B
      PROVE  i < j
  <2>1. i \in DOMAIN s /\ s[i] \in A /\ i \in Nat /\ i <= Len(s)
    BY <1>2, <1>3
  <2>2. CASE j <= Len(s)
    <3>1. j \in DOMAIN s /\ s[j] \in B
      BY <1>1, <1>3, <2>2
    <3> QED
      BY <2>1, <3>1 DEF Before
  <2>3. CASE ~(j <= Len(s))
    BY <1>1, <2>1, <2>3
  <2> QED
    BY <2>2, <2>3
<1> QED
  BY <1>3 DEF Before

---------------------------------------------------------------------------
(* The steps, by what they make of queues, roles and connections *)

\* The signals that are taken leave the others in order.
Takings ==
  /\ signals' \in [Process -> Seq(Signal)]
  /\ \A q \in Process : \/ signals'[q] = signals[q]
                        \/ signals[q] # <<>> /\ signals'[q] = Tail(signals[q])

SameRoles == \A q \in Process : /\ audio'[q].master = audio[q].master
                                /\ audio'[q].localOnly = audio[q].localOnly

\* What users do, and the signals but that of the session and that of the end.
Quiet ==
  /\ UNCHANGED <<processOf, link, users, client, hostAble, toClient, button>>
  /\ \/ toServer' = toServer
     \/ \E p \in Process, x \in ToServer :
          ClientTells(p, x) /\ x # Shake /\ (x \in Music => audio[p].master)
  /\ Takings
  /\ SameRoles

Welcomes(p, k, m) ==
  /\ signals[p] # <<>> /\ Head(signals[p]) = [conn |-> k, payload |-> m]
  /\ signals'[p] = Tail(signals[p])
  /\ k # client[p] => "late" \in slips'
  /\ UNCHANGED <<processOf, link, users, client, hostAble, toClient>>
  /\ toServer' = toServer \/ \E x \in Music : hostAble[p] /\ ClientTells(p, x)
  /\ Takings
  /\ button' = [button EXCEPT ![p] = "Connected"]
  /\ \A q \in Process \ {p} : audio'[q] = audio[q]
  /\ audio'[p].master = hostAble[p] /\ audio'[p].localOnly = audio[p].localOnly

Closes(p, k) ==
  /\ Ends(p, k)
  /\ UNCHANGED <<processOf, users, toServer>>
  /\ Takings

Opens(p, k) ==
  /\ client[p] = NoConn /\ button[p] = "NotConnected"
  /\ Opened' = Opened \cup {k} /\ link[k] = "idle" /\ link' = [link EXCEPT ![k] = "up"]
  /\ processOf'[k] = p /\ \A j \in Opened : processOf'[j] = processOf[j]
  /\ toServer'[k] = <<Shake>> /\ In(toServer'[k]) = {Shake}
  /\ \A j \in Conn \ {k} : toServer'[j] = toServer[j]
  /\ client' = [client EXCEPT ![p] = k]
  /\ button' = [button EXCEPT ![p] = "Connecting"]
  /\ audio' = [audio EXCEPT ![p] = streamConnecting(@)]
  /\ UNCHANGED <<users, toClient, hostAble, signals>>

ServerMoves == UNCHANGED <<processOf, client, hostAble, signals, button, audio>>

Registers(k) ==
  /\ ServerMoves
  /\ UNCHANGED <<link, toServer, toClient>>
  /\ k \notin Live /\ users' = [users EXCEPT ![k] = "new"]

Leaves(k) ==
  /\ ServerMoves
  /\ link[k] = "down" /\ link' = [link EXCEPT ![k] = "gone"]
  /\ users' = [users EXCEPT ![k] = "absent"]
  /\ toServer' = [toServer EXCEPT ![k] = <<>>]
  /\ \E out \in Message : ServerTells(ToSome(Peers(k), Asked(out)))

\* The first of what k sent is taken.
FirstTaken(k, m) ==
  /\ m = Head(toServer[k]) /\ toServer[k] # <<>> /\ k \in Live
  /\ toServer'[k] = Tail(toServer[k])
  /\ In(toServer[k]) = {m} \cup In(toServer'[k])
  /\ \A j \in Conn \ {k} : toServer'[j] = toServer[j]
  /\ UNCHANGED link

Greets(k, s, t) ==
  /\ ServerMoves
  /\ FirstTaken(k, Shake)
  /\ users' = [users EXCEPT ![k] = attributedRole(k)]
  /\ s.host <=> attributedRole(k) = "host"
  /\ toClient'[k] = IF link[k] = "up" THEN Append(toClient[k], s) ELSE toClient[k]
  /\ ServerTells(t)
  /\ \A j \in Conn \ {k} : t[j] \cap (Session \cup Music) = {}

Relays(k, m, t) ==
  /\ ServerMoves
  /\ FirstTaken(k, m) /\ m # Shake
  /\ UNCHANGED users
  /\ ServerTells(t)
  /\ \A j \in Conn : t[j] \cap Session = {} /\ (t[j] \cap Music # {} => j # k /\ m \in Music)

Receives(k, x, p) ==
  /\ Reads(k, x, p)
  /\ UNCHANGED <<processOf, link, users, toServer, client, button, audio>>

Breaks(k, p) ==
  /\ Fails(k, p)
  /\ UNCHANGED <<processOf, users, toServer, client, hostAble, button, audio>>

ServerMove ==
  \/ \E k \in Conn : Registers(k) \/ Leaves(k)
  \/ \E k \in Conn, s \in Session, t \in [Conn -> SUBSET ToClient] : Greets(k, s, t)
  \/ \E k \in Conn, m \in ToServer, t \in [Conn -> SUBSET ToClient] : Relays(k, m, t)

ClientMove ==
  \/ \E k \in Conn, x \in ToClient, p \in Process : Receives(k, x, p)
  \/ \E k \in Conn, p \in Process : Breaks(k, p)

InterfaceMove ==
  \/ Quiet
  \/ \E p \in Process, k \in Opened, m \in Session : Welcomes(p, k, m)
  \/ \E p \in Process, k \in Opened : Closes(p, k)
  \/ \E p \in Process, k \in Conn \ Opened : Opens(p, k)

LEMMA ShakeSent == Shake \in ToServer /\ Shake \notin Music /\ \A m : Asked(m) # Shake
BY DEF Shake, ToServer, Music, Asked

LEMMA SessionsApart ==
  /\ Session \cap Music = {}
  /\ \A m \in Message : Asked(m) \notin Session \cup Music /\ Answer(m) \notin Session \cup Music
  /\ \A x \in ToClient : x.method \in {"DocAvailable", "Doc", "Message", "Response"} =>
       x \notin Session \cup Music
BY DEF Session, Music, Asked, Answer

LEMMA ServerMoved == Base /\ ServerStep => ServerMove
<1> SUFFICES ASSUME Base, ServerStep
             PROVE  ServerMove
  OBVIOUS
<1>1. Types
  BY DEF Base
<1>2. ServerMoves
  BY DEF ServerStep, ServerMoves, constantVars, interfaceVars
<1>3. PICK k \in Conn :
        onNewConnection(k) \/ onClientSocketDisconnected(k) \/ onClientPayloadReceived(k)
  BY DEF ServerStep
<1>4. CASE onNewConnection(k)
  BY <1>2, <1>4 DEF onNewConnection, networkVars, Registers, ServerMove
<1>5. CASE onClientSocketDisconnected(k)
  <2>1. \E out \in Message : ServerTells(ToSome(Peers(k), Asked(out)))
    BY <1>1, <1>5, Disconnected
  <2>2. Leaves(k)
    BY <1>2, <1>5, <2>1 DEF onClientSocketDisconnected, usersWithout, Leaves
  <2> QED
    BY <2>2 DEF ServerMove
<1>6. CASE onClientPayloadReceived(k)
  <2>1. PICK m \in ToServer : /\ m = Head(toServer[k]) /\ In(toServer[k]) = {m} \cup In(toServer'[k])
                              /\ Does(k, m)
    BY <1>1, <1>6, PayloadCases
  <2>2. FirstTaken(k, m)
    BY <1>1, <1>6, <2>1, Handled DEF FirstTaken
  <2>3. CASE m.method = "Handshake" /\ handshake(k)
    <3>1. PICK arrived \in Message, s \in Session :
            /\ s.host = (attributedRole(k) = "host")
            /\ ServerTells([ToSome(Peers(k), Asked(arrived)) EXCEPT ![k] = {s}])
            /\ toClient'[k] = IF link[k] = "up" THEN Append(toClient[k], s) ELSE toClient[k]
      BY <1>1, <2>3, Handshaken
    <3> DEFINE t == [ToSome(Peers(k), Asked(arrived)) EXCEPT ![k] = {s}]
    <3>2. users' = [users EXCEPT ![k] = attributedRole(k)] /\ m = Shake
      BY <2>1, <2>3, ToServerFields DEF handshake, Shake
    <3>3. t \in [Conn -> SUBSET ToClient] /\ \A j \in Conn \ {k} : t[j] \cap (Session \cup Music) = {}
      <4>1. Asked(arrived) \in ToClient /\ s \in ToClient /\ Asked(arrived) \notin Session \cup Music
        BY MessageSent, SessionsApart DEF Asked, ToClient
      <4> QED
        BY <4>1 DEF ToSome
    <3> HIDE DEF t
    <3>4. ServerTells(t)
      BY <3>1 DEF t
    <3>5. Greets(k, s, t)
      BY <1>2, <2>2, <3>1, <3>2, <3>3, <3>4 DEF Greets
    <3> QED
      BY <3>3, <3>5 DEF ServerMove
  <2>4. ASSUME m # Shake, UNCHANGED users, NEW t \in [Conn -> SUBSET ToClient], ServerTells(t),
               \A j \in Conn : t[j] \cap Session = {} /\ (t[j] \cap Music # {} => j # k /\ m \in Music)
        PROVE  ServerMove
    <3>1. Relays(k, m, t)
      BY <1>2, <2>2, <2>4 DEF Relays
    <3> QED
      BY <3>1 DEF ServerMove
  <2>5. CASE m.method = "Message" /\ m.message \in Message /\ interpretMessage(k, m.message)
    <3>1. PICK news \in SUBSET Message, whispered \in SUBSET Conn :
            ServerTells(Told(k, m.message, news, whispered))
      BY <1>1, <2>5, Interpreted
    <3>2. \A x \in Message : Asked(x) \in ToClient /\ Answer(x) \in ToClient
      BY MessageSent DEF Asked, Answer
    <3>3. Told(k, m.message, news, whispered) \in [Conn -> SUBSET ToClient]
          /\ \A j \in Conn : Told(k, m.message, news, whispered)[j] \cap (Session \cup Music) = {}
      BY <2>5, <3>2, SessionsApart DEF Told
    <3>4. m # Shake /\ UNCHANGED users
      BY <2>5 DEF interpretMessage, Shake
    <3> QED
      BY <2>4, <3>1, <3>3, <3>4
  <2>6. CASE m \in Music /\ m \in ToClient /\ ServerTells(ToSome(Peers(k), m)) /\ UNCHANGED users
    <3>1. ToSome(Peers(k), m) \in [Conn -> SUBSET ToClient]
      BY <2>6 DEF ToSome
    <3>2. \A j \in Conn : /\ ToSome(Peers(k), m)[j] \cap Session = {}
                          /\ ToSome(Peers(k), m)[j] \cap Music # {} => j # k /\ m \in Music
      BY <2>6, SessionsApart DEF ToSome, Peers
    <3>3. m # Shake
      BY <2>6, ShakeSent
    <3> QED
      BY <2>4, <2>6, <3>1, <3>2, <3>3
  <2>7. CASE /\ m.method = "DocAvailable" /\ m \in ToClient
             /\ ServerTells(ToSome(Peers(k), m)) /\ UNCHANGED users
    <3>1. m \notin Session \cup Music /\ m # Shake
      BY <2>7, SessionsApart DEF Shake
    <3>2. ToSome(Peers(k), m) \in [Conn -> SUBSET ToClient]
          /\ \A j \in Conn : ToSome(Peers(k), m)[j] \cap (Session \cup Music) = {}
      BY <2>7, <3>1 DEF ToSome
    <3> QED
      BY <2>4, <2>7, <3>1, <3>2
  <2>8. CASE /\ m.method = "DocRequested" /\ UNCHANGED users
             /\ \E d \in ToClient : /\ d = [method |-> "Doc", hashes |-> {m.hash} \cap serverStore]
                                    /\ ServerTells(ToSome({k}, d))
    <3>1. PICK d \in ToClient : d.method = "Doc" /\ ServerTells(ToSome({k}, d))
      BY <2>8
    <3>2. m # Shake /\ d \notin Session \cup Music
      BY <2>8, <3>1, SessionsApart DEF Shake
    <3>3. ToSome({k}, d) \in [Conn -> SUBSET ToClient]
          /\ \A j \in Conn : ToSome({k}, d)[j] \cap (Session \cup Music) = {}
      BY <3>1, <3>2 DEF ToSome
    <3> QED
      BY <2>4, <2>8, <3>1, <3>2, <3>3
  <2> QED
    BY <2>1, <2>3, <2>5, <2>6, <2>7, <2>8 DEF Does, serverVars
<1> QED
  BY <1>3, <1>4, <1>5, <1>6

LEMMA ClientMoved == Base /\ ClientStep => ClientMove
<1> SUFFICES ASSUME Base, ClientStep
             PROVE  ClientMove
  OBVIOUS
<1>1. PICK k \in Conn : onPayloadReceived(k) \/ onError(k)
  BY DEF ClientStep
<1>2. UNCHANGED <<processOf, users>>
  BY DEF ClientStep, constantVars, serverVars
<1>3. CASE onPayloadReceived(k)
  <2>1. PICK x \in ToClient, p \in Process : Reads(k, x, p)
    BY <1>3, Read
  <2>2. Receives(k, x, p)
    BY <1>2, <1>3, <2>1 DEF onPayloadReceived, interfaceVars, Receives
  <2> QED
    BY <2>2 DEF ClientMove
<1>4. CASE onError(k)
  <2>1. PICK p \in Process : Fails(k, p)
    BY <1>4, Failed
  <2>2. Breaks(k, p)
    BY <1>2, <1>4, <2>1 DEF onError, interfaceVars, Breaks
  <2> QED
    BY <2>2 DEF ClientMove
<1> QED
  BY <1>1, <1>3, <1>4

Keeps(a, b) == b.master = a.master /\ b.localOnly = a.localOnly

LEMMA RolesKept ==
  ASSUME NEW a \in Player, NEW s, NEW b, NEW over, NEW url
  PROVE  /\ Keeps(a, playAudio(a)) /\ Keeps(a, stopPlayingMusic(a))
         /\ Keeps(a, onSeekingRequested(a)) /\ Keeps(a, onPlayRequested(a))
         /\ Keeps(a, replayed(a)) /\ Keeps(a, nextPlayed(a)) /\ Keeps(a, refreshed(a, url))
         /\ Keeps(a, [a EXCEPT !.heard.on = "ended"])
         /\ Keeps(a, [a EXCEPT !.state = ClearedState, !.heard.on = "stopped"])
         /\ Keeps(a, onAudioSourceStateChanged(a, s, over))
         /\ Keeps(a, onAudioPlayStateChanged(a, b, over))
BY DEF Keeps, playAudio, stopPlayingMusic, onSeekingRequested, onPlayRequested, replayed, nextPlayed,
       refreshed, onAudioSourceStateChanged, onAudioPlayStateChanged, Player

LEMMA MasterTells ==
  ASSUME Types, NEW p \in Process, musicAct(p)
  PROVE  Keeps(audio[p], audio'[p]) /\ (toServer' = toServer \/ audio[p].master)
<1>1. audio[p] \in Player
  BY DEF Types
<1>2. toServer' = toServer \/ audio[p].master
  BY DEF musicAct, playTrack, pauseOrPlay, seek, metadataRefreshed, onStreamPlayEnded,
         onStreamError, tells
<1>3. CASE playTrack(p) \/ seek(p) \/ pauseOrPlay(p) \/ metadataRefreshed(p)
  <2>1. \/ audio' = [audio EXCEPT ![p] = onPlayRequested(@)]
        \/ audio' = [audio EXCEPT ![p] = onSeekingRequested(@)]
        \/ \E b, over \in BOOLEAN : audio' = [audio EXCEPT ![p] = onAudioPlayStateChanged(@, b, over)]
        \/ \E url \in Track : audio' = [audio EXCEPT ![p] = refreshed(@, url)]
    BY <1>3 DEF playTrack, seek, pauseOrPlay, metadataRefreshed
  <2>2. PICK a : audio' = [audio EXCEPT ![p] = a] /\ Keeps(audio[p], a)
    BY <1>1, <2>1, RolesKept
  <2> QED
    BY <1>2, <2>2 DEF Types
<1>6. CASE onStreamPlayEnded(p)
  <2> DEFINE ended == [audio[p] EXCEPT !.heard.on = "ended"]
  <2>1. ended \in Player /\ Keeps(audio[p], ended)
    BY <1>1, PlayerTypes, RolesKept
  <2>2. audio'[p] \in {replayed(ended), nextPlayed(ended), stopPlayingMusic(ended), ended}
    <3> HIDE DEF ended
    <3>1. \/ audio' = [audio EXCEPT ![p] = replayed(ended)]
          \/ audio' = [audio EXCEPT ![p] = nextPlayed(ended)]
          \/ audio' = [audio EXCEPT ![p] = stopPlayingMusic(ended)]
          \/ audio' = [audio EXCEPT ![p] = ended]
      BY <1>6 DEF onStreamPlayEnded, ended
    <3>2. PICK a : audio' = [audio EXCEPT ![p] = a]
                   /\ a \in {replayed(ended), nextPlayed(ended), stopPlayingMusic(ended), ended}
      BY <3>1
    <3> QED
      BY <3>2 DEF Types
  <2> HIDE DEF ended
  <2>3. \A a \in {replayed(ended), nextPlayed(ended), stopPlayingMusic(ended), ended} : Keeps(ended, a)
    BY <2>1, RolesKept DEF Keeps
  <2> QED
    BY <1>2, <2>1, <2>2, <2>3 DEF Keeps
<1>7. CASE onStreamError(p)
  <2>1. audio' = [audio EXCEPT ![p] = [audio[p] EXCEPT !.state = ClearedState, !.heard.on = "stopped"]]
    BY <1>7 DEF onStreamError
  <2>2. Keeps(audio[p], [audio[p] EXCEPT !.state = ClearedState, !.heard.on = "stopped"])
    BY <1>1, RolesKept
  <2>3. PICK a : audio' = [audio EXCEPT ![p] = a] /\ Keeps(audio[p], a)
    BY <2>1, <2>2
  <2> QED
    BY <1>2, <2>3 DEF Types
<1> QED
  BY <1>2, <1>3, <1>6, <1>7 DEF musicAct

\* What a signal of music or the session does to who is in charge.
LEMMA SignalTells ==
  ASSUME Types, NEW p \in Process, NEW m
  PROVE  /\ onAudioSignal(p, m) =>
              /\ Keeps(audio[p], audio'[p]) /\ \A q \in Process \ {p} : audio'[q] = audio[q]
              /\ toServer' = toServer \/ audio[p].master
         /\ onGameSessionReceived(p, m) =>
              /\ audio'[p].master = hostAble[p] /\ audio'[p].localOnly = audio[p].localOnly
              /\ \A q \in Process \ {p} : audio'[q] = audio[q]
              /\ toServer' = toServer \/ hostAble[p]
<1>1. audio[p] \in Player /\ hostAble[p] \in BOOLEAN
  BY DEF Types
<1>2. ASSUME onAudioSignal(p, m)
      PROVE  /\ Keeps(audio[p], audio'[p]) /\ \A q \in Process \ {p} : audio'[q] = audio[q]
             /\ toServer' = toServer \/ audio[p].master
  <2>1. \/ \E over \in BOOLEAN : audio' = [audio EXCEPT ![p] = onAudioSourceStateChanged(@, m.state, over)]
        \/ \E over \in BOOLEAN : audio' = [audio EXCEPT ![p] = onAudioPlayStateChanged(@, m.isPlaying, over)]
        \/ audio' = [audio EXCEPT ![p] = onSeekingRequested(@)]
    BY <1>2 DEF onAudioSignal
  <2>2. PICK a : audio' = [audio EXCEPT ![p] = a] /\ Keeps(audio[p], a)
    BY <1>1, <2>1, RolesKept
  <2>3. toServer' = toServer \/ audio[p].master
    BY <1>2 DEF onAudioSignal, tells
  <2> QED
    BY <2>2, <2>3 DEF Types
<1>3. ASSUME onGameSessionReceived(p, m)
      PROVE  /\ audio'[p].master = hostAble[p] /\ audio'[p].localOnly = audio[p].localOnly
             /\ \A q \in Process \ {p} : audio'[q] = audio[q]
             /\ toServer' = toServer \/ hostAble[p]
  <2> DEFINE joined == streamOnSession(audio[p], hostAble[p])
  <2>1. joined \in Player /\ joined.master = hostAble[p] /\ joined.localOnly = audio[p].localOnly
    <3>1. joined \in Player
      BY <1>1, PlayerStateTypes, ClearedType
    <3>2. joined.master = hostAble[p] /\ joined.localOnly = audio[p].localOnly
      BY <1>1, PlayerTypes DEF streamOnSession, stopPlayingMusic, Player
    <3> QED
      BY <3>1, <3>2
  <2>2. toServer' = toServer \/ hostAble[p]
    BY <1>3 DEF onGameSessionReceived
  <2>3. PICK over \in BOOLEAN : audio' = [audio EXCEPT ![p] =
                IF ~m.host THEN onAudioSourceStateChanged(joined, m.stream, over) ELSE joined]
    BY <1>3 DEF onGameSessionReceived
  <2> HIDE DEF joined
  <2>4. PICK a : audio' = [audio EXCEPT ![p] = a] /\ Keeps(joined, a)
    <3>1. Keeps(joined, joined) /\ Keeps(joined, onAudioSourceStateChanged(joined, m.stream, over))
      BY <2>1, RolesKept DEF Keeps
    <3> QED
      BY <2>3, <3>1
  <2> QED
    BY <2>1, <2>2, <2>4 DEF Types, Keeps
<1> QED
  BY <1>2, <1>3

LEMMA TakenSignal ==
  ASSUME Base, NEW p \in Process, onSignal(p)
  PROVE  /\ Takings /\ signals[p] # <<>> /\ signals'[p] = Tail(signals[p])
<1>1. PICK k \in Opened, x \in ToClient \cup [method : {"Ended"}] :
        /\ signals[p] # <<>>
        /\ signals' \in [Process -> Seq(Signal)]
        /\ signals'[p] = Tail(signals[p])
        /\ \A q \in Process \ {p} : signals'[q] = signals[q]
  BY SignalTaken
<1> QED
  BY <1>1 DEF Takings

LEMMA InterfaceMoved == Base /\ [Next]_vars /\ InterfaceStep => InterfaceMove
<1> SUFFICES ASSUME Base, [Next]_vars, InterfaceStep
             PROVE  InterfaceMove
  OBVIOUS
<1>1. Types
  BY DEF Base
<1>2. UNCHANGED users /\ slips \subseteq slips'
  BY SlipsGrow DEF InterfaceStep, serverVars
<1>3. PICK p \in Process :
        \/ bindObservedClient(p) \/ onConnectButtonPressed(p)
        \/ sendMessage(p) \/ musicAct(p)
        \/ dropEvent(p) \/ onItemDoubleClick(p)
        \/ onSignal(p)
  BY DEF InterfaceStep, musicAct
<1>4. UNCHANGED signals => Takings
  BY <1>1 DEF Takings, Types
<1>5. UNCHANGED audio => SameRoles
  BY DEF SameRoles
<1>6. (\A q \in Process \ {p} : audio'[q] = audio[q]) /\ Keeps(audio[p], audio'[p]) => SameRoles
  BY DEF SameRoles, Keeps
<1>7. ASSUME endClient(p), UNCHANGED <<processOf, toServer>>, Takings
      PROVE  InterfaceMove
  <2>1. CASE UNCHANGED <<link, toClient, client, hostAble, interfaceVars>>
    BY <1>2, <1>5, <1>7, <2>1 DEF interfaceVars, Quiet, InterfaceMove
  <2>2. CASE \E k \in Opened : Ends(p, k)
    BY <1>2, <1>7, <2>2 DEF Closes, InterfaceMove
  <2> QED
    BY <1>7, <2>1, <2>2, Ended
<1>8. CASE bindObservedClient(p)
  <2>1. PICK k \in Conn \ Opened :
          /\ Opened' = Opened \cup {k}
          /\ processOf'[k] = p /\ \A j \in Opened : processOf'[j] = processOf[j]
          /\ link' = [link EXCEPT ![k] = "up"]
          /\ toServer'[k] = <<[method |-> "Handshake"]>>
          /\ In(toServer'[k]) = {[method |-> "Handshake"]}
          /\ \A j \in Conn \ {k} : toServer'[j] = toServer[j]
          /\ client' = [client EXCEPT ![p] = k]
    BY <1>8, Bound
  <2>2. button[p] = "NotConnected" /\ client[p] = NoConn
    BY <1>8 DEF bindObservedClient, Base, Connections
  <2>3. link[k] = "idle"
    BY <2>1 DEF Base, Connections
  <2>4. Opens(p, k)
    BY <1>2, <1>8, <2>1, <2>2, <2>3 DEF bindObservedClient, Opens, Shake
  <2> QED
    BY <2>1, <2>4 DEF InterfaceMove
<1>9. CASE onConnectButtonPressed(p)
  BY <1>4, <1>7, <1>9 DEF onConnectButtonPressed
<1>10. CASE sendMessage(p)
  <2>1. PICK m \in Message :
          /\ toServer' = toServer \/ ClientTells(p, Asked(m))
          /\ UNCHANGED <<link, toClient, client, hostAble, signals, button, audio, processOf>>
    BY <1>10, Said
  <2>2. Asked(m) \in ToServer /\ Asked(m) # Shake /\ Asked(m) \notin Music
    BY MessageSent, ShakeSent, SessionsApart DEF Asked
  <2>3. Quiet
    BY <1>2, <1>4, <1>5, <2>1, <2>2 DEF Quiet
  <2> QED
    BY <2>3 DEF InterfaceMove
<1>11. CASE musicAct(p)
  <2>1. /\ toServer' = toServer \/ \E x \in Music : ClientTells(p, x)
        /\ audio' = [audio EXCEPT ![p] = audio'[p]]
        /\ UNCHANGED <<processOf, link, toClient, client, hostAble, signals, button>>
    BY <1>1, <1>11, MusicTold
  <2>2. Keeps(audio[p], audio'[p]) /\ (toServer' = toServer \/ audio[p].master)
    BY <1>1, <1>11, MasterTells
  <2>3. \A q \in Process \ {p} : audio'[q] = audio[q]
    <3>1. PICK a : audio' = [audio EXCEPT ![p] = a]
      BY <2>1
    <3> QED
      BY <1>1, <3>1 DEF Types
  <2>4. \A x \in Music : x \in ToServer /\ x # Shake
    BY MusicIsSent, ShakeSent
  <2>5. Quiet
    BY <1>2, <1>4, <1>6, <2>1, <2>2, <2>3, <2>4 DEF Quiet
  <2> QED
    BY <2>5 DEF InterfaceMove
<1>12. CASE dropEvent(p)
  <2>1. PICK d \in Document :
          /\ toServer' = toServer \/ ClientTells(p, [method |-> "DocAvailable", hash |-> d])
          /\ UNCHANGED <<link, toClient, client, hostAble, signals, button, audio, processOf>>
    BY <1>12, Dropped
  <2>2. [method |-> "DocAvailable", hash |-> d] \in ToServer
    BY DEF ToServer
  <2>3. [method |-> "DocAvailable", hash |-> d] # Shake
        /\ [method |-> "DocAvailable", hash |-> d] \notin Music
    BY DEF Shake, Music
  <2>4. Quiet
    BY <1>2, <1>4, <1>5, <2>1, <2>2, <2>3 DEF Quiet
  <2> QED
    BY <2>4 DEF InterfaceMove
<1>13. CASE onItemDoubleClick(p)
  <2>1. PICK d \in Document :
          /\ ClientTells(p, [method |-> "DocRequested", hash |-> d])
          /\ UNCHANGED <<link, toClient, client, hostAble, signals, button, audio, processOf>>
    BY <1>13, DocAsked
  <2>2. [method |-> "DocRequested", hash |-> d] \in ToServer
    BY DEF ToServer
  <2>3. [method |-> "DocRequested", hash |-> d] # Shake
        /\ [method |-> "DocRequested", hash |-> d] \notin Music
    BY DEF Shake, Music
  <2>4. Quiet
    BY <1>2, <1>4, <1>5, <2>1, <2>2, <2>3 DEF Quiet
  <2> QED
    BY <2>4 DEF InterfaceMove
<1>14. CASE onSignal(p)
  <2>1. PICK k \in Opened, m \in ToClient \cup [method : {"Ended"}] : Takes(p, k, m) /\ Shows(p, m)
    BY <1>14, SignalCases
  <2>2. Takings /\ signals[p] # <<>> /\ signals'[p] = Tail(signals[p]) /\ UNCHANGED processOf
    BY <1>14, <2>1, TakenSignal DEF Takes
  <2>3. CASE m \in Session /\ onGameSessionReceived(p, m) /\ UNCHANGED <<link, toClient, client, hostAble>>
    <3>1. k # client[p] => "late" \in slips'
      BY <2>1, <2>3, Joins DEF Takes, slipsBefore
    <3>2. /\ button' = [button EXCEPT ![p] = "Connected"]
          /\ toServer' = toServer \/ \E x \in Music : ClientTells(p, x)
      BY <2>3, Joins
    <3>3. /\ audio'[p].master = hostAble[p] /\ audio'[p].localOnly = audio[p].localOnly
          /\ \A q \in Process \ {p} : audio'[q] = audio[q]
          /\ toServer' = toServer \/ hostAble[p]
      BY <1>1, <2>3, SignalTells
    <3>4. Welcomes(p, k, m)
      BY <1>2, <2>1, <2>2, <2>3, <3>1, <3>2, <3>3 DEF Welcomes, Takes
    <3> QED
      BY <2>3, <3>4 DEF InterfaceMove
  <2>4. CASE m \in ToClient /\ onAudioSignal(p, m) /\ UNCHANGED <<link, toClient, client, hostAble>>
    <3>1. button' = button /\ (toServer' = toServer \/ \E x \in Music : ClientTells(p, x))
      BY <2>4, MusicReceived
    <3>2. /\ Keeps(audio[p], audio'[p]) /\ \A q \in Process \ {p} : audio'[q] = audio[q]
          /\ toServer' = toServer \/ audio[p].master
      BY <1>1, <2>4, SignalTells
    <3>3. \A x \in Music : x \in ToServer /\ x # Shake
      BY MusicIsSent, ShakeSent
    <3>4. Quiet
      BY <1>2, <1>6, <2>2, <2>4, <3>1, <3>2, <3>3 DEF Quiet
    <3> QED
      BY <3>4 DEF InterfaceMove
  <2>5. CASE m \in ToClient /\ (onChatSignal(p, m) \/ onDocumentSignal(p, m))
             /\ UNCHANGED <<link, toClient, client, hostAble>>
    <3>1. UNCHANGED <<toServer, button, audio>>
      BY <2>5, ChatReceived, DocumentReceived
    <3>2. Quiet
      BY <1>2, <1>5, <2>2, <2>5, <3>1 DEF Quiet
    <3> QED
      BY <3>2 DEF InterfaceMove
  <2>6. CASE endClient(p) /\ UNCHANGED toServer
    BY <1>7, <2>2, <2>6
  <2> QED
    BY <2>1, <2>3, <2>4, <2>5, <2>6 DEF Shows
<1> QED
  BY <1>3, <1>8, <1>9, <1>10, <1>11, <1>12, <1>13, <1>14

\* Every step is one of these moves, or changes nothing they speak of.
LEMMA Moved ==
  Base /\ [Next]_vars =>
    ServerMove \/ ClientMove \/ InterfaceMove
<1> SUFFICES ASSUME Base, [Next]_vars
             PROVE  ServerMove \/ ClientMove \/ InterfaceMove
  OBVIOUS
<1>1. CASE UNCHANGED vars
  BY <1>1 DEF InterfaceMove, Quiet, Takings, SameRoles, Base, Types, vars, constantVars, networkVars,
              serverVars, interfaceVars
<1> QED
  BY <1>1, ServerMoved, ClientMoved, InterfaceMoved DEF Next

---------------------------------------------------------------------------
(* A connection greets once and is answered once *)

LEMMA TakingsKeep ==
  ASSUME Base, Takings, NEW q \in Process, NEW A, NEW B
  PROVE  /\ In(signals'[q]) \subseteq In(signals[q])
         /\ Once(A, signals[q]) => Once(A, signals'[q])
         /\ Before(A, B, signals[q]) => Before(A, B, signals'[q])
<1>1. signals[q] \in Seq(Signal)
  BY DEF Base, Types
<1>2. CASE signals'[q] = signals[q]
  BY <1>2
<1>3. CASE signals[q] # <<>> /\ signals'[q] = Tail(signals[q])
  BY <1>1, <1>3, InTail, OnceTail, BeforeTail
<1> QED
  BY <1>2, <1>3 DEF Takings

LEMMA TellsKeep ==
  ASSUME Base, NEW p \in Process, NEW x \in ToServer, ClientTells(p, x), x # Shake, NEW k \in Conn
  PROVE  /\ Shake \in In(toServer'[k]) <=> Shake \in In(toServer[k])
         /\ Once({Shake}, toServer[k]) => Once({Shake}, toServer'[k])
<1>1. toServer[k] \in Seq(ToServer)
  BY DEF Base, Types
<1>2. In(toServer'[k]) = In(toServer[k]) \cup (IF k = client[p] /\ link[k] = "up" THEN {x} ELSE {})
  BY ClientTellsElements DEF Base
<1>3. x \notin {Shake} /\ (Once({Shake}, toServer[k]) => Once({Shake}, Append(toServer[k], x)))
  <2>1. x \notin {Shake}
    OBVIOUS
  <2> QED
    BY <1>1, <2>1, OnceAppend
<1> QED
  BY <1>2, <1>3 DEF ClientTells

LEMMA ToldKeep ==
  ASSUME Base, NEW t, ServerTells(t), NEW k \in Conn, NEW A, NEW B, t[k] \cap A = {}
  PROVE  /\ In(toClient'[k]) \cap A = In(toClient[k]) \cap A
         /\ Once(A, toClient[k]) => Once(A, toClient'[k])
         /\ Before(A, B, toClient[k]) => Before(A, B, toClient'[k])
<1>1. PICK u \in Seq(ToClient) : /\ toClient'[k] = toClient[k] \o u
                                 /\ In(u) = IF link[k] = "up" THEN t[k] ELSE {}
  BY DEF ServerTells, Extended
<1>2. toClient[k] \in Seq(ToClient) /\ In(u) \cap A = {}
  BY <1>1 DEF Base, Types
<1> QED
  BY <1>1, <1>2, InConcat, OnceConcat, BeforeConcat

LEMMA ToldSessions ==
  ASSUME Base, NEW t, ServerTells(t), NEW k \in Conn, t[k] \cap Session = {}
  PROVE  In(toClient'[k]) \cap Session = In(toClient[k]) \cap Session
BY ToldKeep

LEMMA GreetingsKept ==
  ASSUME Greetings,
         \A k \in Conn : Once({Shake}, toServer'[k]) /\ Once(Session, toClient'[k]),
         \A p \in Process : \A k \in Conn : Once(Of(k, Session), signals'[p]),
         \A k \in Conn : Shake \in In(toServer'[k]) => Shake \in In(toServer[k]),
         \A k \in Conn : link'[k] = "up" =>
           /\ link[k] = "up" /\ (k \in Named => k \in Named')
           /\ Shake \in In(toServer[k]) => Shake \in In(toServer'[k]),
         Named' \subseteq Named,
         \A k \in Conn : In(toClient'[k]) \cap Session \subseteq In(toClient[k]),
         \A p \in Process : \A k \in Conn :
           In(signals'[p]) \cap Of(k, Session) \subseteq In(signals[p])
  PROVE  Greetings'
<1>1. \A k \in Conn : Shake \in In(toServer'[k]) =>
        k \notin Named' /\ In(toClient'[k]) \cap Session = {}
  <2>1. \A k \in Conn : Shake \in In(toServer[k]) => k \notin Named /\ In(toClient[k]) \cap Session = {}
    BY DEF Greetings
  <2> QED
    BY <2>1
<1>2. \A k \in Conn : link'[k] = "up" /\ Shake \notin In(toServer'[k]) => k \in Named'
  BY DEF Greetings
<1>3. ASSUME NEW p \in Process, NEW k \in Conn, Signalled(p, k)'
      PROVE  ~Ahead(k)'
  <2>1. Signalled(p, k)
    BY <1>3 DEF Signalled
  <2>2. ~Ahead(k)
    BY <2>1 DEF Greetings
  <2> QED
    BY <2>2 DEF Ahead
<1> QED
  BY <1>1, <1>2, <1>3 DEF Greetings

LEMMA GreetingsStep == Base /\ Greetings /\ [Next]_vars => Greetings'
<1> SUFFICES ASSUME Base, Greetings, [Next]_vars
             PROVE  Greetings'
  OBVIOUS
<1>1. /\ \A k \in Conn : toServer[k] \in Seq(ToServer) /\ toClient[k] \in Seq(ToClient)
      /\ \A p \in Process : signals[p] \in Seq(Signal)
  BY DEF Base, Types
<1>2. /\ \A k \in Conn : Once({Shake}, toServer[k]) /\ Once(Session, toClient[k])
      /\ \A p \in Process : \A k \in Conn : Once(Of(k, Session), signals[p])
  BY DEF Greetings
<1>3. Takings =>
        /\ \A p \in Process : \A k \in Conn : Once(Of(k, Session), signals'[p])
        /\ \A p \in Process : \A k \in Conn :
             In(signals'[p]) \cap Of(k, Session) \subseteq In(signals[p])
  BY <1>2, TakingsKeep
<1>4. ASSUME NEW k \in Conn, Registers(k)
      PROVE  Greetings'
  <2>1. Named' = Named
    BY <1>4 DEF Registers, Named, Live, Base, Types
  <2> QED
    BY <1>2, <1>4, <2>1, GreetingsKept DEF Registers, ServerMoves
<1>5. ASSUME NEW k \in Conn, Leaves(k)
      PROVE  Greetings'
  <2>1. PICK out \in Message : ServerTells(ToSome(Peers(k), Asked(out)))
    BY <1>5 DEF Leaves
  <2>2. \A j \in Conn : ToSome(Peers(k), Asked(out))[j] \cap Session = {}
    BY SessionsApart DEF ToSome
  <2>3. \A j \in Conn : Once(Session, toClient'[j]) /\ In(toClient'[j]) \cap Session \subseteq In(toClient[j])
    <3> TAKE j \in Conn
    <3>1. /\ In(toClient'[j]) \cap Session = In(toClient[j]) \cap Session
          /\ Once(Session, toClient[j]) => Once(Session, toClient'[j])
      BY <2>1, <2>2, ToldKeep
    <3> QED
      BY <1>2, <3>1
  <2>4. Named' \subseteq Named /\ \A j \in Conn \ {k} : j \in Named => j \in Named'
    BY <1>5 DEF Leaves, Named, Base, Types
  <2>5. \A j \in Conn \ {k} : toServer'[j] = toServer[j] /\ link'[j] = link[j]
    BY <1>5 DEF Leaves, Base, Types
  <2>6. toServer'[k] = <<>> /\ link'[k] = "gone"
    BY <1>5 DEF Leaves, Base, Types
  <2>7. In(toServer'[k]) = {} /\ Once({Shake}, toServer'[k])
    BY <2>6, InEmpty, OnceNone
  <2>8. UNCHANGED signals
    BY <1>5 DEF Leaves, ServerMoves
  <2> QED
    BY <1>2, <2>3, <2>4, <2>5, <2>6, <2>7, <2>8, GreetingsKept
<1>6. ASSUME NEW k \in Conn, NEW s \in Session, NEW t \in [Conn -> SUBSET ToClient], Greets(k, s, t)
      PROVE  Greetings'
  <2>1. /\ Head(toServer[k]) = Shake /\ toServer[k] # <<>> /\ toServer'[k] = Tail(toServer[k])
        /\ In(toServer[k]) = {Shake} \cup In(toServer'[k])
        /\ \A j \in Conn \ {k} : toServer'[j] = toServer[j]
        /\ UNCHANGED <<link, signals>>
    BY <1>6 DEF Greets, FirstTaken, ServerMoves
  <2>2. Shake \notin In(toServer'[k]) /\ Once({Shake}, toServer'[k])
    <3>1. Once({Shake}, toServer[k]) /\ toServer[k] \in Seq(ToServer) /\ Head(toServer[k]) \in {Shake}
      BY <1>1, <1>2, <2>1
    <3>2. Once({Shake}, Tail(toServer[k])) /\ In(Tail(toServer[k])) \cap {Shake} = {}
      BY <2>1, <3>1, OnceTail
    <3> QED
      BY <2>1, <3>2
  <2>3. In(toClient[k]) \cap Session = {} /\ \A p \in Process : ~Signalled(p, k)
    BY <2>1 DEF Greetings, Ahead
  <2>4. Once(Session, toClient'[k])
    <3>1. s \in ToClient
      BY DEF ToClient
    <3>2. toClient'[k] = toClient[k] \/ toClient'[k] = Append(toClient[k], s)
      BY <1>6 DEF Greets
    <3>3. Once(Session, toClient[k]) /\ toClient[k] \in Seq(ToClient)
      BY <1>1, <1>2
    <3>4. Once(Session, Append(toClient[k], s))
      BY <2>3, <3>1, <3>3, OnceAppend
    <3> QED
      BY <3>2, <3>3, <3>4
  <2>5. \A j \in Conn \ {k} :
          /\ Once(Session, toClient'[j]) /\ In(toClient'[j]) \cap Session = In(toClient[j]) \cap Session
    <3> TAKE j \in Conn \ {k}
    <3>1. j \in Conn /\ ServerTells(t) /\ t[j] \cap Session = {}
      BY <1>6 DEF Greets
    <3>2. /\ In(toClient'[j]) \cap Session = In(toClient[j]) \cap Session
          /\ Once(Session, toClient[j]) => Once(Session, toClient'[j])
      BY <3>1, ToldKeep
    <3> QED
      BY <1>2, <3>2
  <2>6. Named' = Named \cup {k}
    BY <1>6 DEF Greets, Named, attributedRole, Base, Types
  <2>7. \A p \in Process : \A j \in Conn : Signalled(p, j)' => j # k /\ ~Ahead(j)
    BY <2>1, <2>3 DEF Signalled, Greetings
  <2>8. \A j \in Conn \ {k} : Ahead(j)' => Ahead(j)
    BY <2>1, <2>5 DEF Ahead
  <2>9. \A j \in Conn : Shake \in In(toServer'[j]) => j \notin Named' /\ In(toClient'[j]) \cap Session = {}
    BY <2>1, <2>2, <2>5, <2>6 DEF Greetings
  <2>10. \A j \in Conn : link'[j] = "up" /\ Shake \notin In(toServer'[j]) => j \in Named'
    BY <2>1, <2>6 DEF Greetings
  <2> QED
    BY <1>2, <2>1, <2>2, <2>4, <2>5, <2>7, <2>8, <2>9, <2>10 DEF Greetings
<1>7. ASSUME NEW k \in Conn, NEW m \in ToServer, NEW t \in [Conn -> SUBSET ToClient], Relays(k, m, t)
      PROVE  Greetings'
  <2>1. /\ toServer[k] # <<>> /\ toServer'[k] = Tail(toServer[k]) /\ m # Shake
        /\ In(toServer[k]) = {m} \cup In(toServer'[k])
        /\ \A j \in Conn \ {k} : toServer'[j] = toServer[j]
        /\ UNCHANGED <<link, signals, users>>
    BY <1>7 DEF Relays, FirstTaken, ServerMoves
  <2>2. Once({Shake}, toServer'[k])
    <3>1. Once({Shake}, toServer[k]) /\ toServer[k] \in Seq(ToServer)
      BY <1>1, <1>2
    <3>2. Once({Shake}, Tail(toServer[k]))
      BY <2>1, <3>1, OnceTail
    <3> QED
      BY <2>1, <3>2
  <2>3. \A j \in Conn : Once(Session, toClient'[j]) /\ In(toClient'[j]) \cap Session \subseteq In(toClient[j])
    <3> TAKE j \in Conn
    <3>1. j \in Conn /\ ServerTells(t) /\ t[j] \cap Session = {}
      BY <1>7 DEF Relays
    <3>2. /\ In(toClient'[j]) \cap Session = In(toClient[j]) \cap Session
          /\ Once(Session, toClient[j]) => Once(Session, toClient'[j])
      BY <3>1, ToldKeep
    <3> QED
      BY <1>2, <3>2
  <2>4. Named' = Named
    BY <2>1 DEF Named
  <2> QED
    BY <1>2, <2>1, <2>2, <2>3, <2>4, GreetingsKept
<1>8. ASSUME NEW k \in Conn, NEW x \in ToClient, NEW p \in Process, Receives(k, x, p)
      PROVE  Greetings'
  <2> DEFINE y == [conn |-> k, payload |-> x]
  <2>1. /\ toClient[k] # <<>> /\ toClient'[k] = Tail(toClient[k]) /\ x = Head(toClient[k])
        /\ In(toClient[k]) = {x} \cup In(toClient'[k])
        /\ \A j \in Conn \ {k} : toClient'[j] = toClient[j]
        /\ signals'[p] = Append(signals[p], y)
        /\ In(signals'[p]) = In(signals[p]) \cup {y}
        /\ \A q \in Process \ {p} : signals'[q] = signals[q]
        /\ UNCHANGED <<link, toServer, users>>
    BY <1>8 DEF Receives, Reads
  <2>2. Once(Session, toClient'[k]) /\ (x \in Session => In(toClient'[k]) \cap Session = {})
    BY <1>1, <1>2, <2>1, OnceTail
  <2>3. y \in Signal /\ \A j \in Conn : y \in Of(j, Session) <=> j = k /\ x \in Session
    BY DEF Signal, Of
  <2> HIDE DEF y
  <2>4. x \in Session => Ahead(k) /\ Shake \notin In(toServer[k]) /\ ~Signalled(p, k)
    BY <2>1 DEF Ahead, Greetings
  <2>5. \A j \in Conn : Once(Of(j, Session), signals'[p])
    <3> TAKE j \in Conn
    <3>1. y \in Of(j, Session) => In(signals[p]) \cap Of(j, Session) = {}
      BY <2>3, <2>4 DEF Signalled
    <3> QED
      BY <1>1, <1>2, <2>1, <2>3, <3>1, OnceAppend
  <2>6. ASSUME NEW q \in Process, NEW j \in Conn, Signalled(q, j)'
        PROVE  ~Ahead(j)'
    <3>1. CASE Signalled(q, j)
      <4>1. ~Ahead(j)
        BY <3>1 DEF Greetings
      <4> QED
        BY <2>1, <4>1 DEF Ahead
    <3>2. CASE ~Signalled(q, j)
      <4>1. j = k /\ x \in Session
        BY <2>1, <2>3, <2>6, <3>2 DEF Signalled
      <4> QED
        BY <2>1, <2>2, <2>4, <4>1 DEF Ahead
    <3> QED
      BY <3>1, <3>2
  <2>7. /\ \A j \in Conn : Once({Shake}, toServer'[j]) /\ Once(Session, toClient'[j])
        /\ \A q \in Process : \A j \in Conn : Once(Of(j, Session), signals'[q])
    BY <1>2, <2>1, <2>2, <2>5
  <2>8. \A j \in Conn : Shake \in In(toServer'[j]) => j \notin Named' /\ In(toClient'[j]) \cap Session = {}
    BY <2>1 DEF Greetings, Named
  <2>9. \A j \in Conn : link'[j] = "up" /\ Shake \notin In(toServer'[j]) => j \in Named'
    BY <2>1 DEF Greetings, Named
  <2> QED
    BY <2>6, <2>7, <2>8, <2>9 DEF Greetings
<1>9. ASSUME NEW k \in Conn, NEW p \in Process, Breaks(k, p)
      PROVE  Greetings'
  <2> DEFINE y == [conn |-> k, payload |-> [method |-> "Ended"]]
  <2>1. /\ toClient' = [toClient EXCEPT ![k] = <<>>] /\ link' = [link EXCEPT ![k] = "down"]
        /\ signals'[p] = Append(signals[p], y)
        /\ In(signals'[p]) = In(signals[p]) \cup {y}
        /\ \A q \in Process \ {p} : signals'[q] = signals[q]
        /\ UNCHANGED <<toServer, users>>
    BY <1>9 DEF Breaks, Fails
  <2>2. y \in Signal /\ \A j \in Conn : y \notin Of(j, Session)
    BY DEF Signal, Of, Session
  <2> HIDE DEF y
  <2>3. \A j \in Conn : Once(Session, toClient'[j]) /\ In(toClient'[j]) \subseteq In(toClient[j])
    BY <1>2, <2>1, InEmpty, OnceNone DEF Base, Types
  <2>4. \A q \in Process : \A j \in Conn : Once(Of(j, Session), signals'[q])
    <3>1. \A j \in Conn : Once(Of(j, Session), Append(signals[p], y))
      BY <1>1, <1>2, <2>2, OnceAppend
    <3> QED
      BY <1>2, <2>1, <3>1
  <2>5. \A q \in Process : \A j \in Conn : In(signals'[q]) \cap Of(j, Session) \subseteq In(signals[q])
    BY <2>1, <2>2
  <2>6. Named' = Named /\ \A j \in Conn : link'[j] = "up" => link[j] = "up"
    BY <2>1 DEF Named, Base, Types
  <2> QED
    BY <1>2, <2>1, <2>3, <2>4, <2>5, <2>6, GreetingsKept
<1>10. CASE Quiet
  <2>1. \A k \in Conn : /\ Once({Shake}, toServer'[k])
                        /\ Shake \in In(toServer'[k]) <=> Shake \in In(toServer[k])
    <3>1. CASE toServer' = toServer
      BY <1>2, <3>1
    <3>2. CASE \E p \in Process, x \in ToServer : ClientTells(p, x) /\ x # Shake
      BY <1>2, <3>2, TellsKeep
    <3> QED
      BY <1>10, <3>1, <3>2 DEF Quiet
  <2>2. Named' = Named /\ UNCHANGED <<link, toClient>> /\ Takings
    BY <1>10 DEF Quiet, Named
  <2> QED
    BY <1>2, <1>3, <2>1, <2>2, GreetingsKept
<1>11. ASSUME NEW p \in Process, NEW k \in Opened, NEW m \in Session, Welcomes(p, k, m)
       PROVE  Greetings'
  <2>1. \A j \in Conn : /\ Once({Shake}, toServer'[j])
                        /\ Shake \in In(toServer'[j]) <=> Shake \in In(toServer[j])
    <3>1. CASE toServer' = toServer
      BY <1>2, <3>1
    <3>2. CASE \E x \in Music : ClientTells(p, x)
      <4>1. PICK x \in Music : ClientTells(p, x)
        BY <3>2
      <4>2. x \in ToServer /\ x # Shake
        BY MusicIsSent, ShakeSent
      <4> QED
        BY <1>2, <4>1, <4>2, TellsKeep
    <3> QED
      BY <1>11, <3>1, <3>2 DEF Welcomes
  <2>2. Named' = Named /\ UNCHANGED <<link, toClient>> /\ Takings
    BY <1>11 DEF Welcomes, Named
  <2> QED
    BY <1>2, <1>3, <2>1, <2>2, GreetingsKept
<1>12. ASSUME NEW p \in Process, NEW k \in Opened, Closes(p, k)
       PROVE  Greetings'
  <2>1. /\ toClient' = [toClient EXCEPT ![k] = <<>>] /\ link' = [link EXCEPT ![k] = "down"]
        /\ UNCHANGED <<toServer, users>> /\ Takings
    BY <1>12 DEF Closes, Ends
  <2>2. \A j \in Conn : Once(Session, toClient'[j]) /\ In(toClient'[j]) \subseteq In(toClient[j])
    BY <1>2, <2>1, InEmpty, OnceNone DEF Base, Types
  <2>3. Named' = Named /\ \A j \in Conn : link'[j] = "up" => link[j] = "up"
    BY <2>1 DEF Named, Base, Types
  <2> QED
    BY <1>2, <1>3, <2>1, <2>2, <2>3, GreetingsKept
<1>13. ASSUME NEW p \in Process, NEW k \in Conn \ Opened, Opens(p, k)
       PROVE  Greetings'
  <2>1. /\ link[k] = "idle" /\ link' = [link EXCEPT ![k] = "up"]
        /\ toServer'[k] = <<Shake>> /\ In(toServer'[k]) = {Shake}
        /\ \A j \in Conn \ {k} : toServer'[j] = toServer[j]
        /\ UNCHANGED <<users, toClient, signals>>
    BY <1>13 DEF Opens
  <2>2. Once({Shake}, toServer'[k])
    BY <2>1 DEF Once
  <2>3. k \notin Named /\ In(toClient[k]) = {} /\ \A q \in Process : ~Signalled(q, k)
    BY <2>1 DEF Base, Connections, Live, Named, Signalled, Of
  <2>4. \A j \in Conn \ {k} : link'[j] = link[j]
    BY <2>1 DEF Base, Types
  <2>5. Named' = Named /\ \A q \in Process, j \in Conn : Signalled(q, j)' = Signalled(q, j)
    BY <2>1 DEF Named, Signalled
  <2>6. \A j \in Conn \ {k} : Ahead(j)' = Ahead(j)
    BY <2>1 DEF Ahead
  <2>7. \A j \in Conn : Shake \in In(toServer'[j]) => j \notin Named' /\ In(toClient'[j]) \cap Session = {}
    BY <2>1, <2>3, <2>5 DEF Greetings
  <2>8. \A j \in Conn : link'[j] = "up" /\ Shake \notin In(toServer'[j]) => j \in Named'
    BY <2>1, <2>4, <2>5 DEF Greetings
  <2>9. \A q \in Process : \A j \in Conn : Signalled(q, j)' => ~Ahead(j)'
    BY <2>3, <2>5, <2>6 DEF Greetings
  <2>10. \A j \in Conn : Once({Shake}, toServer'[j])
    BY <1>2, <2>1, <2>2
  <2> QED
    BY <1>2, <2>1, <2>7, <2>8, <2>9, <2>10 DEF Greetings
<1>14. CASE ServerMove
  BY <1>4, <1>5, <1>6, <1>7, <1>14 DEF ServerMove
<1>15. CASE ClientMove
  BY <1>8, <1>9, <1>15 DEF ClientMove
<1>16. CASE InterfaceMove
  BY <1>10, <1>11, <1>12, <1>13, <1>16 DEF InterfaceMove
<1> QED
  BY <1>14, <1>15, <1>16, Moved

---------------------------------------------------------------------------
(* One connection hosts *)

LEMMA SessionMethod == \A x \in ToClient : x.method = "Session" <=> x \in Session
BY DEF ToClient, Session, Music

LEMMA HostingKept ==
  ASSUME Hosting, Host' \subseteq Host,
         \A k \in Host' : processOf'[k] = processOf[k],
         \A k \in Conn : In(toClient'[k]) \cap Session \subseteq In(toClient[k]),
         \A k \in Conn : In(toClient'[k]) \cap Session # {} \/ link'[k] = "up" =>
                           (k \in Host => k \in Host'),
         \A k \in Conn : link'[k] = "up" => link[k] = "up",
         \A p \in Process : \A k \in Opened' : client'[p] = k =>
           k \in Opened /\ k \in Conn /\ client[p] = k /\ hostAble'[p] = hostAble[p],
         \A p \in Process : \A k \in Conn :
           In(signals'[p]) \cap Of(k, Session) \subseteq In(signals[p])
  PROVE  Hosting'
<1>1. (\A k \in Host' : processOf'[k] \in Loopback) /\ \A j, k \in Host' : j = k
  BY DEF Hosting
<1>2. \A k \in Conn : \A x \in In(toClient'[k]) \cap Session : x.host <=> k \in Host'
  BY DEF Hosting
<1>3. ASSUME NEW p \in Process, NEW k \in Opened', client'[p] = k,
             NEW y \in In(signals'[p]) \cap Of(k, Session)
      PROVE  (y.payload.host <=> hostAble'[p]) /\ (link'[k] = "up" => (hostAble'[p] <=> k \in Host'))
  <2>1. /\ k \in Opened /\ k \in Conn /\ client[p] = k /\ hostAble'[p] = hostAble[p]
        /\ y \in In(signals[p]) \cap Of(k, Session)
    BY <1>3
  <2>2. (y.payload.host <=> hostAble[p]) /\ (link[k] = "up" => (hostAble[p] <=> k \in Host))
    BY <2>1 DEF Hosting
  <2> QED
    BY <2>1, <2>2
<1> QED
  BY <1>1, <1>2, <1>3 DEF Hosting

LEMMA HostingStep == Base /\ Greetings /\ Hosting /\ [Next]_vars => Hosting'
<1> SUFFICES ASSUME Base, Greetings, Hosting, [Next]_vars
             PROVE  Hosting'
  OBVIOUS
<1>1. Opened \subseteq Conn /\ Host \subseteq Opened /\ Host \subseteq Conn /\ NoConn \notin Conn
  BY ConnFacts DEF Host, Live, Base, Connections
<1>2. Takings => \A p \in Process : \A k \in Conn :
                   In(signals'[p]) \cap Of(k, Session) \subseteq In(signals[p])
  BY TakingsKeep
<1>3. UNCHANGED processOf => Opened' = Opened
  BY DEF Opened
<1>4. UNCHANGED users => Host' = Host
  BY DEF Host
<1>5. ASSUME NEW k \in Conn, Registers(k)
      PROVE  Hosting'
  <2>1. Host' = Host
    BY <1>5 DEF Registers, Host, Live, Base, Types
  <2> QED
    BY <1>1, <1>3, <1>5, <2>1, HostingKept DEF Registers, ServerMoves
<1>6. ASSUME NEW k \in Conn, Leaves(k)
      PROVE  Hosting'
  <2>1. PICK out \in Message : ServerTells(ToSome(Peers(k), Asked(out)))
    BY <1>6 DEF Leaves
  <2>2. \A j \in Conn : In(toClient'[j]) \cap Session = In(toClient[j]) \cap Session
    <3> TAKE j \in Conn
    <3>1. ToSome(Peers(k), Asked(out))[j] \cap Session = {}
      BY SessionsApart DEF ToSome
    <3> QED
      BY <2>1, <3>1, ToldSessions
  <2>3. Host' \subseteq Host /\ \A j \in Conn \ {k} : j \in Host => j \in Host'
    BY <1>6 DEF Leaves, Host, Base, Types
  <2>4. /\ In(toClient[k]) = {} /\ link'[k] = "gone"
        /\ \A j \in Conn \ {k} : link'[j] = link[j]
    <3>1. link[k] = "down" /\ link' = [link EXCEPT ![k] = "gone"]
      BY <1>6 DEF Leaves
    <3>2. In(toClient[k]) = {}
      BY <3>1 DEF Base, Connections
    <3> QED
      BY <3>1, <3>2 DEF Base, Types
  <2>5. UNCHANGED <<processOf, client, hostAble, signals>>
    BY <1>6 DEF Leaves, ServerMoves
  <2> QED
    BY <1>1, <1>3, <2>2, <2>3, <2>4, <2>5, HostingKept
<1>7. ASSUME NEW k \in Conn, NEW s \in Session, NEW t \in [Conn -> SUBSET ToClient], Greets(k, s, t)
      PROVE  Hosting'
  <2>1. /\ Shake \in In(toServer[k]) /\ k \in Live
        /\ users' = [users EXCEPT ![k] = attributedRole(k)]
        /\ s.host <=> attributedRole(k) = "host"
        /\ UNCHANGED <<link, processOf, client, hostAble, signals>>
    BY <1>7 DEF Greets, FirstTaken, ServerMoves
  <2>2. k \notin Named /\ In(toClient[k]) \cap Session = {} /\ \A p \in Process : ~Signalled(p, k)
    BY <2>1 DEF Greetings, Ahead
  <2>3. k \notin Host /\ Host' = IF attributedRole(k) = "host" THEN Host \cup {k} ELSE Host
    BY <2>1, <2>2 DEF Host, Named, Base, Types
  <2>4. attributedRole(k) = "host" => Host = {} /\ processOf[k] \in Loopback
    BY DEF attributedRole
  <2>5. In(toClient'[k]) \cap Session \subseteq {s}
    <3>1. s \in ToClient /\ toClient[k] \in Seq(ToClient)
      BY DEF ToClient, Base, Types
    <3>2. In(Append(toClient[k], s)) = In(toClient[k]) \cup {s}
      BY <3>1, InAppend
    <3> QED
      BY <1>7, <2>2, <3>2 DEF Greets
  <2>6. \A j \in Conn \ {k} : In(toClient'[j]) \cap Session = In(toClient[j]) \cap Session
    <3> TAKE j \in Conn \ {k}
    <3>1. j \in Conn /\ ServerTells(t) /\ t[j] \cap Session = {}
      BY <1>7 DEF Greets
    <3> QED
      BY <3>1, ToldSessions
  <2>7. (\A j \in Host' : processOf'[j] \in Loopback) /\ \A i, j \in Host' : i = j
    BY <2>1, <2>3, <2>4 DEF Hosting
  <2>8. \A j \in Conn : \A x \in In(toClient'[j]) \cap Session : x.host <=> j \in Host'
    <3>1. ASSUME NEW x \in In(toClient'[k]) \cap Session
          PROVE  x.host <=> k \in Host'
      BY <2>1, <2>3, <2>5
    <3>2. ASSUME NEW j \in Conn \ {k}, NEW x \in In(toClient'[j]) \cap Session
          PROVE  x.host <=> j \in Host'
      BY <2>3, <2>6 DEF Hosting
    <3> QED
      BY <3>1, <3>2
  <2>9. ASSUME NEW p \in Process, NEW j \in Opened', client'[p] = j,
               NEW y \in In(signals'[p]) \cap Of(j, Session)
        PROVE  (y.payload.host <=> hostAble'[p]) /\ (link'[j] = "up" => (hostAble'[p] <=> j \in Host'))
    <3>1. j \in Opened /\ client[p] = j /\ y \in In(signals[p]) \cap Of(j, Session)
      BY <1>3, <2>1, <2>9
    <3>2. j # k
      BY <2>2, <3>1 DEF Signalled
    <3>3. (y.payload.host <=> hostAble[p]) /\ (link[j] = "up" => (hostAble[p] <=> j \in Host))
      BY <3>1 DEF Hosting
    <3> QED
      BY <2>1, <2>3, <3>2, <3>3
  <2> QED
    BY <2>7, <2>8, <2>9 DEF Hosting
<1>8. ASSUME NEW k \in Conn, NEW m \in ToServer, NEW t \in [Conn -> SUBSET ToClient], Relays(k, m, t)
      PROVE  Hosting'
  <2>1. \A j \in Conn : In(toClient'[j]) \cap Session = In(toClient[j]) \cap Session
    <3> TAKE j \in Conn
    <3>1. j \in Conn /\ ServerTells(t) /\ t[j] \cap Session = {}
      BY <1>8 DEF Relays
    <3> QED
      BY <3>1, ToldSessions
  <2> QED
    BY <1>1, <1>3, <1>4, <1>8, <2>1, HostingKept DEF Relays, FirstTaken, ServerMoves
<1>9. ASSUME NEW k \in Conn, NEW x \in ToClient, NEW p \in Process, Receives(k, x, p)
      PROVE  Hosting'
  <2> DEFINE y == [conn |-> k, payload |-> x]
  <2>1. /\ client[p] = k /\ k \in Opened
        /\ In(toClient[k]) = {x} \cup In(toClient'[k])
        /\ \A j \in Conn \ {k} : toClient'[j] = toClient[j]
        /\ In(signals'[p]) = In(signals[p]) \cup {y}
        /\ \A q \in Process \ {p} : signals'[q] = signals[q]
        /\ hostAble' = IF x.method = "Session" THEN [hostAble EXCEPT ![p] = x.host] ELSE hostAble
        /\ UNCHANGED <<link, processOf, users, client>>
    BY <1>9 DEF Receives, Reads
  <2>2. y.payload = x /\ \A j \in Conn : y \in Of(j, Session) <=> j = k /\ x \in Session
    BY DEF Of
  <2> HIDE DEF y
  <2>3. Host' = Host /\ Opened' = Opened
    BY <1>3, <1>4, <2>1
  <2>4. \A j \in Conn : In(toClient'[j]) \subseteq In(toClient[j])
    BY <2>1
  <2>5. \A q \in Process \ {p} : hostAble'[q] = hostAble[q]
    BY <2>1 DEF Base, Types
  <2>6. CASE x \in Session
    <3>1. ~Signalled(p, k) /\ (x.host <=> k \in Host)
      BY <2>1, <2>6 DEF Ahead, Greetings, Hosting
    <3>2. hostAble'[p] = x.host
      BY <2>1, <2>6, SessionMethod DEF Base, Types
    <3>3. In(signals'[p]) \cap Of(k, Session) \subseteq {y}
      BY <2>1, <3>1 DEF Signalled
    <3>4. ASSUME NEW q \in Process, NEW j \in Opened', client'[q] = j,
                 NEW z \in In(signals'[q]) \cap Of(j, Session)
          PROVE  (z.payload.host <=> hostAble'[q]) /\ (link'[j] = "up" => (hostAble'[q] <=> j \in Host'))
      <4>1. CASE q = p
        BY <2>1, <2>2, <2>3, <3>1, <3>2, <3>3, <3>4, <4>1
      <4>2. CASE q # p
        <5>1. /\ client[q] = j /\ j \in Opened /\ z \in In(signals[q]) \cap Of(j, Session)
              /\ hostAble'[q] = hostAble[q]
          BY <2>1, <2>3, <2>5, <3>4, <4>2
        <5> QED
          BY <2>1, <2>3, <5>1 DEF Hosting
      <4> QED
        BY <4>1, <4>2
    <3> QED
      BY <2>1, <2>3, <2>4, <3>4 DEF Hosting
  <2>7. CASE x \notin Session
    <3>1. UNCHANGED hostAble
      BY <2>1, <2>7, SessionMethod
    <3>2. \A q \in Process : \A j \in Conn : In(signals'[q]) \cap Of(j, Session) \subseteq In(signals[q])
      BY <2>1, <2>2, <2>7
    <3> QED
      BY <1>1, <2>1, <2>3, <2>4, <3>1, <3>2, HostingKept
  <2> QED
    BY <2>6, <2>7
<1>10. ASSUME NEW k \in Conn, NEW p \in Process, Breaks(k, p)
       PROVE  Hosting'
  <2> DEFINE y == [conn |-> k, payload |-> [method |-> "Ended"]]
  <2>1. /\ toClient' = [toClient EXCEPT ![k] = <<>>] /\ link' = [link EXCEPT ![k] = "down"]
        /\ In(signals'[p]) = In(signals[p]) \cup {y}
        /\ \A q \in Process \ {p} : signals'[q] = signals[q]
        /\ UNCHANGED <<processOf, users, client, hostAble>>
    BY <1>10 DEF Breaks, Fails
  <2>2. \A j \in Conn : y \notin Of(j, Session)
    BY DEF Of, Session
  <2> HIDE DEF y
  <2>3. \A q \in Process : \A j \in Conn : In(signals'[q]) \cap Of(j, Session) \subseteq In(signals[q])
    BY <2>1, <2>2
  <2>4. /\ \A j \in Conn : In(toClient'[j]) \subseteq In(toClient[j])
        /\ \A j \in Conn : link'[j] = "up" => link[j] = "up"
    BY <2>1, InEmpty DEF Base, Types
  <2> QED
    BY <1>1, <1>3, <1>4, <2>1, <2>3, <2>4, HostingKept
<1>11. CASE Quiet
  BY <1>1, <1>2, <1>3, <1>4, <1>11, HostingKept DEF Quiet
<1>12. ASSUME NEW p \in Process, NEW k \in Opened, NEW m \in Session, Welcomes(p, k, m)
       PROVE  Hosting'
  BY <1>1, <1>2, <1>3, <1>4, <1>12, HostingKept DEF Welcomes
<1>13. ASSUME NEW p \in Process, NEW k \in Opened, Closes(p, k)
       PROVE  Hosting'
  <2>1. /\ toClient' = [toClient EXCEPT ![k] = <<>>] /\ link' = [link EXCEPT ![k] = "down"]
        /\ client' = [client EXCEPT ![p] = NoConn] /\ hostAble' = [hostAble EXCEPT ![p] = TRUE]
        /\ UNCHANGED <<processOf, users>> /\ Takings
    BY <1>13 DEF Closes, Ends
  <2>2. /\ \A j \in Conn : In(toClient'[j]) \subseteq In(toClient[j])
        /\ \A j \in Conn : link'[j] = "up" => link[j] = "up"
    BY <2>1, InEmpty DEF Base, Types
  <2>3. \A q \in Process : \A j \in Opened : client'[q] = j =>
          client[q] = j /\ hostAble'[q] = hostAble[q]
    BY <1>1, <2>1 DEF Base, Types
  <2> QED
    BY <1>1, <1>2, <1>3, <1>4, <2>1, <2>2, <2>3, HostingKept
<1>14. ASSUME NEW p \in Process, NEW k \in Conn \ Opened, Opens(p, k)
       PROVE  Hosting'
  <2>1. /\ Opened' = Opened \cup {k} /\ link' = [link EXCEPT ![k] = "up"]
        /\ \A j \in Opened : processOf'[j] = processOf[j]
        /\ client' = [client EXCEPT ![p] = k]
        /\ UNCHANGED <<users, toClient, hostAble, signals>>
    BY <1>14 DEF Opens
  <2>2. Host' = Host
    BY <1>4, <2>1
  <2>3. (\A j \in Host' : processOf'[j] \in Loopback) /\ \A i, j \in Host' : i = j
    BY <1>1, <2>1, <2>2 DEF Hosting
  <2>4. \A j \in Conn : \A x \in In(toClient'[j]) \cap Session : x.host <=> j \in Host'
    BY <2>1, <2>2 DEF Hosting
  <2>5. ASSUME NEW q \in Process, NEW j \in Opened', client'[q] = j,
               NEW z \in In(signals'[q]) \cap Of(j, Session)
        PROVE  (z.payload.host <=> hostAble'[q]) /\ (link'[j] = "up" => (hostAble'[q] <=> j \in Host'))
    <3>1. j # k /\ j \in Opened
      <4>1. z.conn = j /\ z \in In(signals[q])
        BY <2>1, <2>5 DEF Of
      <4>2. z.conn \in Opened
        BY <4>1 DEF Base, Connections
      <4> QED
        BY <4>1, <4>2
    <3>2. client[q] = j
      BY <2>1, <2>5, <3>1 DEF Base, Types
    <3>3. link'[j] = link[j]
      BY <1>1, <2>1, <3>1 DEF Base, Types
    <3> QED
      BY <2>1, <2>2, <2>5, <3>1, <3>2, <3>3 DEF Hosting
  <2> QED
    BY <2>3, <2>4, <2>5 DEF Hosting
<1>15. CASE ServerMove
  BY <1>5, <1>6, <1>7, <1>8, <1>15 DEF ServerMove
<1>16. CASE ClientMove
  BY <1>9, <1>10, <1>16 DEF ClientMove
<1>17. CASE InterfaceMove
  BY <1>11, <1>12, <1>13, <1>14, <1>17 DEF InterfaceMove
<1> QED
  BY <1>15, <1>16, <1>17, Moved

---------------------------------------------------------------------------
(* Who is in charge of the music *)

LEMMA TakingsShrink ==
  Base /\ Takings => \A p \in Process : In(signals'[p]) \subseteq In(signals[p])
BY TakingsKeep

LEMMA MasteredKept ==
  ASSUME NEW p \in Process, Mastered(p), Keeps(audio[p], audio'[p]), button'[p] = button[p],
         hostAble'[p] = hostAble[p],
         \A k \in Opened' : client'[p] = k =>
           /\ k \in Opened /\ client[p] = k
           /\ Ahead(k)' /\ ~Signalled(p, k) => Ahead(k)
           /\ Signalled(p, k)' => Signalled(p, k)
           /\ link'[k] = "up" /\ ~Ahead(k) => link[k] = "up" /\ (k \in Host' <=> k \in Host)
  PROVE  Mastered(p)'
BY DEF Mastered, Keeps

LEMMA MasteringStep == Base /\ Greetings /\ Hosting /\ Mastering /\ [Next]_vars => Mastering'
<1> SUFFICES ASSUME Base, Greetings, Hosting, Mastering, [Next]_vars, "late" \notin slips'
             PROVE  \A p \in Process : Mastered(p)'
  BY DEF Mastering
<1>1. \A p \in Process : Mastered(p)
  BY SlipsGrow DEF Mastering
<1>2. Opened \subseteq Conn /\ NoConn \notin Conn
  BY ConnFacts
<1>3. UNCHANGED processOf => Opened' = Opened
  BY DEF Opened
<1>4. UNCHANGED users => Host' = Host
  BY DEF Host
<1>5. UNCHANGED audio => \A p \in Process : Keeps(audio[p], audio'[p])
  BY DEF Keeps
<1>6. Takings => \A p \in Process : \A k \in Conn : Signalled(p, k)' => Signalled(p, k)
  BY TakingsShrink DEF Signalled
<1>7. UNCHANGED signals => \A p \in Process : \A k \in Conn : Signalled(p, k)' => Signalled(p, k)
  BY DEF Signalled
<1>8. ASSUME NEW k \in Conn, Registers(k)
      PROVE  \A p \in Process : Mastered(p)'
  <2>1. Host' = Host
    BY <1>8 DEF Registers, Host, Live, Base, Types
  <2>2. \A j \in Conn : Ahead(j)' => Ahead(j)
    BY <1>8 DEF Registers, Ahead
  <2> QED
    BY <1>1, <1>2, <1>3, <1>5, <1>7, <1>8, <2>1, <2>2, MasteredKept DEF Registers, ServerMoves
<1>9. ASSUME NEW k \in Conn, Leaves(k)
      PROVE  \A p \in Process : Mastered(p)'
  <2>1. PICK out \in Message : ServerTells(ToSome(Peers(k), Asked(out)))
    BY <1>9 DEF Leaves
  <2>2. \A j \in Conn : In(toClient'[j]) \cap Session = In(toClient[j]) \cap Session
    <3> TAKE j \in Conn
    <3>1. ToSome(Peers(k), Asked(out))[j] \cap Session = {}
      BY SessionsApart DEF ToSome
    <3> QED
      BY <2>1, <3>1, ToldSessions
  <2>3. \A j \in Conn : In(toServer'[j]) \subseteq In(toServer[j])
    BY <1>9, InEmpty DEF Leaves, Base, Types
  <2>4. \A j \in Conn : Ahead(j)' => Ahead(j)
    BY <2>2, <2>3 DEF Ahead
  <2>5. \A j \in Conn : link'[j] = "up" => link[j] = "up" /\ (j \in Host' <=> j \in Host)
    <3>1. link' = [link EXCEPT ![k] = "gone"] /\ users' = [users EXCEPT ![k] = "absent"]
      BY <1>9 DEF Leaves
    <3> QED
      BY <3>1 DEF Host, Base, Types
  <2> QED
    BY <1>1, <1>2, <1>3, <1>5, <1>7, <1>9, <2>4, <2>5, MasteredKept DEF Leaves, ServerMoves
<1>10. ASSUME NEW k \in Conn, NEW s \in Session, NEW t \in [Conn -> SUBSET ToClient], Greets(k, s, t)
       PROVE  \A p \in Process : Mastered(p)'
  <2>1. Ahead(k) /\ k \in Conn /\ \A p \in Process : ~Signalled(p, k)
    BY <1>10 DEF Greets, FirstTaken, Ahead, Greetings
  <2>2. \A j \in Conn \ {k} : In(toClient'[j]) \cap Session = In(toClient[j]) \cap Session
    <3> TAKE j \in Conn \ {k}
    <3>1. j \in Conn /\ ServerTells(t) /\ t[j] \cap Session = {}
      BY <1>10 DEF Greets
    <3> QED
      BY <3>1, ToldSessions
  <2>3. \A j \in Conn : Ahead(j)' => Ahead(j)
    BY <1>10, <2>1, <2>2 DEF Greets, FirstTaken, Ahead
  <2>4. \A j \in Conn \ {k} : link'[j] = link[j] /\ (j \in Host' <=> j \in Host)
    BY <1>10 DEF Greets, FirstTaken, Host, Base, Types
  <2> QED
    BY <1>1, <1>2, <1>3, <1>5, <1>7, <1>10, <2>1, <2>3, <2>4, MasteredKept DEF Greets, ServerMoves
<1>11. ASSUME NEW k \in Conn, NEW m \in ToServer, NEW t \in [Conn -> SUBSET ToClient], Relays(k, m, t)
       PROVE  \A p \in Process : Mastered(p)'
  <2>1. \A j \in Conn : In(toClient'[j]) \cap Session = In(toClient[j]) \cap Session
    <3> TAKE j \in Conn
    <3>1. j \in Conn /\ ServerTells(t) /\ t[j] \cap Session = {}
      BY <1>11 DEF Relays
    <3> QED
      BY <3>1, ToldSessions
  <2>2. \A j \in Conn : Ahead(j)' => Ahead(j)
    BY <1>11, <2>1 DEF Relays, FirstTaken, Ahead
  <2> QED
    BY <1>1, <1>2, <1>3, <1>4, <1>5, <1>7, <1>11, <2>2, MasteredKept DEF Relays, FirstTaken, ServerMoves
<1>12. ASSUME NEW k \in Conn, NEW x \in ToClient, NEW p \in Process, Receives(k, x, p)
       PROVE  \A q \in Process : Mastered(q)'
  <2> DEFINE y == [conn |-> k, payload |-> x]
  <2>1. /\ client[p] = k /\ k \in Opened
        /\ In(toClient[k]) = {x} \cup In(toClient'[k])
        /\ \A j \in Conn \ {k} : toClient'[j] = toClient[j]
        /\ In(signals'[p]) = In(signals[p]) \cup {y}
        /\ \A q \in Process \ {p} : signals'[q] = signals[q]
        /\ hostAble' = IF x.method = "Session" THEN [hostAble EXCEPT ![p] = x.host] ELSE hostAble
        /\ UNCHANGED <<link, processOf, users, client, toServer, button, audio>>
    BY <1>12 DEF Receives, Reads
  <2>2. \A j \in Conn : y \in Of(j, Session) <=> j = k /\ x \in Session
    BY DEF Of
  <2> HIDE DEF y
  <2>3. Host' = Host /\ Opened' = Opened
    BY <1>3, <1>4, <2>1
  <2>4. \A j \in Conn : Ahead(j)' => Ahead(j)
    BY <2>1 DEF Ahead
  <2>5. \A q \in Process \ {p} : /\ hostAble'[q] = hostAble[q]
                                /\ \A j \in Conn : Signalled(q, j)' => Signalled(q, j)
    BY <2>1 DEF Base, Types, Signalled
  <2>6. \A q \in Process \ {p} : Mastered(q)'
    BY <1>1, <1>2, <1>5, <2>1, <2>3, <2>4, <2>5, MasteredKept
  <2>7. Mastered(p)'
    <3>1. CASE x \in Session
      <4>1. Ahead(k)
        BY <2>1, <3>1 DEF Ahead
      <4>2. button[p] # "Connected"
        BY <1>1, <2>1, <4>1 DEF Mastered
      <4> QED
        BY <1>1, <2>1, <4>2 DEF Mastered
    <3>2. CASE x \notin Session
      <4>1. hostAble' = hostAble
        BY <2>1, <3>2, SessionMethod
      <4>2. \A j \in Conn : Signalled(p, j)' => Signalled(p, j)
        BY <2>1, <2>2, <3>2 DEF Signalled
      <4> QED
        BY <1>1, <1>2, <1>5, <2>1, <2>3, <2>4, <4>1, <4>2, MasteredKept
    <3> QED
      BY <3>1, <3>2
  <2> QED
    BY <2>6, <2>7
<1>13. ASSUME NEW k \in Conn, NEW p \in Process, Breaks(k, p)
       PROVE  \A q \in Process : Mastered(q)'
  <2> DEFINE y == [conn |-> k, payload |-> [method |-> "Ended"]]
  <2>1. /\ toClient' = [toClient EXCEPT ![k] = <<>>] /\ link' = [link EXCEPT ![k] = "down"]
        /\ In(signals'[p]) = In(signals[p]) \cup {y}
        /\ \A q \in Process \ {p} : signals'[q] = signals[q]
        /\ UNCHANGED <<processOf, users, client, hostAble, toServer, button, audio>>
    BY <1>13 DEF Breaks, Fails
  <2>2. \A j \in Conn : y \notin Of(j, Session)
    BY DEF Of, Session
  <2> HIDE DEF y
  <2>3. \A q \in Process : \A j \in Conn : Signalled(q, j)' => Signalled(q, j)
    BY <2>1, <2>2 DEF Signalled
  <2>4. /\ \A j \in Conn : Ahead(j)' => Ahead(j)
        /\ \A j \in Conn : link'[j] = "up" => link[j] = "up"
    BY <2>1, InEmpty DEF Base, Types, Ahead
  <2> QED
    BY <1>1, <1>2, <1>3, <1>4, <1>5, <2>1, <2>3, <2>4, MasteredKept
<1>14. CASE Quiet
  <2>1. \A k \in Conn : Shake \in In(toServer'[k]) <=> Shake \in In(toServer[k])
    <3>1. CASE toServer' = toServer
      BY <3>1
    <3>2. CASE \E p \in Process, x \in ToServer : ClientTells(p, x) /\ x # Shake
      BY <3>2, TellsKeep
    <3> QED
      BY <1>14, <3>1, <3>2 DEF Quiet
  <2>2. \A k \in Conn : Ahead(k)' => Ahead(k)
    BY <1>14, <2>1 DEF Quiet, Ahead
  <2>3. \A p \in Process : Keeps(audio[p], audio'[p])
    BY <1>14 DEF Quiet, SameRoles, Keeps
  <2> QED
    BY <1>1, <1>2, <1>3, <1>4, <1>6, <1>14, <2>2, <2>3, MasteredKept DEF Quiet
<1>15. ASSUME NEW p \in Process, NEW k \in Opened, NEW m \in Session, Welcomes(p, k, m)
       PROVE  \A q \in Process : Mastered(q)'
  <2> DEFINE y == [conn |-> k, payload |-> m]
  <2>1. /\ client[p] = k
        /\ signals[p] # <<>> /\ Head(signals[p]) = y /\ signals'[p] = Tail(signals[p])
        /\ UNCHANGED <<processOf, link, users, client, hostAble, toClient>> /\ Takings
        /\ button' = [button EXCEPT ![p] = "Connected"]
        /\ \A q \in Process \ {p} : audio'[q] = audio[q]
        /\ audio'[p].master = hostAble[p] /\ audio'[p].localOnly = audio[p].localOnly
    BY <1>15 DEF Welcomes
  <2>2. y \in Of(k, Session) /\ y.payload = m
    BY DEF Of
  <2> HIDE DEF y
  <2>3. \A j \in Conn : Shake \in In(toServer'[j]) <=> Shake \in In(toServer[j])
    <3>1. CASE toServer' = toServer
      BY <3>1
    <3>2. CASE \E x \in Music : ClientTells(p, x)
      <4>1. PICK x \in Music : ClientTells(p, x)
        BY <3>2
      <4>2. x \in ToServer /\ x # Shake
        BY MusicIsSent, ShakeSent
      <4> QED
        BY <4>1, <4>2, TellsKeep
    <3> QED
      BY <1>15, <3>1, <3>2 DEF Welcomes
  <2>4. \A j \in Conn : Ahead(j)' => Ahead(j)
    BY <2>1, <2>3 DEF Ahead
  <2>5. \A q \in Process \ {p} : Mastered(q)'
    <3>1. \A q \in Process \ {p} : Keeps(audio[q], audio'[q]) /\ button'[q] = button[q]
      BY <2>1 DEF Keeps, Base, Types
    <3> QED
      BY <1>1, <1>2, <1>3, <1>4, <1>6, <2>1, <2>4, <3>1, MasteredKept
  <2>6. signals[p] \in Seq(Signal)
    BY DEF Base, Types
  <2>7. y \in In(signals[p]) /\ Signalled(p, k)
    BY <2>1, <2>2, <2>6, InTail DEF Signalled
  <2>8. ~Ahead(k) /\ Once(Of(k, Session), signals[p])
    BY <1>2, <2>7 DEF Greetings
  <2>9. ~Signalled(p, k)'
    BY <2>1, <2>2, <2>6, <2>8, OnceTail DEF Signalled
  <2>10. link[k] = "up" => (hostAble[p] <=> k \in Host)
    BY <2>1, <2>2, <2>7 DEF Hosting
  <2>11. button[p] # "NotConnected" /\ button'[p] = "Connected"
    BY <1>2, <2>1 DEF Base, Types, Connections
  <2>12. Mastered(p)'
    BY <1>1, <1>2, <1>3, <1>4, <2>1, <2>4, <2>8, <2>9, <2>10, <2>11 DEF Mastered
  <2> QED
    BY <2>5, <2>12
<1>16. ASSUME NEW p \in Process, NEW k \in Opened, Closes(p, k)
       PROVE  \A q \in Process : Mastered(q)'
  <2>1. /\ toClient' = [toClient EXCEPT ![k] = <<>>] /\ link' = [link EXCEPT ![k] = "down"]
        /\ client' = [client EXCEPT ![p] = NoConn] /\ hostAble' = [hostAble EXCEPT ![p] = TRUE]
        /\ button' = [button EXCEPT ![p] = "NotConnected"]
        /\ audio' = [audio EXCEPT ![p] = streamClosed(@)]
        /\ UNCHANGED <<processOf, users, toServer>> /\ Takings
    BY <1>16 DEF Closes, Ends
  <2>2. /\ \A j \in Conn : Ahead(j)' => Ahead(j)
        /\ \A j \in Conn : link'[j] = "up" => link[j] = "up"
    BY <2>1, InEmpty DEF Base, Types, Ahead
  <2>3. \A q \in Process \ {p} : /\ Keeps(audio[q], audio'[q]) /\ button'[q] = button[q]
                                /\ client'[q] = client[q] /\ hostAble'[q] = hostAble[q]
    BY <2>1 DEF Keeps, Base, Types
  <2>4. \A q \in Process \ {p} : Mastered(q)'
    BY <1>1, <1>2, <1>3, <1>4, <1>6, <2>1, <2>2, <2>3, MasteredKept
  <2>5. ~audio'[p].master /\ audio'[p].localOnly
    <3>1. audio[p] \in Player /\ stopPlayingMusic(audio[p]) \in Player
      BY PlayerTypes DEF Base, Types
    <3>2. ~streamClosed(audio[p]).master /\ streamClosed(audio[p]).localOnly
      BY <3>1 DEF streamClosed, Player
    <3>3. audio'[p] = streamClosed(audio[p])
      BY <2>1 DEF Base, Types
    <3> QED
      BY <3>2, <3>3
  <2>6. button'[p] = "NotConnected"
    BY <2>1 DEF Base, Types
  <2>7. Mastered(p)'
    BY <2>5, <2>6 DEF Mastered
  <2> QED
    BY <2>4, <2>7
<1>17. ASSUME NEW p \in Process, NEW k \in Conn \ Opened, Opens(p, k)
       PROVE  \A q \in Process : Mastered(q)'
  <2>1. /\ Opened' = Opened \cup {k} /\ link' = [link EXCEPT ![k] = "up"]
        /\ \A j \in Conn \ {k} : toServer'[j] = toServer[j]
        /\ client' = [client EXCEPT ![p] = k]
        /\ button' = [button EXCEPT ![p] = "Connecting"]
        /\ audio' = [audio EXCEPT ![p] = streamConnecting(@)]
        /\ UNCHANGED <<users, toClient, hostAble, signals>>
    BY <1>17 DEF Opens
  <2>2. Host' = Host
    BY <1>4, <2>1
  <2>3. \A j \in Opened : (Ahead(j)' => Ahead(j)) /\ link'[j] = link[j]
    BY <1>2, <2>1 DEF Ahead, Base, Types
  <2>4. \A q \in Process \ {p} : /\ Keeps(audio[q], audio'[q]) /\ button'[q] = button[q]
                                /\ client'[q] = client[q] /\ client[q] # k
    BY <1>2, <2>1 DEF Keeps, Base, Types, Connections
  <2>5. \A q \in Process \ {p} : Mastered(q)'
    BY <1>1, <1>2, <1>7, <2>1, <2>2, <2>3, <2>4, MasteredKept
  <2>6. ~audio'[p].master /\ ~audio'[p].localOnly
    BY <2>1 DEF streamConnecting, Base, Types, Player
  <2>7. button'[p] = "Connecting"
    BY <2>1 DEF Base, Types
  <2>8. Mastered(p)'
    BY <2>6, <2>7 DEF Mastered
  <2> QED
    BY <2>5, <2>8
<1>18. CASE ServerMove
  BY <1>8, <1>9, <1>10, <1>11, <1>18 DEF ServerMove
<1>19. CASE ClientMove
  BY <1>12, <1>13, <1>19 DEF ClientMove
<1>20. CASE InterfaceMove
  BY <1>14, <1>15, <1>16, <1>17, <1>20 DEF InterfaceMove
<1> QED
  BY <1>18, <1>19, <1>20, Moved

---------------------------------------------------------------------------
(* Music comes from who hosts *)

LEMMA HostHearsKept ==
  ASSUME NEW p \in Process, NEW k \in Conn, HostHears(p, k),
         audio'[p].master => audio[p].master,
         In(toClient'[k]) \cap Music \subseteq In(toClient[k]),
         In(signals'[p]) \subseteq In(signals[p]),
         Before(Of(k, Music), Of(k, HostSession), signals'[p])
  PROVE  HostHears(p, k)'
BY DEF HostHears

LEMMA HostMusicStep ==
  Base /\ Greetings /\ Hosting /\ Mastering /\ HostMusic /\ [Next]_vars => HostMusic'
<1> SUFFICES ASSUME Base, Greetings, Hosting, Mastering, HostMusic, [Next]_vars, "late" \notin slips'
             PROVE  /\ \A k \in Conn : In(toServer'[k]) \cap Music # {} => k \in Host'
                    /\ \A k \in Conn : Before(Music, HostSession, toClient'[k])
                    /\ \A p \in Process : \A k \in Opened' : client'[p] = k => HostHears(p, k)'
  BY DEF HostMusic
<1> DEFINE Sent == \A k \in Conn : In(toServer'[k]) \cap Music # {} => k \in Host'
           Brought == \A k \in Conn : Before(Music, HostSession, toClient'[k])
           Heard == \A p \in Process : \A k \in Opened' : client'[p] = k => HostHears(p, k)'
<1>1. /\ \A p \in Process : Mastered(p)
      /\ \A k \in Conn : In(toServer[k]) \cap Music # {} => k \in Host
      /\ \A k \in Conn : Before(Music, HostSession, toClient[k])
      /\ \A p \in Process : \A k \in Opened : client[p] = k => HostHears(p, k)
  BY SlipsGrow DEF Mastering, HostMusic
<1>2. /\ Opened \subseteq Conn /\ NoConn \notin Conn
      /\ HostSession \subseteq Session /\ HostSession \cap Music = {} /\ Session \cap Music = {}
      /\ Shake \notin Music
  BY ConnFacts, SessionsApart, ShakeSent DEF HostSession
<1>3. UNCHANGED processOf => Opened' = Opened
  BY DEF Opened
<1>4. UNCHANGED users => Host' = Host
  BY DEF Host
<1>5. \A p \in Process : \A k \in Opened : client[p] = k =>
        Before(Of(k, Music), Of(k, HostSession), signals[p])
  BY <1>1 DEF HostHears
<1>6. Takings => \A p \in Process : \A k \in Opened : client[p] = k =>
                   Before(Of(k, Music), Of(k, HostSession), signals'[p])
  BY <1>5, TakingsKeep
<1>7. ASSUME NEW k \in Conn, Registers(k)
      PROVE  Sent /\ Brought /\ Heard
  <2>1. Host' = Host
    BY <1>7 DEF Registers, Host, Live, Base, Types
  <2> QED
    BY <1>1, <1>2, <1>3, <1>5, <1>7, <2>1, HostHearsKept DEF Registers, ServerMoves
<1>8. ASSUME NEW k \in Conn, Leaves(k)
      PROVE  Sent /\ Brought /\ Heard
  <2>1. PICK out \in Message : ServerTells(ToSome(Peers(k), Asked(out)))
    BY <1>8 DEF Leaves
  <2>2. \A j \in Conn : /\ In(toClient'[j]) \cap Music = In(toClient[j]) \cap Music
                        /\ Before(Music, HostSession, toClient'[j])
    <3> TAKE j \in Conn
    <3>1. ToSome(Peers(k), Asked(out))[j] \cap Music = {}
      BY SessionsApart DEF ToSome
    <3>2. /\ In(toClient'[j]) \cap Music = In(toClient[j]) \cap Music
          /\ Before(Music, HostSession, toClient[j]) => Before(Music, HostSession, toClient'[j])
      BY <2>1, <3>1, ToldKeep
    <3> QED
      BY <1>1, <3>2
  <2>3. toServer' = [toServer EXCEPT ![k] = <<>>] /\ users' = [users EXCEPT ![k] = "absent"]
    BY <1>8 DEF Leaves
  <2>4. Sent
    BY <1>1, <2>3, InEmpty DEF Host, Base, Types
  <2> QED
    BY <1>1, <1>2, <1>3, <1>5, <1>8, <2>2, <2>4, HostHearsKept DEF Leaves, ServerMoves
<1>9. ASSUME NEW k \in Conn, NEW s \in Session, NEW t \in [Conn -> SUBSET ToClient], Greets(k, s, t)
      PROVE  Sent /\ Brought /\ Heard
  <2>1. /\ Shake \in In(toServer[k])
        /\ In(toServer'[k]) \subseteq In(toServer[k])
        /\ \A j \in Conn \ {k} : toServer'[j] = toServer[j]
        /\ users' = [users EXCEPT ![k] = attributedRole(k)]
        /\ toClient'[k] = toClient[k] \/ toClient'[k] = Append(toClient[k], s)
    BY <1>9 DEF Greets, FirstTaken
  <2>2. k \notin Named
    BY <2>1 DEF Greetings
  <2>3. Host \subseteq Host'
    BY <2>1, <2>2 DEF Host, Named, Base, Types
  <2>4. Sent
    BY <1>1, <2>1, <2>3
  <2>5. In(toClient'[k]) \cap Music = In(toClient[k]) \cap Music /\ Before(Music, HostSession, toClient'[k])
    <3>1. toClient[k] \in Seq(ToClient) /\ s \in ToClient /\ s \notin Music
      BY <1>2 DEF ToClient, Base, Types
    <3>2. Before(Music, HostSession, toClient[k])
      BY <1>1
    <3>3. In(Append(toClient[k], s)) = In(toClient[k]) \cup {s}
      BY <3>1, InAppend
    <3>4. Before(Music, HostSession, Append(toClient[k], s))
      BY <3>1, <3>2, BeforeAppend
    <3> QED
      BY <2>1, <3>1, <3>2, <3>3, <3>4
  <2>6. \A j \in Conn \ {k} : /\ In(toClient'[j]) \cap Music = In(toClient[j]) \cap Music
                             /\ Before(Music, HostSession, toClient'[j])
    <3> TAKE j \in Conn \ {k}
    <3>1. j \in Conn /\ ServerTells(t) /\ t[j] \cap Music = {}
      BY <1>9 DEF Greets
    <3>2. /\ In(toClient'[j]) \cap Music = In(toClient[j]) \cap Music
          /\ Before(Music, HostSession, toClient[j]) => Before(Music, HostSession, toClient'[j])
      BY <3>1, ToldKeep
    <3> QED
      BY <1>1, <3>2
  <2> QED
    BY <1>1, <1>2, <1>3, <1>5, <1>9, <2>4, <2>5, <2>6, HostHearsKept DEF Greets, ServerMoves
<1>10. ASSUME NEW k \in Conn, NEW m \in ToServer, NEW t \in [Conn -> SUBSET ToClient], Relays(k, m, t)
       PROVE  Sent /\ Brought /\ Heard
  <2>1. /\ m \in In(toServer[k]) /\ In(toServer'[k]) \subseteq In(toServer[k])
        /\ \A j \in Conn \ {k} : toServer'[j] = toServer[j]
        /\ UNCHANGED <<users, processOf, client, link, signals, audio, hostAble>>
        /\ ServerTells(t)
        /\ \A j \in Conn : t[j] \cap Session = {} /\ (t[j] \cap Music # {} => j # k /\ m \in Music)
    BY <1>10 DEF Relays, FirstTaken, ServerMoves
  <2>2. Sent
    BY <1>1, <1>4, <2>1
  <2>3. \A j \in Host : t[j] \cap Music = {}
    <3> SUFFICES ASSUME NEW j \in Host, t[j] \cap Music # {}
                 PROVE  FALSE
      OBVIOUS
    <3>1. j \in Conn /\ j # k /\ m \in Music
      BY <2>1 DEF Host
    <3>2. k \in Host
      BY <1>1, <2>1, <3>1
    <3> QED
      BY <3>1, <3>2 DEF Hosting
  <2>4. Brought
    <3> SUFFICES ASSUME NEW j \in Conn
                 PROVE  Before(Music, HostSession, toClient'[j])
      OBVIOUS
    <3>1. CASE t[j] \cap Music = {}
      <4>1. Before(Music, HostSession, toClient[j]) => Before(Music, HostSession, toClient'[j])
        BY <2>1, <3>1, ToldKeep
      <4> QED
        BY <1>1, <4>1
    <3>2. CASE t[j] \cap Music # {}
      <4>1. j \notin Host
        BY <2>3, <3>2
      <4>2. In(toClient'[j]) \cap Session = In(toClient[j]) \cap Session
        BY <2>1, ToldSessions
      <4>3. In(toClient'[j]) \cap HostSession = {}
        BY <4>1, <4>2 DEF Hosting, HostSession
      <4> QED
        BY <4>3, BeforeNone
    <3> QED
      BY <3>1, <3>2
  <2>5. Heard
    <3> SUFFICES ASSUME NEW p \in Process, NEW j \in Opened, client[p] = j
                 PROVE  HostHears(p, j)'
      BY <1>3, <2>1
    <3>1. HostHears(p, j) /\ j \in Conn /\ Mastered(p)
      BY <1>1, <1>2
    <3>2. In(toClient'[j]) = In(toClient[j]) \cup (IF link[j] = "up" THEN t[j] ELSE {})
      BY <2>1, <3>1, ServerTellsElements DEF Base
    <3>3. CASE link[j] = "up" => j \in Host
      <4>1. In(toClient'[j]) \cap Music = In(toClient[j]) \cap Music
        BY <2>3, <3>2, <3>3
      <4> QED
        BY <2>1, <3>1, <4>1 DEF HostHears
    <3>4. CASE link[j] = "up" /\ j \notin Host
      <4>1. ~audio[p].master
        BY <3>1, <3>4 DEF Mastered
      <4>2. In(signals[p]) \cap Of(j, HostSession) = {}
        <5>1. ASSUME NEW y \in In(signals[p]) \cap Of(j, HostSession)
              PROVE  FALSE
          <6>1. y \in Of(j, Session) /\ y.payload.host
            BY DEF Of, HostSession
          <6>2. (y.payload.host <=> hostAble[p]) /\ (link[j] = "up" => (hostAble[p] <=> j \in Host))
            BY <5>1, <6>1 DEF Hosting
          <6> QED
            BY <3>4, <6>1, <6>2
        <5> QED
          BY <5>1
      <4> QED
        BY <2>1, <3>1, <4>1, <4>2 DEF HostHears
    <3> QED
      BY <3>3, <3>4
  <2> QED
    BY <2>2, <2>4, <2>5
<1>11. ASSUME NEW k \in Conn, NEW x \in ToClient, NEW p \in Process, Receives(k, x, p)
       PROVE  Sent /\ Brought /\ Heard
  <2> DEFINE y == [conn |-> k, payload |-> x]
  <2>1. /\ client[p] = k /\ k \in Opened /\ processOf[k] = p
        /\ toClient[k] # <<>> /\ x = Head(toClient[k]) /\ toClient'[k] = Tail(toClient[k])
        /\ In(toClient[k]) = {x} \cup In(toClient'[k])
        /\ \A j \in Conn \ {k} : toClient'[j] = toClient[j]
        /\ signals'[p] = Append(signals[p], y)
        /\ In(signals'[p]) = In(signals[p]) \cup {y}
        /\ \A q \in Process \ {p} : signals'[q] = signals[q]
        /\ UNCHANGED <<link, processOf, users, client, toServer, audio>>
    BY <1>11 DEF Receives, Reads
  <2>2. /\ y \in Signal
        /\ y \in Of(k, Music) <=> x \in Music
        /\ y \in Of(k, HostSession) <=> x \in HostSession
    BY DEF Of, Signal
  <2> HIDE DEF y
  <2>3. Sent
    BY <1>1, <1>4, <2>1
  <2>4. Before(Music, HostSession, toClient'[k]) /\ (x \in HostSession => In(toClient'[k]) \cap Music = {})
    <3>1. toClient[k] \in Seq(ToClient) /\ Before(Music, HostSession, toClient[k])
      BY <1>1 DEF Base, Types
    <3> QED
      BY <2>1, <3>1, BeforeTail
  <2>5. Brought
    BY <1>1, <2>1, <2>4
  <2>6. HostHears(p, k)'
    <3>1. HostHears(p, k) /\ signals[p] \in Seq(Signal)
      BY <1>1, <2>1 DEF Base, Types
    <3>2. x \in Music => In(signals[p]) \cap Of(k, HostSession) = {} /\ x \notin HostSession
      BY <1>2, <2>1, <3>1 DEF HostHears
    <3>3. Before(Of(k, Music), Of(k, HostSession), Append(signals[p], y))
      <4>1. Before(Of(k, Music), Of(k, HostSession), signals[p])
        BY <3>1 DEF HostHears
      <4>2. y \in Of(k, Music) => In(signals[p]) \cap Of(k, HostSession) = {} /\ y \notin Of(k, HostSession)
        BY <2>2, <3>2
      <4> QED
        BY <2>2, <3>1, <4>1, <4>2, BeforeAppend
    <3>4. In(signals'[p]) \cap Of(k, HostSession) # {} => In(toClient'[k]) \cap Music = {}
      BY <2>1, <2>2, <2>4, <3>1 DEF HostHears
    <3>5. audio[p].master => In(toClient'[k]) \cap Music = {} /\ In(signals'[p]) \cap Of(k, Music) = {}
      BY <2>1, <2>2, <3>1 DEF HostHears
    <3> QED
      BY <2>1, <3>3, <3>4, <3>5 DEF HostHears
  <2>7. ASSUME NEW q \in Process, NEW j \in Opened, client[q] = j, q # p
        PROVE  HostHears(q, j)'
    <3>1. j # k /\ j \in Conn /\ HostHears(q, j)
      BY <1>1, <1>2, <2>1, <2>7 DEF Base, Connections
    <3> QED
      BY <1>5, <2>1, <2>7, <3>1, HostHearsKept
  <2>8. Heard
    BY <1>3, <2>1, <2>6, <2>7
  <2> QED
    BY <2>3, <2>5, <2>8
<1>12. ASSUME NEW k \in Conn, NEW p \in Process, Breaks(k, p)
       PROVE  Sent /\ Brought /\ Heard
  <2> DEFINE y == [conn |-> k, payload |-> [method |-> "Ended"]]
  <2>1. /\ toClient' = [toClient EXCEPT ![k] = <<>>]
        /\ signals'[p] = Append(signals[p], y)
        /\ In(signals'[p]) = In(signals[p]) \cup {y}
        /\ \A q \in Process \ {p} : signals'[q] = signals[q]
        /\ UNCHANGED <<processOf, users, client, toServer, audio>>
    BY <1>12 DEF Breaks, Fails
  <2>2. /\ y \in Signal
        /\ \A j \in Conn : y \notin Of(j, Music) /\ y \notin Of(j, HostSession)
    BY DEF Of, Signal, HostSession, Session, Music
  <2> HIDE DEF y
  <2>3. Sent
    BY <1>1, <1>4, <2>1
  <2>4. \A j \in Conn : Before(Music, HostSession, toClient'[j]) /\ In(toClient'[j]) \subseteq In(toClient[j])
    BY <1>1, <2>1, InEmpty, BeforeNone DEF Base, Types
  <2>5. Heard
    <3> SUFFICES ASSUME NEW q \in Process, NEW j \in Opened, client[q] = j
                 PROVE  HostHears(q, j)'
      BY <1>3, <2>1
    <3>1. HostHears(q, j) /\ j \in Conn /\ signals[q] \in Seq(Signal)
      BY <1>1, <1>2 DEF Base, Types
    <3>2. Before(Of(j, Music), Of(j, HostSession), signals[q])
      BY <3>1 DEF HostHears
    <3>3. Before(Of(j, Music), Of(j, HostSession), Append(signals[q], y))
      BY <2>2, <3>1, <3>2, BeforeAppend
    <3>4. Before(Of(j, Music), Of(j, HostSession), signals'[q])
      BY <2>1, <3>2, <3>3
    <3>5. /\ In(signals'[q]) \cap Of(j, Music) \subseteq In(signals[q])
          /\ In(signals'[q]) \cap Of(j, HostSession) \subseteq In(signals[q])
      BY <2>1, <2>2, <3>1
    <3> QED
      BY <2>1, <2>4, <3>1, <3>4, <3>5 DEF HostHears
  <2> QED
    BY <2>3, <2>4, <2>5
<1>13. ASSUME Quiet
       PROVE  Sent /\ Brought /\ Heard
  <2>1. Sent
    <3>1. CASE toServer' = toServer
      BY <1>1, <1>4, <1>13, <3>1 DEF Quiet
    <3>2. CASE \E p \in Process, x \in ToServer : ClientTells(p, x) /\ (x \in Music => audio[p].master)
      <4>1. PICK p \in Process, x \in ToServer : ClientTells(p, x) /\ (x \in Music => audio[p].master)
        BY <3>2
      <4>2. \A k \in Conn :
              In(toServer'[k]) = In(toServer[k]) \cup (IF k = client[p] /\ link[k] = "up" THEN {x} ELSE {})
        BY <4>1, ClientTellsElements DEF Base
      <4>3. \A k \in Conn : k = client[p] /\ link[k] = "up" /\ audio[p].master => k \in Host
        BY <1>1, <1>2 DEF Mastered, Base, Connections
      <4> QED
        BY <1>1, <1>4, <1>13, <4>1, <4>2, <4>3 DEF Quiet
    <3> QED
      BY <1>13, <3>1, <3>2 DEF Quiet
  <2>2. /\ UNCHANGED <<processOf, client, toClient>> /\ Takings
        /\ \A p \in Process : audio'[p].master => audio[p].master
    BY <1>13 DEF Quiet, SameRoles
  <2> QED
    BY <1>1, <1>2, <1>3, <1>6, <2>1, <2>2, TakingsShrink, HostHearsKept
<1>14. ASSUME NEW p \in Process, NEW k \in Opened, NEW m \in Session, Welcomes(p, k, m)
       PROVE  Sent /\ Brought /\ Heard
  <2> DEFINE y == [conn |-> k, payload |-> m]
  <2>1. /\ client[p] = k
        /\ signals[p] # <<>> /\ Head(signals[p]) = y /\ signals'[p] = Tail(signals[p])
        /\ UNCHANGED <<processOf, link, users, client, hostAble, toClient>> /\ Takings
        /\ \A q \in Process \ {p} : audio'[q] = audio[q]
        /\ audio'[p].master = hostAble[p]
    BY <1>14 DEF Welcomes
  <2>2. /\ y \in Of(k, Session) /\ y.payload = m
        /\ m.host => y \in Of(k, HostSession)
    BY DEF Of, HostSession
  <2> HIDE DEF y
  <2>3. signals[p] \in Seq(Signal)
    BY DEF Base, Types
  <2>4. y \in In(signals[p])
    BY <2>1, <2>3, InTail
  <2>5. (m.host <=> hostAble[p]) /\ (link[k] = "up" => (hostAble[p] <=> k \in Host))
    BY <2>1, <2>2, <2>4 DEF Hosting
  <2>6. Sent
    <3>1. CASE toServer' = toServer
      BY <1>1, <1>4, <2>1, <3>1
    <3>2. CASE \E x \in Music : hostAble[p] /\ ClientTells(p, x)
      <4>1. PICK x \in Music : hostAble[p] /\ ClientTells(p, x)
        BY <3>2
      <4>2. \A j \in Conn :
              In(toServer'[j]) = In(toServer[j]) \cup (IF j = client[p] /\ link[j] = "up" THEN {x} ELSE {})
        BY <4>1, ClientTellsElements, MusicIsSent DEF Base
      <4> QED
        BY <1>1, <1>4, <2>1, <2>5, <4>1, <4>2
    <3> QED
      BY <1>14, <3>1, <3>2 DEF Welcomes
  <2>7. HostHears(p, k)'
    <3>1. HostHears(p, k)
      BY <1>1, <2>1
    <3>2. /\ Before(Of(k, Music), Of(k, HostSession), signals'[p])
          /\ In(signals'[p]) \subseteq In(signals[p])
      BY <1>6, <2>1, TakingsShrink
    <3>3. hostAble[p] => In(toClient[k]) \cap Music = {} /\ In(signals'[p]) \cap Of(k, Music) = {}
      <4>1. SUFFICES ASSUME hostAble[p]
                     PROVE  In(toClient[k]) \cap Music = {} /\ In(signals'[p]) \cap Of(k, Music) = {}
        OBVIOUS
      <4>2. y \in Of(k, HostSession)
        BY <2>2, <2>5, <4>1
      <4>3. In(toClient[k]) \cap Music = {}
        BY <2>4, <3>1, <4>2 DEF HostHears
      <4>4. Before(Of(k, Music), Of(k, HostSession), signals[p])
        BY <3>1 DEF HostHears
      <4>5. In(Tail(signals[p])) \cap Of(k, Music) = {}
        BY <2>1, <2>3, <4>2, <4>4, BeforeTail
      <4> QED
        BY <2>1, <4>3, <4>5
    <3>4. In(signals'[p]) \cap Of(k, HostSession) # {} => In(toClient'[k]) \cap Music = {}
      BY <2>1, <3>1, <3>2 DEF HostHears
    <3> QED
      BY <2>1, <3>2, <3>3, <3>4 DEF HostHears
  <2>8. ASSUME NEW q \in Process, NEW j \in Opened, client[q] = j, q # p
        PROVE  HostHears(q, j)'
    <3>1. HostHears(q, j) /\ j \in Conn
      BY <1>1, <1>2, <2>8
    <3> QED
      BY <1>6, <2>1, <2>8, <3>1, TakingsShrink, HostHearsKept
  <2>9. Heard
    BY <1>3, <2>1, <2>7, <2>8
  <2> QED
    BY <1>1, <2>1, <2>6, <2>9
<1>15. ASSUME NEW p \in Process, NEW k \in Opened, Closes(p, k)
       PROVE  Sent /\ Brought /\ Heard
  <2>1. /\ toClient' = [toClient EXCEPT ![k] = <<>>]
        /\ client' = [client EXCEPT ![p] = NoConn]
        /\ audio' = [audio EXCEPT ![p] = streamClosed(@)]
        /\ UNCHANGED <<processOf, users, toServer>> /\ Takings
    BY <1>15 DEF Closes, Ends
  <2>2. \A j \in Conn : Before(Music, HostSession, toClient'[j]) /\ In(toClient'[j]) \subseteq In(toClient[j])
    BY <1>1, <2>1, InEmpty, BeforeNone DEF Base, Types
  <2>3. ASSUME NEW q \in Process, NEW j \in Opened, client'[q] = j
        PROVE  HostHears(q, j)'
    <3>1. q # p /\ client[q] = j /\ audio'[q] = audio[q] /\ j \in Conn
      BY <1>2, <2>1, <2>3 DEF Base, Types
    <3> QED
      BY <1>1, <1>6, <2>1, <2>2, <3>1, TakingsShrink, HostHearsKept
  <2> QED
    BY <1>1, <1>3, <1>4, <2>1, <2>2, <2>3
<1>16. ASSUME NEW p \in Process, NEW k \in Conn \ Opened, Opens(p, k)
       PROVE  Sent /\ Brought /\ Heard
  <2>1. /\ Opened' = Opened \cup {k} /\ link[k] = "idle"
        /\ In(toServer'[k]) = {Shake} /\ \A j \in Conn \ {k} : toServer'[j] = toServer[j]
        /\ client' = [client EXCEPT ![p] = k]
        /\ audio' = [audio EXCEPT ![p] = streamConnecting(@)]
        /\ UNCHANGED <<users, toClient, signals>>
    BY <1>16 DEF Opens
  <2>2. Sent
    BY <1>1, <1>2, <1>4, <2>1
  <2>3. In(toClient[k]) = {} /\ \A S : In(signals[p]) \cap Of(k, S) = {}
    BY <2>1 DEF Base, Connections, Of
  <2>4. HostHears(p, k)'
    BY <2>1, <2>3, BeforeNone DEF HostHears
  <2>5. ASSUME NEW q \in Process \ {p}, NEW j \in Opened', client'[q] = j
        PROVE  HostHears(q, j)'
    <3>1. client[q] = j /\ audio'[q] = audio[q]
      BY <2>1, <2>5 DEF Base, Types
    <3>2. j \in Opened /\ j \in Conn
      BY <1>2, <2>1, <3>1 DEF Base, Connections
    <3> QED
      BY <1>1, <1>5, <2>1, <3>1, <3>2, HostHearsKept
  <2>6. client'[p] = k
    BY <2>1 DEF Base, Types
  <2>7. Heard
    BY <2>4, <2>5, <2>6
  <2> QED
    BY <1>1, <2>1, <2>2, <2>7
<1> HIDE DEF Sent, Brought, Heard
<1>17. ASSUME ServerMove
      PROVE  Sent /\ Brought /\ Heard
  BY <1>7, <1>8, <1>9, <1>10, <1>17 DEF ServerMove
<1>18. ASSUME ClientMove
      PROVE  Sent /\ Brought /\ Heard
  BY <1>11, <1>12, <1>18 DEF ClientMove
<1>19. ASSUME InterfaceMove
      PROVE  Sent /\ Brought /\ Heard
  BY <1>13, <1>14, <1>15, <1>16, <1>19 DEF InterfaceMove
<1>20. Sent /\ Brought /\ Heard
  BY <1>17, <1>18, <1>19, Moved
<1> QED
  BY <1>20 DEF Sent, Brought, Heard

---------------------------------------------------------------------------
(* What is heard was chosen *)

LEMMA ChosenKept ==
  ASSUME NEW a \in Player, a.requested => a.chosen, NEW c \in BOOLEAN, Chosen(a, c),
         NEW b \in BOOLEAN, NEW over \in BOOLEAN, NEW url
  PROVE  /\ Chosen(onPlayRequested(a), c) /\ Chosen(onSeekingRequested(a), c)
         /\ Chosen(stopPlayingMusic(a), c) /\ Chosen(nextPlayed(a), c)
         /\ Chosen([a EXCEPT !.state = ClearedState, !.heard.on = "stopped"], c)
         /\ a.requested => Chosen(refreshed(a, url), c)
         /\ a.heard.on # "stopped" =>
              /\ Chosen(onAudioPlayStateChanged(a, b, over), c)
              /\ Chosen(replayed(a), c)
              /\ Chosen([a EXCEPT !.heard.on = "ended"], c)
BY DEF Chosen, inControl, onPlayRequested, onSeekingRequested, stopPlayingMusic, nextPlayed, refreshed,
       onAudioPlayStateChanged, replayed, playAudio, Player, Sound

LEMMA RequestedKept ==
  ASSUME NEW a \in Player, a.requested => a.chosen, NEW b, NEW over, NEW url, NEW s
  PROVE  \A e \in {onPlayRequested(a), onSeekingRequested(a), stopPlayingMusic(a), nextPlayed(a),
                   [a EXCEPT !.state = ClearedState, !.heard.on = "stopped"], refreshed(a, url),
                   onAudioPlayStateChanged(a, b, over), replayed(a), [a EXCEPT !.heard.on = "ended"],
                   onAudioSourceStateChanged(a, s, over), streamConnecting(a), streamClosed(a),
                   streamOnSession(a, b)} :
           e.requested => e.chosen
<1>1. /\ onPlayRequested(a).requested => onPlayRequested(a).chosen
      /\ onSeekingRequested(a).requested => onSeekingRequested(a).chosen
      /\ stopPlayingMusic(a).requested => stopPlayingMusic(a).chosen
      /\ nextPlayed(a).requested => nextPlayed(a).chosen
      /\ refreshed(a, url).requested => refreshed(a, url).chosen
  BY DEF onPlayRequested, onSeekingRequested, stopPlayingMusic, nextPlayed, refreshed, playAudio, Player
<1>2. /\ onAudioPlayStateChanged(a, b, over).requested => onAudioPlayStateChanged(a, b, over).chosen
      /\ replayed(a).requested => replayed(a).chosen
      /\ onAudioSourceStateChanged(a, s, over).requested => onAudioSourceStateChanged(a, s, over).chosen
  BY DEF onAudioPlayStateChanged, replayed, onAudioSourceStateChanged, playAudio, Player
<1>3. /\ streamConnecting(a).requested => streamConnecting(a).chosen
      /\ streamClosed(a).requested => streamClosed(a).chosen
      /\ streamOnSession(a, b).requested => streamOnSession(a, b).chosen
  BY DEF streamConnecting, streamClosed, streamOnSession, stopPlayingMusic, Player
<1>4. \A e \in {[a EXCEPT !.state = ClearedState, !.heard.on = "stopped"],
                [a EXCEPT !.heard.on = "ended"]} : e.requested => e.chosen
  BY DEF Player
<1> QED
  BY <1>1, <1>2, <1>3, <1>4

LEMMA ToClientMusic == \A x \in ToClient : x.method \in {"Url", "PlayingState", "Position"} => x \in Music
BY DEF ToClient, Session, Music

\* What may become of the music a.
Plays(a, e) ==
  \/ e \in {onPlayRequested(a), onSeekingRequested(a),
            [a EXCEPT !.state = ClearedState, !.heard.on = "stopped"]}
  \/ a.heard.on # "stopped" /\ \E b, over \in BOOLEAN : e = onAudioPlayStateChanged(a, b, over)
  \/ a.requested /\ \E url \in Track : e = refreshed(a, url)
  \/ /\ a.heard.on # "stopped"
     /\ LET over == [a EXCEPT !.heard.on = "ended"] IN
          e \in {replayed(over), nextPlayed(over), stopPlayingMusic(over), over}

LEMMA MusicPlays ==
  ASSUME Types, NEW p \in Process, musicAct(p)
  PROVE  Plays(audio[p], audio'[p])
<1>1. \A a : audio' = [audio EXCEPT ![p] = a] => audio'[p] = a
  BY DEF Types
<1>2. CASE playTrack(p)
  BY <1>1, <1>2 DEF playTrack, Plays
<1>3. CASE seek(p)
  BY <1>1, <1>3 DEF seek, Plays
<1>4. CASE pauseOrPlay(p)
  <2>1. audio[p].heard.on # "stopped"
    BY <1>4 DEF pauseOrPlay
  <2>2. \E b, over \in BOOLEAN : audio'[p] = onAudioPlayStateChanged(audio[p], b, over)
    <3>1. \E b, over \in BOOLEAN : audio' = [audio EXCEPT ![p] = onAudioPlayStateChanged(@, b, over)]
      BY <1>4 DEF pauseOrPlay
    <3> QED
      BY <1>1, <3>1
  <2> QED
    BY <2>1, <2>2 DEF Plays
<1>5. CASE metadataRefreshed(p)
  <2>1. audio[p].requested /\ \E url \in Track : audio' = [audio EXCEPT ![p] = refreshed(@, url)]
    BY <1>5 DEF metadataRefreshed
  <2>2. \E url \in Track : audio'[p] = refreshed(audio[p], url)
    BY <1>1, <2>1
  <2> QED
    BY <2>1, <2>2 DEF Plays
<1>6. CASE onStreamPlayEnded(p)
  <2> DEFINE over == [audio[p] EXCEPT !.heard.on = "ended"]
  <2>1. audio[p].heard.on # "stopped"
    BY <1>6 DEF onStreamPlayEnded
  <2>2. \/ audio' = [audio EXCEPT ![p] = replayed(over)]
        \/ audio' = [audio EXCEPT ![p] = nextPlayed(over)]
        \/ audio' = [audio EXCEPT ![p] = stopPlayingMusic(over)]
        \/ audio' = [audio EXCEPT ![p] = over]
    BY <1>6 DEF onStreamPlayEnded
  <2>3. audio'[p] \in {replayed(over), nextPlayed(over), stopPlayingMusic(over), over}
    <3> HIDE DEF over
    <3> QED
      BY <1>1, <2>2
  <2> QED
    BY <2>1, <2>3 DEF Plays
<1>7. CASE onStreamError(p)
  <2>1. audio' = [audio EXCEPT ![p] = [audio[p] EXCEPT !.state = ClearedState, !.heard.on = "stopped"]]
    BY <1>7 DEF onStreamError
  <2>2. audio'[p] = [audio[p] EXCEPT !.state = ClearedState, !.heard.on = "stopped"]
    BY <1>1, <2>1
  <2> QED
    BY <2>2 DEF Plays
<1> QED
  BY <1>2, <1>3, <1>4, <1>5, <1>6, <1>7 DEF musicAct

LEMMA PlaysChosen ==
  ASSUME NEW a \in Player, NEW e, Plays(a, e), a.requested => a.chosen
  PROVE  /\ e.requested => e.chosen
         /\ \A c \in BOOLEAN : Chosen(a, c) => Chosen(e, c)
<1> DEFINE over == [a EXCEPT !.heard.on = "ended"]
<1>1. over \in Player /\ (over.requested => over.chosen)
  BY PlayerTypes, RequestedKept
<1>2. a.heard.on # "stopped" => \A c \in BOOLEAN : Chosen(a, c) => Chosen(over, c)
  BY ChosenKept
<1>3. over.heard.on # "stopped"
  BY DEF Player, Sound
<1>4. CASE a.heard.on # "stopped" /\ e \in {replayed(over), nextPlayed(over), stopPlayingMusic(over), over}
  <2> HIDE DEF over
  <2>1. e.requested => e.chosen
    BY <1>1, <1>4, RequestedKept
  <2>2. ASSUME NEW c \in BOOLEAN, Chosen(over, c)
        PROVE  Chosen(e, c)
    <3>1. Chosen(stopPlayingMusic(over), c) /\ Chosen(nextPlayed(over), c) /\ Chosen(replayed(over), c)
      BY <1>1, <1>3, <2>2, ChosenKept
    <3> QED
      BY <1>4, <2>2, <3>1
  <2> QED
    BY <1>2, <1>4, <2>1, <2>2
<1>5. CASE e \in {onPlayRequested(a), onSeekingRequested(a),
                  [a EXCEPT !.state = ClearedState, !.heard.on = "stopped"]}
  BY <1>5, ChosenKept, RequestedKept
<1>6. CASE a.heard.on # "stopped" /\ \E b, o \in BOOLEAN : e = onAudioPlayStateChanged(a, b, o)
  <2>1. PICK b \in BOOLEAN, o \in BOOLEAN : e = onAudioPlayStateChanged(a, b, o)
    BY <1>6
  <2>2. onAudioPlayStateChanged(a, b, o).requested => onAudioPlayStateChanged(a, b, o).chosen
    BY RequestedKept
  <2>3. \A c \in BOOLEAN : Chosen(a, c) => Chosen(onAudioPlayStateChanged(a, b, o), c)
    BY <1>6, ChosenKept
  <2> QED
    BY <2>1, <2>2, <2>3
<1>7. CASE a.requested /\ \E url \in Track : e = refreshed(a, url)
  BY <1>7, ChosenKept, RequestedKept
<1> QED
  BY <1>4, <1>5, <1>6, <1>7 DEF Plays

LEMMA HearingStep ==
  Base /\ Greetings /\ Hosting /\ Mastering /\ HostMusic /\ Hearing /\ [Next]_vars => Hearing'
<1> SUFFICES ASSUME Base, Greetings, Hosting, Mastering, HostMusic, Hearing, [Next]_vars
             PROVE  Hearing'
  OBVIOUS
<1>1. Types /\ slips \subseteq slips'
  BY SlipsGrow DEF Base
<1>2. UNCHANGED <<audio, button>> => Hearing'
  BY <1>1 DEF Hearing
<1>3. ASSUME NEW p \in Process, audio' = [audio EXCEPT ![p] = audio'[p]],
             \A q \in Process \ {p} : button'[q] = button[q],
             audio'[p].requested => audio'[p].chosen,
             slips' \cap {"late", "early"} = {} => Chosen(audio'[p], button'[p] = "Connecting")
      PROVE  Hearing'
  <2>1. \A q \in Process \ {p} : audio'[q] = audio[q] /\ button'[q] = button[q]
    <3>1. PICK a : audio' = [audio EXCEPT ![p] = a]
      BY <1>3
    <3> QED
      BY <1>1, <1>3, <3>1 DEF Types
  <2> QED
    BY <1>1, <1>3, <2>1 DEF Hearing
<1>4. CASE ServerStep \/ ClientStep
  BY <1>2, <1>4 DEF ServerStep, ClientStep, onPayloadReceived, onError, interfaceVars
<1>5. CASE InterfaceStep
  <2>1. PICK p \in Process :
          \/ bindObservedClient(p) \/ onConnectButtonPressed(p)
          \/ sendMessage(p) \/ musicAct(p)
          \/ dropEvent(p) \/ onItemDoubleClick(p)
          \/ onSignal(p)
    BY <1>5 DEF InterfaceStep, musicAct
  <2>2. /\ audio[p] \in Player /\ (audio[p].requested => audio[p].chosen)
        /\ slips \cap {"late", "early"} = {} => Chosen(audio[p], button[p] = "Connecting")
        /\ "late" \notin slips => Mastered(p)
    BY <1>1 DEF Types, Hearing, Mastering
  <2>3. \A a : audio' = [audio EXCEPT ![p] = a] => audio'[p] = a /\ audio' = [audio EXCEPT ![p] = audio'[p]]
    BY <1>1 DEF Types
  <2>4. \A b : button' = [button EXCEPT ![p] = b] =>
                 button'[p] = b /\ \A q \in Process \ {p} : button'[q] = button[q]
    BY <1>1 DEF Types
  <2>5. CASE bindObservedClient(p)
    <3>1. /\ button[p] = "NotConnected" /\ button' = [button EXCEPT ![p] = "Connecting"]
          /\ audio' = [audio EXCEPT ![p] = streamConnecting(@)]
      BY <2>5 DEF bindObservedClient
    <3>2. audio'[p] = streamConnecting(audio[p])
      BY <2>3, <3>1
    <3>3. audio'[p].requested => audio'[p].chosen
      BY <2>2, <3>2, RequestedKept
    <3>4. slips' \cap {"late", "early"} = {} => Chosen(audio'[p], TRUE)
      BY <1>1, <2>2, <3>1, <3>2 DEF Chosen, Mastered, inControl, streamConnecting, Player
    <3> QED
      BY <1>3, <2>3, <2>4, <3>1, <3>3, <3>4 DEF Chosen
  <2>6. ASSUME endClient(p)
        PROVE  Hearing'
    <3>1. CASE UNCHANGED interfaceVars
      BY <1>2, <3>1 DEF interfaceVars
    <3>2. CASE \E k \in Opened : Ends(p, k)
      <4>1. /\ audio' = [audio EXCEPT ![p] = streamClosed(@)]
            /\ button' = [button EXCEPT ![p] = "NotConnected"]
        BY <3>2 DEF Ends
      <4>2. audio'[p] = streamClosed(audio[p]) /\ button'[p] = "NotConnected"
        BY <2>3, <2>4, <4>1
      <4>3. audio'[p].requested => audio'[p].chosen
        BY <2>2, <4>2, RequestedKept
      <4>4. stopPlayingMusic(audio[p]) \in Player /\ stopPlayingMusic(audio[p]).heard.on = "stopped"
        BY <2>2, PlayerTypes DEF stopPlayingMusic, Player, Sound
      <4>5. slips' \cap {"late", "early"} = {} => Chosen(audio'[p], FALSE)
        BY <1>1, <2>2, <4>2, <4>4 DEF Chosen, inControl, streamClosed, Player
      <4> QED
        BY <1>3, <2>3, <2>4, <4>1, <4>2, <4>3, <4>5 DEF Chosen
    <3> QED
      BY <2>6, <3>1, <3>2, Ended
  <2>7. CASE onConnectButtonPressed(p)
    BY <2>6, <2>7 DEF onConnectButtonPressed
  <2>8. CASE sendMessage(p)
    BY <1>2, <2>8, Said
  <2>9. CASE musicAct(p)
    <3>1. audio' = [audio EXCEPT ![p] = audio'[p]] /\ UNCHANGED button
      BY <1>1, <2>9, MusicTold
    <3>2. /\ audio'[p].requested => audio'[p].chosen
          /\ \A c \in BOOLEAN : Chosen(audio[p], c) => Chosen(audio'[p], c)
      BY <1>1, <2>2, <2>9, MusicPlays, PlaysChosen
    <3>3. (button[p] = "Connecting") \in BOOLEAN
      OBVIOUS
    <3>4. slips' \cap {"late", "early"} = {} => Chosen(audio'[p], button'[p] = "Connecting")
      BY <1>1, <2>2, <3>1, <3>2, <3>3
    <3> QED
      BY <1>3, <3>1, <3>2, <3>4
  <2>10. CASE dropEvent(p)
    BY <1>2, <2>10, Dropped
  <2>11. CASE onItemDoubleClick(p)
    BY <1>2, <2>11, DocAsked
  <2>12. CASE onSignal(p)
    <3>1. PICK k \in Opened, m \in ToClient \cup [method : {"Ended"}] : Takes(p, k, m) /\ Shows(p, m)
      BY <2>12, SignalCases
    <3>2. [conn |-> k, payload |-> m] \in In(signals[p])
      BY <2>12, <3>1, SignalHead DEF Takes
    <3>3. slips \subseteq slipsBefore(p) /\ (k # client[p] => "late" \in slipsBefore(p))
      BY <3>1 DEF slipsBefore, Takes
    <3>4. CASE m \in Session /\ onGameSessionReceived(p, m)
      <4>1. PICK a \in Player, s \in Tracker, over \in BOOLEAN :
              /\ audio' = [audio EXCEPT ![p] = a]
              /\ \/ a = streamOnSession(audio[p], hostAble[p])
                 \/ a = onAudioSourceStateChanged(streamOnSession(audio[p], hostAble[p]), s, over)
                    /\ ~m.host
        BY <3>4, Joins
      <4>2. button' = [button EXCEPT ![p] = "Connected"] /\ slipsBefore(p) \subseteq slips'
        BY <3>4, Joins
      <4>3. audio'[p] = a /\ button'[p] = "Connected"
        BY <2>3, <2>4, <4>1, <4>2
      <4> DEFINE joined == streamOnSession(audio[p], hostAble[p])
      <4>4. hostAble[p] \in BOOLEAN /\ joined \in Player
        BY <1>1, <2>2, ClearedType, PlayerStateTypes DEF Types
      <4>5. joined.requested => joined.chosen
        BY <2>2, <4>4, RequestedKept
      <4>6. a.requested => a.chosen
        <5> HIDE DEF joined
        <5>1. CASE a = joined
          BY <4>5, <5>1
        <5>2. CASE a = onAudioSourceStateChanged(joined, s, over)
          BY <4>4, <4>5, <5>2, RequestedKept
        <5> QED
          BY <4>1, <5>1, <5>2 DEF joined
      <4>7. ASSUME slips' \cap {"late", "early"} = {}
            PROVE  Chosen(a, FALSE)
        <5>1. k = client[p] /\ "late" \notin slips /\ slips \cap {"late", "early"} = {}
          BY <3>3, <4>2, <4>7
        <5>2. [conn |-> k, payload |-> m] \in Of(k, Session)
          BY <3>4 DEF Of
        <5>3. m.host <=> hostAble[p]
          BY <3>2, <5>1, <5>2 DEF Hosting
        <5>4. Signalled(p, k)
          BY <3>2, <5>2 DEF Signalled
        <5>5. button[p] = "Connecting"
          <6>1. button[p] # "Connected"
            BY <2>2, <5>1, <5>4 DEF Mastered
          <6>2. client[p] # NoConn
            BY <5>1, ConnFacts
          <6>3. button[p] # "NotConnected"
            BY <6>2 DEF Base, Connections
          <6> QED
            BY <1>1, <6>1, <6>3 DEF Types
        <5>6. Chosen(audio[p], TRUE)
          BY <2>2, <5>1, <5>5 DEF Chosen
        <5>7. ~audio[p].localOnly
          BY <2>2, <5>1, <5>5 DEF Mastered
        <5>8. CASE hostAble[p]
          BY <4>1, <5>3, <5>6, <5>8, <2>2 DEF Chosen, streamOnSession, Player
        <5>9. CASE ~hostAble[p]
          <6>1. ~joined.master /\ ~joined.localOnly
            BY <2>2, <5>7, <5>9, PlayerTypes DEF streamOnSession, stopPlayingMusic, Player
          <6>2. ~inControl(a)
            <7> HIDE DEF joined
            <7>1. Keeps(joined, onAudioSourceStateChanged(joined, s, over))
              BY <4>4, RolesKept
            <7> QED
              BY <4>1, <6>1, <7>1 DEF Keeps, inControl, joined
          <6> QED
            BY <6>2 DEF Chosen
        <5> QED
          BY <5>8, <5>9
      <4> QED
        BY <1>3, <2>3, <2>4, <4>1, <4>2, <4>3, <4>6, <4>7 DEF Chosen
    <3>5. CASE m \in ToClient /\ onAudioSignal(p, m)
      <4>1. PICK a \in Player, s \in Tracker, b \in BOOLEAN, over \in BOOLEAN :
              /\ audio' = [audio EXCEPT ![p] = a]
              /\ \/ a = onAudioSourceStateChanged(audio[p], s, over)
                 \/ a = onAudioPlayStateChanged(audio[p], b, over)
                 \/ a = onSeekingRequested(audio[p])
        BY <3>5, MusicReceived
      <4>2. button' = button /\ slipsBeforeMusic(p) \subseteq slips'
        BY <3>5, MusicReceived
      <4>3. audio'[p] = a /\ Keeps(audio[p], a) /\ (a.requested => a.chosen)
        <5>1. /\ Keeps(audio[p], onAudioSourceStateChanged(audio[p], s, over))
              /\ Keeps(audio[p], onAudioPlayStateChanged(audio[p], b, over))
              /\ Keeps(audio[p], onSeekingRequested(audio[p]))
          BY <2>2, RolesKept
        <5>2. \A e \in {onAudioSourceStateChanged(audio[p], s, over),
                        onAudioPlayStateChanged(audio[p], b, over),
                        onSeekingRequested(audio[p])} : e.requested => e.chosen
          BY <2>2, RequestedKept
        <5> QED
          BY <2>3, <4>1, <5>1, <5>2
      <4>4. ASSUME slips' \cap {"late", "early"} = {}
            PROVE  ~inControl(a) /\ button[p] # "Connecting"
        <5>1. k = client[p] /\ "late" \notin slips /\ button[p] = "Connected"
          BY <3>3, <4>2, <4>4 DEF slipsBeforeMusic
        <5>2. m \in Music
          BY <3>5, ToClientMusic DEF onAudioSignal
        <5>3. [conn |-> k, payload |-> m] \in Of(k, Music)
          BY <5>2 DEF Of
        <5>4. HostHears(p, k)
          BY <5>1 DEF HostMusic
        <5>5. ~audio[p].master
          BY <3>2, <5>3, <5>4 DEF HostHears
        <5>6. ~audio[p].localOnly
          BY <2>2, <5>1 DEF Mastered
        <5> QED
          BY <4>3, <5>1, <5>5, <5>6 DEF Keeps, inControl
      <4>5. slips' \cap {"late", "early"} = {} => Chosen(audio'[p], button'[p] = "Connecting")
        BY <4>2, <4>3, <4>4 DEF Chosen
      <4> QED
        BY <1>3, <2>3, <4>1, <4>2, <4>3, <4>5
    <3>6. CASE m \in ToClient /\ (onChatSignal(p, m) \/ onDocumentSignal(p, m))
      BY <1>2, <3>6, ChatReceived, DocumentReceived
    <3>7. CASE endClient(p)
      BY <2>6, <3>7
    <3> QED
      BY <3>1, <3>4, <3>5, <3>6, <3>7 DEF Shows
  <2> QED
    BY <2>1, <2>5, <2>7, <2>8, <2>9, <2>10, <2>11, <2>12
<1>6. CASE UNCHANGED vars
  BY <1>2, <1>6 DEF vars, interfaceVars
<1> QED
  BY <1>4, <1>5, <1>6 DEF Next

---------------------------------------------------------------------------
(* Documents on their way *)

\* An item that is shown for a document that is elsewhere.
Offers == {"Downloadable", "Downloading"}

LEMMA ItemsKept ==
  ASSUME NEW s \in Shelf, NEW d \in Document, NEW D \in SUBSET Document, NEW b \in BOOLEAN,
         NEW e \in Document
  PROVE  /\ s.items[e] # "none" => /\ downloaded(s, d).items[e] # "none"
                                   /\ downloading(s, d).items[e] # "none"
                                   /\ temporaryItems(s, D).items[e] # "none"
                                   /\ shelfOnSession(s, b, D).items[e] # "none"
         /\ downloaded(s, d).items[e] \in Offers => s.items[e] \in Offers
         /\ downloading(s, d).items[e] \in Offers => s.items[e] \in Offers \/ e = d
         /\ temporaryItems(s, D).items[e] \in Offers => s.items[e] \in Offers \/ e \in D
         /\ shelfOnSession(s, b, D).items[e] \in Offers => s.items[e] \in Offers \/ e \in D
         /\ shelfClosed(s).items[e] \notin Offers
         /\ downloading(s, d).items[d] # "none"
<1>1. s.items \in [Document -> ItemState]
  BY DEF Shelf
<1>2. /\ downloaded(s, d).items = [s.items EXCEPT ![d] = "Downloaded"]
      /\ downloading(s, d).items = [s.items EXCEPT ![d] = "Downloading"]
      /\ temporaryItems(s, D).items =
           [f \in Document |-> IF f \in D \ s.names THEN "Downloadable" ELSE s.items[f]]
      /\ shelfOnSession(s, b, D).items = IF b THEN s.items ELSE temporaryItems(s, D).items
      /\ shelfClosed(s).items = [f \in Document |-> IF isLocal(s, f) THEN s.items[f] ELSE "none"]
  BY DEF downloaded, downloading, temporaryItems, shelfOnSession, shelfClosed, Shelf
<1> QED
  BY <1>1, <1>2 DEF Offers, isLocal

LEMMA StoresKept ==
  ASSUME NEW s \in Shelf, NEW d \in Document, NEW D \in SUBSET Document, NEW b \in BOOLEAN
  PROVE  /\ downloaded(s, d).names = s.names \cup {d} /\ downloaded(s, d).store = s.store \cup {d}
         /\ downloading(s, d).names = s.names /\ downloading(s, d).store = s.store
         /\ temporaryItems(s, D).names = s.names \cup D /\ temporaryItems(s, D).store = s.store
         /\ shelfOnSession(s, b, D).names \subseteq s.names \cup D
         /\ shelfOnSession(s, b, D).store = s.store
         /\ shelfClosed(s).names = s.names /\ shelfClosed(s).store = s.store
BY DEF downloaded, downloading, temporaryItems, shelfOnSession, shelfClosed, Shelf

LEMMA ShelfChanged ==
  ASSUME Types, NEW p \in Process, NEW s \in Shelf, shelf' = [shelf EXCEPT ![p] = s],
         serverProcess' = serverProcess, shelf[p].store \subseteq s.store
  PROVE  /\ shelf'[p] = s /\ \A q \in Process \ {p} : shelf'[q] = shelf[q]
         /\ serverStore \subseteq serverStore'
         /\ serverProcess = p => serverNames' = s.names /\ serverStore' = s.store
         /\ serverProcess # p => serverNames' = serverNames
<1>1. shelf'[p] = s /\ \A q \in Process \ {p} : shelf'[q] = shelf[q]
  BY DEF Types
<1>2. serverProcess \in Process \cup {Alone} /\ Alone \notin Process
  BY AloneAssumption DEF Types
<1> QED
  BY <1>1, <1>2 DEF serverStore, serverNames

LEMMA StockKept ==
  ASSUME Stock, serverStore \subseteq serverStore', serverNames' \subseteq serverNames \cup serverStore',
         \A k \in Conn : \A x \in In(toServer'[k]) :
           \/ x \in In(toServer[k])
           \/ x.method \in {"DocAvailable", "DocRequested"} => x.hash \in serverStore',
         \A k \in Conn : \A x \in In(toClient'[k]) : x \in In(toClient[k]) \/ Stocks(x)',
         \A p \in Process : \A y \in In(signals'[p]) :
           y \in In(signals[p]) \/ Stocks(y.payload) \/ Stocks(y.payload)',
         \A p \in Process : \A d \in Document :
           shelf'[p].items[d] \in Offers => shelf[p].items[d] \in Offers \/ d \in serverStore'
  PROVE  Stock'
<1>1. ASSUME NEW x, Stocks(x)
      PROVE  Stocks(x)'
  BY <1>1 DEF Stocks
<1>2. /\ serverNames' \subseteq serverStore'
      /\ \A k \in Conn : \A x \in In(toServer'[k]) :
           x.method \in {"DocAvailable", "DocRequested"} => x.hash \in serverStore'
      /\ \A p \in Process : \A d \in Document :
           shelf'[p].items[d] \in Offers => d \in serverStore'
  BY DEF Stock, Offers
<1>3. \A k \in Conn : \A x \in In(toClient'[k]) : Stocks(x)'
  BY <1>1 DEF Stock
<1>4. \A p \in Process : \A y \in In(signals'[p]) : Stocks(y.payload)'
  BY <1>1 DEF Stock
<1> QED
  BY <1>2, <1>3, <1>4 DEF Stock, Offers

LEMMA FetchingKept ==
  ASSUME Base, Fetching,
         \A p \in Process : \A k \in Opened' : client'[p] = k =>
           /\ k \in Opened /\ client[p] = k
           /\ \A d \in Document : shelf[p].items[d] # "none" => shelf'[p].items[d] # "none"
           /\ \A x \in In(toServer'[k]) :
                x \in In(toServer[k]) \/ (x.method = "DocRequested" => shelf'[p].items[x.hash] # "none")
           /\ \A x \in In(toClient'[k]) :
                \/ x \in In(toClient[k])
                \/ x.method = "Doc" => \A d \in x.hashes : shelf'[p].items[d] # "none"
           /\ \A y \in In(signals'[p]) :
                \/ y \in In(signals[p])
                \/ y.payload \in In(toClient[k])
                \/ y.payload.method # "Doc"
  PROVE  Fetching'
<1> SUFFICES ASSUME NEW p \in Process, NEW k \in Opened', client'[p] = k
             PROVE  Fetched(p, k)'
  BY DEF Fetching
<1>1. /\ Fetched(p, k) /\ k \in Opened /\ client[p] = k /\ k \in Conn
      /\ \A d \in Document : shelf[p].items[d] # "none" => shelf'[p].items[d] # "none"
  BY ConnFacts DEF Fetching
<1>2. ASSUME NEW x \in In(toServer'[k]), x.method = "DocRequested"
      PROVE  shelf'[p].items[x.hash] # "none"
  <2>1. CASE x \in In(toServer[k])
    <3>1. x \in ToServer
      BY <1>1, <2>1, InType DEF Base, Types
    <3>2. x.hash \in Document
      BY <1>2, <3>1, ToServerFields
    <3> QED
      BY <1>1, <1>2, <2>1, <3>2 DEF Fetched
  <2> QED
    BY <1>2, <2>1
<1>3. ASSUME NEW x \in In(toClient[k]), x.method = "Doc"
      PROVE  \A d \in x.hashes : shelf'[p].items[d] # "none"
  <2>1. x \in ToClient
    BY <1>1, InType DEF Base, Types
  <2>2. x.hashes \subseteq Document
    BY <1>3, <2>1, ToClientFields
  <2> QED
    BY <1>1, <1>3, <2>2 DEF Fetched
<1>4. \A x \in In(toClient'[k]) : x.method = "Doc" => \A d \in x.hashes : shelf'[p].items[d] # "none"
  BY <1>3
<1>5. ASSUME NEW y \in In(signals'[p]), y.conn = k, y.payload.method = "Doc"
      PROVE  \A d \in y.payload.hashes : shelf'[p].items[d] # "none"
  <2>1. CASE y \in In(signals[p])
    <3>1. y \in Signal
      BY <2>1, InType DEF Base, Types
    <3>2. y.payload \in ToClient
      BY <1>5, <3>1 DEF Signal
    <3>3. y.payload.hashes \subseteq Document
      BY <1>5, <3>2, ToClientFields
    <3> QED
      BY <1>1, <1>5, <2>1, <3>3 DEF Fetched
  <2> QED
    BY <1>3, <1>5, <2>1
<1> QED
  BY <1>2, <1>4, <1>5 DEF Fetched

DocsKept == (Stock => Stock') /\ (Fetching => Fetching')

LEMMA DocsServer ==
  ASSUME Base, UNCHANGED <<serverProcess, processOf, client, signals, shelf>>,
         \A k \in Conn : In(toServer'[k]) \subseteq In(toServer[k]),
         NEW X, ServerTells(X),
         Stock => \A k \in Conn : \A x \in X[k] : Stocks(x),
         Fetching => \A p \in Process : \A k \in Opened : client[p] = k =>
           \A x \in X[k] : x.method = "Doc" => \A d \in x.hashes : shelf[p].items[d] # "none"
  PROVE  DocsKept
<1>1. \A k \in Conn : In(toClient'[k]) \subseteq In(toClient[k]) \cup X[k]
  BY ServerTellsElements DEF Base
<1>2. Opened' = Opened /\ Opened \subseteq Conn
  BY ConnFacts DEF Opened
<1>3. serverStore' = serverStore /\ serverNames' = serverNames
  BY DEF serverStore, serverNames
<1>4. ASSUME Stock
      PROVE  Stock'
  <2>1. \A k \in Conn : \A x \in X[k] : Stocks(x)'
    BY <1>3, <1>4 DEF Stocks
  <2> QED
    BY <1>1, <1>3, <1>4, <2>1, StockKept
<1>5. ASSUME Fetching
      PROVE  Fetching'
  BY <1>1, <1>2, <1>5, FetchingKept
<1> QED
  BY <1>4, <1>5 DEF DocsKept

LEMMA DocsServerStep == Base /\ ServerStep => DocsKept
<1> SUFFICES ASSUME Base, ServerStep
             PROVE  DocsKept
  OBVIOUS
<1>1. Types
  BY DEF Base
<1>2. UNCHANGED <<serverProcess, processOf, client, signals, shelf>>
  BY DEF ServerStep, constantVars, interfaceVars
<1>3. PICK k \in Conn :
        onNewConnection(k) \/ onClientSocketDisconnected(k) \/ onClientPayloadReceived(k)
  BY DEF ServerStep
<1>4. \A m : Stocks(Asked(m)) /\ Stocks(Answer(m)) /\ Asked(m).method # "Doc" /\ Answer(m).method # "Doc"
  BY DEF Stocks, Asked, Answer
<1>5. CASE onNewConnection(k)
  <2>1. UNCHANGED <<toServer, toClient>> /\ Opened' = Opened
    BY <1>2, <1>5 DEF onNewConnection, networkVars, Opened
  <2>2. Stock => Stock'
    BY <1>2, <2>1 DEF Stock, Stocks, serverStore, serverNames
  <2>3. Fetching => Fetching'
    BY <1>2, <2>1 DEF Fetching, Fetched
  <2> QED
    BY <2>2, <2>3 DEF DocsKept
<1>6. CASE onClientSocketDisconnected(k)
  <2>1. PICK out \in Message : ServerTells(ToSome(Peers(k), Asked(out)))
    BY <1>1, <1>6, Disconnected
  <2>2. \A j \in Conn : \A x \in ToSome(Peers(k), Asked(out))[j] : Stocks(x) /\ x.method # "Doc"
    BY <1>4 DEF ToSome
  <2>3. \A j \in Conn : In(toServer'[j]) \subseteq In(toServer[j])
    BY <1>1, <1>6, InEmpty DEF onClientSocketDisconnected, Types
  <2> QED
    BY <1>2, <2>1, <2>2, <2>3, ConnFacts, DocsServer
<1>7. CASE onClientPayloadReceived(k)
  <2>1. \A j \in Conn : In(toServer'[j]) \subseteq In(toServer[j])
    BY <1>1, <1>7, Handled
  <2>2. PICK m \in ToServer : /\ m = Head(toServer[k]) /\ In(toServer[k]) = {m} \cup In(toServer'[k])
                             /\ Does(k, m)
    BY <1>1, <1>7, PayloadCases
  <2>3. CASE m.method = "Handshake" /\ handshake(k)
    <3>1. PICK arrived \in Message, s \in Session :
            /\ s.names = serverNames
            /\ ServerTells([ToSome(Peers(k), Asked(arrived)) EXCEPT ![k] = {s}])
      BY <1>1, <2>3, Handshaken
    <3>2. s.method = "Session" /\ (Stock => Stocks(s))
      BY <3>1 DEF Session, Stocks, Stock
    <3>3. \A j \in Conn : \A x \in [ToSome(Peers(k), Asked(arrived)) EXCEPT ![k] = {s}][j] :
            (Stock => Stocks(x)) /\ x.method # "Doc"
      BY <1>4, <3>2 DEF ToSome
    <3> QED
      BY <1>2, <2>1, <3>1, <3>3, ConnFacts, DocsServer
  <2>4. CASE m.method = "Message" /\ m.message \in Message /\ interpretMessage(k, m.message)
    <3>1. PICK news \in SUBSET Message, whispered \in SUBSET Conn :
            ServerTells(Told(k, m.message, news, whispered))
      BY <1>1, <2>4, Interpreted
    <3>2. \A j \in Conn : \A x \in Told(k, m.message, news, whispered)[j] : Stocks(x) /\ x.method # "Doc"
      BY <1>4 DEF Told
    <3> QED
      BY <1>2, <2>1, <3>1, <3>2, ConnFacts, DocsServer
  <2>5. CASE /\ ServerTells(ToSome(Peers(k), m))
             /\ m \in Music \/ m.method = "DocAvailable"
    <3>1. m.method # "Doc" /\ (Stock => Stocks(m))
      BY <2>2, <2>5 DEF Music, Stocks, Stock
    <3>2. \A j \in Conn : \A x \in ToSome(Peers(k), m)[j] : (Stock => Stocks(x)) /\ x.method # "Doc"
      BY <3>1 DEF ToSome
    <3> QED
      BY <1>2, <2>1, <2>5, <3>2, ConnFacts, DocsServer
  <2>6. CASE /\ m.method = "DocRequested"
             /\ \E d \in ToClient : /\ d = [method |-> "Doc", hashes |-> {m.hash} \cap serverStore]
                                    /\ ServerTells(ToSome({k}, d))
    <3>1. PICK d : /\ d = [method |-> "Doc", hashes |-> {m.hash} \cap serverStore]
                   /\ ServerTells(ToSome({k}, d))
      BY <2>6
    <3>2. d.method = "Doc" /\ d.hashes = {m.hash} \cap serverStore
      BY <3>1
    <3>3. Stock => Stocks(d)
      BY <2>2, <2>6, <3>2 DEF Stocks, Stock
    <3>4. ASSUME Fetching, NEW p \in Process, client[p] = k, k \in Opened
          PROVE  \A h \in d.hashes : shelf[p].items[h] # "none"
      BY <2>2, <2>6, <3>2, <3>4 DEF Fetching, Fetched
    <3> HIDE DEF Stock, Fetching
    <3>5. Stock => \A j \in Conn : \A x \in ToSome({k}, d)[j] : Stocks(x)
      BY <3>3 DEF ToSome
    <3>6. Fetching => \A p \in Process : \A j \in Opened : client[p] = j =>
            \A x \in ToSome({k}, d)[j] : x.method = "Doc" => \A h \in x.hashes : shelf[p].items[h] # "none"
      BY <3>4, ConnFacts DEF ToSome
    <3> QED
      BY <1>2, <2>1, <3>1, <3>5, <3>6, DocsServer
  <2> QED
    BY <2>2, <2>3, <2>4, <2>5, <2>6 DEF Does
<1> QED
  BY <1>3, <1>5, <1>6, <1>7

LEMMA DocsClientStep == Base /\ ClientStep => DocsKept
<1> SUFFICES ASSUME Base, ClientStep
             PROVE  DocsKept
  OBVIOUS
<1>1. PICK k \in Conn : onPayloadReceived(k) \/ onError(k)
  BY DEF ClientStep
<1>2. UNCHANGED <<serverProcess, processOf, client, toServer, shelf>>
  BY <1>1 DEF ClientStep, constantVars, onPayloadReceived, onError, interfaceVars
<1>3. serverStore' = serverStore /\ serverNames' = serverNames /\ Opened' = Opened
  BY <1>2 DEF serverStore, serverNames, Opened
<1>4. CASE onPayloadReceived(k)
  <2>1. PICK x \in ToClient, p \in Process : Reads(k, x, p)
    BY <1>4, Read
  <2>2. /\ client[p] = k
        /\ x \in In(toClient[k])
        /\ \A j \in Conn : In(toClient'[j]) \subseteq In(toClient[j])
        /\ In(signals'[p]) = In(signals[p]) \cup {[conn |-> k, payload |-> x]}
        /\ \A q \in Process \ {p} : signals'[q] = signals[q]
    BY <2>1 DEF Reads
  <2>3. \A q \in Process : \A y \in In(signals'[q]) :
          y \in In(signals[q]) \/ (y.payload \in In(toClient[k]) /\ q = p)
    BY <2>2
  <2>4. Stock => Stock'
    <3>1. SUFFICES ASSUME Stock
                   PROVE  Stock'
      OBVIOUS
    <3>2. \A y \in In(toClient[k]) : Stocks(y)
      BY <3>1 DEF Stock
    <3> QED
      BY <1>2, <1>3, <2>2, <2>3, <3>1, <3>2, StockKept
  <2>5. \A q \in Process : \A j \in Opened : client[q] = j => \A y \in In(signals'[q]) :
          y \in In(signals[q]) \/ y.payload \in In(toClient[j])
    BY <2>2, <2>3
  <2>6. Fetching => Fetching'
    BY <1>2, <1>3, <2>2, <2>5, ConnFacts, FetchingKept
  <2> QED
    BY <2>4, <2>6 DEF DocsKept
<1>5. CASE onError(k)
  <2>1. PICK p \in Process : Fails(k, p)
    BY <1>5, Failed
  <2>2. /\ \A j \in Conn : In(toClient'[j]) \subseteq In(toClient[j])
        /\ In(signals'[p]) = In(signals[p]) \cup {[conn |-> k, payload |-> [method |-> "Ended"]]}
        /\ \A q \in Process \ {p} : signals'[q] = signals[q]
    BY <2>1, InEmpty DEF Fails, Base, Types
  <2>3. \A q \in Process : \A y \in In(signals'[q]) :
          y \in In(signals[q]) \/ (y.payload.method # "Doc" /\ Stocks(y.payload))
    BY <2>2 DEF Stocks
  <2>4. Stock => Stock'
    BY <1>2, <1>3, <2>2, <2>3, StockKept
  <2>5. Fetching => Fetching'
    BY <1>2, <1>3, <2>2, <2>3, ConnFacts, FetchingKept
  <2> QED
    BY <2>4, <2>5 DEF DocsKept
<1> QED
  BY <1>1, <1>4, <1>5

DocMethods == {"DocAvailable", "DocRequested"}

LEMMA ItemsOffered ==
  ASSUME NEW s \in Shelf, NEW D \in SUBSET Document, NEW b \in BOOLEAN, NEW e \in Document
  PROVE  /\ s.items[e] # "none" => shelfOnSession(s, b, D).items[e] # "none"
         /\ temporaryItems(s, D).items[e] \in Offers => s.items[e] \in Offers \/ e \in D
         /\ shelfOnSession(s, b, D).items[e] \in Offers => s.items[e] \in Offers \/ e \in D
<1>1. e \in Document
  OBVIOUS
<1> QED
  BY <1>1, ItemsKept

LEMMA NoDocTold ==
  ASSUME Base, NEW p \in Process,
         \/ toServer' = toServer
         \/ \E x \in Music : ClientTells(p, x)
         \/ \E m \in Message : ClientTells(p, Asked(m))
  PROVE  \A k \in Conn : \A x \in In(toServer'[k]) : x \in In(toServer[k]) \/ x.method \notin DocMethods
<1>1. ASSUME NEW x \in ToServer, x.method \notin DocMethods, ClientTells(p, x)
      PROVE  \A k \in Conn : \A y \in In(toServer'[k]) : y \in In(toServer[k]) \/ y.method \notin DocMethods
  BY <1>1, ClientTellsElements DEF Base
<1>2. \A x \in Music : x \in ToServer /\ x.method \notin DocMethods
  BY MusicIsSent DEF Music, DocMethods
<1>3. \A m \in Message : Asked(m) \in ToServer /\ Asked(m).method \notin DocMethods
  BY MessageSent DEF Asked, DocMethods
<1> QED
  BY <1>1, <1>2, <1>3

\* A step that changes the shelf of p, and what the server has with it.
LEMMA StockActed ==
  ASSUME Base, Stock, serverProcess' = serverProcess,
         NEW p \in Process, NEW s \in Shelf, shelf' = [shelf EXCEPT ![p] = s],
         shelf[p].store \subseteq s.store,
         serverProcess = p => s.names \subseteq shelf[p].names \cup s.store,
         \A d \in Document : s.items[d] \in Offers => shelf[p].items[d] \in Offers \/ d \in serverStore',
         \A k \in Conn : \A x \in In(toServer'[k]) :
           x \in In(toServer[k]) \/ (x.method \in DocMethods => x.hash \in serverStore'),
         \A k \in Conn : In(toClient'[k]) \subseteq In(toClient[k]),
         \A q \in Process : In(signals'[q]) \subseteq In(signals[q])
  PROVE  Stock'
<1>1. /\ shelf'[p] = s /\ \A q \in Process \ {p} : shelf'[q] = shelf[q]
      /\ serverStore \subseteq serverStore'
      /\ serverProcess = p => serverNames' = s.names /\ serverStore' = s.store
      /\ serverProcess # p => serverNames' = serverNames
  BY ShelfChanged DEF Base
<1>2. serverNames' \subseteq serverNames \cup serverStore'
  <2>1. CASE serverProcess = p
    <3>1. p # Alone
      BY AloneAssumption
    <3>2. serverNames = shelf[p].names
      BY <2>1, <3>1 DEF serverNames
    <3> QED
      BY <1>1, <2>1, <3>2
  <2> QED
    BY <1>1, <2>1
<1>3. \A q \in Process : \A d \in Document :
        shelf'[q].items[d] \in Offers => shelf[q].items[d] \in Offers \/ d \in serverStore'
  BY <1>1
<1>4. \A k \in Conn : \A x \in In(toClient'[k]) : x \in In(toClient[k]) \/ Stocks(x)'
  OBVIOUS
<1>5. \A q \in Process : \A y \in In(signals'[q]) :
        y \in In(signals[q]) \/ Stocks(y.payload) \/ Stocks(y.payload)'
  OBVIOUS
<1> QED
  BY <1>1, <1>2, <1>3, <1>4, <1>5, StockKept DEF DocMethods

LEMMA FetchingActed ==
  ASSUME Base, Fetching, UNCHANGED <<processOf, client>>,
         NEW p \in Process, NEW s \in Shelf, shelf' = [shelf EXCEPT ![p] = s],
         \A d \in Document : shelf[p].items[d] # "none" => s.items[d] # "none",
         \/ \A k \in Conn : \A x \in In(toServer'[k]) : x \in In(toServer[k]) \/ x.method \notin DocMethods
         \/ \E x \in ToServer : ClientTells(p, x)
                                /\ (x.method = "DocRequested" => s.items[x.hash] # "none"),
         \A k \in Conn : In(toClient'[k]) \subseteq In(toClient[k]),
         \A q \in Process : In(signals'[q]) \subseteq In(signals[q])
  PROVE  Fetching'
<1>1. Opened' = Opened /\ Opened \subseteq Conn /\ NoConn \notin Opened
  BY ConnFacts DEF Opened
<1>2. shelf'[p] = s /\ \A q \in Process \ {p} : shelf'[q] = shelf[q]
  BY DEF Base, Types
<1>3. \A q \in Process : \A k \in Opened : client[q] = k =>
        \A x \in In(toServer'[k]) :
          x \in In(toServer[k]) \/ (x.method = "DocRequested" => shelf'[q].items[x.hash] # "none")
  <2>1. CASE \A k \in Conn : \A x \in In(toServer'[k]) : x \in In(toServer[k]) \/ x.method \notin DocMethods
    BY <1>1, <2>1 DEF DocMethods
  <2>2. CASE \E x \in ToServer : ClientTells(p, x)
                                /\ (x.method = "DocRequested" => s.items[x.hash] # "none")
    <3>1. PICK x \in ToServer : ClientTells(p, x)
                                /\ (x.method = "DocRequested" => s.items[x.hash] # "none")
      BY <2>2
    <3>2. \A k \in Conn :
            In(toServer'[k]) = In(toServer[k]) \cup (IF k = client[p] /\ link[k] = "up" THEN {x} ELSE {})
      BY <3>1, ClientTellsElements DEF Base
    <3>3. \A q \in Process : \A k \in Opened : client[q] = k /\ client[p] = k => q = p
      BY <1>1 DEF Base, Connections
    <3> QED
      BY <1>1, <1>2, <3>1, <3>2, <3>3
  <2> QED
    BY <2>1, <2>2
<1>4. \A q \in Process : \A d \in Document : shelf[q].items[d] # "none" => shelf'[q].items[d] # "none"
  BY <1>2
<1> QED
  BY <1>1, <1>3, <1>4, FetchingKept

LEMMA FetchingInterface == Base /\ Fetching /\ InterfaceStep => Fetching'
<1> SUFFICES ASSUME Base, Fetching, InterfaceStep
             PROVE  Fetching'
  OBVIOUS
<1>1. Types
  BY DEF Base
<1>2. PICK p \in Process :
        \/ bindObservedClient(p) \/ onConnectButtonPressed(p)
        \/ sendMessage(p) \/ musicAct(p)
        \/ dropEvent(p) \/ onItemDoubleClick(p)
        \/ onSignal(p)
  BY DEF InterfaceStep, musicAct
<1>3. shelf[p] \in Shelf /\ hostAble[p] \in BOOLEAN /\ shelf = [shelf EXCEPT ![p] = shelf[p]]
  BY <1>1 DEF Types
<1>4. PICK s0 \in Shelf : s0 = shelf[p]
  BY <1>3
<1>5. ASSUME shelf' = shelf, UNCHANGED <<processOf, client, toClient>>,
             \A q \in Process : In(signals'[q]) \subseteq In(signals[q]),
             \/ toServer' = toServer
             \/ \E x \in Music : ClientTells(p, x)
             \/ \E m \in Message : ClientTells(p, Asked(m))
      PROVE  Fetching'
  <2>1. \A k \in Conn : \A x \in In(toServer'[k]) : x \in In(toServer[k]) \/ x.method \notin DocMethods
    BY <1>5, NoDocTold
  <2> QED
    BY <1>3, <1>4, <1>5, <2>1, FetchingActed
<1>6. ASSUME endClient(p), UNCHANGED <<processOf, toServer>>,
             \A q \in Process : In(signals'[q]) \subseteq In(signals[q])
      PROVE  Fetching'
  <2>1. CASE /\ client[p] = NoConn /\ crashed' = "ended"
             /\ UNCHANGED <<link, toClient, client, hostAble, interfaceVars>>
    BY <1>5, <1>6, <2>1 DEF interfaceVars
  <2>2. CASE \E k \in Opened : Ends(p, k)
    <3>1. PICK k \in Opened : Ends(p, k)
      BY <2>2
    <3>2. \A j \in Conn : In(toClient'[j]) \subseteq In(toClient[j])
      BY <1>6, EndedShrinks
    <3>3. /\ client'[p] = NoConn
          /\ \A q \in Process \ {p} : client'[q] = client[q] /\ shelf'[q] = shelf[q]
      BY <1>1, <3>1 DEF Ends, Types
    <3>4. Opened' = Opened /\ Opened \subseteq Conn /\ NoConn \notin Opened
      BY <1>6, ConnFacts DEF Opened
    <3>5. \A q \in Process : \A j \in Opened : client'[q] = j => q # p
      BY <3>3, <3>4
    <3> QED
      BY <1>6, <3>2, <3>3, <3>4, <3>5, FetchingKept
  <2> QED
    BY <1>6, <2>1, <2>2, Ended
<1>7. CASE bindObservedClient(p)
  <2>1. PICK k \in Conn \ Opened :
          /\ Opened' = Opened \cup {k}
          /\ In(toServer'[k]) = {[method |-> "Handshake"]}
          /\ \A j \in Conn \ {k} : toServer'[j] = toServer[j]
          /\ client' = [client EXCEPT ![p] = k]
    BY <1>7, Bound
  <2>2. UNCHANGED <<toClient, signals, shelf>>
    BY <1>7 DEF bindObservedClient
  <2>3. client'[p] = k /\ \A q \in Process \ {p} : client'[q] = client[q]
    BY <1>1, <2>1 DEF Types
  <2>4. \A j \in Opened : toServer'[j] = toServer[j]
    BY <2>1, ConnFacts
  <2>5. In(toClient[k]) = {} /\ \A y \in In(signals[p]) : y.conn # k
    BY <2>1 DEF Base, Connections
  <2> SUFFICES ASSUME NEW q \in Process, NEW j \in Opened', client'[q] = j
               PROVE  Fetched(q, j)'
    BY DEF Fetching
  <2>6. CASE q = p
    BY <2>1, <2>2, <2>3, <2>5, <2>6 DEF Fetched
  <2>7. CASE q # p
    <3>1. client[q] = j
      BY <2>3, <2>7
    <3>2. j \in Opened
      <4>1. client[q] # NoConn
        BY <2>1, <3>1, ConnFacts
      <4> QED
        BY <3>1, <4>1 DEF Base, Connections
    <3>3. Fetched(q, j)
      BY <3>1, <3>2 DEF Fetching
    <3> QED
      BY <2>2, <2>4, <3>1, <3>2, <3>3 DEF Fetched
  <2> QED
    BY <2>6, <2>7
<1>8. CASE onConnectButtonPressed(p)
  BY <1>6, <1>8 DEF onConnectButtonPressed
<1>9. CASE sendMessage(p)
  <2>1. PICK m \in Message : toServer' = toServer \/ ClientTells(p, Asked(m))
    BY <1>9, Said
  <2>2. UNCHANGED <<processOf, client, toClient, signals, shelf>>
    BY <1>9, Said
  <2> QED
    BY <1>5, <2>1, <2>2
<1>10. CASE musicAct(p)
  <2>1. UNCHANGED <<processOf, client, toClient, signals, shelf>>
        /\ (toServer' = toServer \/ \E x \in Music : ClientTells(p, x))
    BY <1>1, <1>10, MusicTold
  <2> QED
    BY <1>5, <2>1
<1>11. CASE dropEvent(p)
  <2>1. PICK d \in Document :
          /\ shelf' = [shelf EXCEPT ![p] = downloaded(@, d)]
          /\ shelf' \in [Process -> Shelf]
          /\ toServer' = toServer \/ ClientTells(p, [method |-> "DocAvailable", hash |-> d])
    BY <1>11, Dropped
  <2>2. UNCHANGED <<processOf, client, toClient, signals>>
    BY <1>11, Dropped
  <2>3. [method |-> "DocAvailable", hash |-> d] \in ToServer
    BY DEF ToServer
  <2>4. PICK s \in Shelf : s = downloaded(shelf[p], d)
    BY <1>3, ShelfTypes
  <2>5. shelf' = [shelf EXCEPT ![p] = s]
    BY <2>1, <2>4
  <2>6. \A e \in Document : shelf[p].items[e] # "none" => s.items[e] # "none"
    BY <1>3, <2>4, ItemsKept
  <2>7. \/ \A k \in Conn : \A x \in In(toServer'[k]) : x \in In(toServer[k]) \/ x.method \notin DocMethods
        \/ \E x \in ToServer : ClientTells(p, x)
                               /\ (x.method = "DocRequested" => s.items[x.hash] # "none")
    BY <2>1, <2>3
  <2> QED
    BY <2>2, <2>5, <2>6, <2>7, FetchingActed
<1>12. CASE onItemDoubleClick(p)
  <2>1. PICK d \in Document :
          /\ shelf' = [shelf EXCEPT ![p] = downloading(@, d)]
          /\ ClientTells(p, [method |-> "DocRequested", hash |-> d])
    BY <1>12, DocAsked
  <2>2. UNCHANGED <<processOf, client, toClient, signals>>
    BY <1>12, DocAsked
  <2>3. [method |-> "DocRequested", hash |-> d] \in ToServer
    BY DEF ToServer
  <2>4. PICK s \in Shelf : s = downloading(shelf[p], d)
    BY <1>3, ShelfTypes
  <2>5. shelf' = [shelf EXCEPT ![p] = s]
    BY <2>1, <2>4
  <2>6. s.items[d] # "none" /\ \A e \in Document : shelf[p].items[e] # "none" => s.items[e] # "none"
    BY <1>3, <2>4, ItemsKept
  <2>7. \E x \in ToServer : ClientTells(p, x)
                            /\ (x.method = "DocRequested" => s.items[x.hash] # "none")
    BY <2>1, <2>3, <2>6
  <2> QED
    BY <2>2, <2>5, <2>6, <2>7, FetchingActed
<1>13. CASE onSignal(p)
  <2>1. \A q \in Process : In(signals'[q]) \subseteq In(signals[q])
    BY <1>13, SignalsShrink
  <2>2. PICK k \in Opened, m \in ToClient \cup [method : {"Ended"}] : Takes(p, k, m) /\ Shows(p, m)
    BY <1>13, SignalCases
  <2>3. UNCHANGED processOf
    BY <2>2 DEF Takes
  <2>4. CASE m \in Session /\ onGameSessionReceived(p, m) /\ UNCHANGED <<toClient, client>>
    <3>1. /\ shelf' = [shelf EXCEPT ![p] = shelfOnSession(@, hostAble[p], m.names)]
          /\ shelf' \in [Process -> Shelf]
          /\ toServer' = toServer \/ \E x \in Music : ClientTells(p, x)
      BY <2>4, Joins
    <3>2. \A j \in Conn : \A x \in In(toServer'[j]) : x \in In(toServer[j]) \/ x.method \notin DocMethods
      BY <3>1, NoDocTold
    <3>3. m.names \in SUBSET Document
      BY <2>4 DEF Session
    <3>4. PICK s \in Shelf : s = shelfOnSession(shelf[p], hostAble[p], m.names)
      BY <1>1, <3>1 DEF Types
    <3>5. shelf' = [shelf EXCEPT ![p] = s]
      BY <3>1, <3>4
    <3>6. ASSUME NEW e \in Document
          PROVE  shelf[p].items[e] # "none" => s.items[e] # "none"
      <4>1. PICK D \in SUBSET Document, b \in BOOLEAN : D = m.names /\ b = hostAble[p]
        BY <1>3, <3>3
      <4>2. s0.items[e] # "none" => shelfOnSession(s0, b, D).items[e] # "none"
        BY ItemsOffered
      <4>3. s = shelfOnSession(s0, b, D)
        BY <1>4, <3>4, <4>1
      <4> QED
        BY <1>4, <4>2, <4>3
    <3> QED
      BY <2>1, <2>3, <2>4, <3>2, <3>5, <3>6, FetchingActed
  <2>5. CASE m \in ToClient /\ onAudioSignal(p, m) /\ UNCHANGED <<toClient, client>>
    <3>1. shelf' = shelf /\ (toServer' = toServer \/ \E x \in Music : ClientTells(p, x))
      BY <2>5, MusicReceived
    <3> QED
      BY <1>5, <2>1, <2>3, <2>5, <3>1
  <2>6. CASE m \in ToClient /\ onChatSignal(p, m) /\ UNCHANGED <<toClient, client>>
    <3>1. shelf' = shelf /\ toServer' = toServer
      BY <2>6, ChatReceived
    <3> QED
      BY <1>5, <2>1, <2>3, <2>6, <3>1
  <2>7. CASE m \in ToClient /\ onDocumentSignal(p, m) /\ UNCHANGED <<toClient, client>>
    <3>1. PICK s \in Shelf : /\ shelf' = [shelf EXCEPT ![p] = s]
                             /\ \A e \in Document : shelf[p].items[e] # "none" => s.items[e] # "none"
      <4>1. CASE m.method = "DocAvailable" /\ m.hash \in Document
                 /\ shelf' = [shelf EXCEPT ![p] = temporaryItems(@, {m.hash})]
        <5>1. temporaryItems(shelf[p], {m.hash}) \in Shelf
          BY <1>3, <4>1, ShelfOfferedTypes
        <5>2. {m.hash} \in SUBSET Document
          BY <4>1
        <5>3. \A e \in Document :
                shelf[p].items[e] # "none" => temporaryItems(shelf[p], {m.hash}).items[e] # "none"
          BY <1>3, <5>2, ItemsKept
        <5> QED
          BY <4>1, <5>1, <5>3
      <4>2. CASE shelf' = shelf
        BY <1>3, <4>2
      <4>3. CASE \E d \in Document : shelf' = [shelf EXCEPT ![p] = downloaded(@, d)]
        <5>1. PICK d \in Document : shelf' = [shelf EXCEPT ![p] = downloaded(@, d)]
          BY <4>3
        <5>2. downloaded(shelf[p], d) \in Shelf
          BY <1>3, ShelfTypes
        <5>3. \A e \in Document :
                shelf[p].items[e] # "none" => downloaded(shelf[p], d).items[e] # "none"
          BY <1>3, ItemsKept
        <5> QED
          BY <5>1, <5>2, <5>3
      <4> QED
        BY <2>7, <4>1, <4>2, <4>3, DocumentReceived
    <3>2. toServer' = toServer
      BY <2>7, DocumentReceived
    <3>3. \A j \in Conn : \A x \in In(toServer'[j]) : x \in In(toServer[j]) \/ x.method \notin DocMethods
      BY <3>2
    <3> QED
      BY <2>1, <2>3, <2>7, <3>1, <3>3, FetchingActed
  <2>8. CASE endClient(p) /\ UNCHANGED toServer
    BY <1>6, <2>1, <2>3, <2>8
  <2> QED
    BY <2>2, <2>4, <2>5, <2>6, <2>7, <2>8 DEF Shows
<1> QED
  BY <1>2, <1>7, <1>8, <1>9, <1>10, <1>11, <1>12, <1>13

\* The server's process is the only one to host, and what stops it has not happened.
Guarded == Loopback \subseteq {serverProcess} /\ slips \cap {"late", "dropped early"} = {}

AllMastered == \A p \in Process : Mastered(p)

LEMMA StockInterface ==
  ASSUME Base, Hosting, AllMastered, Stock, Guarded', InterfaceStep
  PROVE  Stock'
<1>1. Types
  BY DEF Base
<1>2. PICK p \in Process :
        \/ bindObservedClient(p) \/ onConnectButtonPressed(p)
        \/ sendMessage(p) \/ musicAct(p)
        \/ dropEvent(p) \/ onItemDoubleClick(p)
        \/ onSignal(p)
  BY DEF InterfaceStep, musicAct
<1>3. shelf[p] \in Shelf /\ hostAble[p] \in BOOLEAN /\ shelf = [shelf EXCEPT ![p] = shelf[p]]
      /\ serverProcess' = serverProcess
  BY <1>1 DEF Types, InterfaceStep
<1>4. PICK s0 \in Shelf : s0 = shelf[p]
  BY <1>3
<1>5. p # Alone
  BY AloneAssumption
<1>6. ASSUME shelf' = shelf,
             \A k \in Conn : \A x \in In(toServer'[k]) : x \in In(toServer[k]) \/ x.method \notin DocMethods,
             \A k \in Conn : In(toClient'[k]) \subseteq In(toClient[k]),
             \A q \in Process : In(signals'[q]) \subseteq In(signals[q])
      PROVE  Stock'
  BY <1>3, <1>4, <1>6, StockActed
<1>7. ASSUME endClient(p), UNCHANGED toServer,
             \A q \in Process : In(signals'[q]) \subseteq In(signals[q])
      PROVE  Stock'
  <2>1. \A j \in Conn : In(toClient'[j]) \subseteq In(toClient[j])
    BY <1>7, EndedShrinks
  <2>2. CASE /\ client[p] = NoConn /\ crashed' = "ended"
             /\ UNCHANGED <<link, toClient, client, hostAble, interfaceVars>>
    BY <1>6, <1>7, <2>1, <2>2 DEF interfaceVars
  <2>3. CASE \E k \in Opened : Ends(p, k)
    <3>1. shelf' = [shelf EXCEPT ![p] = shelfClosed(@)]
      BY <2>3 DEF Ends
    <3>2. PICK s \in Shelf : s = shelfClosed(shelf[p])
      BY <1>3, ShelfClosedType
    <3>3. shelf' = [shelf EXCEPT ![p] = s]
      BY <3>1, <3>2
    <3>4. s.names = shelf[p].names /\ s.store = shelf[p].store
          /\ \A e \in Document : s.items[e] \notin Offers
      BY <1>3, <3>2, ItemsKept, StoresKept DEF shelfClosed, Shelf
    <3> QED
      BY <1>3, <1>7, <2>1, <3>3, <3>4, StockActed
  <2> QED
    BY <1>7, <2>2, <2>3, Ended
<1>8. CASE bindObservedClient(p)
  <2>1. PICK k \in Conn \ Opened :
          /\ In(toServer'[k]) = {[method |-> "Handshake"]}
          /\ \A j \in Conn \ {k} : toServer'[j] = toServer[j]
    BY <1>8, Bound
  <2>2. UNCHANGED <<toClient, signals, shelf>>
    BY <1>8 DEF bindObservedClient
  <2>3. ASSUME NEW j \in Conn, NEW x \in In(toServer'[j])
        PROVE  x \in In(toServer[j]) \/ x.method \notin DocMethods
    <3>1. CASE j = k
      <4>1. x \in {[method |-> "Handshake"]}
        BY <2>1, <2>3, <3>1
      <4> QED
        BY <4>1 DEF DocMethods
    <3>2. CASE j # k
      BY <2>1, <2>3, <3>2
    <3> QED
      BY <3>1, <3>2
  <2> QED
    BY <1>6, <2>2, <2>3
<1>9. CASE onConnectButtonPressed(p)
  BY <1>7, <1>9 DEF onConnectButtonPressed
<1>10. CASE sendMessage(p)
  <2>1. PICK m \in Message : toServer' = toServer \/ ClientTells(p, Asked(m))
    BY <1>10, Said
  <2>2. UNCHANGED <<toClient, signals, shelf>>
    BY <1>10, Said
  <2>3. \A j \in Conn : \A x \in In(toServer'[j]) : x \in In(toServer[j]) \/ x.method \notin DocMethods
    BY <2>1, NoDocTold
  <2> QED
    BY <1>6, <2>2, <2>3
<1>11. CASE musicAct(p)
  <2>1. UNCHANGED <<toClient, signals, shelf>>
        /\ (toServer' = toServer \/ \E x \in Music : ClientTells(p, x))
    BY <1>1, <1>11, MusicTold
  <2>2. \A j \in Conn : \A x \in In(toServer'[j]) : x \in In(toServer[j]) \/ x.method \notin DocMethods
    BY <2>1, NoDocTold
  <2> QED
    BY <1>6, <2>1, <2>2
<1>12. CASE dropEvent(p)
  <2>1. PICK d \in Document :
          /\ shelf' = [shelf EXCEPT ![p] = downloaded(@, d)]
          /\ \/ toServer' = toServer
             \/ hostAble[p] /\ ClientTells(p, [method |-> "DocAvailable", hash |-> d])
    BY <1>12, Dropped
  <2>2. UNCHANGED <<toClient, signals>>
    BY <1>12, Dropped
  <2>3. PICK s \in Shelf : s = downloaded(shelf[p], d)
    BY <1>3, ShelfTypes
  <2>4. shelf' = [shelf EXCEPT ![p] = s]
    BY <2>1, <2>3
  <2>5. /\ s.names = shelf[p].names \cup {d} /\ s.store = shelf[p].store \cup {d}
        /\ \A e \in Document : s.items[e] \in Offers => shelf[p].items[e] \in Offers
    <3>1. s.names = shelf[p].names \cup {d} /\ s.store = shelf[p].store \cup {d}
      BY <1>3, <2>3 DEF downloaded, Shelf
    <3>2. ASSUME NEW e \in Document
          PROVE  downloaded(shelf[p], d).items[e] \in Offers => shelf[p].items[e] \in Offers
      BY <1>3, ItemsKept
    <3> QED
      BY <2>3, <3>1, <3>2
  <2>6. \A k \in Conn : \A x \in In(toServer'[k]) :
          x \in In(toServer[k]) \/ (x.method \in DocMethods => x.hash \in serverStore')
    <3>1. SUFFICES ASSUME NEW k \in Conn, NEW x \in In(toServer'[k]), x \notin In(toServer[k])
                   PROVE  x.method \in DocMethods => x.hash \in serverStore'
      OBVIOUS
    <3> DEFINE told == [method |-> "DocAvailable", hash |-> d]
    <3>2. told \in ToServer /\ told.hash = d
      BY DEF ToServer
    <3>3. hostAble[p] /\ ClientTells(p, told)
      BY <2>1, <3>1
    <3> HIDE DEF told
    <3>4. k = client[p] /\ link[k] = "up" /\ x = told
      <4>1. In(toServer'[k]) = In(toServer[k])
                                 \cup (IF k = client[p] /\ link[k] = "up" THEN {told} ELSE {})
        BY <1>1, <3>2, <3>3, ClientTellsElements
      <4> QED
        BY <3>1, <4>1
    <3>5. button[p] = "Connected"
      <4>1. client[p] # NoConn /\ hostAble[p] /\ link[client[p]] = "up"
        BY <3>3, <3>4, ConnFacts
      <4>2. ASSUME button[p] = "Connecting"
            PROVE  FALSE
        <5>1. slips' = slips \cup {"dropped early"}
          BY <1>12, <4>1, <4>2 DEF dropEvent
        <5> QED
          BY <5>1 DEF Guarded
      <4>3. button[p] # "NotConnected" /\ button[p] \in {"NotConnected", "Connecting", "Connected"}
        BY <4>1 DEF Base, Types, Connections
      <4> QED
        BY <4>2, <4>3
    <3>6. k \in Host /\ processOf[k] = p
      BY <3>3, <3>4, <3>5, ConnFacts DEF AllMastered, Mastered, Base, Connections
    <3>7. p = serverProcess
      BY <1>3, <3>6 DEF Hosting, Guarded
    <3>8. serverStore' = s.store
      BY <1>1, <1>3, <2>4, <2>5, <3>7, ShelfChanged
    <3> QED
      BY <2>5, <3>2, <3>4, <3>8
  <2> QED
    BY <1>3, <2>2, <2>4, <2>5, <2>6, StockActed
<1>13. CASE onItemDoubleClick(p)
  <2>1. PICK d \in Document :
          /\ shelf[p].items[d] = "Downloadable"
          /\ shelf' = [shelf EXCEPT ![p] = downloading(@, d)]
          /\ ClientTells(p, [method |-> "DocRequested", hash |-> d])
    BY <1>13, DocAsked
  <2>2. UNCHANGED <<toClient, signals>>
    BY <1>13, DocAsked
  <2>3. PICK s \in Shelf : s = downloading(shelf[p], d)
    BY <1>3, ShelfTypes
  <2>4. shelf' = [shelf EXCEPT ![p] = s]
    BY <2>1, <2>3
  <2>5. s.names = shelf[p].names /\ s.store = shelf[p].store
    BY <1>3, <2>3 DEF downloading, Shelf
  <2>6. d \in serverStore
    BY <2>1 DEF Stock
  <2>7. serverStore \subseteq serverStore'
    BY <1>1, <1>3, <2>4, <2>5, ShelfChanged
  <2>8. ASSUME NEW e \in Document, s.items[e] \in Offers
        PROVE  shelf[p].items[e] \in Offers \/ e \in serverStore'
    <3>1. downloading(shelf[p], d).items[e] \in Offers => shelf[p].items[e] \in Offers \/ e = d
      BY <1>3, ItemsKept
    <3> QED
      BY <2>3, <2>6, <2>7, <2>8, <3>1
  <2>9. \A k \in Conn : \A x \in In(toServer'[k]) :
          x \in In(toServer[k]) \/ (x.method \in DocMethods => x.hash \in serverStore')
    <3> DEFINE told == [method |-> "DocRequested", hash |-> d]
    <3>1. told \in ToServer /\ told.hash = d /\ ClientTells(p, told)
      BY <2>1 DEF ToServer
    <3> HIDE DEF told
    <3>2. \A k \in Conn :
            In(toServer'[k]) = In(toServer[k]) \cup (IF k = client[p] /\ link[k] = "up" THEN {told} ELSE {})
      BY <1>1, <3>1, ClientTellsElements
    <3> QED
      BY <2>6, <2>7, <3>1, <3>2
  <2> QED
    BY <1>3, <2>2, <2>4, <2>5, <2>8, <2>9, StockActed
<1>14. CASE onSignal(p)
  <2>1. \A q \in Process : In(signals'[q]) \subseteq In(signals[q])
    BY <1>14, SignalsShrink
  <2>2. PICK k \in Opened, m \in ToClient \cup [method : {"Ended"}] : Takes(p, k, m) /\ Shows(p, m)
    BY <1>14, SignalCases
  <2>3. Stocks(m)
    <3>1. Head(signals[p]) \in In(signals[p])
      BY <1>14, SignalHead
    <3>2. Head(signals[p]).payload = m
      <4>1. Head(signals[p]) = [conn |-> k, payload |-> m]
        BY <2>2 DEF Takes
      <4> QED
        BY <4>1
    <3> QED
      BY <3>1, <3>2 DEF Stock
  <2>4. CASE m \in Session /\ onGameSessionReceived(p, m) /\ UNCHANGED toClient
    <3>1. /\ shelf' = [shelf EXCEPT ![p] = shelfOnSession(@, hostAble[p], m.names)]
          /\ shelf' \in [Process -> Shelf]
          /\ toServer' = toServer \/ \E x \in Music : ClientTells(p, x)
      BY <2>4, Joins
    <3>2. \A j \in Conn : \A x \in In(toServer'[j]) : x \in In(toServer[j]) \/ x.method \notin DocMethods
      BY <3>1, NoDocTold
    <3>3. m.names \in SUBSET Document /\ m.names \subseteq serverStore
      BY <2>3, <2>4 DEF Session, Stocks
    <3>4. PICK s \in Shelf : s = shelfOnSession(shelf[p], hostAble[p], m.names)
      BY <1>1, <3>1 DEF Types
    <3>5. shelf' = [shelf EXCEPT ![p] = s]
      BY <3>1, <3>4
    <3>6. s.names \subseteq shelf[p].names \cup m.names /\ s.store = shelf[p].store
      BY <1>3, <3>3, <3>4 DEF shelfOnSession, temporaryItems, Shelf
    <3>7. serverStore \subseteq serverStore'
          /\ (serverProcess = p => serverStore = shelf[p].store)
      BY <1>1, <1>3, <1>5, <3>5, <3>6, ShelfChanged DEF serverStore
    <3>8. ASSUME NEW e \in Document, s.items[e] \in Offers
          PROVE  shelf[p].items[e] \in Offers \/ e \in serverStore'
      <4>1. shelfOnSession(shelf[p], hostAble[p], m.names).items[e] \in Offers =>
              shelf[p].items[e] \in Offers \/ e \in m.names
        BY <1>3, <3>3, ItemsOffered
      <4> QED
        BY <3>3, <3>4, <3>7, <3>8, <4>1
    <3> QED
      BY <1>3, <2>1, <2>4, <3>2, <3>3, <3>5, <3>6, <3>7, <3>8, StockActed
  <2>5. CASE m \in ToClient /\ onAudioSignal(p, m) /\ UNCHANGED toClient
    <3>1. shelf' = shelf /\ (toServer' = toServer \/ \E x \in Music : ClientTells(p, x))
      BY <2>5, MusicReceived
    <3>2. \A j \in Conn : \A x \in In(toServer'[j]) : x \in In(toServer[j]) \/ x.method \notin DocMethods
      BY <3>1, NoDocTold
    <3> QED
      BY <1>6, <2>1, <2>5, <3>1, <3>2
  <2>6. CASE m \in ToClient /\ onChatSignal(p, m) /\ UNCHANGED toClient
    <3>1. shelf' = shelf /\ toServer' = toServer
      BY <2>6, ChatReceived
    <3> QED
      BY <1>6, <2>1, <2>6, <3>1
  <2>7. CASE m \in ToClient /\ onDocumentSignal(p, m) /\ UNCHANGED toClient
    <3>1. toServer' = toServer
      BY <2>7, DocumentReceived
    <3>2. CASE m.method = "DocAvailable" /\ m.hash \in Document
               /\ shelf' = [shelf EXCEPT ![p] = temporaryItems(@, {m.hash})]
      <4>1. m.hash \in serverStore /\ {m.hash} \in SUBSET Document
        BY <2>3, <3>2 DEF Stocks
      <4>2. PICK s \in Shelf : s = temporaryItems(shelf[p], {m.hash})
        BY <1>3, <4>1, ShelfOfferedTypes
      <4>3. shelf' = [shelf EXCEPT ![p] = s]
        BY <3>2, <4>2
      <4>4. s.names = shelf[p].names \cup {m.hash} /\ s.store = shelf[p].store
        BY <1>3, <4>2 DEF temporaryItems, Shelf
      <4>5. serverStore \subseteq serverStore'
            /\ (serverProcess = p => serverStore = shelf[p].store)
        BY <1>1, <1>3, <1>5, <4>3, <4>4, ShelfChanged DEF serverStore
      <4>6. ASSUME NEW e \in Document, s.items[e] \in Offers
            PROVE  shelf[p].items[e] \in Offers \/ e \in serverStore'
        <5>1. temporaryItems(shelf[p], {m.hash}).items[e] \in Offers =>
                shelf[p].items[e] \in Offers \/ e \in {m.hash}
          BY <1>3, <4>1, ItemsOffered
        <5> QED
          BY <4>1, <4>2, <4>5, <4>6, <5>1
      <4> QED
        <5>1. serverProcess = p => s.names \subseteq shelf[p].names \cup s.store
          BY <4>1, <4>4, <4>5
        <5>2. \A j \in Conn : \A x \in In(toServer'[j]) : x \in In(toServer[j])
          BY <3>1
        <5> QED
          BY <1>3, <2>1, <2>7, <4>3, <4>4, <4>6, <5>1, <5>2, StockActed
    <3>3. CASE shelf' = shelf
      BY <1>6, <2>1, <2>7, <3>1, <3>3
    <3>4. CASE \E d \in Document : shelf' = [shelf EXCEPT ![p] = downloaded(@, d)]
      <4>1. PICK d \in Document : shelf' = [shelf EXCEPT ![p] = downloaded(@, d)]
        BY <3>4
      <4>2. PICK s \in Shelf : s = downloaded(shelf[p], d)
        BY <1>3, ShelfTypes
      <4>3. shelf' = [shelf EXCEPT ![p] = s]
        BY <4>1, <4>2
      <4>4. s.names = shelf[p].names \cup {d} /\ s.store = shelf[p].store \cup {d}
        BY <1>3, <4>2 DEF downloaded, Shelf
      <4>5. ASSUME NEW e \in Document, s.items[e] \in Offers
            PROVE  shelf[p].items[e] \in Offers
        BY <1>3, <4>2, <4>5, ItemsKept
      <4> QED
        BY <1>3, <2>1, <2>7, <3>1, <4>3, <4>4, <4>5, StockActed
    <3> QED
      BY <2>7, <3>2, <3>3, <3>4, DocumentReceived
  <2>8. CASE endClient(p) /\ UNCHANGED toServer
    BY <1>7, <2>1, <2>8
  <2> QED
    BY <2>2, <2>4, <2>5, <2>6, <2>7, <2>8 DEF Shows
<1> QED
  BY <1>2, <1>8, <1>9, <1>10, <1>11, <1>12, <1>13, <1>14

LEMMA DocsStep ==
  ASSUME Base, Hosting, Mastering, Stocked, Fetching, [Next]_vars
  PROVE  Stocked' /\ Fetching'
<1>1. slips \subseteq slips' /\ serverProcess' = serverProcess
  BY SlipsGrow
<1>2. ASSUME Stock => Stock'
      PROVE  Stocked'
  BY <1>1, <1>2 DEF Stocked
<1>3. CASE ServerStep
  BY <1>2, <1>3, DocsServerStep DEF DocsKept
<1>4. CASE ClientStep
  BY <1>2, <1>4, DocsClientStep DEF DocsKept
<1>5. CASE InterfaceStep
  <2>1. Fetching'
    BY <1>5, FetchingInterface
  <2>2. Guarded' => Stock'
    <3>1. SUFFICES ASSUME Guarded'
                   PROVE  Stock'
      OBVIOUS
    <3>2. Stock /\ AllMastered
      BY <1>1, <3>1 DEF Guarded, Stocked, Mastering, AllMastered
    <3> QED
      BY <1>5, <3>1, <3>2, StockInterface
  <2>3. Stocked'
    BY <2>2 DEF Guarded, Stocked
  <2> QED
    BY <2>1, <2>3
<1>6. CASE UNCHANGED vars
  <2>1. Stock => Stock'
    BY <1>6 DEF vars, constantVars, networkVars, interfaceVars, Stock, Stocks, serverStore, serverNames
  <2>2. Fetching'
    BY <1>6 DEF vars, constantVars, networkVars, interfaceVars, Fetching, Fetched, Opened
  <2> QED
    BY <1>2, <2>1, <2>2
<1> QED
  BY <1>3, <1>4, <1>5, <1>6 DEF Next

LEMMA StopsStep ==
  ASSUME Base, Answers, Mastering, Hearing, Stocked, Fetching, Stops, [Next]_vars
  PROVE  Stops'
<1>1. Types /\ slips \subseteq slips' /\ serverProcess' = serverProcess
  BY SlipsGrow DEF Base
<1>2. CASE UNCHANGED vars
  BY <1>2 DEF Stops, inControl, vars, constantVars, interfaceVars, historyVars
<1>3. CASE crashed' = "no"
  BY <1>3 DEF Stops
<1>4. CASE Next /\ ServerStep
  BY <1>3, <1>4 DEF Next, ServerStep
<1>5. CASE Next /\ ClientStep
  BY <1>3, <1>5 DEF Next, ClientStep, onPayloadReceived, onError, historyVars
<1>6. CASE Next /\ InterfaceStep
  <2>1. PICK p \in Process :
          \/ bindObservedClient(p) \/ onConnectButtonPressed(p)
          \/ sendMessage(p) \/ musicAct(p)
          \/ dropEvent(p) \/ onItemDoubleClick(p)
          \/ onSignal(p)
    BY <1>6 DEF InterfaceStep, musicAct
  <2>2. crashed = "no"
    BY <1>6 DEF Next
  <2>3. CASE crashed' = crashed
    BY <1>3, <2>2, <2>3
  <2>4. ASSUME endClient(p), client[p] = NoConn => "late" \in slips'
        PROVE  Stops'
    <3>1. CASE client[p] = NoConn /\ crashed' = "ended"
      BY <2>4, <3>1 DEF Stops
    <3>2. CASE \E k \in Opened : Ends(p, k)
      BY <2>3, <3>2 DEF Ends
    <3> QED
      BY <2>4, <3>1, <3>2, Ended
  <2>5. CASE bindObservedClient(p) \/ sendMessage(p) \/ dropEvent(p) \/ onItemDoubleClick(p)
    BY <2>3, <2>5 DEF bindObservedClient, sendMessage, dropEvent, onItemDoubleClick, historyVars
  <2>6. CASE onConnectButtonPressed(p)
    <3>1. client[p] = NoConn => "late" \in slips
      BY <2>6 DEF onConnectButtonPressed, Base, Connections
    <3> QED
      BY <1>1, <2>4, <2>6, <3>1 DEF onConnectButtonPressed
  <2>7. CASE musicAct(p)
    <3>1. CASE playTrack(p) \/ pauseOrPlay(p) \/ seek(p) \/ metadataRefreshed(p) \/ onStreamPlayEnded(p)
      BY <2>3, <3>1 DEF playTrack, pauseOrPlay, seek, metadataRefreshed, onStreamPlayEnded
    <3>2. CASE onStreamError(p)
      <4>1. audio[p].heard.on = "playing" /\ crashed' = (IF audio[p].chosen THEN "no" ELSE "stream")
        BY <3>2 DEF onStreamError
      <4>2. inControl(audio'[p]) = inControl(audio[p]) /\ audio'[p].chosen = audio[p].chosen
        BY <1>1, <3>2 DEF onStreamError, inControl, Types, Player
      <4>3. CASE audio[p].chosen
        BY <1>3, <4>1, <4>3
      <4>4. CASE slips \cap {"late", "early"} # {}
        BY <1>1, <4>1, <4>4 DEF Stops
      <4>5. CASE ~audio[p].chosen /\ slips \cap {"late", "early"} = {}
        <5>1. ~inControl(audio[p])
          BY <4>1, <4>5 DEF Hearing, Chosen
        <5>2. ~inControl(audio'[p]) /\ ~audio'[p].chosen
          BY <4>2, <4>5, <5>1
        <5>3. crashed' = "stream"
          BY <4>1, <4>5
        <5> QED
          BY <5>2, <5>3 DEF Stops
      <4> QED
        BY <4>3, <4>4, <4>5
    <3> QED
      BY <2>7, <3>1, <3>2 DEF musicAct
  <2>8. CASE onSignal(p)
    <3>1. PICK k \in Opened, m \in ToClient \cup [method : {"Ended"}] : Takes(p, k, m) /\ Shows(p, m)
      BY <2>8, SignalCases
    <3>2. NoConn \notin Opened
      BY ConnFacts
    <3>3. k # client[p] => slipsBefore(p) = slips \cup {"late"}
      BY <3>1 DEF Takes, slipsBefore
    <3>4. [conn |-> k, payload |-> m] \in In(signals[p])
      <4>1. Head(signals[p]) \in In(signals[p])
        BY <2>8, SignalHead
      <4> QED
        BY <3>1, <4>1 DEF Takes
    <3>5. CASE m \in Session /\ onGameSessionReceived(p, m)
      BY <2>3, <3>5 DEF onGameSessionReceived
    <3>6. CASE m \in ToClient /\ onAudioSignal(p, m)
      BY <2>3, <3>6 DEF onAudioSignal
    <3>7. CASE m \in ToClient /\ onChatSignal(p, m)
      <4>1. CASE crashed' = crashed
        BY <2>3, <4>1
      <4>2. CASE /\ m.method = "Response" /\ slips' = slipsBefore(p)
                 /\ crashed' = IF m.message \in chat[p].lines THEN "no" ELSE "response"
        <5>1. CASE m.message \in chat[p].lines
          BY <1>3, <4>2, <5>1
        <5>2. CASE m.message \notin chat[p].lines
          <6>1. k # client[p]
            BY <3>4, <4>2, <5>2 DEF Answers, Answered
          <6> QED
            BY <3>3, <4>2, <5>2, <6>1 DEF Stops
        <5> QED
          BY <5>1, <5>2
      <4> QED
        BY <3>7, <4>1, <4>2, ChatReceived
    <3>8. CASE m \in ToClient /\ onDocumentSignal(p, m)
      <4>1. CASE crashed' = crashed
        BY <2>3, <4>1
      <4>2. CASE /\ m.method = "Doc" /\ crashed' = "document" /\ slips' = slipsBefore(p)
                 /\ m.hashes = {} \/ \E d \in m.hashes : shelf[p].items[d] = "none"
        <5>1. CASE k # client[p]
          BY <3>3, <4>2, <5>1 DEF Stops
        <5>2. CASE k = client[p]
          <6>1. \A d \in m.hashes : shelf[p].items[d] # "none"
            BY <3>4, <4>2, <5>2 DEF Fetching, Fetched
          <6>2. m.hashes = {}
            BY <4>2, <6>1
          <6>3. ~Stocks(m)
            BY <4>2, <6>2 DEF Stocks
          <6>4. ~Stock
            BY <3>4, <6>3 DEF Stock
          <6>5. ~(Loopback \subseteq {serverProcess}) \/ slips \cap {"late", "dropped early"} # {}
            BY <6>4 DEF Stocked
          <6> QED
            BY <1>1, <4>2, <6>5 DEF Stops
        <5> QED
          BY <5>1, <5>2
      <4> QED
        BY <3>8, <4>1, <4>2, DocumentReceived
    <3>9. CASE m.method = "Ended" /\ endClient(p) /\ slips' = slipsBefore(p) \cup slipsAfterEnd(p)
      <4>1. client[p] = NoConn => "late" \in slips'
        BY <3>2, <3>3, <3>9
      <4> QED
        BY <2>4, <3>9, <4>1
    <3> QED
      BY <3>1, <3>5, <3>6, <3>7, <3>8, <3>9 DEF Shows
  <2> QED
    BY <2>1, <2>5, <2>6, <2>7, <2>8
<1> QED
  BY <1>2, <1>4, <1>5, <1>6 DEF Next

---------------------------------------------------------------------------
(* Every state *)

\* What holds of every state, and makes the others hold.
Surviving == /\ Answers /\ Greetings /\ Hosting /\ Mastering /\ HostMusic /\ Hearing
             /\ Stocked /\ Fetching /\ Stops

LEMMA InitSurvives == Init => Surviving
<1> SUFFICES ASSUME Init
             PROVE  Surviving
  OBVIOUS
<1>1. Opened = {} /\ NoConn \notin Conn
  BY BoundsAssumption DEF Init, Opened, Conn, NoConn
<1>2. /\ \A k \in Conn : link[k] = "idle" /\ toServer[k] = <<>> /\ toClient[k] = <<>> /\ k \notin Host
      /\ \A p \in Process : signals[p] = <<>>
  BY DEF Init, Host
<1>3. /\ \A k \in Conn : In(toServer[k]) = {} /\ In(toClient[k]) = {}
      /\ \A p \in Process : In(signals[p]) = {}
  BY <1>2, InEmpty
<1>4. \A S, T : Once(S, <<>>) /\ Before(S, T, <<>>)
  BY InEmpty, OnceNone, BeforeNone
<1>5. Answers /\ Fetching
  BY <1>1 DEF Answers, Fetching
<1>6. Greetings
  BY <1>2, <1>3, <1>4 DEF Greetings, Signalled
<1>7. Hosting
  BY <1>1, <1>2, <1>3 DEF Hosting, Host
<1>8. /\ \A p \in Process : audio[p] = NewPlayer /\ button[p] = "NotConnected"
      /\ crashed = "no"
  BY DEF Init
<1>9. Mastering
  BY <1>1, <1>8 DEF Mastering, Mastered, NewPlayer
<1>10. HostMusic
  BY <1>1, <1>2, <1>3, <1>4 DEF HostMusic
<1>11. Hearing
  BY <1>8 DEF Hearing, Chosen, NewPlayer
<1>12. Stocked
  <2>1. serverNames = {} /\ \A p \in Process : \A d \in Document : shelf[p].items[d] = "none"
    BY ServerProcessesAssumption DEF Init, serverNames, EmptyShelf
  <2> QED
    BY <1>3, <2>1 DEF Stocked, Stock
<1>13. Stops
  BY <1>8 DEF Stops
<1> QED
  BY <1>5, <1>6, <1>7, <1>9, <1>10, <1>11, <1>12, <1>13 DEF Surviving

LEMMA SurvivingStep == Base /\ Surviving /\ [Next]_vars => Surviving'
BY AnswersStep, GreetingsStep, HostingStep, MasteringStep, HostMusicStep, HearingStep, DocsStep,
   StopsStep DEF Surviving

LEMMA WellTyped == Base => TypeOK
<1> SUFFICES ASSUME Base
             PROVE  TypeOK
  OBVIOUS
<1>1. Types /\ Connections
  BY DEF Base
<1>2. Live \subseteq {k \in Opened : link[k] # "gone"}
  BY <1>1, ConnFacts DEF Connections, Live
<1>3. \A p \in Process : client[p] # NoConn => processOf[client[p]] = p
  BY <1>1 DEF Connections
<1>4. \A p \in Process : /\ \A m \in chat[p].lines : m.command \in Command
                         /\ chat[p].waiting \subseteq chat[p].lines
  BY <1>1 DEF Types, Chat, Message
<1> QED
  BY <1>1, <1>2, <1>3, <1>4 DEF Types, TypeOK

\* ObserversSurvive, whatever the applications and whatever is said, played and
\* shared: the types are kept, and a null pointer is followed by ConnectivityObserver,
\* MessagesLog, DocShareListView or PlaylistAudioManager only for the reasons that the
\* property names.
THEOREM ObserversAlwaysSurvive == Spec => []ObserversSurvive
<1>1. Init => Base /\ Surviving
  BY InitBase, InitSurvives
<1>2. Base /\ Surviving /\ [Next]_vars => Base' /\ Surviving'
  BY TypesStep, ConnectionsStep, SurvivingStep DEF Base
<1>3. Base /\ Surviving => ObserversSurvive
  BY WellTyped DEF Surviving, Stops, ObserversSurvive
<1> QED
  BY <1>1, <1>2, <1>3, PTL DEF Spec
=============================================================================
