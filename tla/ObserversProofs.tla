-------------------------- MODULE ObserversProofs --------------------------
(***************************************************************************)
(* What the observers of a connection agree on, whatever the number of     *)
(* applications and of their connections, and whatever their users say,    *)
(* play and share: all end up with one log of what is said, with the list  *)
(* of what is shared, and guests follow the music of the host.             *)
(***************************************************************************)
EXTENDS RPZTableProofs

---------------------------------------------------------------------------
(* The log *)

public(m) == m.command \in {"say", "result", "login", "logout"}

\* On its way to the interface of p, by its connection k.
Coming(p, k, x) == x \in In(toClient[k]) \/ \E y \in In(signals[p]) : y.payload = x

\* Shown to p, or to be: told, or in the history of a session.
Logged(p, k, m) ==
  \/ m \in chat[p].lines
  \/ Coming(p, k, Asked(m))
  \/ \E s \in Session : m \in s.messages /\ Coming(p, k, s)

\* What is told to all is in the history.
Historic(x) ==
  /\ x.method = "Message" /\ public(x.message) => x.message \in messages
  /\ x.method = "Session" => x.messages \subseteq messages

LogOf(p, k) ==
  /\ k \in Named => \A m \in messages : Logged(p, k, m)
  /\ \A m \in chat[p].lines : public(m) => m \in messages \/ Asked(m) \in In(toServer[k])
  /\ \A m \in chat[p].waiting : Asked(m) \in In(toServer[k]) \/ Coming(p, k, Answer(m))

Logs ==
  /\ \A k \in Conn : \A x \in In(toClient[k]) : Historic(x)
  /\ \A p \in Process : \A y \in In(signals[p]) : Historic(y.payload)
  /\ \A p \in Process : \A k \in Opened : client[p] = k /\ link[k] = "up" => LogOf(p, k)

\* The effect of what came on the chat of p.
Shown(p, x) ==
  /\ x.method = "Message" => x.message \in chat[p].lines
  /\ x.method = "Session" => x.messages \subseteq chat[p].lines
  /\ x.method = "Response" => x.message \notin chat[p].waiting

LEMMA LogOfKept ==
  ASSUME NEW p, NEW k, LogOf(p, k),
         k \in Named' => k \in Named \/ \A m \in messages' : Logged(p, k, m)',
         messages \subseteq messages',
         k \in Named' => \A m \in messages' : m \in messages \/ Logged(p, k, m)',
         \A x : Coming(p, k, x) => Coming(p, k, x)' \/ Shown(p, x)',
         chat[p].lines \subseteq chat'[p].lines,
         \A m \in chat'[p].lines :
           m \in chat[p].lines \/ (public(m) => m \in messages' \/ Asked(m) \in In(toServer'[k])),
         \A m \in chat'[p].waiting : m \in chat[p].waiting \/ Asked(m) \in In(toServer'[k]),
         \A m : Asked(m) \in In(toServer[k]) =>
           \/ Asked(m) \in In(toServer'[k])
           \/ (public(m) => m \in messages') /\ Coming(p, k, Answer(m))'
  PROVE  LogOf(p, k)'
<1>1. ASSUME NEW m, Coming(p, k, Asked(m))
      PROVE  Logged(p, k, m)'
  BY <1>1 DEF Logged, Shown, Asked
<1>2. ASSUME NEW s \in Session, Coming(p, k, s), NEW m \in s.messages
      PROVE  Logged(p, k, m)'
  <2>1. s.method = "Session"
    BY DEF Session
  <2> QED
    BY <1>2, <2>1 DEF Logged, Shown
<1>3. ASSUME k \in Named'
      PROVE  \A m \in messages' : Logged(p, k, m)'
  <2>1. ASSUME NEW m, Logged(p, k, m)
        PROVE  Logged(p, k, m)'
    <3>1. CASE m \in chat[p].lines
      BY <3>1 DEF Logged
    <3>2. CASE Coming(p, k, Asked(m))
      BY <1>1, <3>2
    <3>3. CASE \E s \in Session : m \in s.messages /\ Coming(p, k, s)
      BY <1>2, <3>3
    <3> QED
      BY <2>1, <3>1, <3>2, <3>3 DEF Logged
  <2>2. CASE k \in Named
    BY <1>3, <2>1, <2>2 DEF LogOf
  <2>3. CASE k \notin Named
    BY <1>3, <2>3
  <2> QED
    BY <2>2, <2>3
<1>4. \A m \in chat'[p].lines : public(m) => m \in messages' \/ Asked(m) \in In(toServer'[k])
  BY DEF LogOf
<1>5. ASSUME NEW m \in chat'[p].waiting
      PROVE  Asked(m) \in In(toServer'[k]) \/ Coming(p, k, Answer(m))'
  <2>1. ~Shown(p, Answer(m))'
    BY <1>5 DEF Shown, Answer
  <2>2. CASE m \in chat[p].waiting
    BY <2>1, <2>2 DEF LogOf
  <2> QED
    BY <1>5, <2>2
<1> QED
  BY <1>3, <1>4, <1>5 DEF LogOf, public

LEMMA LogsKept ==
  ASSUME Logs, messages \subseteq messages',
         \A k \in Conn : \A x \in In(toClient'[k]) : x \in In(toClient[k]) \/ Historic(x)',
         \A p \in Process : \A y \in In(signals'[p]) : y \in In(signals[p]) \/ Historic(y.payload),
         \A p \in Process : \A k \in Opened' : client'[p] = k /\ link'[k] = "up" => LogOf(p, k)'
  PROVE  Logs'
<1>1. ASSUME NEW x, Historic(x)
      PROVE  Historic(x)'
  BY <1>1 DEF Historic, public
<1>2. \A k \in Conn : \A x \in In(toClient'[k]) : Historic(x)'
  BY <1>1 DEF Logs
<1>3. \A p \in Process : \A y \in In(signals'[p]) : Historic(y.payload)'
  BY <1>1 DEF Logs
<1> QED
  BY <1>2, <1>3 DEF Logs

LEMMA LogsServer ==
  ASSUME Base, Logs, UNCHANGED <<processOf, client, signals, chat>>,
         \A j \in Conn : link'[j] = "up" => link[j] = "up",
         NEW news \in SUBSET Message, messages' = messages \cup news,
         NEW X, ServerTells(X),
         \A j \in Conn : \A x \in X[j] : Historic(x)',
         \A j \in Conn : link[j] = "up" => \A m :
           Asked(m) \in In(toServer[j]) =>
             \/ Asked(m) \in In(toServer'[j])
             \/ (public(m) => m \in messages') /\ Answer(m) \in X[j],
         \A p \in Process : \A j \in Opened : client[p] = j /\ link[j] = "up" /\ j \in Named' =>
           \/ j \in Named /\ \A m \in news : m \in chat[p].lines \/ Asked(m) \in X[j]
           \/ \E s \in X[j] \cap Session : s.messages = messages'
  PROVE  Logs'
<1>1. /\ \A k \in Conn : In(toClient'[k]) = In(toClient[k]) \cup (IF link[k] = "up" THEN X[k] ELSE {})
      /\ Opened' = Opened /\ Opened \subseteq Conn
  BY ServerTellsElements, ConnFacts DEF Base, Opened
<1>2. ASSUME NEW p \in Process, NEW k \in Opened', client'[p] = k, link'[k] = "up"
      PROVE  LogOf(p, k)'
  <2>1. client[p] = k /\ link[k] = "up" /\ k \in Opened /\ k \in Conn /\ LogOf(p, k)
    BY <1>1, <1>2 DEF Logs
  <2>2. \A x : Coming(p, k, x) \/ x \in X[k] => Coming(p, k, x)'
    BY <1>1, <2>1 DEF Coming
  <2>3. ASSUME k \in Named', NEW m \in messages'
        PROVE  (k \in Named /\ m \in messages) \/ Logged(p, k, m)'
    <3>1. CASE k \in Named /\ \A n \in news : n \in chat[p].lines \/ Asked(n) \in X[k]
      BY <2>2, <3>1 DEF Logged
    <3>2. CASE \E s \in X[k] \cap Session : s.messages = messages'
      BY <2>2, <2>3, <3>2 DEF Logged
    <3> QED
      BY <2>1, <2>3, <3>1, <3>2
  <2>4. \A m : Asked(m) \in In(toServer[k]) =>
          \/ Asked(m) \in In(toServer'[k])
          \/ (public(m) => m \in messages') /\ Coming(p, k, Answer(m))'
    BY <2>1, <2>2
  <2>5. chat' = chat /\ messages \subseteq messages'
    OBVIOUS
  <2>6. k \in Named' => k \in Named \/ \A m \in messages' : Logged(p, k, m)'
    BY <2>3
  <2>7. k \in Named' => \A m \in messages' : m \in messages \/ Logged(p, k, m)'
    BY <2>3
  <2> HIDE DEF Named, Logged
  <2> QED
    BY <2>1, <2>2, <2>4, <2>5, <2>6, <2>7, LogOfKept
<1> QED
  BY <1>1, <1>2, LogsKept

LEMMA LogsServerStep == Base /\ Answers /\ Logs /\ ServerStep => Logs'
<1> SUFFICES ASSUME Base, Answers, Logs, ServerStep
             PROVE  Logs'
  OBVIOUS
<1>1. Types /\ Opened \subseteq Conn
  BY ConnFacts DEF Base
<1>2. UNCHANGED <<processOf, client, signals, chat>>
  BY DEF ServerStep, constantVars, interfaceVars
<1>3. PICK k \in Conn :
        onNewConnection(k) \/ onClientSocketDisconnected(k) \/ onClientPayloadReceived(k)
  BY DEF ServerStep
<1>4. CASE onNewConnection(k)
  <2>1. UNCHANGED <<link, toServer, toClient, messages>> /\ Opened' = Opened
    BY <1>2, <1>4 DEF onNewConnection, networkVars, Opened
  <2>2. Named' = Named
    BY <1>1, <1>4 DEF onNewConnection, Named, Live, Types
  <2> HIDE DEF Named
  <2> QED
    BY <1>2, <2>1, <2>2 DEF Logs, LogOf, Logged, Coming, Historic, public
<1>5. CASE onClientSocketDisconnected(k)
  <2>1. PICK out \in Message : messages' = messages \cup {out}
                               /\ ServerTells(ToSome(Peers(k), Asked(out)))
    BY <1>1, <1>5, Disconnected
  <2>2. /\ link[k] = "down" /\ \A j \in Conn : link'[j] = "up" => link[j] = "up"
        /\ \A j \in Conn \ {k} : toServer'[j] = toServer[j]
        /\ users' = [users EXCEPT ![k] = "absent"]
    BY <1>1, <1>5 DEF onClientSocketDisconnected, Types, usersWithout
  <2>3. \A j \in Conn : \A x \in ToSome(Peers(k), Asked(out))[j] : Historic(x)'
    BY <2>1 DEF ToSome, Historic, Asked
  <2>4. \A j \in Conn : link[j] = "up" => \A m : Asked(m) \in In(toServer[j]) => Asked(m) \in In(toServer'[j])
    BY <2>2
  <2>5. \A j \in Conn : link[j] = "up" /\ j \in Named' =>
          j \in Named /\ Asked(out) \in ToSome(Peers(k), Asked(out))[j]
    BY <1>1, <2>2 DEF Named, Peers, Live, ToSome, Types
  <2>6. {out} \in SUBSET Message
    OBVIOUS
  <2> HIDE DEF Named
  <2> QED
    BY <1>1, <1>2, <2>1, <2>2, <2>3, <2>4, <2>5, <2>6, LogsServer
<1>6. CASE onClientPayloadReceived(k)
  <2>1. PICK m \in ToServer : /\ m = Head(toServer[k]) /\ In(toServer[k]) = {m} \cup In(toServer'[k])
                              /\ Does(k, m)
    BY <1>1, <1>6, PayloadCases
  <2>2. link' = link /\ \A j \in Conn \ {k} : toServer'[j] = toServer[j]
    BY <1>1, <1>6 DEF onClientPayloadReceived, Types
  <2>3. k \in Live
    BY <1>6 DEF onClientPayloadReceived
  <2>4. ASSUME m.method # "Message"
        PROVE  \A j \in Conn : \A n : Asked(n) \in In(toServer[j]) => Asked(n) \in In(toServer'[j])
    <3>1. \A n : Asked(n) # m
      BY <2>4 DEF Asked
    <3> QED
      BY <2>1, <2>2, <3>1
  <2>5. CASE m.method = "Handshake" /\ handshake(k)
    <3>1. PICK arrived \in Message, s \in Session :
            /\ messages' = messages \cup {arrived}
            /\ s.messages = messages'
            /\ ServerTells([ToSome(Peers(k), Asked(arrived)) EXCEPT ![k] = {s}])
      BY <1>1, <2>5, Handshaken
    <3> DEFINE X == [ToSome(Peers(k), Asked(arrived)) EXCEPT ![k] = {s}]
    <3>2. X[k] = {s} /\ \A j \in Conn \ {k} : X[j] = IF j \in Peers(k) THEN {Asked(arrived)} ELSE {}
      BY DEF ToSome
    <3>3. users' = [users EXCEPT ![k] = attributedRole(k)]
      BY <2>5 DEF handshake
    <3>4. ServerTells(X)
      BY <3>1
    <3> HIDE DEF X
    <3>5. \A j \in Conn : \A x \in X[j] : Historic(x)'
      <4>1. Historic(s)'
        BY <3>1 DEF Historic, Session
      <4>2. Historic(Asked(arrived))'
        BY <3>1 DEF Historic, Asked
      <4> QED
        BY <3>2, <4>1, <4>2
    <3>6. \A j \in Conn \ {k} : j \in Named' => j \in Named /\ Asked(arrived) \in X[j]
      BY <1>1, <3>2, <3>3 DEF Named, Peers, Live, Types
    <3>7. s \in X[k] \cap Session /\ s.messages = messages'
      BY <3>1, <3>2
    <3>8. {arrived} \in SUBSET Message
      OBVIOUS
    <3> HIDE DEF Named
    <3>9. \A j \in Conn : j \in Named' =>
            \/ j \in Named /\ \A n \in {arrived} : Asked(n) \in X[j]
            \/ \E t \in X[j] \cap Session : t.messages = messages'
      BY <3>6, <3>7
    <3>10. \A j \in Conn : \A n : Asked(n) \in In(toServer[j]) => Asked(n) \in In(toServer'[j])
      BY <2>4, <2>5
    <3>11. \A p \in Process : \A j \in Opened : client[p] = j /\ link[j] = "up" /\ j \in Named' =>
             \/ j \in Named /\ \A n \in {arrived} : n \in chat[p].lines \/ Asked(n) \in X[j]
             \/ \E t \in X[j] \cap Session : t.messages = messages'
      BY <1>1, <3>9
    <3> QED
      BY <1>2, <2>2, <3>1, <3>4, <3>5, <3>8, <3>10, <3>11, LogsServer
  <2>6. CASE m.method = "Message" /\ m.message \in Message /\ interpretMessage(k, m.message)
    <3> DEFINE n == m.message
    <3>1. PICK news \in SUBSET Message, whispered \in SUBSET Conn :
            /\ messages' = messages \cup news
            /\ n.command = "say" => n \in news
            /\ whispered = {} \/ n.command = "whisper"
            /\ ServerTells(Told(k, n, news, whispered))
      BY <1>1, <2>6, Interpreted
    <3>2. n.command \in {"say", "throw", "help", "whisper"} /\ UNCHANGED users
      BY <2>6 DEF interpretMessage
    <3>3. m = Asked(n)
      BY <2>1, <2>6, ToServerFields DEF Asked, ToServer, Music
    <3> DEFINE X == Told(k, n, news, whispered)
    <3>4. \A j \in Conn : /\ j \in Peers(k) => {Asked(x) : x \in news} \subseteq X[j]
                          /\ X[j] \subseteq {Asked(x) : x \in news} \cup {Answer(n)}
                                              \cup (IF j \in whispered THEN {Asked(n)} ELSE {})
          /\ {Asked(x) : x \in news \ {n}} \cup {Answer(n)} \subseteq X[k]
      BY DEF Told
    <3>5. ServerTells(X)
      BY <3>1
    <3> HIDE DEF X, n
    <3>6. \A j \in Conn : \A x \in X[j] : Historic(x)'
      <4>1. \A x \in news : Historic(Asked(x))'
        BY <3>1 DEF Historic, Asked
      <4>2. Historic(Answer(n))'
        BY DEF Historic, Answer
      <4>3. n.command = "whisper" => Historic(Asked(n))'
        BY DEF Historic, Asked, public
      <4> QED
        BY <3>1, <3>4, <4>1, <4>2, <4>3
    <3>7. \A j \in Conn : \A x : Asked(x) \in In(toServer[j]) =>
            \/ Asked(x) \in In(toServer'[j])
            \/ (public(x) => x \in messages') /\ Answer(x) \in X[j]
      <4>1. SUFFICES ASSUME NEW j \in Conn, NEW x, Asked(x) \in In(toServer[j]),
                            Asked(x) \notin In(toServer'[j])
                     PROVE  (public(x) => x \in messages') /\ Answer(x) \in X[j]
        OBVIOUS
      <4>2. j = k /\ Asked(x) = Asked(n)
        BY <2>1, <2>2, <3>3, <4>1
      <4>3. x = n
        BY <4>2 DEF Asked
      <4> QED
        BY <3>1, <3>2, <3>4, <4>2, <4>3 DEF public
    <3>8. \A p \in Process : client[p] = k => n \in chat[p].lines
      <4>1. m \in In(toServer[k]) /\ k # NoConn
        BY <2>1, ConnFacts
      <4>2. ASSUME NEW p \in Process, client[p] = k
            PROVE  Answered(p, k)
        BY <4>1, <4>2 DEF Answers, Base, Connections
      <4> QED
        BY <2>6, <4>1, <4>2 DEF Answered, n
    <3>9. Named' = Named
      BY <3>2 DEF Named
    <3>10. \A p \in Process : \A j \in Opened : client[p] = j /\ j \in Named =>
             \A x \in news : x \in chat[p].lines \/ Asked(x) \in X[j]
      <4>1. SUFFICES ASSUME NEW p \in Process, NEW j \in Opened, client[p] = j, j \in Named,
                            NEW x \in news
                     PROVE  x \in chat[p].lines \/ Asked(x) \in X[j]
        OBVIOUS
      <4>2. CASE j = k
        BY <3>4, <3>8, <4>1, <4>2
      <4>3. CASE j # k
        <5>1. j \in Peers(k)
          BY <1>1, <4>1, <4>3 DEF Named, Peers, Live
        <5> QED
          BY <1>1, <3>4, <5>1
      <4> QED
        BY <4>2, <4>3
    <3> HIDE DEF Named
    <3> QED
      BY <1>1, <1>2, <2>2, <3>1, <3>5, <3>6, <3>7, <3>9, <3>10, LogsServer
  <2>7. ASSUME m.method # "Message", UNCHANGED <<users, messages>>,
               NEW X, ServerTells(X),
               \A j \in Conn : \A x \in X[j] : x.method \notin {"Message", "Session"}
        PROVE  Logs'
    <3>1. \A j \in Conn : \A x \in X[j] : Historic(x)'
      BY <2>7 DEF Historic
    <3>2. Named' = Named /\ messages' = messages \cup {} /\ {} \in SUBSET Message
      BY <2>7 DEF Named
    <3> HIDE DEF Named
    <3> QED
      BY <1>1, <1>2, <2>2, <2>4, <2>7, <3>1, <3>2, LogsServer
  <2>8. CASE /\ m \in Music \/ m.method = "DocAvailable"
             /\ ServerTells(ToSome(Peers(k), m)) /\ UNCHANGED <<users, messages>>
    <3>1. m.method \notin {"Message", "Session"}
      BY <2>8 DEF Music
    <3>2. \A j \in Conn : \A x \in ToSome(Peers(k), m)[j] : x.method \notin {"Message", "Session"}
      BY <3>1 DEF ToSome
    <3> QED
      BY <2>7, <2>8, <3>1, <3>2
  <2>9. CASE /\ m.method = "DocRequested" /\ UNCHANGED serverVars
             /\ \E d \in ToClient : /\ d = [method |-> "Doc", hashes |-> {m.hash} \cap serverStore]
                                    /\ ServerTells(ToSome({k}, d))
    <3>1. PICK d : d.method = "Doc" /\ ServerTells(ToSome({k}, d))
      BY <2>9
    <3>2. \A j \in Conn : \A x \in ToSome({k}, d)[j] : x.method \notin {"Message", "Session"}
      BY <3>1 DEF ToSome
    <3> QED
      BY <2>7, <2>9, <3>1, <3>2 DEF serverVars
  <2> QED
    BY <2>1, <2>5, <2>6, <2>8, <2>9 DEF Does, serverVars
<1> QED
  BY <1>3, <1>4, <1>5, <1>6

LEMMA LogsClientStep == Base /\ Logs /\ ClientStep => Logs'
<1> SUFFICES ASSUME Base, Logs, ClientStep
             PROVE  Logs'
  OBVIOUS
<1>1. Types /\ Opened \subseteq Conn
  BY ConnFacts DEF Base
<1>2. PICK k \in Conn : onPayloadReceived(k) \/ onError(k)
  BY DEF ClientStep
<1>3. UNCHANGED <<processOf, users, messages, toServer, client, chat>>
  BY <1>2 DEF ClientStep, constantVars, serverVars, onPayloadReceived, onError, interfaceVars
<1>4. Named' = Named /\ Opened' = Opened
  BY <1>3 DEF Named, Opened
<1>5. ASSUME NEW q \in Process, NEW j \in Opened, client[q] = j, link[j] = "up",
             \A x : Coming(q, j, x) => Coming(q, j, x)'
      PROVE  LogOf(q, j)'
  <2>1. LogOf(q, j)
    BY <1>5 DEF Logs
  <2> HIDE DEF Named, LogOf, Coming, Shown
  <2> QED
    BY <1>3, <1>4, <1>5, <2>1, LogOfKept
<1>6. CASE onPayloadReceived(k)
  <2>1. PICK x \in ToClient, p \in Process : Reads(k, x, p)
    BY <1>6, Read
  <2>2. /\ client[p] = k /\ x \in In(toClient[k]) /\ In(toClient[k]) = {x} \cup In(toClient'[k])
        /\ \A j \in Conn \ {k} : toClient'[j] = toClient[j]
        /\ In(signals'[p]) = In(signals[p]) \cup {[conn |-> k, payload |-> x]}
        /\ \A q \in Process \ {p} : signals'[q] = signals[q]
    BY <2>1 DEF Reads
  <2>3. link' = link
    BY <1>6 DEF onPayloadReceived
  <2>4. ASSUME NEW q \in Process, NEW j \in Opened, client[q] = j, NEW z, Coming(q, j, z)
        PROVE  Coming(q, j, z)'
    <3>1. j = k => q = p
      BY <1>1, <2>2, <2>4, ConnFacts DEF Base, Connections
    <3>2. CASE j = k
      <4>1. CASE z = x
        <5>1. [conn |-> k, payload |-> x] \in In(signals'[q])
          BY <2>2, <3>1, <3>2
        <5>2. [conn |-> k, payload |-> x].payload = z
          BY <4>1
        <5> QED
          BY <5>1, <5>2 DEF Coming
      <4>2. CASE z # x
        BY <2>2, <2>4, <3>1, <3>2, <4>2 DEF Coming
      <4> QED
        BY <4>1, <4>2
    <3>3. CASE j # k
      <4>1. toClient'[j] = toClient[j] /\ In(signals[q]) \subseteq In(signals'[q])
        BY <1>1, <2>2, <3>3
      <4> QED
        BY <2>4, <4>1 DEF Coming
    <3> QED
      BY <3>2, <3>3
  <2>5. \A j \in Conn : In(toClient'[j]) \subseteq In(toClient[j])
    BY <2>2
  <2>6. \A q \in Process : \A y \in In(signals'[q]) : y \in In(signals[q]) \/ Historic(y.payload)
    <3>1. Historic(x)
      BY <2>2 DEF Logs
    <3> QED
      BY <2>2, <3>1
  <2>7. \A q \in Process : \A j \in Opened' : client'[q] = j /\ link'[j] = "up" => LogOf(q, j)'
    BY <1>3, <1>4, <1>5, <2>3, <2>4
  <2> QED
    BY <1>3, <2>5, <2>6, <2>7, LogsKept
<1>7. CASE onError(k)
  <2>1. PICK p \in Process : Fails(k, p)
    BY <1>7, Failed
  <2>2. /\ \A j \in Conn : In(toClient'[j]) \subseteq In(toClient[j])
        /\ \A j \in Conn \ {k} : toClient'[j] = toClient[j] /\ link'[j] = link[j]
        /\ link'[k] = "down"
        /\ In(signals'[p]) = In(signals[p]) \cup {[conn |-> k, payload |-> [method |-> "Ended"]]}
        /\ \A q \in Process \ {p} : signals'[q] = signals[q]
    BY <1>1, <2>1, InEmpty DEF Fails, Types
  <2>3. \A q \in Process : \A y \in In(signals'[q]) : y \in In(signals[q]) \/ Historic(y.payload)
    <3>1. Historic([method |-> "Ended"])
      BY DEF Historic
    <3> QED
      BY <2>2, <3>1
  <2>4. ASSUME NEW q \in Process, NEW j \in Opened', client'[q] = j, link'[j] = "up"
        PROVE  LogOf(q, j)'
    <3>1. j \in Opened /\ client[q] = j /\ j # k /\ j \in Conn
      BY <1>1, <1>3, <1>4, <2>2, <2>4
    <3>2. link[j] = "up" /\ toClient'[j] = toClient[j] /\ In(signals[q]) \subseteq In(signals'[q])
      BY <2>2, <2>4, <3>1
    <3>3. \A z : Coming(q, j, z) => Coming(q, j, z)'
      BY <3>2 DEF Coming
    <3> QED
      BY <1>5, <3>1, <3>2, <3>3
  <2> QED
    BY <1>3, <2>2, <2>3, <2>4, LogsKept
<1> QED
  BY <1>2, <1>6, <1>7

LEMMA LogsActed ==
  ASSUME Base, Logs, NEW p \in Process,
         UNCHANGED <<processOf, messages, users, link, client, toClient>>,
         \A q \in Process \ {p} : chat'[q] = chat[q] /\ signals'[q] = signals[q],
         In(signals'[p]) \subseteq In(signals[p]),
         \A y \in In(signals[p]) : y \in In(signals'[p]) \/ Shown(p, y.payload)',
         \A k \in Conn : In(toServer[k]) \subseteq In(toServer'[k]),
         chat[p].lines \subseteq chat'[p].lines,
         \A m \in chat'[p].lines :
           \/ m \in chat[p].lines
           \/ public(m) => m \in messages
           \/ client[p] # NoConn /\ link[client[p]] = "up" => Asked(m) \in In(toServer'[client[p]]),
         \A m \in chat'[p].waiting :
           \/ m \in chat[p].waiting
           \/ client[p] # NoConn /\ link[client[p]] = "up" => Asked(m) \in In(toServer'[client[p]])
  PROVE  Logs'
<1>1. Named' = Named /\ Opened' = Opened /\ Opened \subseteq Conn /\ NoConn \notin Opened
  BY ConnFacts DEF Named, Opened
<1>2. ASSUME NEW q \in Process, NEW k \in Opened', client'[q] = k, link'[k] = "up"
      PROVE  LogOf(q, k)'
  <2>1. client[q] = k /\ link[k] = "up" /\ LogOf(q, k) /\ k \in Conn /\ k # NoConn
    BY <1>1, <1>2 DEF Logs
  <2>2. \A m : Asked(m) \in In(toServer[k]) => Asked(m) \in In(toServer'[k])
    BY <2>1
  <2>3. CASE q # p
    <3>1. \A x : Coming(q, k, x) => Coming(q, k, x)'
      BY <2>3 DEF Coming
    <3>2. chat'[q] = chat[q]
      BY <2>3
    <3> HIDE DEF Named, LogOf, Coming, Shown, public
    <3> QED
      BY <1>1, <2>1, <2>2, <3>1, <3>2, LogOfKept
  <2>4. CASE q = p
    <3>1. \A x : Coming(p, k, x) => Coming(p, k, x)' \/ Shown(p, x)'
      BY DEF Coming
    <3>2. \A m \in chat'[p].lines :
            m \in chat[p].lines \/ (public(m) => m \in messages' \/ Asked(m) \in In(toServer'[k]))
      BY <2>1, <2>4
    <3>3. \A m \in chat'[p].waiting : m \in chat[p].waiting \/ Asked(m) \in In(toServer'[k])
      BY <2>1, <2>4
    <3> HIDE DEF Named, LogOf, Coming, Shown, public
    <3> QED
      BY <1>1, <2>1, <2>2, <2>4, <3>1, <3>2, <3>3, LogOfKept
  <2> QED
    BY <2>3, <2>4
<1>3. \A q \in Process : \A y \in In(signals'[q]) : y \in In(signals[q])
  OBVIOUS
<1> QED
  BY <1>2, <1>3, LogsKept

LEMMA ClientQueueGrows ==
  ASSUME Types, NEW p \in Process,
         toServer' = toServer \/ \E x \in ToServer : ClientTells(p, x)
  PROVE  \A k \in Conn : In(toServer[k]) \subseteq In(toServer'[k])
<1>1. CASE toServer' = toServer
  BY <1>1
<1>2. CASE \E x \in ToServer : ClientTells(p, x)
  BY <1>2, ClientTellsElements
<1> QED
  BY <1>1, <1>2

\* A step that adds no line and takes nothing that is shown.
LEMMA LogsSame ==
  ASSUME Base, Logs, NEW p \in Process,
         UNCHANGED <<processOf, messages, users, link, client, toClient, chat>>,
         \A q \in Process \ {p} : signals'[q] = signals[q],
         In(signals'[p]) \subseteq In(signals[p]),
         \A y \in In(signals[p]) :
           y \in In(signals'[p]) \/ y.payload.method \notin {"Message", "Session", "Response"},
         toServer' = toServer \/ \E x \in ToServer : ClientTells(p, x)
  PROVE  Logs'
<1>1. \A y \in In(signals[p]) : y \in In(signals'[p]) \/ Shown(p, y.payload)'
  BY DEF Shown
<1>2. \A k \in Conn : In(toServer[k]) \subseteq In(toServer'[k])
  BY ClientQueueGrows DEF Base
<1>3. \A q \in Process \ {p} : chat'[q] = chat[q] /\ signals'[q] = signals[q]
  OBVIOUS
<1>4. chat'[p] = chat[p]
  OBVIOUS
<1> HIDE DEF Shown
<1> QED
  BY <1>1, <1>2, <1>3, <1>4, LogsActed

LEMMA LogsBound ==
  ASSUME Base, Logs, NEW p \in Process, bindObservedClient(p), UNCHANGED <<users, messages>>
  PROVE  Logs'
<1>1. PICK k \in Conn \ Opened :
        /\ Opened' = Opened \cup {k}
        /\ link' = [link EXCEPT ![k] = "up"]
        /\ \A j \in Conn \ {k} : toServer'[j] = toServer[j]
        /\ client' = [client EXCEPT ![p] = k]
  BY Bound
<1>2. UNCHANGED <<toClient, signals>> /\ chat' = [chat EXCEPT ![p] = clearLines(@)]
  BY DEF bindObservedClient
<1>3. Named' = Named /\ Opened \subseteq Conn /\ NoConn \notin Opened
  BY ConnFacts DEF Named
<1>4. k \notin Named
  BY <1>1 DEF Base, Connections, Named, Live
<1>5. /\ chat'[p].lines = {} /\ chat'[p].waiting = {}
      /\ \A q \in Process \ {p} : chat'[q] = chat[q] /\ client'[q] = client[q]
      /\ client'[p] = k
  BY <1>1, <1>2, ChatCleared DEF Base, Types
<1>6. ASSUME NEW q \in Process, NEW j \in Opened', client'[q] = j, link'[j] = "up"
      PROVE  LogOf(q, j)'
  <2>1. CASE q = p
    <3>1. j = k
      BY <1>5, <1>6, <2>1
    <3> QED
      BY <1>3, <1>4, <1>5, <2>1, <3>1 DEF LogOf
  <2>2. CASE q # p
    <3>1. client[q] = j /\ chat'[q] = chat[q] /\ j # NoConn
      BY <1>1, <1>3, <1>5, <1>6, <2>2, ConnFacts
    <3>2. j \in Opened /\ j # k
      BY <1>1, <3>1 DEF Base, Connections
    <3>3. link[j] = "up" /\ toServer'[j] = toServer[j] /\ LogOf(q, j)
      BY <1>1, <1>3, <1>6, <3>1, <3>2 DEF Base, Types, Logs
    <3>4. \A x : Coming(q, j, x) => Coming(q, j, x)'
      BY <1>2 DEF Coming
    <3> HIDE DEF Named, LogOf, Coming, Shown, public
    <3> QED
      BY <1>3, <3>1, <3>3, <3>4, LogOfKept
  <2> QED
    BY <2>1, <2>2
<1> QED
  BY <1>2, <1>6, LogsKept

LEMMA LogsEnded ==
  ASSUME Base, Logs, NEW p \in Process, endClient(p),
         UNCHANGED <<processOf, toServer, users, messages>>,
         \A q \in Process \ {p} : signals'[q] = signals[q],
         In(signals'[p]) \subseteq In(signals[p]),
         \A y \in In(signals[p]) : y \in In(signals'[p]) \/ y.payload.method = "Ended"
  PROVE  Logs'
<1>1. CASE UNCHANGED <<link, toClient, client, hostAble, interfaceVars>>
  <2>1. UNCHANGED chat
    BY <1>1 DEF interfaceVars
  <2> QED
    BY <1>1, <2>1, LogsSame
<1>2. CASE \E k \in Opened : Ends(p, k)
  <2>1. PICK k \in Opened : Ends(p, k)
    BY <1>2
  <2>2. /\ client[p] = k /\ client'[p] = NoConn
        /\ \A q \in Process \ {p} : client'[q] = client[q] /\ chat'[q] = chat[q]
        /\ \A j \in Conn \ {k} : link'[j] = link[j] /\ toClient'[j] = toClient[j]
    BY <2>1 DEF Ends, Base, Types
  <2>3. Named' = Named /\ Opened' = Opened /\ Opened \subseteq Conn /\ NoConn \notin Opened
    BY ConnFacts DEF Named, Opened
  <2>4. \A j \in Conn : In(toClient'[j]) \subseteq In(toClient[j])
    BY EndedShrinks
  <2>5. \A q \in Process : \A y \in In(signals'[q]) : y \in In(signals[q])
    OBVIOUS
  <2>6. ASSUME NEW q \in Process, NEW j \in Opened', client'[q] = j, link'[j] = "up"
        PROVE  LogOf(q, j)'
    <3>1. q # p /\ j \in Opened /\ j \in Conn
      BY <2>2, <2>3, <2>6
    <3>2. client[q] = j /\ chat'[q] = chat[q] /\ signals'[q] = signals[q]
      BY <2>2, <2>6, <3>1
    <3>3. j # k
      BY <2>1, <2>2, <2>3, <3>1, <3>2 DEF Base, Connections
    <3>4. link[j] = "up" /\ toClient'[j] = toClient[j]
      BY <2>2, <2>6, <3>1, <3>3
    <3>5. LogOf(q, j)
      BY <3>1, <3>2, <3>4 DEF Logs
    <3>6. \A x : Coming(q, j, x) => Coming(q, j, x)'
      BY <3>2, <3>4 DEF Coming
    <3> HIDE DEF Named, LogOf, Coming, Shown, public
    <3> QED
      BY <2>3, <3>2, <3>5, <3>6, LogOfKept
  <2> QED
    BY <2>4, <2>5, <2>6, LogsKept
<1> QED
  BY <1>1, <1>2, Ended

LEMMA LogsSaid ==
  ASSUME Base, Logs, NEW p \in Process, sendMessage(p), UNCHANGED <<users, messages>>
  PROVE  Logs'
<1>1. PICK m \in Message :
        /\ chat' = [chat EXCEPT ![p] = handleLocalMessage(@, m)]
        /\ toServer' = toServer \/ ClientTells(p, Asked(m))
        /\ client[p] # NoConn /\ link[client[p]] = "up" => ClientTells(p, Asked(m))
  BY Said
<1>2. UNCHANGED <<processOf, link, client, toClient, signals>>
  BY Said
<1>3. Asked(m) \in ToServer /\ client[p] \in Conn \cup {NoConn}
  BY MessageSent DEF Asked, Base, Types
<1>4. client[p] # NoConn /\ link[client[p]] = "up" => Asked(m) \in In(toServer'[client[p]])
  BY <1>1, <1>3, ClientTellsElements DEF Base
<1>5. \A k \in Conn : In(toServer[k]) \subseteq In(toServer'[k])
  BY <1>1, <1>3, ClientQueueGrows DEF Base
<1>6. /\ chat'[p].lines = chat[p].lines \cup {m} /\ chat'[p].waiting = chat[p].waiting \cup {m}
      /\ \A q \in Process \ {p} : chat'[q] = chat[q]
  BY <1>1, ChatWritten DEF Base, Types
<1>7. \A l \in chat'[p].lines :
        \/ l \in chat[p].lines
        \/ public(l) => l \in messages
        \/ client[p] # NoConn /\ link[client[p]] = "up" => Asked(l) \in In(toServer'[client[p]])
  BY <1>4, <1>6
<1>8. \A l \in chat'[p].waiting :
        \/ l \in chat[p].waiting
        \/ client[p] # NoConn /\ link[client[p]] = "up" => Asked(l) \in In(toServer'[client[p]])
  BY <1>4, <1>6
<1> HIDE DEF public, Shown
<1> QED
  BY <1>2, <1>5, <1>6, <1>7, <1>8, LogsActed

LEMMA LogsShown ==
  ASSUME Base, Logs, NEW p \in Process, onSignal(p), UNCHANGED <<users, messages>>
  PROVE  Logs'
<1>1. /\ \A q \in Process \ {p} : signals'[q] = signals[q]
      /\ In(signals'[p]) \subseteq In(signals[p])
      /\ In(signals[p]) = {Head(signals[p])} \cup In(signals'[p])
  BY SignalTaken
<1>2. PICK k \in Opened, m \in ToClient \cup [method : {"Ended"}] : Takes(p, k, m) /\ Shows(p, m)
  BY SignalCases
<1>3. Head(signals[p]) = [conn |-> k, payload |-> m] /\ UNCHANGED processOf
  BY <1>2 DEF Takes
<1>4. Head(signals[p]).payload = m
  BY <1>3
<1>5. \A y \in In(signals[p]) : y \in In(signals'[p]) \/ y.payload = m
  BY <1>1, <1>4
<1>6. Historic(m)
  BY <1>1, <1>4 DEF Logs
<1>7. chat[p] \in Chat /\ chat \in [Process -> Chat] /\ Types
  BY DEF Base, Types
<1>8. ASSUME UNCHANGED <<link, toClient, client, chat>>, m.method \notin {"Message", "Session", "Response"},
             toServer' = toServer \/ \E x \in ToServer : ClientTells(p, x)
      PROVE  Logs'
  <2>1. \A y \in In(signals[p]) :
          y \in In(signals'[p]) \/ y.payload.method \notin {"Message", "Session", "Response"}
    BY <1>5, <1>8
  <2> QED
    BY <1>1, <1>3, <1>8, <2>1, LogsSame
<1>9. ASSUME UNCHANGED <<link, toClient, client>>,
             toServer' = toServer \/ \E x \in ToServer : ClientTells(p, x),
             \A q \in Process \ {p} : chat'[q] = chat[q],
             Shown(p, m)', chat[p].lines \subseteq chat'[p].lines,
             \A l \in chat'[p].lines : l \in chat[p].lines \/ (public(l) => l \in messages),
             chat'[p].waiting \subseteq chat[p].waiting
      PROVE  Logs'
  <2>1. \A y \in In(signals[p]) : y \in In(signals'[p]) \/ Shown(p, y.payload)'
    BY <1>5, <1>9
  <2>2. \A j \in Conn : In(toServer[j]) \subseteq In(toServer'[j])
    BY <1>7, <1>9, ClientQueueGrows
  <2>3. \A q \in Process \ {p} : chat'[q] = chat[q] /\ signals'[q] = signals[q]
    BY <1>1, <1>9
  <2>4. \A l \in chat'[p].lines :
          \/ l \in chat[p].lines
          \/ public(l) => l \in messages
          \/ client[p] # NoConn /\ link[client[p]] = "up" => Asked(l) \in In(toServer'[client[p]])
    BY <1>9
  <2>5. \A l \in chat'[p].waiting :
          \/ l \in chat[p].waiting
          \/ client[p] # NoConn /\ link[client[p]] = "up" => Asked(l) \in In(toServer'[client[p]])
    BY <1>9
  <2> HIDE DEF public, Shown
  <2> QED
    BY <1>1, <1>3, <1>9, <2>1, <2>2, <2>3, <2>4, <2>5, LogsActed
<1>10. CASE m \in Session /\ onGameSessionReceived(p, m) /\ UNCHANGED <<link, toClient, client>>
  <2>1. /\ chat' = [chat EXCEPT ![p] = welcomed(@, m.messages)]
        /\ toServer' = toServer \/ \E x \in Music : ClientTells(p, x)
    BY <1>10, Joins
  <2>2. toServer' = toServer \/ \E x \in ToServer : ClientTells(p, x)
    BY <2>1, MusicIsSent
  <2>3. /\ chat'[p].lines = chat[p].lines \cup m.messages /\ chat'[p].waiting = chat[p].waiting
        /\ \A q \in Process \ {p} : chat'[q] = chat[q]
    BY <1>7, <2>1, ChatWelcomed
  <2>4. m.method = "Session" /\ m.messages \subseteq messages
    BY <1>6, <1>10 DEF Session, Historic
  <2>5. Shown(p, m)'
    BY <2>3, <2>4 DEF Shown
  <2> HIDE DEF Shown
  <2> QED
    BY <1>9, <1>10, <2>2, <2>3, <2>4, <2>5
<1>11. CASE m \in ToClient /\ onAudioSignal(p, m) /\ UNCHANGED <<link, toClient, client>>
  <2>1. chat' = chat /\ (toServer' = toServer \/ \E x \in Music : ClientTells(p, x))
    BY <1>11, MusicReceived
  <2>2. m.method \in {"Url", "PlayingState", "Position"}
    BY <1>11 DEF onAudioSignal
  <2>3. toServer' = toServer \/ \E x \in ToServer : ClientTells(p, x)
    BY <2>1, MusicIsSent
  <2> QED
    BY <1>8, <1>11, <2>1, <2>2, <2>3
<1>12. CASE m \in ToClient /\ onChatSignal(p, m) /\ UNCHANGED <<link, toClient, client>>
  <2>1. toServer' = toServer
    BY <1>12, ChatReceived
  <2>2. CASE m.method = "Message" /\ chat' = [chat EXCEPT ![p] = handleRemoteMessage(@, m.message)]
    <3>1. /\ chat'[p].lines = chat[p].lines \cup {m.message} /\ chat'[p].waiting = chat[p].waiting
          /\ \A q \in Process \ {p} : chat'[q] = chat[q]
      BY <1>7, <2>2, ChatWritten
    <3>2. public(m.message) => m.message \in messages
      BY <1>6, <2>2 DEF Historic
    <3>3. Shown(p, m)'
      BY <2>2, <3>1 DEF Shown
    <3>4. \A l \in chat'[p].lines : l \in chat[p].lines \/ (public(l) => l \in messages)
      BY <3>1, <3>2
    <3> HIDE DEF Shown, public
    <3> QED
      BY <1>9, <1>12, <2>1, <3>1, <3>3, <3>4
  <2>3. CASE m.method = "Response" /\ chat' = [chat EXCEPT ![p] = handleResponse(@, m.message)]
    <3>1. /\ chat'[p].lines = chat[p].lines /\ chat'[p].waiting = chat[p].waiting \ {m.message}
          /\ \A q \in Process \ {p} : chat'[q] = chat[q]
      BY <1>7, <2>3, ChatWritten
    <3>2. Shown(p, m)'
      BY <2>3, <3>1 DEF Shown
    <3> HIDE DEF Shown, public
    <3> QED
      BY <1>9, <1>12, <2>1, <3>1, <3>2
  <2> QED
    BY <1>12, <2>2, <2>3 DEF onChatSignal
<1>13. CASE m \in ToClient /\ onDocumentSignal(p, m) /\ UNCHANGED <<link, toClient, client>>
  <2>1. chat' = chat /\ toServer' = toServer
    BY <1>13, DocumentReceived
  <2>2. m.method \in {"DocAvailable", "Doc"}
    BY <1>13 DEF onDocumentSignal
  <2> QED
    BY <1>8, <1>13, <2>1, <2>2
<1>14. CASE m.method = "Ended" /\ endClient(p) /\ UNCHANGED toServer
  <2>1. \A y \in In(signals[p]) : y \in In(signals'[p]) \/ y.payload.method = "Ended"
    BY <1>5, <1>14
  <2> QED
    BY <1>1, <1>3, <1>14, <2>1, LogsEnded
<1> QED
  BY <1>2, <1>10, <1>11, <1>12, <1>13, <1>14 DEF Shows

LEMMA LogsStep == Base /\ Answers /\ Logs /\ [Next]_vars => Logs'
<1> SUFFICES ASSUME Base, Answers, Logs, [Next]_vars
             PROVE  Logs'
  OBVIOUS
<1>1. CASE ServerStep
  BY <1>1, LogsServerStep
<1>2. CASE ClientStep
  BY <1>2, LogsClientStep
<1>3. CASE InterfaceStep
  <2>1. UNCHANGED <<users, messages>>
    BY <1>3 DEF InterfaceStep, serverVars
  <2>2. PICK p \in Process :
          \/ bindObservedClient(p) \/ onConnectButtonPressed(p)
          \/ sendMessage(p) \/ musicAct(p)
          \/ dropEvent(p) \/ onItemDoubleClick(p)
          \/ onSignal(p)
    BY <1>3 DEF InterfaceStep, musicAct
  <2>3. ASSUME UNCHANGED <<processOf, link, client, toClient, chat, signals>>,
               toServer' = toServer \/ \E x \in ToServer : ClientTells(p, x)
        PROVE  Logs'
    <3>1. /\ \A q \in Process \ {p} : signals'[q] = signals[q]
          /\ In(signals'[p]) = In(signals[p])
      BY <2>3
    <3> QED
      BY <2>1, <2>3, <3>1, LogsSame
  <2>4. CASE bindObservedClient(p)
    BY <2>1, <2>4, LogsBound
  <2>5. CASE onConnectButtonPressed(p)
    <3>1. endClient(p) /\ UNCHANGED <<processOf, toServer, signals>>
      BY <2>5 DEF onConnectButtonPressed
    <3> QED
      BY <2>1, <3>1, LogsEnded
  <2>6. CASE sendMessage(p)
    BY <2>1, <2>6, LogsSaid
  <2>7. CASE musicAct(p)
    BY <2>3, <2>7, MusicTold, MusicIsSent DEF Base
  <2>8. CASE dropEvent(p)
    <3>1. PICK d \in Document :
            toServer' = toServer \/ ClientTells(p, [method |-> "DocAvailable", hash |-> d])
      BY <2>8, Dropped
    <3>2. [method |-> "DocAvailable", hash |-> d] \in ToServer
      BY DEF ToServer
    <3>3. UNCHANGED <<processOf, link, client, toClient, signals, chat>>
      BY <2>8, Dropped
    <3> QED
      BY <2>3, <3>1, <3>2, <3>3
  <2>9. CASE onItemDoubleClick(p)
    <3>1. PICK d \in Document : ClientTells(p, [method |-> "DocRequested", hash |-> d])
      BY <2>9, DocAsked
    <3>2. [method |-> "DocRequested", hash |-> d] \in ToServer
      BY DEF ToServer
    <3>3. UNCHANGED <<processOf, link, client, toClient, signals, chat>>
      BY <2>9, DocAsked
    <3> QED
      BY <2>3, <3>1, <3>2, <3>3
  <2>10. CASE onSignal(p)
    BY <2>1, <2>10, LogsShown
  <2> QED
    BY <2>2, <2>4, <2>5, <2>6, <2>7, <2>8, <2>9, <2>10
<1>4. CASE UNCHANGED vars
  BY <1>4 DEF Logs, LogOf, Logged, Coming, Historic, public, Named, Opened, vars, constantVars,
              networkVars, interfaceVars, serverVars
<1> QED
  BY <1>1, <1>2, <1>3, <1>4 DEF Next

LEMMA InitLogs == Init => Logs
<1> SUFFICES ASSUME Init
             PROVE  Logs
  OBVIOUS
<1>1. Opened = {}
  BY DEF Init, Opened
<1>2. /\ \A k \in Conn : In(toClient[k]) = {}
      /\ \A p \in Process : In(signals[p]) = {}
  BY InEmpty DEF Init
<1> QED
  BY <1>1, <1>2 DEF Logs

LEMMA LogsSettled == Base /\ Greetings /\ Logs => LogsAgree
<1> SUFFICES ASSUME Base, Greetings, Logs, NEW p \in Process, settled(p)
             PROVE  /\ messages \subseteq chat[p].lines
                    /\ \A m \in chat[p].lines : public(m) => m \in messages
                    /\ chat[p].waiting = {}
  BY DEF LogsAgree, public
<1>1. PICK k : k = client[p]
  OBVIOUS
<1>2. k # NoConn /\ link[k] = "up" /\ In(toServer[k]) = {} /\ In(toClient[k]) = {} /\ In(signals[p]) = {}
  BY <1>1, InEmpty DEF settled
<1>3. k \in Opened /\ k \in Conn
  BY <1>1, <1>2, ConnFacts DEF Base, Connections
<1>4. k \in Named
  BY <1>2, <1>3 DEF Greetings
<1>5. LogOf(p, k)
  BY <1>1, <1>2, <1>3 DEF Logs
<1>6. \A x : ~Coming(p, k, x)
  BY <1>2 DEF Coming
<1>7. \A m \in messages : m \in chat[p].lines
  BY <1>4, <1>5, <1>6 DEF LogOf, Logged
<1>8. \A m \in chat[p].lines : public(m) => m \in messages
  BY <1>2, <1>5 DEF LogOf
<1>9. chat[p].waiting = {}
  BY <1>2, <1>5, <1>6 DEF LogOf
<1> QED
  BY <1>7, <1>8, <1>9

\* LogsAgree, whatever the applications and whatever is said: the messages that
\* RPZServer keeps, sends with the session and relays make the same log for all, and
\* every message that MessagesLog shows grey is answered.
THEOREM LogsAlwaysAgree == Spec => []LogsAgree
<1>1. Init => Base /\ Surviving /\ Logs
  BY InitBase, InitSurvives, InitLogs
<1>2. Base /\ Surviving /\ Logs /\ [Next]_vars => Base' /\ Surviving' /\ Logs'
  BY TypesStep, ConnectionsStep, SurvivingStep, LogsStep DEF Base, Surviving
<1>3. Base /\ Surviving /\ Logs => LogsAgree
  BY LogsSettled DEF Surviving
<1> QED
  BY <1>1, <1>2, <1>3, PTL DEF Spec

---------------------------------------------------------------------------
(* The list of documents *)

\* What a process has and shows it has a name for, and unless some were hidden it
\* shows what it has a name for.
Shelved(s, hidden) ==
  /\ s.store \subseteq s.names
  /\ \A d \in Document : s.items[d] # "none" => d \in s.names
  /\ hidden \/ \A d \in s.names : s.items[d] # "none"

Shelves == \A p \in Process : Shelved(shelf[p], "relisting" \in slips)

\* Who offers a document has a name for it.
Offered ==
  \A k \in Opened : \A x \in In(toServer[k]) :
    x.method = "DocAvailable" => x.hash \in shelf[processOf[k]].names

Available(d) == [method |-> "DocAvailable", hash |-> d]
Requested(d) == [method |-> "DocRequested", hash |-> d]

Brings(x, d) == x.method = "Doc" /\ x.hashes \subseteq {d}

\* A document that is being downloaded is asked for, or on its way.
Fetches(p, k, d) ==
  \/ Requested(d) \in In(toServer[k])
  \/ \E x \in In(toClient[k]) : Brings(x, d)
  \/ \E y \in In(signals[p]) : y.conn = k /\ Brings(y.payload, d)

Downloads ==
  \A p \in Process : \A d \in Document : shelf[p].items[d] = "Downloading" =>
    \E k \in Conn : client[p] = k /\ (link[k] = "up" => Fetches(p, k, d))

Presents(x, d) ==
  \/ x.method = "DocAvailable" /\ x.hash = d
  \/ x.method = "Session" /\ d \in x.names

\* Told to the server, and by it to nobody yet.
Pending(d) == \E j \in Conn : Available(d) \in In(toServer[j])

\* A document that the server's process has a name for is known to a guest, or on its
\* way to it.
Announced(p, k, d) ==
  \/ \E x \in In(toClient[k]) : Presents(x, d)
  \/ \E y \in In(signals[p]) : y.conn = k /\ Presents(y.payload, d)
  \/ Pending(d)

Listed ==
  \A p \in Process : \A k \in Conn : client[p] = k /\ link[k] = "up" /\ users[k] = "guest" =>
    \A d \in serverNames : d \in shelf[p].names \/ Announced(p, k, d)

Unexcused ==
  /\ Loopback \subseteq {serverProcess}
  /\ slips \cap {"relisting", "dropped alone", "dropped early", "late"} = {}

Listing == Unexcused => Listed

LEMMA ShelvedKept ==
  ASSUME NEW s \in Shelf, NEW h \in BOOLEAN, Shelved(s, h), NEW d \in Document
  PROVE  /\ Shelved(downloaded(s, d), h)
         /\ s.items[d] # "none" => Shelved(downloading(s, d), h)
<1>1. /\ s.items \in [Document -> ItemState] /\ s.names \subseteq Document /\ s.store \subseteq s.names
      /\ \A e \in Document : s.items[e] # "none" => e \in s.names
      /\ h \/ \A e \in s.names : s.items[e] # "none"
  BY DEF Shelf, Shelved
<1>2. Shelved(downloaded(s, d), h)
  <2>1. /\ downloaded(s, d).items = [s.items EXCEPT ![d] = "Downloaded"]
        /\ downloaded(s, d).names = s.names \cup {d} /\ downloaded(s, d).store = s.store \cup {d}
    BY DEF downloaded, Shelf
  <2> QED
    BY <1>1, <2>1 DEF Shelved
<1>3. s.items[d] # "none" => Shelved(downloading(s, d), h)
  <2>1. /\ downloading(s, d).items = [s.items EXCEPT ![d] = "Downloading"]
        /\ downloading(s, d).names = s.names /\ downloading(s, d).store = s.store
    BY DEF downloading, Shelf
  <2> QED
    BY <1>1, <2>1 DEF Shelved
<1> QED
  BY <1>2, <1>3

LEMMA ShelvedOffered ==
  ASSUME NEW s \in Shelf, NEW h \in BOOLEAN, Shelved(s, h),
         NEW D \in SUBSET Document, NEW b \in BOOLEAN
  PROVE  Shelved(temporaryItems(s, D), h) /\ Shelved(shelfOnSession(s, b, D), h)
<1>1. /\ s.items \in [Document -> ItemState] /\ s.names \subseteq Document /\ s.store \subseteq s.names
      /\ \A e \in Document : s.items[e] # "none" => e \in s.names
      /\ h \/ \A e \in s.names : s.items[e] # "none"
  BY DEF Shelf, Shelved
<1>4. ASSUME NEW t, t.store = s.store, t.names = s.names \cup D,
             t.items = [e \in Document |-> IF e \in D \ s.names THEN "Downloadable" ELSE s.items[e]]
      PROVE  Shelved(t, h)
  <2>1. \A e \in Document : t.items[e] # "none" => e \in t.names
    BY <1>1, <1>4
  <2>2. h \/ \A e \in t.names : t.items[e] # "none"
    BY <1>1, <1>4
  <2> QED
    BY <1>1, <1>4, <2>1, <2>2 DEF Shelved
<1>5. Shelved(temporaryItems(s, D), h)
  <2>1. /\ temporaryItems(s, D).items =
             [e \in Document |-> IF e \in D \ s.names THEN "Downloadable" ELSE s.items[e]]
        /\ temporaryItems(s, D).names = s.names \cup D /\ temporaryItems(s, D).store = s.store
    BY DEF temporaryItems, Shelf
  <2> QED
    BY <1>4, <2>1
<1>6. Shelved(shelfOnSession(s, b, D), h)
  <2>1. CASE b
    <3>1. /\ shelfOnSession(s, b, D).items = s.items /\ shelfOnSession(s, b, D).names = s.names
          /\ shelfOnSession(s, b, D).store = s.store
      BY <2>1 DEF shelfOnSession, Shelf
    <3> QED
      BY <1>1, <3>1 DEF Shelved
  <2>2. CASE ~b
    <3>1. /\ shelfOnSession(s, b, D).items =
               [e \in Document |-> IF e \in D \ s.names THEN "Downloadable" ELSE s.items[e]]
          /\ shelfOnSession(s, b, D).names = s.names \cup D
          /\ shelfOnSession(s, b, D).store = s.store
      BY <2>2 DEF shelfOnSession, temporaryItems, Shelf
    <3> QED
      BY <1>4, <3>1
  <2> QED
    BY <2>1, <2>2
<1> QED
  BY <1>5, <1>6

LEMMA ShelvedClosed ==
  ASSUME NEW s \in Shelf, NEW h \in BOOLEAN, Shelved(s, h), NEW h2 \in BOOLEAN, h => h2,
         {d \in Document : ~isLocal(s, d)} # {} => h2
  PROVE  Shelved(shelfClosed(s), h2)
<1>1. /\ s.items \in [Document -> ItemState] /\ s.names \subseteq Document /\ s.store \subseteq s.names
      /\ \A e \in Document : s.items[e] # "none" => e \in s.names
      /\ h \/ \A e \in s.names : s.items[e] # "none"
  BY DEF Shelf, Shelved
<1>2. /\ shelfClosed(s).items = [e \in Document |-> IF isLocal(s, e) THEN s.items[e] ELSE "none"]
      /\ shelfClosed(s).names = s.names /\ shelfClosed(s).store = s.store
  BY DEF shelfClosed, Shelf
<1>3. CASE h2
  BY <1>1, <1>2, <1>3 DEF Shelved
<1>4. CASE ~h2
  <2>1. \A e \in Document : isLocal(s, e)
    BY <1>4
  <2>2. \A e \in Document : shelfClosed(s).items[e] = s.items[e]
    BY <1>2, <2>1
  <2> QED
    BY <1>1, <1>2, <1>4, <2>2 DEF Shelved
<1> QED
  BY <1>3, <1>4

\* What the operators do to the items being downloaded, and to the names.
LEMMA ItemsDownloading ==
  ASSUME NEW s \in Shelf, NEW d \in Document, NEW e \in Document
  PROVE  /\ downloaded(s, d).items[e] = "Downloading" => e # d /\ s.items[e] = "Downloading"
         /\ downloading(s, d).items[e] = "Downloading" => e = d \/ s.items[e] = "Downloading"
<1>1. s.items \in [Document -> ItemState]
  BY DEF Shelf
<1>2. /\ downloaded(s, d).items = [s.items EXCEPT ![d] = "Downloaded"]
      /\ downloading(s, d).items = [s.items EXCEPT ![d] = "Downloading"]
  BY DEF downloaded, downloading, Shelf
<1> QED
  BY <1>1, <1>2

LEMMA SessionDownloading ==
  ASSUME NEW s \in Shelf, NEW D \in SUBSET Document, NEW b \in BOOLEAN, NEW e \in Document
  PROVE  /\ temporaryItems(s, D).items[e] = "Downloading" => s.items[e] = "Downloading"
         /\ shelfOnSession(s, b, D).items[e] = "Downloading" => s.items[e] = "Downloading"
<1>1. s.items \in [Document -> ItemState]
  BY DEF Shelf
<1>2. /\ temporaryItems(s, D).items =
           [f \in Document |-> IF f \in D \ s.names THEN "Downloadable" ELSE s.items[f]]
      /\ shelfOnSession(s, b, D).items = IF b THEN s.items ELSE temporaryItems(s, D).items
  BY DEF temporaryItems, shelfOnSession, Shelf
<1> QED
  BY <1>1, <1>2

\* What the interface does, as far as documents are concerned.
Quietly ==
  \A k \in Conn :
    /\ In(toServer[k]) \subseteq In(toServer'[k])
    /\ \A x \in In(toServer'[k]) : x \in In(toServer[k]) \/ x.method \notin DocMethods

SameLinks == UNCHANGED <<processOf, link, client, toClient>>

Stays == shelf' = shelf /\ Quietly /\ SameLinks /\ UNCHANGED signals

Binding(p, k) ==
  /\ k \in Conn \ Opened /\ client[p] = NoConn
  /\ Opened' = Opened \cup {k}
  /\ processOf'[k] = p /\ \A j \in Opened : processOf'[j] = processOf[j]
  /\ link' = [link EXCEPT ![k] = "up"]
  /\ In(toServer'[k]) = {Shake}
  /\ \A j \in Conn \ {k} : toServer'[j] = toServer[j]
  /\ client' = [client EXCEPT ![p] = k]
  /\ UNCHANGED <<toClient, signals, shelf>>

Dropping(p, d) ==
  /\ d \in Document
  /\ shelf' = [shelf EXCEPT ![p] = downloaded(@, d)]
  /\ toServer' = toServer \/ ClientTells(p, Available(d))
  /\ slips' \cap {"dropped alone", "dropped early"} = {} =>
       client[p] # NoConn /\ link[client[p]] = "up" /\ ClientTells(p, Available(d))
  /\ SameLinks /\ UNCHANGED signals

Asking(p, d) ==
  /\ d \in Document /\ shelf[p].items[d] = "Downloadable"
  /\ client[p] # NoConn
  /\ shelf' = [shelf EXCEPT ![p] = downloading(@, d)]
  /\ ClientTells(p, Requested(d))
  /\ SameLinks /\ UNCHANGED signals

Showing(p, m) ==
  \/ m \in Session /\ shelf' = [shelf EXCEPT ![p] = shelfOnSession(@, hostAble[p], m.names)]
  \/ /\ m.method = "DocAvailable" /\ m.hash \in Document
     /\ shelf' = [shelf EXCEPT ![p] = temporaryItems(@, {m.hash})]
  \/ /\ m.method = "Doc"
     /\ \E d \in m.hashes : /\ d \in Document /\ shelf[p].items[d] # "none"
                            /\ shelf' = [shelf EXCEPT ![p] = downloaded(@, d)]
  \/ m.method = "Doc" /\ crashed' # "no" /\ shelf' = shelf
  \/ m.method \notin {"Session", "DocAvailable", "Doc"} /\ shelf' = shelf

Taking(p, k, m) ==
  /\ k \in Opened /\ processOf[k] = p
  /\ In(signals[p]) = {[conn |-> k, payload |-> m]} \cup In(signals'[p])
  /\ \A q \in Process \ {p} : signals'[q] = signals[q]
  /\ k # client[p] => "late" \in slips'
  /\ Quietly /\ SameLinks
  /\ Showing(p, m)

Closing(p) ==
  /\ \E k \in Opened : Ends(p, k)
  /\ slipsAfterEnd(p) \subseteq slips'
  /\ UNCHANGED <<processOf, toServer>>
  /\ \A q \in Process \ {p} : signals'[q] = signals[q]

DocsAct ==
  \/ Stays
  \/ \E p \in Process, k \in Conn : Binding(p, k)
  \/ \E p \in Process, d \in Document : Dropping(p, d) \/ Asking(p, d)
  \/ \E p \in Process, k \in Conn, m \in ToClient \cup [method : {"Ended"}] : Taking(p, k, m)
  \/ \E p \in Process : Closing(p)

LEMMA QuietTold ==
  ASSUME Base, NEW p \in Process,
         \/ toServer' = toServer
         \/ \E x \in Music : ClientTells(p, x)
         \/ \E m \in Message : ClientTells(p, Asked(m))
  PROVE  Quietly
<1>1. \A k \in Conn : \A x \in In(toServer'[k]) : x \in In(toServer[k]) \/ x.method \notin DocMethods
  BY NoDocTold
<1>2. ASSUME NEW x \in ToServer, ClientTells(p, x)
      PROVE  \A k \in Conn : In(toServer[k]) \subseteq In(toServer'[k])
  BY <1>2, ClientTellsElements DEF Base
<1>3. \A k \in Conn : In(toServer[k]) \subseteq In(toServer'[k])
  BY <1>2, MusicIsSent, MessageSent DEF Asked
<1> QED
  BY <1>1, <1>3 DEF Quietly

LEMMA DocumentCame ==
  ASSUME Base, NEW p \in Process, NEW m \in ToClient, onDocumentSignal(p, m)
  PROVE  Showing(p, m)
<1>1. CASE m.method = "DocAvailable"
  BY <1>1, DocumentReceived DEF Showing
<1>2. CASE m.method = "Doc" /\ (m.hashes = {} \/ \E d \in m.hashes : shelf[p].items[d] = "none")
  <2>1. crashed' = "document" /\ shelf' = shelf
    BY <1>2 DEF onDocumentSignal
  <2> QED
    BY <1>2, <2>1 DEF Showing
<1>3. CASE m.method = "Doc" /\ ~(m.hashes = {} \/ \E d \in m.hashes : shelf[p].items[d] = "none")
  <2>1. PICK d \in m.hashes : shelf' = [shelf EXCEPT ![p] = downloaded(@, d)]
    BY <1>3 DEF onDocumentSignal
  <2>2. d \in Document /\ shelf[p].items[d] # "none"
    BY <1>3, ToClientFields
  <2> QED
    BY <1>3, <2>1, <2>2 DEF Showing
<1> QED
  BY <1>1, <1>2, <1>3, DocumentReceived

LEMMA ActsOnDocs == Base /\ InterfaceStep => DocsAct
<1> SUFFICES ASSUME Base, InterfaceStep
             PROVE  DocsAct
  OBVIOUS
<1>1. Types
  BY DEF Base
<1>2. PICK p \in Process :
        \/ bindObservedClient(p) \/ onConnectButtonPressed(p)
        \/ sendMessage(p) \/ musicAct(p)
        \/ dropEvent(p) \/ onItemDoubleClick(p)
        \/ onSignal(p)
  BY DEF InterfaceStep, musicAct
<1>3. CASE bindObservedClient(p)
  <2>1. client[p] = NoConn
    BY <1>3 DEF bindObservedClient, Base, Connections
  <2>2. \E k \in Conn : Binding(p, k)
    BY <1>3, <2>1, Bound DEF bindObservedClient, Binding, Shake
  <2> QED
    BY <2>2 DEF DocsAct
<1>4. CASE onConnectButtonPressed(p)
  <2>1. endClient(p) /\ UNCHANGED <<processOf, toServer, signals>> /\ slipsAfterEnd(p) \subseteq slips'
    BY <1>4 DEF onConnectButtonPressed
  <2>2. CASE UNCHANGED <<link, toClient, client, hostAble, interfaceVars>>
    <3>1. Stays
      BY <2>1, <2>2 DEF Stays, SameLinks, Quietly, interfaceVars
    <3> QED
      BY <3>1 DEF DocsAct
  <2>3. CASE \E k \in Opened : Ends(p, k)
    <3>1. Closing(p)
      BY <2>1, <2>3 DEF Closing
    <3> QED
      BY <3>1 DEF DocsAct
  <2> QED
    BY <2>1, <2>2, <2>3, Ended
<1>5. CASE sendMessage(p)
  <2>1. Quietly /\ UNCHANGED <<shelf, processOf, link, client, toClient, signals>>
    BY <1>5, Said, QuietTold
  <2> QED
    BY <2>1 DEF DocsAct, Stays, SameLinks
<1>6. CASE musicAct(p)
  <2>1. Quietly /\ UNCHANGED <<shelf, processOf, link, client, toClient, signals>>
    BY <1>1, <1>6, MusicTold, QuietTold
  <2> QED
    BY <2>1 DEF DocsAct, Stays, SameLinks
<1>7. CASE dropEvent(p)
  <2>1. PICK d \in Document :
          /\ shelf' = [shelf EXCEPT ![p] = downloaded(@, d)]
          /\ IF hostAble[p] THEN ClientSends(p, <<Available(d)>>) ELSE UNCHANGED toServer
    BY <1>7 DEF dropEvent, Available
  <2>2. UNCHANGED <<processOf, link, client, toClient, signals>>
    BY <1>7, Dropped
  <2>3. ASSUME slips' \cap {"dropped alone", "dropped early"} = {}
        PROVE  client[p] # NoConn /\ hostAble[p] /\ link[client[p]] = "up"
    <3>1. \/ "dropped alone" \in slips'
          \/ ~(client[p] = NoConn \/ ~hostAble[p] \/ link[client[p]] # "up")
      BY <1>7 DEF dropEvent
    <3> QED
      BY <2>3, <3>1
  <2>4. Available(d) \in ToServer
    BY DEF Available, ToServer
  <2>5. hostAble[p] => ClientTells(p, Available(d))
    BY <1>1, <2>1, <2>4, ClientSendsTells
  <2>6. Dropping(p, d)
    BY <2>1, <2>2, <2>3, <2>5 DEF Dropping, SameLinks
  <2> QED
    BY <2>6 DEF DocsAct
<1>8. CASE onItemDoubleClick(p)
  <2>1. \E d \in Document : Asking(p, d)
    BY <1>8, DocAsked DEF onItemDoubleClick, Asking, SameLinks, Requested
  <2> QED
    BY <2>1 DEF DocsAct
<1>9. CASE onSignal(p)
  <2>1. PICK k \in Opened, m \in ToClient \cup [method : {"Ended"}] : Takes(p, k, m) /\ Shows(p, m)
    BY <1>9, SignalCases
  <2>2. /\ Head(signals[p]) = [conn |-> k, payload |-> m] /\ processOf[k] = p
        /\ UNCHANGED processOf
        /\ k # client[p] => slipsBefore(p) = slips \cup {"late"}
    BY <2>1 DEF Takes, slipsBefore
  <2>3. /\ In(signals[p]) = {[conn |-> k, payload |-> m]} \cup In(signals'[p])
        /\ \A q \in Process \ {p} : signals'[q] = signals[q]
    <3>1. PICK j \in Opened, x \in ToClient \cup [method : {"Ended"}] :
            /\ Head(signals[p]) = [conn |-> j, payload |-> x] /\ processOf[j] = p
            /\ signals[p] # <<>>
            /\ signals' \in [Process -> Seq(Signal)]
            /\ signals'[p] = Tail(signals[p])
            /\ In(signals[p]) = {[conn |-> j, payload |-> x]} \cup In(signals'[p])
            /\ \A q \in Process \ {p} : signals'[q] = signals[q]
      BY <1>9, SignalTaken
    <3> QED
      BY <2>2, <3>1
  <2>4. k \in Conn
    BY ConnFacts
  <2>5. ASSUME slipsBefore(p) \subseteq slips', Quietly, SameLinks, Showing(p, m)
        PROVE  DocsAct
    BY <2>2, <2>3, <2>4, <2>5 DEF DocsAct, Taking
  <2>6. CASE m \in Session /\ onGameSessionReceived(p, m) /\ UNCHANGED <<link, toClient, client>>
    <3>1. slipsBefore(p) \subseteq slips' /\ Quietly
      BY <2>6, Joins, QuietTold
    <3>2. shelf' = [shelf EXCEPT ![p] = shelfOnSession(@, hostAble[p], m.names)]
      BY <2>6, Joins
    <3> QED
      BY <2>2, <2>5, <2>6, <3>1, <3>2 DEF SameLinks, Showing
  <2>7. CASE m \in ToClient /\ onAudioSignal(p, m) /\ UNCHANGED <<link, toClient, client>>
    <3>1. slipsBefore(p) \subseteq slips' /\ Quietly /\ shelf' = shelf
      BY <2>7, MusicReceived, QuietTold DEF slipsBeforeMusic
    <3>2. m.method \notin {"Session", "DocAvailable", "Doc"}
      BY <2>7 DEF onAudioSignal
    <3> QED
      BY <2>2, <2>5, <2>7, <3>1, <3>2 DEF SameLinks, Showing
  <2>8. CASE m \in ToClient /\ onChatSignal(p, m) /\ UNCHANGED <<link, toClient, client>>
    <3>1. slipsBefore(p) \subseteq slips' /\ Quietly /\ shelf' = shelf
      BY <2>8, ChatReceived, QuietTold
    <3>2. m.method \notin {"Session", "DocAvailable", "Doc"}
      BY <2>8 DEF onChatSignal
    <3> QED
      BY <2>2, <2>5, <2>8, <3>1, <3>2 DEF SameLinks, Showing
  <2>9. CASE m \in ToClient /\ onDocumentSignal(p, m) /\ UNCHANGED <<link, toClient, client>>
    <3>1. slipsBefore(p) \subseteq slips' /\ Quietly
      BY <2>9, DocumentReceived, QuietTold
    <3>2. Showing(p, m)
      BY <2>9, DocumentCame
    <3> QED
      BY <2>2, <2>5, <2>9, <3>1, <3>2 DEF SameLinks
  <2>10. CASE /\ m.method = "Ended" /\ endClient(p)
              /\ slips' = slipsBefore(p) \cup slipsAfterEnd(p)
              /\ UNCHANGED toServer
    <3>1. CASE UNCHANGED <<link, toClient, client, hostAble, interfaceVars>>
      <4>1. Quietly /\ SameLinks /\ shelf' = shelf
        BY <2>2, <2>10, <3>1 DEF Quietly, SameLinks, interfaceVars
      <4>2. Showing(p, m)
        BY <2>10, <4>1 DEF Showing
      <4> QED
        BY <2>5, <2>10, <4>1, <4>2
    <3>2. CASE \E j \in Opened : Ends(p, j)
      <4>1. Closing(p)
        BY <2>2, <2>3, <2>10, <3>2 DEF Closing
      <4> QED
        BY <4>1 DEF DocsAct
    <3> QED
      BY <2>10, <3>1, <3>2, Ended
  <2> QED
    BY <2>1, <2>6, <2>7, <2>8, <2>9, <2>10 DEF Shows
<1> QED
  BY <1>2, <1>3, <1>4, <1>5, <1>6, <1>7, <1>8, <1>9

LEMMA ShelvedMore ==
  ASSUME NEW s, NEW h \in BOOLEAN, NEW h2 \in BOOLEAN, Shelved(s, h), h => h2
  PROVE  Shelved(s, h2)
BY DEF Shelved

LEMMA ShelvesSame ==
  ASSUME Base, Shelves, slips \subseteq slips', UNCHANGED shelf
  PROVE  Shelves'
<1> DEFINE h == "relisting" \in slips
           h2 == "relisting" \in slips'
<1>1. h \in BOOLEAN /\ h2 \in BOOLEAN /\ (h => h2)
  OBVIOUS
<1>2. \A p \in Process : Shelved(shelf[p], h)
  BY DEF Shelves
<1> HIDE DEF h, h2
<1>3. \A p \in Process : Shelved(shelf[p], h2)
  BY <1>1, <1>2, ShelvedMore
<1> QED
  BY <1>3 DEF Shelves, h2

LEMMA ShelvesChange ==
  ASSUME Base, Shelves, slips \subseteq slips', NEW p \in Process, NEW s,
         shelf' = [shelf EXCEPT ![p] = s],
         Shelved(shelf[p], "relisting" \in slips) => Shelved(s, "relisting" \in slips')
  PROVE  Shelves'
<1>1. shelf'[p] = s /\ \A q \in Process \ {p} : shelf'[q] = shelf[q]
  BY DEF Base, Types
<1> DEFINE h == "relisting" \in slips
           h2 == "relisting" \in slips'
<1>2. h \in BOOLEAN /\ h2 \in BOOLEAN /\ (h => h2)
  OBVIOUS
<1>3. /\ \A q \in Process : Shelved(shelf[q], h)
      /\ Shelved(shelf[p], h) => Shelved(s, h2)
  BY DEF Shelves
<1> HIDE DEF h, h2
<1>4. \A q \in Process : Shelved(shelf'[q], h2)
  BY <1>1, <1>2, <1>3, ShelvedMore
<1> QED
  BY <1>4 DEF Shelves, h2

LEMMA ShelvesStep == Base /\ Shelves /\ [Next]_vars => Shelves'
<1> SUFFICES ASSUME Base, Shelves, [Next]_vars
             PROVE  Shelves'
  OBVIOUS
<1>1. slips \subseteq slips' /\ Types
  BY SlipsGrow DEF Base
<1>2. CASE ServerStep \/ ClientStep \/ UNCHANGED vars
  <2>1. UNCHANGED shelf
    BY <1>2 DEF ServerStep, ClientStep, onPayloadReceived, onError, interfaceVars, vars
  <2> QED
    BY <1>1, <2>1, ShelvesSame
<1>3. CASE InterfaceStep
  <2> DEFINE h == "relisting" \in slips
             h2 == "relisting" \in slips'
  <2>1. h \in BOOLEAN /\ h2 \in BOOLEAN /\ (h => h2)
    BY <1>1
  <2>2. \A p \in Process : shelf[p] \in Shelf /\ hostAble[p] \in BOOLEAN
    BY <1>1 DEF Types
  <2>3. ASSUME NEW p \in Process, NEW s, shelf' = [shelf EXCEPT ![p] = s],
               Shelved(shelf[p], h) => Shelved(s, h) \/ Shelved(s, h2)
        PROVE  Shelves'
    <3> HIDE DEF h, h2
    <3>1. Shelved(shelf[p], h) => Shelved(s, h2)
      BY <2>1, <2>3, ShelvedMore
    <3> QED
      BY <1>1, <2>3, <3>1, ShelvesChange DEF h, h2
  <2> HIDE DEF h, h2
  <2>4. CASE UNCHANGED shelf
    BY <1>1, <2>4, ShelvesSame
  <2>5. ASSUME NEW p \in Process, NEW d \in Document, shelf' = [shelf EXCEPT ![p] = downloaded(@, d)]
        PROVE  Shelves'
    BY <2>1, <2>2, <2>3, <2>5, ShelvedKept
  <2>6. ASSUME NEW p \in Process, NEW d \in Document, Asking(p, d)
        PROVE  Shelves'
    <3>1. shelf' = [shelf EXCEPT ![p] = downloading(@, d)] /\ shelf[p].items[d] # "none"
      BY <2>6 DEF Asking
    <3> QED
      BY <2>1, <2>2, <2>3, <3>1, ShelvedKept
  <2>7. ASSUME NEW p \in Process, NEW m \in ToClient \cup [method : {"Ended"}], Showing(p, m)
        PROVE  Shelves'
    <3>1. CASE m \in Session /\ shelf' = [shelf EXCEPT ![p] = shelfOnSession(@, hostAble[p], m.names)]
      <4>1. m.names \in SUBSET Document
        BY <3>1 DEF Session
      <4>2. Shelved(shelf[p], h) => Shelved(shelfOnSession(shelf[p], hostAble[p], m.names), h)
        BY <2>1, <2>2, <4>1, ShelvedOffered
      <4> QED
        BY <2>3, <3>1, <4>2
    <3>2. CASE m.hash \in Document /\ shelf' = [shelf EXCEPT ![p] = temporaryItems(@, {m.hash})]
      <4>1. {m.hash} \in SUBSET Document
        BY <3>2
      <4>2. Shelved(shelf[p], h) => Shelved(temporaryItems(shelf[p], {m.hash}), h)
        BY <2>1, <2>2, <4>1, ShelvedOffered
      <4> QED
        BY <2>3, <3>2, <4>2
    <3> QED
      BY <2>4, <2>5, <2>7, <3>1, <3>2 DEF Showing
  <2>8. ASSUME NEW p \in Process, Closing(p)
        PROVE  Shelves'
    <3>1. shelf' = [shelf EXCEPT ![p] = shelfClosed(@)]
      BY <2>8 DEF Closing, Ends
    <3>2. {d \in Document : ~isLocal(shelf[p], d)} # {} => h2
      BY <2>8 DEF Closing, slipsAfterEnd, forgets, h2
    <3>3. Shelved(shelf[p], h) => Shelved(shelfClosed(shelf[p]), h2)
      BY <2>1, <2>2, <3>2, ShelvedClosed
    <3> QED
      BY <2>3, <3>1, <3>3
  <2>9. DocsAct
    BY <1>3, ActsOnDocs
  <2> QED
    BY <2>4, <2>5, <2>6, <2>7, <2>8, <2>9 DEF DocsAct, Stays, Binding, Dropping, Taking
<1> QED
  BY <1>2, <1>3 DEF Next

LEMMA NamesGrow ==
  Base /\ [Next]_vars =>
    /\ \A p \in Process : shelf[p].names \subseteq shelf'[p].names
    /\ \A k \in Opened : k \in Opened' /\ processOf'[k] = processOf[k]
<1> SUFFICES ASSUME Base, [Next]_vars
             PROVE  /\ \A p \in Process : shelf[p].names \subseteq shelf'[p].names
                    /\ \A k \in Opened : k \in Opened' /\ processOf'[k] = processOf[k]
  OBVIOUS
<1>1. CASE ServerStep \/ ClientStep \/ UNCHANGED vars
  BY <1>1 DEF ServerStep, ClientStep, onPayloadReceived, onError, interfaceVars, constantVars, vars,
              Opened
<1>2. CASE InterfaceStep
  <2>1. Types /\ \A p \in Process : shelf[p] \in Shelf /\ hostAble[p] \in BOOLEAN
    BY DEF Base, Types
  <2>2. DocsAct
    BY <1>2, ActsOnDocs
  <2>3. \A k \in Opened : k \in Opened' /\ processOf'[k] = processOf[k]
    BY <2>2 DEF DocsAct, Stays, Binding, Dropping, Asking, Taking, Closing, SameLinks, Opened
  <2>4. ASSUME NEW p \in Process, NEW s, shelf' = [shelf EXCEPT ![p] = s],
               shelf[p].names \subseteq s.names
        PROVE  \A q \in Process : shelf[q].names \subseteq shelf'[q].names
    BY <2>1, <2>4 DEF Types
  <2>5. ASSUME NEW p \in Process, NEW d \in Document,
               \/ shelf' = [shelf EXCEPT ![p] = downloaded(@, d)]
               \/ shelf' = [shelf EXCEPT ![p] = downloading(@, d)]
        PROVE  \A q \in Process : shelf[q].names \subseteq shelf'[q].names
    <3>1. /\ shelf[p].names \subseteq downloaded(shelf[p], d).names
          /\ shelf[p].names \subseteq downloading(shelf[p], d).names
      BY <2>1 DEF downloaded, downloading, Shelf
    <3> QED
      BY <2>4, <2>5, <3>1
  <2>6. ASSUME NEW p \in Process, NEW m \in ToClient \cup [method : {"Ended"}], Showing(p, m)
        PROVE  \A q \in Process : shelf[q].names \subseteq shelf'[q].names
    <3>1. CASE m \in Session /\ shelf' = [shelf EXCEPT ![p] = shelfOnSession(@, hostAble[p], m.names)]
      <4>1. shelf[p].names \subseteq shelfOnSession(shelf[p], hostAble[p], m.names).names
        BY <2>1 DEF shelfOnSession, temporaryItems, Shelf
      <4> QED
        BY <2>4, <3>1, <4>1
    <3>2. CASE m.hash \in Document /\ shelf' = [shelf EXCEPT ![p] = temporaryItems(@, {m.hash})]
      <4>1. shelf[p].names \subseteq temporaryItems(shelf[p], {m.hash}).names
        BY <2>1 DEF temporaryItems, Shelf
      <4> QED
        BY <2>4, <3>2, <4>1
    <3> QED
      BY <2>5, <2>6, <3>1, <3>2 DEF Showing
  <2>7. ASSUME NEW p \in Process, Closing(p)
        PROVE  \A q \in Process : shelf[q].names \subseteq shelf'[q].names
    <3>1. shelf' = [shelf EXCEPT ![p] = shelfClosed(@)]
      BY <2>7 DEF Closing, Ends
    <3>2. shelfClosed(shelf[p]).names = shelf[p].names
      BY <2>1 DEF shelfClosed, Shelf
    <3> QED
      BY <2>4, <3>1, <3>2
  <2> QED
    BY <2>2, <2>3, <2>5, <2>6, <2>7 DEF DocsAct, Stays, Binding, Dropping, Asking, Taking
<1> QED
  BY <1>1, <1>2 DEF Next

\* A step of the server reads a payload, the first to have come.
LEMMA ServerReads ==
  ASSUME Base, ServerStep
  PROVE  \A k \in Conn : In(toServer'[k]) \subseteq In(toServer[k])
<1>1. PICK k \in Conn :
        onNewConnection(k) \/ onClientSocketDisconnected(k) \/ onClientPayloadReceived(k)
  BY DEF ServerStep
<1>2. CASE onNewConnection(k)
  BY <1>2 DEF onNewConnection, networkVars
<1>3. CASE onClientSocketDisconnected(k)
  BY <1>3, InEmpty DEF onClientSocketDisconnected, Base, Types
<1>4. CASE onClientPayloadReceived(k)
  BY <1>4, Handled DEF Base
<1> QED
  BY <1>1, <1>2, <1>3, <1>4

LEMMA OfferedStep == Base /\ Offered /\ [Next]_vars => Offered'
<1> SUFFICES ASSUME Base, Offered, [Next]_vars
             PROVE  Offered'
  OBVIOUS
<1>1. /\ \A p \in Process : shelf[p].names \subseteq shelf'[p].names
      /\ \A k \in Opened : k \in Opened' /\ processOf'[k] = processOf[k]
  BY NamesGrow
<1>2. /\ \A k \in Opened : processOf[k] \in Process
      /\ Opened \subseteq Conn /\ NoConn \notin Conn
      /\ \A k \in Conn : link[k] # "idle" => k \in Opened
  BY ConnFacts
<1>3. ASSUME \A k \in Opened' : \A x \in In(toServer'[k]) :
               (k \in Opened /\ x \in In(toServer[k])) \/ x.method # "DocAvailable"
      PROVE  Offered'
  BY <1>1, <1>2, <1>3 DEF Offered
<1>4. CASE ServerStep
  <2>1. Opened' = Opened
    BY <1>4 DEF ServerStep, constantVars, Opened
  <2> QED
    BY <1>2, <1>3, <1>4, <2>1, ServerReads
<1>5. CASE ClientStep \/ UNCHANGED vars
  <2>1. UNCHANGED <<processOf, toServer>>
    BY <1>5 DEF ClientStep, onPayloadReceived, onError, constantVars, vars, networkVars
  <2> QED
    BY <1>3, <2>1 DEF Opened
<1>6. CASE InterfaceStep
  <2>1. ASSUME Quietly, UNCHANGED processOf
        PROVE  Offered'
    BY <1>2, <1>3, <2>1 DEF Quietly, DocMethods, Opened
  <2>2. ASSUME NEW p \in Process, NEW d \in Document, UNCHANGED processOf,
               \/ Dropping(p, d)
               \/ Asking(p, d)
        PROVE  Offered'
    <3>1. PICK x \in ToServer : /\ toServer' = toServer \/ ClientTells(p, x)
                                /\ x.method = "DocAvailable" =>
                                     shelf' = [shelf EXCEPT ![p] = downloaded(@, d)] /\ x.hash = d
      <4>1. Available(d) \in ToServer /\ Requested(d) \in ToServer
        BY DEF Available, Requested, ToServer
      <4> QED
        BY <2>2, <4>1 DEF Dropping, Asking, Available, Requested
    <3>2. \A k \in Conn : \A y \in In(toServer'[k]) :
            y \in In(toServer[k]) \/ (k = client[p] /\ y = x)
      <4>1. CASE toServer' = toServer
        BY <4>1
      <4>2. CASE ClientTells(p, x)
        BY <4>2, ClientTellsElements DEF Base
      <4> QED
        BY <3>1, <4>1, <4>2
    <3>3. x.method = "DocAvailable" => x.hash \in shelf'[p].names
      <4>1. shelf[p] \in Shelf /\ d \in downloaded(shelf[p], d).names
        BY DEF Base, Types, downloaded, Shelf
      <4> QED
        BY <3>1, <4>1 DEF Base, Types
    <3>4. client[p] # NoConn => processOf[client[p]] = p
      BY DEF Base, Connections
    <3> QED
      BY <1>1, <1>2, <2>2, <3>2, <3>3, <3>4 DEF Offered, Opened
  <2>3. ASSUME NEW p \in Process, NEW k \in Conn, Binding(p, k)
        PROVE  Offered'
    <3>1. \A j \in Opened' : \A x \in In(toServer'[j]) :
            (j \in Opened /\ x \in In(toServer[j])) \/ x.method # "DocAvailable"
      BY <1>2, <2>3 DEF Binding, Shake
    <3> QED
      BY <1>3, <3>1
  <2>4. ASSUME NEW p \in Process, Closing(p)
        PROVE  Offered'
    BY <1>3, <2>4 DEF Closing, Opened
  <2>5. DocsAct
    BY <1>6, ActsOnDocs
  <2> QED
    BY <2>1, <2>2, <2>3, <2>4, <2>5 DEF DocsAct, Stays, Dropping, Asking, Taking, SameLinks
<1> QED
  BY <1>4, <1>5, <1>6 DEF Next

LEMMA FetchesKept ==
  ASSUME NEW p \in Process, NEW k \in Conn, NEW d \in Document, Fetches(p, k, d),
         In(toServer[k]) \subseteq In(toServer'[k]), In(toClient[k]) \subseteq In(toClient'[k]),
         In(signals[p]) \subseteq In(signals'[p])
  PROVE  Fetches(p, k, d)'
BY DEF Fetches

\* No other document is being downloaded after a step, nor by another connection.
LEMMA DownloadsKept ==
  ASSUME Downloads,
         \A p \in Process : \A d \in Document : shelf'[p].items[d] = "Downloading" =>
           /\ shelf[p].items[d] = "Downloading"
           /\ \A k \in Conn : client[p] = k =>
                /\ client'[p] = k
                /\ link'[k] = "up" =>
                     link[k] = "up" /\ (Fetches(p, k, d) => Fetches(p, k, d)')
  PROVE  Downloads'
<1> SUFFICES ASSUME NEW p \in Process, NEW d \in Document, shelf'[p].items[d] = "Downloading"
             PROVE  \E k \in Conn : client'[p] = k /\ (link'[k] = "up" => Fetches(p, k, d)')
  BY DEF Downloads
<1>1. PICK k \in Conn : client[p] = k /\ (link[k] = "up" => Fetches(p, k, d))
  BY DEF Downloads
<1> QED
  BY <1>1

LEMMA DownloadsServer == Base /\ Downloads /\ ServerStep => Downloads'
<1> SUFFICES ASSUME Base, Downloads, ServerStep
             PROVE  Downloads'
  OBVIOUS
<1>1. Types /\ UNCHANGED <<client, signals, shelf>>
  BY DEF Base, ServerStep, interfaceVars
<1>3. PICK k \in Conn :
        onNewConnection(k) \/ onClientSocketDisconnected(k) \/ onClientPayloadReceived(k)
  BY DEF ServerStep
<1>4. ASSUME \A j \in Conn : link'[j] = "up" => link[j] = "up",
             \A p \in Process, j \in Conn, d \in Document :
               link'[j] = "up" /\ Fetches(p, j, d) => Fetches(p, j, d)'
      PROVE  Downloads'
  BY <1>1, <1>4, DownloadsKept
<1>5. CASE onNewConnection(k)
  <2>1. UNCHANGED <<link, toServer, toClient>>
    BY <1>5 DEF onNewConnection, networkVars
  <2> QED
    BY <1>1, <1>4, <2>1, FetchesKept
<1>6. CASE onClientSocketDisconnected(k)
  <2>1. PICK out \in Message : ServerTells(ToSome(Peers(k), Asked(out)))
    BY <1>1, <1>6, Disconnected
  <2>2. \A j \in Conn : In(toClient[j]) \subseteq In(toClient'[j])
    BY <1>1, <2>1, ServerTellsElements
  <2>3. /\ link'[k] = "gone" /\ \A j \in Conn \ {k} : link'[j] = link[j] /\ toServer'[j] = toServer[j]
    BY <1>1, <1>6 DEF onClientSocketDisconnected, Types
  <2>4. \A j \in Conn : link'[j] = "up" =>
          link[j] = "up" /\ In(toServer[j]) \subseteq In(toServer'[j])
    BY <2>3
  <2> QED
    BY <1>1, <1>4, <2>2, <2>4, FetchesKept
<1>7. CASE onClientPayloadReceived(k)
  <2>1. PICK X : ServerTells(X)
    BY <1>1, <1>7, PayloadTells
  <2>2. \A j \in Conn : In(toClient[j]) \subseteq In(toClient'[j])
    BY <1>1, <2>1, ServerTellsElements
  <2>3. link' = link /\ \A j \in Conn \ {k} : toServer'[j] = toServer[j]
    BY <1>1, <1>7, Handled
  <2>4. PICK m \in ToServer : /\ m = Head(toServer[k]) /\ In(toServer[k]) = {m} \cup In(toServer'[k])
                             /\ Does(k, m)
    BY <1>1, <1>7, PayloadCases
  <2>5. ASSUME NEW p \in Process, NEW j \in Conn, NEW d \in Document, link'[j] = "up", Fetches(p, j, d)
        PROVE  Fetches(p, j, d)'
    <3>1. CASE j = k /\ m = Requested(d)
      <4>1. PICK x : /\ x = [method |-> "Doc", hashes |-> {m.hash} \cap serverStore]
                     /\ ServerTells(ToSome({k}, x))
        <5>1. m.method = "DocRequested" /\ m \notin Music
          BY <3>1 DEF Requested, Music
        <5> QED
          BY <2>4, <5>1 DEF Does
      <4>2. x.method = "Doc" /\ x.hashes \subseteq {d}
        BY <3>1, <4>1 DEF Requested
      <4>3. x \in ToSome({k}, x)[k]
        BY DEF ToSome
      <4>4. x \in In(toClient'[k])
        BY <1>1, <2>3, <2>5, <3>1, <4>1, <4>3, ServerTellsElements
      <4> QED
        BY <3>1, <4>2, <4>4 DEF Fetches, Brings
    <3>2. CASE j # k
      BY <1>1, <2>2, <2>3, <2>5, <3>2, FetchesKept
    <3>3. CASE j = k /\ m # Requested(d)
      <4>1. Requested(d) \in In(toServer[k]) => Requested(d) \in In(toServer'[k])
        BY <2>4, <3>3
      <4> QED
        BY <1>1, <2>2, <2>5, <3>3, <4>1 DEF Fetches, Requested
    <3> QED
      BY <3>1, <3>2, <3>3
  <2> QED
    BY <1>4, <2>3, <2>5
<1> QED
  BY <1>3, <1>5, <1>6, <1>7

LEMMA DownloadsClient == Base /\ Downloads /\ ClientStep => Downloads'
<1> SUFFICES ASSUME Base, Downloads, ClientStep
             PROVE  Downloads'
  OBVIOUS
<1>1. PICK k \in Conn : onPayloadReceived(k) \/ onError(k)
  BY DEF ClientStep
<1>2. Types /\ UNCHANGED <<client, toServer, shelf>>
  BY <1>1 DEF Base, onPayloadReceived, onError, interfaceVars
<1>3. /\ \A p \in Process : client[p] # NoConn => client[p] \in Conn
      /\ \A p \in Process : client[p] = k => processOf[k] = p
  BY <1>2, ConnFacts DEF Base, Types, Connections
<1>4. CASE onPayloadReceived(k)
  <2>1. PICK x \in ToClient, p \in Process : Reads(k, x, p)
    BY <1>4, Read
  <2>2. /\ client[p] = k /\ p = processOf[k] /\ link' = link
        /\ In(toClient[k]) = {x} \cup In(toClient'[k])
        /\ \A j \in Conn \ {k} : toClient'[j] = toClient[j]
        /\ In(signals'[p]) = In(signals[p]) \cup {[conn |-> k, payload |-> x]}
        /\ \A q \in Process \ {p} : signals'[q] = signals[q]
    BY <1>4, <2>1 DEF Reads, onPayloadReceived
  <2>3. ASSUME NEW d \in Document, Fetches(p, k, d)
        PROVE  Fetches(p, k, d)'
    <3>1. CASE Brings(x, d)
      <4>1. [conn |-> k, payload |-> x] \in In(signals'[p])
        BY <2>2
      <4> QED
        BY <3>1, <4>1 DEF Fetches
    <3>2. CASE ~Brings(x, d)
      BY <1>2, <2>2, <2>3, <3>2 DEF Fetches
    <3> QED
      BY <3>1, <3>2
  <2>4. ASSUME NEW q \in Process, NEW j \in Conn, NEW d \in Document, q # p, j # k, Fetches(q, j, d)
        PROVE  Fetches(q, j, d)'
    BY <1>2, <2>2, <2>4, FetchesKept
  <2>5. \A q \in Process : q = p <=> client[q] = k
    BY <1>3, <2>2
  <2> QED
    BY <1>2, <2>2, <2>3, <2>4, <2>5, DownloadsKept
<1>5. CASE onError(k)
  <2>1. PICK p \in Process : Fails(k, p)
    BY <1>5, Failed
  <2>2. /\ link' = [link EXCEPT ![k] = "down"] /\ toClient' = [toClient EXCEPT ![k] = <<>>]
        /\ In(signals[p]) \subseteq In(signals'[p])
        /\ \A q \in Process \ {p} : signals'[q] = signals[q]
    BY <2>1 DEF Fails
  <2>3. \A j \in Conn : link'[j] = "up" => link[j] = "up" /\ toClient'[j] = toClient[j]
    BY <1>2, <2>2 DEF Types
  <2>4. ASSUME NEW q \in Process, NEW j \in Conn, NEW d \in Document, link'[j] = "up", Fetches(q, j, d)
        PROVE  Fetches(q, j, d)'
    BY <1>2, <2>2, <2>3, <2>4, FetchesKept
  <2> QED
    BY <1>2, <1>3, <2>3, <2>4, DownloadsKept
<1> QED
  BY <1>1, <1>4, <1>5

LEMMA DownloadsInterface ==
  ASSUME Base, Downloads, InterfaceStep, crashed' = "no"
  PROVE  Downloads'
<1>1. Types /\ \A p \in Process : shelf[p] \in Shelf /\ hostAble[p] \in BOOLEAN
  BY DEF Base, Types
<1>2. /\ \A p \in Process : client[p] # NoConn => client[p] \in Opened /\ processOf[client[p]] = p
      /\ Opened \subseteq Conn /\ NoConn \notin Conn
  BY ConnFacts DEF Base, Connections
<1>3. ASSUME SameLinks, \A q \in Process : In(signals[q]) \subseteq In(signals'[q]),
             \A j \in Conn : In(toServer[j]) \subseteq In(toServer'[j]),
             \A q \in Process : \A d \in Document :
               shelf'[q].items[d] = "Downloading" => shelf[q].items[d] = "Downloading"
      PROVE  Downloads'
  <2>1. \A q \in Process, j \in Conn, d \in Document : Fetches(q, j, d) => Fetches(q, j, d)'
    BY <1>3, FetchesKept DEF SameLinks
  <2> QED
    BY <1>2, <1>3, <2>1, DownloadsKept DEF SameLinks
<1>4. ASSUME NEW p \in Process, NEW x \in ToServer, toServer' = toServer \/ ClientTells(p, x)
      PROVE  \A j \in Conn : In(toServer[j]) \subseteq In(toServer'[j])
  BY <1>1, <1>4, ClientTellsElements
<1>5. CASE Stays
  BY <1>3, <1>5 DEF Stays, Quietly
<1>6. ASSUME NEW p \in Process, NEW k \in Conn, Binding(p, k)
      PROVE  Downloads'
  <2>1. /\ k \notin Opened /\ client[p] = NoConn
        /\ UNCHANGED <<toClient, signals, shelf>>
        /\ \A j \in Conn \ {k} : toServer'[j] = toServer[j]
    BY <1>6 DEF Binding
  <2>2. /\ \A q \in Process \ {p} : client'[q] = client[q]
        /\ \A j \in Conn \ {k} : link'[j] = link[j]
    BY <1>1, <1>6 DEF Binding, Types
  <2>3. \A d \in Document : shelf'[p].items[d] # "Downloading"
    BY <1>2, <2>1 DEF Downloads
  <2>4. \A q \in Process : client[q] # NoConn => client[q] \in Conn \ {k}
    BY <1>2, <2>1
  <2>5. \A q \in Process, j \in Conn \ {k}, d \in Document : Fetches(q, j, d) => Fetches(q, j, d)'
    BY <2>1, FetchesKept
  <2> QED
    BY <1>2, <2>1, <2>2, <2>3, <2>4, <2>5, DownloadsKept
<1>7. ASSUME NEW p \in Process, NEW d \in Document, Dropping(p, d)
      PROVE  Downloads'
  <2>1. \A q \in Process \ {p} : shelf'[q] = shelf[q]
    BY <1>1, <1>7 DEF Dropping, Types
  <2>2. shelf'[p] = downloaded(shelf[p], d)
    BY <1>1, <1>7 DEF Dropping, Types
  <2>3. \A e \in Document : shelf'[p].items[e] = "Downloading" => shelf[p].items[e] = "Downloading"
    BY <1>1, <2>2, ItemsDownloading
  <2>4. Available(d) \in ToServer
    BY DEF Available, ToServer
  <2>5. \A j \in Conn : In(toServer[j]) \subseteq In(toServer'[j])
    BY <1>4, <1>7, <2>4 DEF Dropping
  <2> QED
    BY <1>3, <1>7, <2>1, <2>3, <2>5 DEF Dropping
<1>8. ASSUME NEW p \in Process, NEW d \in Document, Asking(p, d)
      PROVE  Downloads'
  <2>1. \A q \in Process \ {p} : shelf'[q] = shelf[q]
    BY <1>1, <1>8 DEF Asking, Types
  <2>2. shelf'[p] = downloading(shelf[p], d)
    BY <1>1, <1>8 DEF Asking, Types
  <2>3. \A e \in Document : shelf'[p].items[e] = "Downloading" =>
          e = d \/ shelf[p].items[e] = "Downloading"
    BY <1>1, <2>2, ItemsDownloading
  <2>4. Requested(d) \in ToServer
    BY DEF Requested, ToServer
  <2>5. \A j \in Conn : In(toServer[j]) \subseteq In(toServer'[j])
    BY <1>4, <1>8, <2>4 DEF Asking
  <2>6. client[p] # NoConn /\ (link[client[p]] = "up" => Requested(d) \in In(toServer'[client[p]]))
    <3>1. client[p] # NoConn /\ client[p] \in Conn /\ ClientTells(p, Requested(d))
      BY <1>2, <1>8 DEF Asking
    <3> QED
      BY <1>1, <2>4, <3>1, ClientTellsElements
  <2>7. UNCHANGED <<link, client, toClient, signals>>
    BY <1>8 DEF Asking, SameLinks
  <2>8. \A q \in Process, j \in Conn, e \in Document : Fetches(q, j, e) => Fetches(q, j, e)'
    BY <2>5, <2>7, FetchesKept
  <2> SUFFICES ASSUME NEW q \in Process, NEW e \in Document, shelf'[q].items[e] = "Downloading"
               PROVE  \E j \in Conn : client[q] = j /\ (link[j] = "up" => Fetches(q, j, e)')
    BY <2>7 DEF Downloads
  <2>9. CASE q = p /\ e = d
    <3>1. PICK j \in Conn : client[p] = j
      BY <1>2, <2>6
    <3>2. link[j] = "up" => Requested(d) \in In(toServer'[j])
      BY <2>6, <3>1
    <3>3. link[j] = "up" => Fetches(p, j, d)'
      BY <3>2 DEF Fetches, Requested
    <3> QED
      BY <2>9, <3>1, <3>3
  <2>10. CASE ~(q = p /\ e = d)
    <3>1. shelf[q].items[e] = "Downloading"
      BY <2>1, <2>3, <2>10
    <3>2. PICK j \in Conn : client[q] = j /\ (link[j] = "up" => Fetches(q, j, e))
      BY <3>1 DEF Downloads
    <3> QED
      BY <2>8, <3>2
  <2> QED
    BY <2>9, <2>10
<1>9. ASSUME NEW p \in Process, NEW k \in Conn, NEW m \in ToClient \cup [method : {"Ended"}],
             Taking(p, k, m)
      PROVE  Downloads'
  <2>1. /\ \A j \in Conn : In(toServer[j]) \subseteq In(toServer'[j])
        /\ In(signals[p]) = {[conn |-> k, payload |-> m]} \cup In(signals'[p])
        /\ \A q \in Process \ {p} : signals'[q] = signals[q]
        /\ UNCHANGED <<link, client, toClient>>
    BY <1>9 DEF Taking, Quietly, SameLinks
  <2>2. /\ \A q \in Process \ {p} : shelf'[q] = shelf[q]
        /\ \A e \in Document : shelf'[p].items[e] = "Downloading" =>
             shelf[p].items[e] = "Downloading" /\ ~Brings(m, e)
    <3>1. ASSUME NEW s, shelf' = [shelf EXCEPT ![p] = s],
                 \A e \in Document : s.items[e] = "Downloading" =>
                   shelf[p].items[e] = "Downloading" /\ ~Brings(m, e)
          PROVE  /\ \A q \in Process \ {p} : shelf'[q] = shelf[q]
                 /\ \A e \in Document : shelf'[p].items[e] = "Downloading" =>
                      shelf[p].items[e] = "Downloading" /\ ~Brings(m, e)
      BY <1>1, <3>1 DEF Types
    <3>2. CASE m \in Session /\ shelf' = [shelf EXCEPT ![p] = shelfOnSession(@, hostAble[p], m.names)]
      <4>1. m.names \in SUBSET Document /\ \A e : ~Brings(m, e)
        BY <3>2 DEF Session, Brings
      <4>2. PICK s0 \in Shelf, D \in SUBSET Document, b \in BOOLEAN :
              s0 = shelf[p] /\ D = m.names /\ b = hostAble[p]
        BY <1>1, <4>1
      <4>3. \A e \in Document :
              shelfOnSession(s0, b, D).items[e] = "Downloading" => s0.items[e] = "Downloading"
        BY SessionDownloading
      <4>4. shelf' = [shelf EXCEPT ![p] = shelfOnSession(s0, b, D)]
        BY <3>2, <4>2
      <4> QED
        BY <3>1, <4>1, <4>2, <4>3, <4>4
    <3>3. CASE m.method = "DocAvailable" /\ m.hash \in Document
               /\ shelf' = [shelf EXCEPT ![p] = temporaryItems(@, {m.hash})]
      <4>1. {m.hash} \in SUBSET Document /\ \A e : ~Brings(m, e)
        BY <3>3 DEF Brings
      <4>2. \A e \in Document : temporaryItems(shelf[p], {m.hash}).items[e] = "Downloading"
              => shelf[p].items[e] = "Downloading"
        BY <1>1, <4>1, SessionDownloading
      <4> QED
        BY <3>1, <3>3, <4>1, <4>2
    <3>4. CASE \E d \in m.hashes : d \in Document /\ shelf' = [shelf EXCEPT ![p] = downloaded(@, d)]
      <4>1. PICK d \in m.hashes : d \in Document /\ shelf' = [shelf EXCEPT ![p] = downloaded(@, d)]
        BY <3>4
      <4>2. \A e \in Document : downloaded(shelf[p], d).items[e] = "Downloading"
              => e # d /\ shelf[p].items[e] = "Downloading"
        BY <1>1, <4>1, ItemsDownloading
      <4>3. \A e \in Document : e # d => ~Brings(m, e)
        BY <4>1 DEF Brings
      <4> QED
        BY <3>1, <4>1, <4>2, <4>3
    <3>5. CASE m.method # "Doc" /\ shelf' = shelf
      BY <3>5 DEF Brings
    <3> QED
      BY <1>9, <3>2, <3>3, <3>4, <3>5 DEF Taking, Showing
  <2>3. ASSUME NEW q \in Process, NEW j \in Conn, NEW e \in Document, Fetches(q, j, e),
               q = p => ~Brings(m, e)
        PROVE  Fetches(q, j, e)'
    <3>1. \A y \in In(signals[q]) : Brings(y.payload, e) => y \in In(signals'[q])
      BY <2>1, <2>3
    <3> QED
      BY <2>1, <2>3, <3>1 DEF Fetches
  <2>4. ASSUME NEW q \in Process, NEW e \in Document, shelf'[q].items[e] = "Downloading"
        PROVE  shelf[q].items[e] = "Downloading" /\ (q = p => ~Brings(m, e))
    BY <2>2, <2>4
  <2>5. \A q \in Process : client[q] # NoConn => client[q] \in Conn
    BY <1>2
  <2> QED
    BY <2>1, <2>3, <2>4, <2>5, DownloadsKept
<1>10. ASSUME NEW p \in Process, Closing(p)
       PROVE  Downloads'
  <2>1. PICK k \in Opened : Ends(p, k)
    BY <1>10 DEF Closing
  <2>2. /\ k = client[p] /\ processOf[k] = p
        /\ link' = [link EXCEPT ![k] = "down"] /\ toClient' = [toClient EXCEPT ![k] = <<>>]
        /\ client' = [client EXCEPT ![p] = NoConn] /\ shelf' = [shelf EXCEPT ![p] = shelfClosed(@)]
        /\ toServer' = toServer /\ \A q \in Process \ {p} : signals'[q] = signals[q]
    BY <1>10, <2>1 DEF Closing, Ends
  <2>3. /\ \A q \in Process \ {p} : client'[q] = client[q] /\ shelf'[q] = shelf[q]
        /\ \A j \in Conn \ {k} : link'[j] = link[j] /\ toClient'[j] = toClient[j]
        /\ shelf'[p] = shelfClosed(shelf[p])
    BY <1>1, <2>2 DEF Types
  <2>4. \A d \in Document : shelf'[p].items[d] # "Downloading"
    BY <1>1, <2>3 DEF shelfClosed, isLocal, Shelf
  <2>5. \A q \in Process \ {p} : client[q] # NoConn => client[q] \in Conn \ {k}
    BY <1>2, <2>2
  <2>6. \A q \in Process \ {p}, j \in Conn \ {k}, d \in Document : Fetches(q, j, d) => Fetches(q, j, d)'
    BY <2>2, <2>3, FetchesKept
  <2> QED
    BY <1>2, <2>3, <2>4, <2>5, <2>6, DownloadsKept
<1>11. DocsAct
  BY ActsOnDocs
<1> QED
  BY <1>5, <1>6, <1>7, <1>8, <1>9, <1>10, <1>11 DEF DocsAct

LEMMA DownloadsStep ==
  ASSUME Base, crashed = "no" => Downloads, [Next]_vars
  PROVE  crashed' = "no" => Downloads'
<1>1. CASE UNCHANGED vars
  BY <1>1 DEF vars, networkVars, interfaceVars, historyVars, Downloads, Fetches
<1>2. CASE Next
  <2>1. crashed = "no"
    BY <1>2 DEF Next
  <2> QED
    BY <1>2, <2>1, DownloadsServer, DownloadsClient, DownloadsInterface DEF Next
<1> QED
  BY <1>1, <1>2

LEMMA AnnouncedKept ==
  ASSUME NEW p \in Process, NEW k \in Conn, NEW d \in Document, Announced(p, k, d),
         In(toClient[k]) \subseteq In(toClient'[k]), In(signals[p]) \subseteq In(signals'[p]),
         Pending(d) => Pending(d)'
  PROVE  Announced(p, k, d)'
BY DEF Announced

LEMMA NamesAreDocuments == Types => serverNames \subseteq Document
BY DEF Types, serverNames, Shelf

LEMMA ListedServer == Base /\ Listed /\ Offered /\ ServerStep /\ Unexcused' => Listed'
<1> SUFFICES ASSUME Base, Listed, Offered, ServerStep, Unexcused',
                    NEW p \in Process, NEW j \in Conn,
                    client'[p] = j, link'[j] = "up", users'[j] = "guest",
                    NEW d \in serverNames'
             PROVE  d \in shelf'[p].names \/ Announced(p, j, d)'
  BY DEF Listed
<1>1. Types /\ UNCHANGED <<client, signals, shelf, serverNames>>
  BY DEF Base, ServerStep, interfaceVars, constantVars, serverNames
<1>2. d \in serverNames /\ d \in Document
  BY <1>1, NamesAreDocuments
<1>3. PICK k \in Conn :
        onNewConnection(k) \/ onClientSocketDisconnected(k) \/ onClientPayloadReceived(k)
  BY DEF ServerStep
<1>4. ASSUME link[j] = "up", users[j] = "guest", In(toClient[j]) \subseteq In(toClient'[j]),
             Pending(d) => Pending(d)'
      PROVE  d \in shelf'[p].names \/ Announced(p, j, d)'
  BY <1>1, <1>2, <1>4, AnnouncedKept DEF Listed
<1>5. CASE onNewConnection(k)
  <2>1. UNCHANGED <<link, toServer, toClient>> /\ users[j] = "guest"
    BY <1>1, <1>5 DEF onNewConnection, networkVars, Types
  <2> QED
    BY <1>4, <2>1 DEF Pending
<1>6. CASE onClientSocketDisconnected(k)
  <2>1. PICK out \in Message : ServerTells(ToSome(Peers(k), Asked(out)))
    BY <1>1, <1>6, Disconnected
  <2>2. In(toClient[j]) \subseteq In(toClient'[j])
    BY <1>1, <2>1, ServerTellsElements
  <2>3. /\ link'[k] = "gone" /\ \A i \in Conn \ {k} : link'[i] = link[i] /\ toServer'[i] = toServer[i]
        /\ users' = [users EXCEPT ![k] = "absent"]
    BY <1>1, <1>6 DEF onClientSocketDisconnected, usersWithout, Types
  <2>4. link[j] = "up" /\ users[j] = "guest"
    BY <1>1, <2>3 DEF Types
  <2>5. Available(d) \notin In(toServer[k])
    <3>1. "dropped alone" \notin slips'
      BY DEF Unexcused
    <3>2. ~(\E n \in DOMAIN toServer[k] : toServer[k][n].method = "DocAvailable")
      BY <1>6, <3>1 DEF onClientSocketDisconnected
    <3> QED
      BY <3>2 DEF In, Available
  <2>6. Pending(d) => Pending(d)'
    BY <2>3, <2>5 DEF Pending
  <2> QED
    BY <1>4, <2>2, <2>4, <2>6
<1>7. CASE onClientPayloadReceived(k)
  <2>1. PICK X : ServerTells(X)
    BY <1>1, <1>7, PayloadTells
  <2>2. In(toClient[j]) \subseteq In(toClient'[j])
    BY <1>1, <2>1, ServerTellsElements
  <2>3. link' = link /\ \A i \in Conn \ {k} : toServer'[i] = toServer[i]
    BY <1>1, <1>7, Handled
  <2>4. PICK m \in ToServer : /\ m = Head(toServer[k]) /\ In(toServer[k]) = {m} \cup In(toServer'[k])
                             /\ Does(k, m)
    BY <1>1, <1>7, PayloadCases
  <2>5. m # Available(d) => (Pending(d) => Pending(d)')
    <3>1. ASSUME m # Available(d), NEW i \in Conn, Available(d) \in In(toServer[i])
          PROVE  Available(d) \in In(toServer'[i])
      BY <2>3, <2>4, <3>1
    <3> QED
      BY <3>1 DEF Pending
  <2>6. CASE m.method = "Handshake" /\ handshake(k)
    <3>1. m # Available(d)
      BY <2>6 DEF Available
    <3>2. CASE j # k
      <4>1. users[j] = "guest"
        BY <1>1, <2>6, <3>2 DEF handshake, Types
      <4> QED
        BY <1>4, <2>2, <2>3, <2>5, <3>1, <4>1
    <3>3. CASE j = k
      <4>1. PICK arrived \in Message, s \in Session :
              /\ s.names = serverNames
              /\ ServerTells([ToSome(Peers(k), Asked(arrived)) EXCEPT ![k] = {s}])
        BY <1>1, <2>6, Handshaken
      <4>2. PICK Y : ServerTells(Y) /\ s \in Y[k]
        BY <4>1 DEF ToSome
      <4>3. s \in In(toClient'[k])
        BY <1>1, <2>3, <3>3, <4>2, ServerTellsElements
      <4>4. Presents(s, d)
        BY <1>2, <4>1 DEF Presents, Session
      <4> QED
        BY <3>3, <4>3, <4>4 DEF Announced
    <3> QED
      BY <3>2, <3>3
  <2>7. CASE m.method = "DocAvailable" /\ ServerTells(ToSome(Peers(k), m)) /\ UNCHANGED users
    <3>1. CASE m # Available(d)
      BY <1>4, <2>2, <2>3, <2>5, <2>7, <3>1
    <3>2. CASE m = Available(d) /\ j # k
      <4>1. j \in Peers(k) /\ m \in ToSome(Peers(k), m)[j]
        BY <2>7, <3>2 DEF Peers, Live, ToSome
      <4>2. m \in In(toClient'[j])
        BY <1>1, <2>3, <2>7, <4>1, ServerTellsElements
      <4>3. Presents(m, d)
        BY <3>2 DEF Presents, Available
      <4> QED
        BY <4>2, <4>3 DEF Announced
    <3>3. CASE m = Available(d) /\ j = k
      <4>1. client[p] = j /\ client[p] # NoConn
        BY <1>1, ConnFacts
      <4>2. j \in Opened /\ processOf[j] = p
        BY <4>1 DEF Base, Connections
      <4>3. m \in In(toServer[j]) /\ m.method = "DocAvailable" /\ m.hash = d
        BY <2>4, <3>3 DEF Available
      <4>4. d \in shelf[p].names
        BY <4>2, <4>3 DEF Offered
      <4> QED
        BY <1>1, <4>4
    <3> QED
      BY <3>1, <3>2, <3>3
  <2>8. CASE UNCHANGED users /\ m.method # "DocAvailable"
    <3>1. m # Available(d)
      BY <2>8 DEF Available
    <3> QED
      BY <1>4, <2>2, <2>3, <2>5, <2>8, <3>1
  <2>9. CASE m.method = "Message" /\ interpretMessage(k, m.message)
    BY <2>8, <2>9 DEF interpretMessage
  <2>10. CASE m \in Music /\ UNCHANGED users
    BY <2>8, <2>10 DEF Music
  <2> QED
    BY <2>4, <2>6, <2>7, <2>8, <2>9, <2>10 DEF Does, serverVars
<1> QED
  BY <1>3, <1>5, <1>6, <1>7

LEMMA ListedClient == Base /\ Listed /\ ClientStep => Listed'
<1> SUFFICES ASSUME Base, Listed, ClientStep,
                    NEW q \in Process, NEW j \in Conn,
                    client'[q] = j, link'[j] = "up", users'[j] = "guest",
                    NEW d \in serverNames'
             PROVE  d \in shelf'[q].names \/ Announced(q, j, d)'
  BY DEF Listed
<1>1. PICK k \in Conn : onPayloadReceived(k) \/ onError(k)
  BY DEF ClientStep
<1>2. Types /\ UNCHANGED <<client, toServer, shelf, users, serverNames>>
  BY <1>1 DEF Base, ClientStep, serverVars, constantVars, serverNames, onPayloadReceived, onError,
              interfaceVars
<1>3. d \in serverNames /\ d \in Document /\ (Pending(d) => Pending(d)')
  BY <1>2, NamesAreDocuments DEF Pending
<1>4. CASE onPayloadReceived(k)
  <2>1. PICK x \in ToClient, p \in Process : Reads(k, x, p)
    BY <1>4, Read
  <2>2. /\ client[p] = k /\ p = processOf[k] /\ link' = link
        /\ In(toClient[k]) = {x} \cup In(toClient'[k])
        /\ \A i \in Conn \ {k} : toClient'[i] = toClient[i]
        /\ In(signals'[p]) = In(signals[p]) \cup {[conn |-> k, payload |-> x]}
        /\ \A i \in Process \ {p} : signals'[i] = signals[i]
    BY <1>4, <2>1 DEF Reads, onPayloadReceived
  <2>3. d \in shelf[q].names \/ Announced(q, j, d)
    BY <1>2, <1>3, <2>2 DEF Listed
  <2>4. CASE j = k /\ Presents(x, d)
    <3>1. client[q] = k /\ client[q] # NoConn
      BY <1>2, <2>4, ConnFacts
    <3>2. q = p
      BY <2>2, <3>1 DEF Base, Connections
    <3>3. [conn |-> k, payload |-> x] \in In(signals'[q])
      BY <2>2, <3>2
    <3> QED
      BY <2>4, <3>3 DEF Announced
  <2>5. CASE j = k /\ ~Presents(x, d)
    <3>1. In(signals[q]) \subseteq In(signals'[q])
      BY <2>2
    <3> QED
      BY <1>2, <1>3, <2>2, <2>3, <2>5, <3>1 DEF Announced
  <2>6. CASE j # k
    <3>1. In(signals[q]) \subseteq In(signals'[q])
      BY <2>2
    <3> QED
      BY <1>2, <1>3, <2>2, <2>3, <2>6, <3>1, AnnouncedKept
  <2> QED
    BY <2>4, <2>5, <2>6
<1>5. CASE onError(k)
  <2>1. PICK p \in Process : Fails(k, p)
    BY <1>5, Failed
  <2>2. /\ link' = [link EXCEPT ![k] = "down"] /\ toClient' = [toClient EXCEPT ![k] = <<>>]
        /\ In(signals[p]) \subseteq In(signals'[p])
        /\ \A i \in Process \ {p} : signals'[i] = signals[i]
    BY <2>1 DEF Fails
  <2>3. link[j] = "up" /\ toClient'[j] = toClient[j] /\ In(signals[q]) \subseteq In(signals'[q])
    BY <1>2, <2>2 DEF Types
  <2>4. d \in shelf[q].names \/ Announced(q, j, d)
    BY <1>2, <1>3, <2>3 DEF Listed
  <2> QED
    BY <1>2, <1>3, <2>3, <2>4, AnnouncedKept
<1> QED
  BY <1>1, <1>4, <1>5

\* A name that is new to the server's process is on its way to the server.
LEMMA ServerNamesGrow ==
  ASSUME Base, Stock, Shelves, InterfaceStep, Unexcused', NEW d \in serverNames'
  PROVE  d \in serverNames \/ Pending(d)'
<1>1. Types /\ serverProcess' = serverProcess
      /\ \A p \in Process : shelf[p] \in Shelf /\ hostAble[p] \in BOOLEAN
  BY DEF Base, Types, InterfaceStep
<1>2. /\ \A p \in Process : client[p] # NoConn => client[p] \in Opened
      /\ Opened \subseteq Conn
  BY ConnFacts DEF Base, Connections
<1>3. serverProcess # Alone /\ serverProcess \in Process
  BY <1>1 DEF serverNames, Types
<1>4. PICK q \in Process : q = serverProcess
  BY <1>3
<1>5. d \in shelf'[q].names /\ serverNames = shelf[q].names /\ serverStore = shelf[q].store
  BY <1>1, <1>3, <1>4 DEF serverNames, serverStore
<1>6. serverStore \subseteq serverNames
  BY <1>4, <1>5 DEF Shelves, Shelved
<1>7. CASE shelf' = shelf
  BY <1>5, <1>7
<1>8. ASSUME NEW p \in Process, NEW s, shelf' = [shelf EXCEPT ![p] = s],
             \A e \in s.names : e \in shelf[p].names \/ (p = q => e \in serverNames) \/ Pending(e)'
      PROVE  d \in serverNames \/ Pending(d)'
  <2>1. shelf'[p] = s /\ \A r \in Process \ {p} : shelf'[r] = shelf[r]
    BY <1>1, <1>8 DEF Types
  <2> QED
    BY <1>5, <1>8, <2>1
<1>9. ASSUME NEW p \in Process, NEW e \in Document, Dropping(p, e)
      PROVE  d \in serverNames \/ Pending(d)'
  <2>1. shelf' = [shelf EXCEPT ![p] = downloaded(@, e)]
        /\ downloaded(shelf[p], e).names = shelf[p].names \cup {e}
    BY <1>1, <1>9 DEF Dropping, downloaded, Shelf
  <2>2. client[p] # NoConn /\ link[client[p]] = "up" /\ ClientTells(p, Available(e))
    BY <1>9 DEF Dropping, Unexcused
  <2>3. Available(e) \in ToServer /\ client[p] \in Conn
    BY <1>2, <2>2 DEF Available, ToServer
  <2>4. Available(e) \in In(toServer'[client[p]])
    BY <1>1, <2>2, <2>3, ClientTellsElements
  <2>5. Pending(e)'
    BY <2>3, <2>4 DEF Pending
  <2> QED
    BY <1>8, <2>1, <2>5
<1>10. ASSUME NEW p \in Process, NEW e \in Document, Asking(p, e)
       PROVE  d \in serverNames \/ Pending(d)'
  <2>1. shelf' = [shelf EXCEPT ![p] = downloading(@, e)]
        /\ downloading(shelf[p], e).names = shelf[p].names
    BY <1>1, <1>10 DEF Asking, downloading, Shelf
  <2> QED
    BY <1>8, <2>1
<1>11. ASSUME NEW p \in Process, NEW k \in Conn, NEW m \in ToClient \cup [method : {"Ended"}],
              Taking(p, k, m)
       PROVE  d \in serverNames \/ Pending(d)'
  <2>1. Stocks(m)
    <3>1. [conn |-> k, payload |-> m] \in In(signals[p])
      BY <1>11 DEF Taking
    <3> QED
      BY <3>1 DEF Stock
  <2>2. CASE m \in Session /\ shelf' = [shelf EXCEPT ![p] = shelfOnSession(@, hostAble[p], m.names)]
    <3>1. m.method = "Session" /\ m.names \subseteq Document
      BY <2>2 DEF Session
    <3>2. m.names \subseteq serverNames
      BY <1>6, <2>1, <3>1 DEF Stocks
    <3>3. shelfOnSession(shelf[p], hostAble[p], m.names).names \subseteq shelf[p].names \cup m.names
      BY <1>1, <3>1 DEF shelfOnSession, temporaryItems, Shelf
    <3> QED
      BY <1>8, <2>2, <3>2, <3>3
  <2>3. CASE m.method = "DocAvailable" /\ m.hash \in Document
             /\ shelf' = [shelf EXCEPT ![p] = temporaryItems(@, {m.hash})]
    <3>1. m.hash \in serverNames
      BY <1>6, <2>1, <2>3 DEF Stocks
    <3>2. temporaryItems(shelf[p], {m.hash}).names = shelf[p].names \cup {m.hash}
      BY <1>1, <2>3 DEF temporaryItems, Shelf
    <3> QED
      BY <1>8, <2>3, <3>1, <3>2
  <2>4. CASE \E e \in m.hashes : /\ e \in Document /\ shelf[p].items[e] # "none"
                                 /\ shelf' = [shelf EXCEPT ![p] = downloaded(@, e)]
    <3>1. PICK e \in Document : /\ shelf[p].items[e] # "none"
                                /\ shelf' = [shelf EXCEPT ![p] = downloaded(@, e)]
      BY <2>4
    <3>2. e \in shelf[p].names
      BY <3>1 DEF Shelves, Shelved
    <3>3. downloaded(shelf[p], e).names = shelf[p].names
      BY <1>1, <3>2 DEF downloaded, Shelf
    <3> QED
      BY <1>8, <3>1, <3>3
  <2> QED
    BY <1>7, <1>11, <2>2, <2>3, <2>4 DEF Taking, Showing
<1>12. ASSUME NEW p \in Process, Closing(p)
       PROVE  d \in serverNames \/ Pending(d)'
  <2>1. shelf' = [shelf EXCEPT ![p] = shelfClosed(@)]
        /\ shelfClosed(shelf[p]).names = shelf[p].names
    BY <1>1, <1>12 DEF Closing, Ends, shelfClosed, Shelf
  <2> QED
    BY <1>8, <2>1
<1>13. DocsAct
  BY ActsOnDocs
<1> QED
  BY <1>7, <1>9, <1>10, <1>11, <1>12, <1>13 DEF DocsAct, Stays, Binding

\* The interface takes nothing back from the server.
LEMMA PendingKept ==
  ASSUME Base, DocsAct, NEW d, Pending(d)
  PROVE  Pending(d)'
<1>1. \A j \in Conn : In(toServer[j]) \subseteq In(toServer'[j])
  <2>1. ASSUME NEW p \in Process, NEW x \in ToServer, toServer' = toServer \/ ClientTells(p, x)
        PROVE  \A j \in Conn : In(toServer[j]) \subseteq In(toServer'[j])
    BY <2>1, ClientTellsElements DEF Base
  <2>2. \A e \in Document : Available(e) \in ToServer /\ Requested(e) \in ToServer
    BY DEF Available, Requested, ToServer
  <2>3. ASSUME NEW p \in Process, NEW k \in Conn, Binding(p, k)
        PROVE  \A j \in Conn : In(toServer[j]) \subseteq In(toServer'[j])
    <3>1. toServer[k] = <<>> /\ \A j \in Conn \ {k} : toServer'[j] = toServer[j]
      BY <2>3 DEF Binding, Base, Connections
    <3> QED
      BY <3>1, InEmpty
  <2> QED
    BY <2>1, <2>2, <2>3
       DEF DocsAct, Stays, Quietly, Dropping, Asking, Taking, Closing
<1> QED
  BY <1>1 DEF Pending

LEMMA ListedInterface ==
  ASSUME Base, Hosting, Stock, Shelves, Listed, [Next]_vars, InterfaceStep, Unexcused'
  PROVE  Listed'
<1> SUFFICES ASSUME NEW q \in Process, NEW j \in Conn,
                    client'[q] = j, link'[j] = "up", users'[j] = "guest",
                    NEW d \in serverNames'
             PROVE  d \in shelf'[q].names \/ Announced(q, j, d)'
  BY DEF Listed
<1>1. Types /\ UNCHANGED users
      /\ \A p \in Process : shelf[p] \in Shelf /\ hostAble[p] \in BOOLEAN
  BY DEF Base, Types, InterfaceStep, serverVars
<1>2. /\ \A p \in Process : client[p] # NoConn => client[p] \in Opened /\ processOf[client[p]] = p
      /\ \A k \in Conn : link[k] = "up" => k \in Opened
      /\ Opened \subseteq Conn /\ NoConn \notin Conn
  BY ConnFacts DEF Base, Connections
<1>3. DocsAct /\ (Pending(d) => Pending(d)')
  <2>1. DocsAct
    BY ActsOnDocs
  <2> QED
    BY <2>1, PendingKept
<1>4. shelf[q].names \subseteq shelf'[q].names
  BY NamesGrow
<1>5. d \in Document
  <2>1. Types'
    BY TypesStep
  <2> QED
    BY <2>1 DEF serverNames, Types, Shelf
<1>6. CASE Pending(d)'
  BY <1>6 DEF Announced
<1>7. CASE d \in serverNames
  <2>1. ASSUME client[q] = j, link[j] = "up",
               In(toClient[j]) \subseteq In(toClient'[j]), In(signals[q]) \subseteq In(signals'[q])
        PROVE  d \in shelf'[q].names \/ Announced(q, j, d)'
    <3>1. d \in shelf[q].names \/ Announced(q, j, d)
      BY <1>1, <1>7, <2>1 DEF Listed
    <3> QED
      BY <1>3, <1>4, <1>5, <2>1, <3>1, AnnouncedKept
  <2>2. CASE SameLinks /\ UNCHANGED signals
    BY <2>1, <2>2 DEF SameLinks
  <2>3. ASSUME NEW p \in Process, NEW k \in Conn, Binding(p, k)
        PROVE  d \in shelf'[q].names \/ Announced(q, j, d)'
    <3>1. /\ k \notin Opened /\ client' = [client EXCEPT ![p] = k] /\ link' = [link EXCEPT ![k] = "up"]
          /\ UNCHANGED <<toClient, signals>>
      BY <2>3 DEF Binding
    <3>2. j # k
      <4>1. j \in Live
        BY <1>1 DEF Live
      <4> QED
        BY <3>1, <4>1, ConnFacts DEF Base, Connections
    <3>3. client[q] = j /\ link[j] = "up"
      BY <1>1, <3>1, <3>2 DEF Types
    <3> QED
      BY <2>1, <3>1, <3>3
  <2>4. ASSUME NEW p \in Process, NEW k \in Conn, NEW m \in ToClient \cup [method : {"Ended"}],
               Taking(p, k, m)
        PROVE  d \in shelf'[q].names \/ Announced(q, j, d)'
    <3>1. /\ In(signals[p]) = {[conn |-> k, payload |-> m]} \cup In(signals'[p])
          /\ \A r \in Process \ {p} : signals'[r] = signals[r]
          /\ UNCHANGED <<link, client, toClient>>
      BY <2>4 DEF Taking, SameLinks
    <3>2. CASE q # p
      BY <2>1, <3>1, <3>2
    <3>3. CASE q = p /\ ~(k = j /\ Presents(m, d))
      <4>1. d \in shelf[q].names \/ Announced(q, j, d)
        BY <1>1, <1>7, <3>1 DEF Listed
      <4>2. \A y \in In(signals[q]) : y.conn = j /\ Presents(y.payload, d) => y \in In(signals'[q])
        BY <3>1, <3>3
      <4> QED
        BY <1>3, <1>4, <3>1, <4>1, <4>2 DEF Announced
    <3>4. CASE q = p /\ k = j /\ Presents(m, d)
      <4>1. CASE m.method = "DocAvailable"
        <5>1. m.hash = d /\ shelf' = [shelf EXCEPT ![p] = temporaryItems(@, {m.hash})]
          BY <2>4, <3>4, <4>1 DEF Presents, Taking, Showing, Session
        <5>2. shelf'[p] = temporaryItems(shelf[p], {d})
          BY <1>1, <5>1 DEF Types
        <5> QED
          BY <1>1, <3>4, <5>2 DEF temporaryItems, Shelf
      <4>2. CASE m.method = "Session"
        <5>1. /\ m \in Session /\ d \in m.names
              /\ shelf' = [shelf EXCEPT ![p] = shelfOnSession(@, hostAble[p], m.names)]
          BY <2>4, <3>4, <4>2 DEF Presents, Taking, Showing
        <5>2. ~hostAble[p]
          <6>1. [conn |-> k, payload |-> m] \in In(signals[p]) \cap Of(k, Session)
            BY <3>1, <5>1 DEF Of
          <6>2. k \in Opened /\ client[p] = k /\ link[k] = "up"
            BY <1>2, <3>1, <3>4
          <6>3. hostAble[p] <=> k \in Host
            BY <6>1, <6>2 DEF Hosting
          <6>4. k \notin Host
            BY <1>1, <3>4 DEF Host
          <6> QED
            BY <6>3, <6>4
        <5>3. shelf'[p] = shelfOnSession(shelf[p], hostAble[p], m.names)
          BY <1>1, <5>1 DEF Types
        <5>4. shelf'[p].names = shelf[p].names \cup m.names
          BY <1>1, <5>2, <5>3 DEF shelfOnSession, temporaryItems, Shelf
        <5> QED
          BY <3>4, <5>1, <5>4
      <4> QED
        BY <3>4, <4>1, <4>2 DEF Presents
    <3> QED
      BY <3>2, <3>3, <3>4
  <2>5. ASSUME NEW p \in Process, Closing(p)
        PROVE  d \in shelf'[q].names \/ Announced(q, j, d)'
    <3>1. PICK k \in Opened : Ends(p, k)
      BY <2>5 DEF Closing
    <3>2. /\ k = client[p] /\ processOf[k] = p
          /\ link' = [link EXCEPT ![k] = "down"] /\ toClient' = [toClient EXCEPT ![k] = <<>>]
          /\ client' = [client EXCEPT ![p] = NoConn]
          /\ \A r \in Process \ {p} : signals'[r] = signals[r]
      BY <2>5, <3>1 DEF Closing, Ends
    <3>3. q # p /\ j # k
      BY <1>1, <1>2, <3>2 DEF Types
    <3>4. client[q] = j /\ link[j] = "up" /\ toClient'[j] = toClient[j] /\ signals'[q] = signals[q]
      BY <1>1, <3>2, <3>3 DEF Types
    <3> QED
      BY <2>1, <3>4
  <2> QED
    BY <1>3, <2>2, <2>3, <2>4, <2>5 DEF DocsAct, Stays, Dropping, Asking
<1> QED
  BY <1>6, <1>7, ServerNamesGrow

LEMMA ListingStep ==
  ASSUME Base, Hosting, Stocked, Shelves, Offered, Listing, [Next]_vars
  PROVE  Listing'
<1>1. slips \subseteq slips' /\ serverProcess' = serverProcess
  BY SlipsGrow
<1>2. SUFFICES ASSUME Unexcused'
               PROVE  Listed'
  BY DEF Listing
<1>3. Stock /\ Listed
  BY <1>1, <1>2 DEF Unexcused, Stocked, Listing
<1>4. CASE UNCHANGED vars
  BY <1>3, <1>4 DEF vars, constantVars, networkVars, serverVars, interfaceVars, Listed, Announced, Pending,
                    serverNames
<1> QED
  BY <1>2, <1>3, <1>4, ListedServer, ListedClient, ListedInterface DEF Next

---------------------------------------------------------------------------
(* The list of documents in every state *)

Downloaded == crashed = "no" => Downloads

Documented == Shelves /\ Offered /\ Downloaded /\ Listing

\* Only the server's process may host, if the server runs within one.
Placed == serverProcess = Alone \/ Loopback \subseteq {serverProcess}

LEMMA InitDocumented == Init => Documented
<1> SUFFICES ASSUME Init
             PROVE  Documented
  OBVIOUS
<1>1. \A p \in Process : shelf[p] = EmptyShelf /\ client[p] = NoConn
  BY DEF Init
<1>2. Opened = {} /\ NoConn \notin Conn
  BY DEF Init, Opened, Conn, NoConn
<1>3. Shelves
  BY <1>1 DEF Shelves, Shelved, EmptyShelf
<1>4. Offered
  BY <1>2 DEF Offered
<1>5. Downloads
  BY <1>1 DEF Downloads, EmptyShelf
<1>6. Listed
  BY <1>1, <1>2 DEF Listed
<1> QED
  BY <1>3, <1>4, <1>5, <1>6 DEF Documented, Downloaded, Listing

LEMMA DocumentedStep ==
  ASSUME Base, Surviving, Documented, [Next]_vars
  PROVE  Documented'
BY ShelvesStep, OfferedStep, DownloadsStep, ListingStep DEF Surviving, Documented, Downloaded

LEMMA DocumentedSettled ==
  ASSUME Base, Documented, Placed
  PROVE  DocumentsListed
<1> SUFFICES ASSUME crashed = "no", NEW p \in Process, isGuest(p),
                    slips \cap {"relisting", "dropped alone", "dropped early", "late"} = {},
                    \A k \in Conn : \A n \in DOMAIN toServer[k] :
                      toServer[k][n].method # "DocAvailable",
                    NEW d \in Document
             PROVE  /\ d \in serverNames => shelf[p].items[d] # "none"
                    /\ shelf[p].items[d] # "Downloading"
  BY DEF DocumentsListed
<1>1. PICK k \in Conn : /\ client[p] = k /\ link[k] = "up" /\ users[k] = "guest"
                        /\ toServer[k] = <<>> /\ toClient[k] = <<>> /\ signals[p] = <<>>
  BY DEF isGuest, settled, Base, Types
<1>2. In(toServer[k]) = {} /\ In(toClient[k]) = {} /\ In(signals[p]) = {}
  BY <1>1, InEmpty
<1>3. shelf[p].items[d] # "Downloading"
  <2>1. ~Fetches(p, k, d)
    BY <1>2 DEF Fetches
  <2> QED
    BY <1>1, <2>1 DEF Documented, Downloaded, Downloads
<1>4. ASSUME d \in serverNames
      PROVE  shelf[p].items[d] # "none"
  <2>1. serverProcess # Alone
    BY <1>4 DEF serverNames
  <2>2. Listed
    BY <2>1 DEF Documented, Listing, Unexcused, Placed
  <2>3. d \in shelf[p].names \/ Announced(p, k, d)
    BY <1>1, <1>4, <2>2 DEF Listed
  <2>4. ~Pending(d)
    <3>1. SUFFICES ASSUME NEW j \in Conn, Available(d) \in In(toServer[j])
                   PROVE  FALSE
      BY DEF Pending
    <3>2. PICK n \in DOMAIN toServer[j] : toServer[j][n] = Available(d)
      BY <3>1 DEF In
    <3>3. toServer[j][n].method # "DocAvailable"
      BY <3>2
    <3>4. Available(d).method = "DocAvailable"
      BY DEF Available
    <3> QED
      BY <3>2, <3>3, <3>4
  <2>5. d \in shelf[p].names
    BY <1>2, <2>3, <2>4 DEF Announced
  <2> QED
    BY <2>5 DEF Documented, Shelves, Shelved
<1> QED
  BY <1>3, <1>4

\* DocumentsListed, whatever the applications, their connections and the documents: what
\* DocShareListView shows of SharedDocHint's names once nothing is on its way, and that no
\* download is left pending. The process the server runs in, if it runs in one, is the only
\* application of its machine: that of another would host before the server's process
\* knows the names of what it drops, and a guest who joins between is not told of them.
THEOREM DocumentsAlwaysListed ==
  ASSUME \A s \in ServerProcesses : s = Alone \/ Loopback \subseteq {s}
  PROVE  Spec => []DocumentsListed
<1>1. Init => Base /\ Surviving /\ Documented /\ Placed
  <2>1. Init => Placed
    BY DEF Init, Placed
  <2> QED
    BY <2>1, InitBase, InitSurvives, InitDocumented
<1>2. Base /\ Surviving /\ Documented /\ Placed /\ [Next]_vars =>
        Base' /\ Surviving' /\ Documented' /\ Placed'
  <2>1. Base /\ Placed /\ [Next]_vars => Placed'
    BY SlipsGrow DEF Placed
  <2>2. Base /\ [Next]_vars => Base'
    BY TypesStep, ConnectionsStep DEF Base
  <2> QED
    BY <2>1, <2>2, SurvivingStep, DocumentedStep
<1>3. Base /\ Documented /\ Placed => DocumentsListed
  BY DocumentedSettled
<1> QED
  BY <1>1, <1>2, <1>3, PTL DEF Spec

---------------------------------------------------------------------------
(* The last word of a queue *)

\* Of the elements of s before n, the last that is in A is in G; if none is, b.
LastBefore(s, n, A, G, b) ==
  /\ \A i \in DOMAIN s :
       i < n /\ s[i] \in A /\ (\A j \in DOMAIN s : i < j /\ j < n => s[j] \notin A) => s[i] \in G
  /\ (\A i \in DOMAIN s : i < n => s[i] \notin A) => b

LastIn(s, A, G, b) == LastBefore(s, Len(s) + 1, A, G, b)

LEMMA LastOfNone ==
  ASSUME NEW A, NEW G, NEW b, LastIn(<<>>, A, G, b)
  PROVE  b
BY DEF LastIn, LastBefore

LEMMA LastOfFirst ==
  ASSUME NEW T, NEW s \in Seq(T), NEW A, NEW G, NEW b, LastBefore(s, 1, A, G, b)
  PROVE  b
<1>1. DOMAIN s = 1..Len(s) /\ Len(s) \in Nat
  BY LenProperties
<1>2. \A i \in DOMAIN s : ~(i < 1)
  BY <1>1
<1> QED
  BY <1>2 DEF LastBefore

\* What follows changes nothing of what is before n.
LEMMA LastBeforeAppend ==
  ASSUME NEW T, NEW s \in Seq(T), NEW e \in T, NEW n \in 1..(Len(s) + 1), NEW A, NEW G, NEW b
  PROVE  LastBefore(Append(s, e), n, A, G, b) <=> LastBefore(s, n, A, G, b)
<1>1. /\ Len(s) \in Nat /\ DOMAIN s = 1..Len(s) /\ DOMAIN Append(s, e) = 1..(Len(s) + 1)
      /\ \A i \in 1..Len(s) : Append(s, e)[i] = s[i]
  BY AppendProperties, LenProperties
<1>2. \A i \in DOMAIN Append(s, e) : i < n => i \in DOMAIN s /\ Append(s, e)[i] = s[i]
  BY <1>1
<1>3. \A i \in DOMAIN s : i \in DOMAIN Append(s, e) /\ Append(s, e)[i] = s[i]
  BY <1>1
<1>4. ASSUME LastBefore(s, n, A, G, b)
      PROVE  LastBefore(Append(s, e), n, A, G, b)
  BY <1>2, <1>3, <1>4 DEF LastBefore
<1>5. ASSUME LastBefore(Append(s, e), n, A, G, b)
      PROVE  LastBefore(s, n, A, G, b)
  BY <1>2, <1>3, <1>5 DEF LastBefore
<1> QED
  BY <1>4, <1>5

LEMMA LastAppend ==
  ASSUME NEW T, NEW s \in Seq(T), NEW e \in T, NEW A, NEW G, NEW b
  PROVE  /\ e \in A => (LastIn(Append(s, e), A, G, b) <=> e \in G)
         /\ e \notin A => (LastIn(Append(s, e), A, G, b) <=> LastIn(s, A, G, b))
<1> DEFINE t == Append(s, e)
           l == Len(s)
<1>1. /\ l \in Nat /\ DOMAIN s = 1..l /\ DOMAIN t = 1..(l + 1) /\ Len(t) = l + 1
      /\ \A i \in 1..l : t[i] = s[i]
      /\ t[l + 1] = e
  BY AppendProperties, LenProperties
<1> HIDE DEF t, l
<1>2. \A i \in DOMAIN t : i < l + 1 + 1 /\ (i < l + 1 <=> i \in DOMAIN s) /\ (i # l + 1 => i \in DOMAIN s)
  BY <1>1
<1>3. l + 1 \in DOMAIN t /\ \A j \in DOMAIN t : ~(l + 1 < j)
  BY <1>1
<1>4. \A i \in DOMAIN s : i \in DOMAIN t /\ t[i] = s[i] /\ i < l + 1
  BY <1>1
<1>5. CASE e \in A
  <2>1. ASSUME NEW i \in DOMAIN t, \A j \in DOMAIN t : i < j /\ j < l + 1 + 1 => t[j] \notin A
        PROVE  i = l + 1
    BY <1>1, <1>2, <1>3, <1>5, <2>1
  <2>2. ~(\A i \in DOMAIN t : i < l + 1 + 1 => t[i] \notin A)
    BY <1>1, <1>2, <1>3, <1>5
  <2>3. LastBefore(t, l + 1 + 1, A, G, b) <=> e \in G
    <3>1. ASSUME e \in G
          PROVE  LastBefore(t, l + 1 + 1, A, G, b)
      BY <1>1, <2>1, <2>2, <3>1 DEF LastBefore
    <3>2. ASSUME LastBefore(t, l + 1 + 1, A, G, b)
          PROVE  e \in G
      BY <1>1, <1>2, <1>3, <1>5, <3>2 DEF LastBefore
    <3> QED
      BY <3>1, <3>2
  <2> QED
    BY <1>1, <1>5, <2>3 DEF LastIn, t, l
<1>6. CASE e \notin A
  <2>1. ASSUME LastBefore(s, l + 1, A, G, b)
        PROVE  LastBefore(t, l + 1 + 1, A, G, b)
    <3>1. ASSUME NEW i \in DOMAIN t, t[i] \in A,
                 \A j \in DOMAIN t : i < j /\ j < l + 1 + 1 => t[j] \notin A
          PROVE  t[i] \in G
      <4>1. i \in DOMAIN s /\ s[i] = t[i] /\ i < l + 1
        BY <1>1, <1>2, <1>4, <1>6, <3>1
      <4>2. \A j \in DOMAIN s : i < j /\ j < l + 1 => s[j] \notin A
        BY <1>2, <1>4, <3>1
      <4> QED
        BY <2>1, <3>1, <4>1, <4>2 DEF LastBefore
    <3>2. ASSUME \A i \in DOMAIN t : i < l + 1 + 1 => t[i] \notin A
          PROVE  b
      BY <1>2, <1>4, <2>1, <3>2 DEF LastBefore
    <3> QED
      BY <3>1, <3>2 DEF LastBefore
  <2>2. ASSUME LastBefore(t, l + 1 + 1, A, G, b)
        PROVE  LastBefore(s, l + 1, A, G, b)
    <3>1. \A j \in DOMAIN t : t[j] \in A => j \in DOMAIN s
      BY <1>1, <1>2, <1>6
    <3>2. ASSUME NEW i \in DOMAIN s, s[i] \in A,
                 \A j \in DOMAIN s : i < j /\ j < l + 1 => s[j] \notin A
          PROVE  s[i] \in G
      <4>1. i \in DOMAIN t /\ t[i] = s[i] /\ i < l + 1 + 1
        BY <1>2, <1>4
      <4>2. \A j \in DOMAIN t : i < j /\ j < l + 1 + 1 => t[j] \notin A
        BY <1>4, <3>1, <3>2
      <4> QED
        BY <2>2, <3>2, <4>1, <4>2 DEF LastBefore
    <3>3. ASSUME \A i \in DOMAIN s : i < l + 1 => s[i] \notin A
          PROVE  b
      <4>1. \A i \in DOMAIN t : i < l + 1 + 1 => t[i] \notin A
        BY <1>4, <3>1, <3>3
      <4> QED
        BY <2>2, <4>1 DEF LastBefore
    <3> QED
      BY <3>2, <3>3 DEF LastBefore
  <2> QED
    BY <1>1, <1>6, <2>1, <2>2 DEF LastIn, t, l
<1> QED
  BY <1>5, <1>6

\* The first element is taken: b becomes c, which the element says if it is the last.
LEMMA LastBeforeTail ==
  ASSUME NEW T, NEW s \in Seq(T), s # <<>>, NEW n \in Nat, NEW A, NEW G, NEW b, NEW c,
         LastBefore(s, n + 1, A, G, b),
         Head(s) \notin A /\ b => c, Head(s) \in A /\ Head(s) \in G => c,
         n # 0
  PROVE  LastBefore(Tail(s), n, A, G, c)
<1> DEFINE t == Tail(s)
<1>1. /\ t \in Seq(T) /\ Len(t) = Len(s) - 1 /\ Head(s) = s[1]
      /\ \A i \in 1..Len(t) : t[i] = s[i + 1]
  BY HeadTailProperties
<1>2. DOMAIN s = 1..Len(s) /\ Len(s) \in Nat /\ DOMAIN t = 1..Len(t) /\ Len(s) # 0
  BY <1>1, LenProperties, EmptySeq
<1> HIDE DEF t
<1>3. \A i \in DOMAIN t : i + 1 \in DOMAIN s /\ t[i] = s[i + 1] /\ i \in Nat /\ i # 0
  BY <1>1, <1>2
<1>4. \A i \in DOMAIN s : i # 1 => i - 1 \in DOMAIN t /\ t[i - 1] = s[i] /\ i \in Nat /\ (i - 1) + 1 = i
  BY <1>1, <1>2
<1>5. ASSUME NEW i \in DOMAIN t, i < n, t[i] \in A,
             \A j \in DOMAIN t : i < j /\ j < n => t[j] \notin A
      PROVE  t[i] \in G
  <2>1. i + 1 \in DOMAIN s /\ i + 1 < n + 1 /\ s[i + 1] = t[i]
    BY <1>3, <1>5
  <2>2. ASSUME NEW j \in DOMAIN s, i + 1 < j, j < n + 1
        PROVE  s[j] \notin A
    <3>1. j # 1
      BY <1>3, <2>2
    <3>2. j - 1 \in DOMAIN t /\ t[j - 1] = s[j] /\ j \in Nat
      BY <1>4, <3>1
    <3>3. i < j - 1 /\ j - 1 < n
      BY <1>3, <2>2, <3>2
    <3> QED
      BY <1>5, <3>2, <3>3
  <2> QED
    BY <1>5, <2>1, <2>2 DEF LastBefore
<1>6. ASSUME \A i \in DOMAIN t : i < n => t[i] \notin A
      PROVE  c
  <2>1. ASSUME NEW j \in DOMAIN s, j # 1, j < n + 1
        PROVE  s[j] \notin A
    <3>1. j - 1 \in DOMAIN t /\ t[j - 1] = s[j] /\ j \in Nat
      BY <1>4, <2>1
    <3>2. j - 1 < n
      BY <2>1, <3>1
    <3> QED
      BY <1>6, <3>1, <3>2
  <2>2. 1 \in DOMAIN s /\ 1 < n + 1
    BY <1>2
  <2>3. CASE s[1] \in A
    <3>1. \A j \in DOMAIN s : 1 < j /\ j < n + 1 => s[j] \notin A
      BY <1>2, <2>1
    <3>2. s[1] \in G
      BY <2>2, <2>3, <3>1 DEF LastBefore
    <3> QED
      BY <1>1, <2>3, <3>2
  <2>4. CASE s[1] \notin A
    <3>1. \A j \in DOMAIN s : j < n + 1 => s[j] \notin A
      BY <2>1, <2>4
    <3> QED
      BY <1>1, <2>4, <3>1 DEF LastBefore
  <2> QED
    BY <2>3, <2>4
<1> QED
  BY <1>5, <1>6 DEF LastBefore, t

LEMMA LastTail ==
  ASSUME NEW T, NEW s \in Seq(T), s # <<>>, NEW A, NEW G, NEW b, NEW c,
         LastIn(s, A, G, b), Head(s) \notin A /\ b => c, Head(s) \in A /\ Head(s) \in G => c
  PROVE  LastIn(Tail(s), A, G, c)
<1>1. Len(Tail(s)) = Len(s) - 1 /\ Tail(s) \in Seq(T)
  BY HeadTailProperties
<1>2. Len(s) \in Nat /\ Len(s) # 0
  BY LenProperties, EmptySeq
<1>3. Len(Tail(s)) + 1 = Len(s)
  BY <1>1, <1>2
<1>4. LastBefore(s, Len(s) + 1, A, G, b)
  BY DEF LastIn
<1>5. LastBefore(Tail(s), Len(s), A, G, c)
  BY <1>2, <1>4, LastBeforeTail
<1> QED
  BY <1>3, <1>5 DEF LastIn

\* What is said may be weakened, and b counts only if nothing is said.
LEMMA LastWeaker ==
  ASSUME NEW s, NEW n, NEW A, NEW G, NEW H, NEW b, NEW c, LastBefore(s, n, A, G, b),
         \A x \in A : x \in G => x \in H,
         b => c \/ \E i \in DOMAIN s : i < n /\ s[i] \in A
  PROVE  LastBefore(s, n, A, H, c)
BY DEF LastBefore

LEMMA LastInWeaker ==
  ASSUME NEW T, NEW s \in Seq(T), NEW A, NEW G, NEW H, NEW b, NEW c, LastIn(s, A, G, b),
         \A x \in A : x \in G => x \in H, b => c \/ In(s) \cap A # {}
  PROVE  LastIn(s, A, H, c)
<1>1. DOMAIN s = 1..Len(s) /\ Len(s) \in Nat
  BY LenProperties
<1>2. \A i \in DOMAIN s : i < Len(s) + 1
  BY <1>1
<1>3. b => c \/ \E i \in DOMAIN s : i < Len(s) + 1 /\ s[i] \in A
  BY <1>2 DEF In
<1> QED
  BY <1>3, LastWeaker DEF LastIn

\* Elements of no interest follow.
LEMMA LastConcat ==
  ASSUME NEW T, NEW s \in Seq(T), NEW t \in Seq(T), NEW A, NEW G, NEW b
  PROVE  /\ \A n \in 1..(Len(s) + 1) : LastBefore(s, n, A, G, b) => LastBefore(s \o t, n, A, G, b)
         /\ LastIn(s, A, G, b) /\ In(t) \cap A = {} => LastIn(s \o t, A, G, b)
<1> DEFINE u == s \o t
           l == Len(s)
<1>1. /\ l \in Nat /\ Len(t) \in Nat /\ Len(u) = l + Len(t)
      /\ DOMAIN s = 1..l /\ DOMAIN t = 1..Len(t) /\ DOMAIN u = 1..(l + Len(t))
      /\ \A n \in 1..(l + Len(t)) : u[n] = IF n <= l THEN s[n] ELSE t[n - l]
  BY ConcatProperties, LenProperties
<1> HIDE DEF u, l
<1>2. \A i \in DOMAIN s : i \in DOMAIN u /\ u[i] = s[i] /\ i < l + 1 /\ i < Len(u) + 1
  BY <1>1
<1>3. \A i \in DOMAIN u : i < l + 1 => i \in DOMAIN s
  BY <1>1
<1>4. \A i \in DOMAIN u : ~(i < l + 1) => i - l \in DOMAIN t /\ u[i] = t[i - l]
  BY <1>1
<1>5. ASSUME NEW n \in 1..(l + 1), LastBefore(s, n, A, G, b)
      PROVE  LastBefore(u, n, A, G, b)
  <2>1. \A i \in DOMAIN u : i < n => i \in DOMAIN s
    BY <1>1
  <2> QED
    BY <1>2, <1>5, <2>1 DEF LastBefore
<1>6. ASSUME LastBefore(s, l + 1, A, G, b), In(t) \cap A = {}
      PROVE  LastBefore(u, Len(u) + 1, A, G, b)
  <2>1. \A i \in DOMAIN u : u[i] \in A => i \in DOMAIN s
    BY <1>3, <1>4, <1>6 DEF In
  <2>2. ASSUME NEW i \in DOMAIN u, u[i] \in A,
               \A j \in DOMAIN u : i < j /\ j < Len(u) + 1 => u[j] \notin A
        PROVE  u[i] \in G
    <3>1. i \in DOMAIN s /\ s[i] = u[i] /\ i < l + 1
      BY <1>2, <2>1, <2>2
    <3>2. \A j \in DOMAIN s : i < j /\ j < l + 1 => s[j] \notin A
      BY <1>2, <2>2
    <3> QED
      BY <1>6, <2>2, <3>1, <3>2 DEF LastBefore
  <2>3. ASSUME \A i \in DOMAIN u : i < Len(u) + 1 => u[i] \notin A
        PROVE  b
    BY <1>2, <1>6, <2>3 DEF LastBefore
  <2> QED
    BY <2>2, <2>3 DEF LastBefore
<1> QED
  BY <1>5, <1>6 DEF LastIn, u, l

---------------------------------------------------------------------------
(* What is said of the music *)

\* What all are to agree on of a state: its track, and whether it is played.
Aspect == {"url", "playing"}
aspect(s, c) == IF c = "url" THEN s.url ELSE s.playing

Urls == [method : {"Url"}, state : Tracker]
PlayingStates == [method : {"PlayingState"}, isPlaying : BOOLEAN]

\* What carries a whole state.
States == Session \cup Urls
stateIn(x) == IF x.method = "Session" THEN x.stream ELSE x.state

\* What speaks of an aspect, and what says that it is v.
Speaks(c) == IF c = "url" THEN States ELSE States \cup PlayingStates
Says(c, v) ==
  {x \in Speaks(c) : IF x.method = "PlayingState" THEN x.isPlaying = v
                     ELSE aspect(stateIn(x), c) = v}

\* The one in charge tells of the music on k, unless the track asked for is awaited
\* in silence.
Tells(p, k) ==
  /\ client[p] = k /\ link[k] = "up" /\ k \in Host /\ button[p] = "Connected"
  /\ ~(audio[p].requested /\ audio[p].heard.on = "stopped")

Follows(p, k) == client[p] = k /\ link[k] = "up" /\ users[k] = "guest"

\* The server will know what the host has, and the guest what the server knows: what
\* is on its way says it last, or it is known.
HostTuned(p, k, c) ==
  LastIn(toServer[k], Speaks(c), Says(c, aspect(audio[p].state, c)),
         aspect(tracker, c) = aspect(audio[p].state, c))

Heard(p, k, c, v) ==
  LastIn(signals[p], Of(k, Speaks(c)), Of(k, Says(c, v)), aspect(audio[p].state, c) = v)

GuestTuned(p, k, c, v) == LastIn(toClient[k], Speaks(c), Says(c, v), Heard(p, k, c, v))

TunedAt(p, k, c) ==
  /\ Tells(p, k) => HostTuned(p, k, c)
  /\ Follows(p, k) => GuestTuned(p, k, c, aspect(tracker, c))

Tuned ==
  slips \cap {"late", "untold"} = {} =>
    \A p \in Process : \A k \in Opened : \A c \in Aspect : TunedAt(p, k, c)

\* Who hosts is in charge once the session is known, and who is not told of the
\* session yet will be.
InCharge ==
  "late" \notin slips => \A p \in Process :
    client[p] # NoConn /\ button[p] = "Connected" /\ hostAble[p] => audio[p].master

Awaited ==
  "late" \notin slips => \A p \in Process : \A k \in Opened :
    client[p] = k /\ link[k] = "up" /\ button[p] = "Connecting" => Ahead(k) \/ Signalled(p, k)

LEMMA MusicParts ==
  /\ Music = Urls \cup PlayingStates \cup [method : {"Position"}]
  /\ Urls \subseteq Music /\ PlayingStates \subseteq Music
BY DEF Music, Urls, PlayingStates

LEMMA SpeaksParts ==
  ASSUME NEW c \in Aspect
  PROVE  /\ Speaks(c) \subseteq Session \cup Music
         /\ \A x : x \in Session \/ x \in Urls => x \in Speaks(c)
         /\ \A x : x \in Music \ Speaks(c) => x.method \in {"PlayingState", "Position"}
         /\ [method |-> "Position"] \notin Speaks(c)
         /\ \A x \in PlayingStates : x \in Speaks(c) <=> c = "playing"
         /\ \A x \in Speaks(c) : x \in Urls <=> x.method = "Url"
         /\ \A x \in Speaks(c) : x \in Session <=> x.method = "Session"
BY DEF Aspect, Speaks, States, Session, Music, Urls, PlayingStates

LEMMA SaysParts ==
  ASSUME NEW c \in Aspect, NEW v
  PROVE  /\ \A x \in Session : x \in Says(c, v) <=> aspect(x.stream, c) = v
         /\ \A x \in Urls : x \in Says(c, v) <=> aspect(x.state, c) = v
         /\ \A x \in PlayingStates : x \in Says(c, v) <=> c = "playing" /\ x.isPlaying = v
         /\ Says(c, v) \subseteq Speaks(c)
BY DEF Aspect, Speaks, Says, States, Session, Urls, PlayingStates, stateIn

LEMMA OfParts ==
  ASSUME NEW k, NEW j, NEW x, NEW S
  PROVE  [conn |-> j, payload |-> x] \in Of(k, S) <=> j = k /\ x \in S
<1>1. [conn |-> j, payload |-> x].conn = j /\ [conn |-> j, payload |-> x].payload = x
  OBVIOUS
<1> QED
  BY <1>1 DEF Of

LEMMA InChargeStep == Base /\ Mastering /\ InCharge /\ [Next]_vars => InCharge'
<1> SUFFICES ASSUME Base, Mastering, InCharge, [Next]_vars, "late" \notin slips'
             PROVE  \A p \in Process :
                      client'[p] # NoConn /\ button'[p] = "Connected" /\ hostAble'[p]
                        => audio'[p].master
  BY DEF InCharge
<1>1. /\ "late" \notin slips /\ Types
      /\ \A q \in Process : client[q] # NoConn /\ button[q] = "Connected" /\ hostAble[q]
                              => audio[q].master
  BY SlipsGrow DEF InCharge, Base
<1>2. CASE ServerMove
  <2>1. ServerMoves
    BY <1>2 DEF ServerMove, Registers, Leaves, Greets, Relays
  <2> QED
    BY <1>1, <2>1 DEF ServerMoves
<1>3. CASE ClientMove
  <2>1. ASSUME NEW k \in Conn, NEW x \in ToClient, NEW p \in Process, Receives(k, x, p)
        PROVE  \A q \in Process : client'[q] # NoConn /\ button'[q] = "Connected" /\ hostAble'[q]
                                    => audio'[q].master
    <3>1. /\ UNCHANGED <<client, button, audio>> /\ client[p] = k /\ k \in Opened
          /\ In(toClient[k]) = {x} \cup In(toClient'[k])
          /\ hostAble' = IF x.method = "Session" THEN [hostAble EXCEPT ![p] = x.host] ELSE hostAble
      BY <2>1 DEF Receives, Reads
    <3>2. CASE x.method = "Session"
      <4>1. Ahead(k)
        BY <3>1, <3>2, SessionMethod DEF Ahead
      <4>2. button[p] # "Connected"
        BY <1>1, <3>1, <4>1 DEF Mastering, Mastered
      <4>3. \A q \in Process \ {p} : hostAble'[q] = hostAble[q]
        BY <1>1, <3>1, <3>2 DEF Types
      <4> QED
        BY <1>1, <3>1, <4>2, <4>3
    <3>3. CASE x.method # "Session"
      BY <1>1, <3>1, <3>3
    <3> QED
      BY <3>2, <3>3
  <2>2. ASSUME NEW k \in Conn, NEW p \in Process, Breaks(k, p)
        PROVE  UNCHANGED <<client, button, audio, hostAble>>
    BY <2>2 DEF Breaks
  <2> QED
    BY <1>1, <1>3, <2>1, <2>2 DEF ClientMove
<1>4. CASE InterfaceMove
  <2>1. CASE Quiet
    BY <1>1, <2>1 DEF Quiet, SameRoles
  <2>2. ASSUME NEW p \in Process, NEW k \in Opened, NEW m \in Session, Welcomes(p, k, m)
        PROVE  \A q \in Process : client'[q] # NoConn /\ button'[q] = "Connected" /\ hostAble'[q]
                                    => audio'[q].master
    <3>1. /\ UNCHANGED <<client, hostAble>> /\ audio'[p].master = hostAble[p]
          /\ button' = [button EXCEPT ![p] = "Connected"]
          /\ \A q \in Process \ {p} : audio'[q] = audio[q]
      BY <2>2 DEF Welcomes
    <3>2. \A q \in Process \ {p} : button'[q] = button[q]
      BY <1>1, <3>1 DEF Types
    <3> QED
      BY <1>1, <3>1, <3>2
  <2>3. ASSUME NEW p \in Process, NEW k \in Opened, Closes(p, k)
        PROVE  \A q \in Process : client'[q] # NoConn /\ button'[q] = "Connected" /\ hostAble'[q]
                                    => audio'[q].master
    <3>1. /\ client' = [client EXCEPT ![p] = NoConn]
          /\ hostAble' = [hostAble EXCEPT ![p] = TRUE]
          /\ button' = [button EXCEPT ![p] = "NotConnected"]
          /\ audio' = [audio EXCEPT ![p] = streamClosed(@)]
      BY <2>3 DEF Closes, Ends
    <3> QED
      BY <1>1, <3>1 DEF Types
  <2>4. ASSUME NEW p \in Process, NEW k \in Conn \ Opened, Opens(p, k)
        PROVE  \A q \in Process : client'[q] # NoConn /\ button'[q] = "Connected" /\ hostAble'[q]
                                    => audio'[q].master
    <3>1. /\ client' = [client EXCEPT ![p] = k] /\ hostAble' = hostAble
          /\ button' = [button EXCEPT ![p] = "Connecting"]
          /\ audio' = [audio EXCEPT ![p] = streamConnecting(@)]
      BY <2>4 DEF Opens
    <3> QED
      BY <1>1, <3>1 DEF Types
  <2> QED
    BY <1>4, <2>1, <2>2, <2>3, <2>4 DEF InterfaceMove
<1> QED
  BY <1>2, <1>3, <1>4, Moved

\* The session that is signalled stays so until it is handled.
LEMMA SessionWaits ==
  ASSUME Base, InterfaceStep, [Next]_vars, NEW q \in Process, NEW k \in Conn, Signalled(q, k)
  PROVE  Signalled(q, k)' \/ button'[q] # "Connecting"
<1>1. Types
  BY DEF Base
<1>2. CASE signals'[q] = signals[q]
  BY <1>2 DEF Signalled
<1>3. CASE signals'[q] # signals[q]
  <2>1. PICK p \in Process :
          \/ bindObservedClient(p) \/ onConnectButtonPressed(p)
          \/ sendMessage(p) \/ musicAct(p)
          \/ dropEvent(p) \/ onItemDoubleClick(p)
          \/ onSignal(p)
    BY DEF InterfaceStep, musicAct
  <2>2. onSignal(p)
    <3>1. bindObservedClient(p) \/ onConnectButtonPressed(p) => UNCHANGED signals
      BY DEF bindObservedClient, onConnectButtonPressed
    <3>2. sendMessage(p) => UNCHANGED signals
      BY Said
    <3>3. musicAct(p) => UNCHANGED signals
      BY <1>1, MusicTold
    <3>4. dropEvent(p) => UNCHANGED signals
      BY Dropped
    <3>5. onItemDoubleClick(p) => UNCHANGED signals
      BY DocAsked
    <3> QED
      BY <1>3, <2>1, <3>1, <3>2, <3>3, <3>4, <3>5
  <2>3. PICK j \in Opened, m \in ToClient \cup [method : {"Ended"}] : Takes(p, j, m) /\ Shows(p, m)
    BY <2>2, SignalCases
  <2>4. p = q /\ In(signals[p]) = {[conn |-> j, payload |-> m]} \cup In(signals'[p])
    <3>1. \A r \in Process \ {p} : signals'[r] = signals[r]
      BY <2>2, SignalTaken
    <3>2. In(signals[p]) = {Head(signals[p])} \cup In(signals'[p])
      BY <2>2, SignalTaken
    <3> QED
      BY <1>3, <2>3, <3>1, <3>2 DEF Takes
  <2>5. CASE m \in Session
    <3>1. onGameSessionReceived(p, m)
      BY <2>3, <2>5 DEF Shows, onAudioSignal, onChatSignal, onDocumentSignal, Session
    <3> QED
      BY <1>1, <2>4, <2>5, <3>1, Joins DEF Types
  <2>6. CASE m \notin Session
    BY <2>4, <2>6, OfParts DEF Signalled
  <2> QED
    BY <2>5, <2>6
<1> QED
  BY <1>2, <1>3

LEMMA AwaitedStep == Base /\ Awaited /\ [Next]_vars => Awaited'
<1> SUFFICES ASSUME Base, Awaited, [Next]_vars, "late" \notin slips',
                    NEW q \in Process, NEW j \in Opened',
                    client'[q] = j, link'[j] = "up", button'[q] = "Connecting"
             PROVE  Ahead(j)' \/ Signalled(q, j)'
  BY DEF Awaited
<1>1. "late" \notin slips /\ Types
  BY SlipsGrow DEF Base
<1>2. Opened \subseteq Conn
  BY ConnFacts
<1>3. j \in Opened /\ client[q] = j /\ link[j] = "up" /\ button[q] = "Connecting"
        => Ahead(j) \/ Signalled(q, j)
  BY <1>1 DEF Awaited
<1>4. CASE ServerMove
  <2>1. /\ ServerMoves /\ (link'[j] = "up" => link[j] = "up") /\ Opened' = Opened
    <3>1. ServerMoves /\ (link' = link \/ \E k \in Conn : link' = [link EXCEPT ![k] = "gone"])
      BY <1>4 DEF ServerMove, Registers, Leaves, Greets, Relays, FirstTaken
    <3> QED
      BY <1>1, <1>2, <3>1 DEF ServerMoves, Opened, Types
  <2>2. Ahead(j) \/ Signalled(q, j)
    BY <1>3, <2>1 DEF ServerMoves
  <2>3. Signalled(q, j) => Signalled(q, j)'
    BY <2>1 DEF ServerMoves, Signalled
  <2>4. ASSUME NEW X, ServerTells(X)
        PROVE  In(toClient[j]) \subseteq In(toClient'[j])
    BY <1>1, <1>2, <2>1, <2>4, ServerTellsElements
  <2>5. ASSUME Ahead(j)
        PROVE  Ahead(j)'
    <3>1. ASSUME NEW k \in Conn, Registers(k)
          PROVE  Ahead(j)'
      BY <2>5, <3>1 DEF Registers, Ahead
    <3>2. ASSUME NEW k \in Conn, Leaves(k)
          PROVE  Ahead(j)'
      <4>1. j # k /\ toServer'[j] = toServer[j]
        BY <1>1, <1>2, <2>1, <3>2 DEF Leaves, Types
      <4>2. In(toClient[j]) \subseteq In(toClient'[j])
        BY <2>4, <3>2 DEF Leaves
      <4> QED
        BY <2>5, <4>1, <4>2 DEF Ahead
    <3>3. ASSUME NEW k \in Conn, NEW s \in Session, NEW t \in [Conn -> SUBSET ToClient],
                 Greets(k, s, t)
          PROVE  Ahead(j)'
      <4>1. In(toClient[j]) \subseteq In(toClient'[j])
        BY <2>4, <3>3 DEF Greets
      <4>2. CASE j # k
        BY <1>2, <2>1, <2>5, <3>3, <4>1, <4>2 DEF Greets, FirstTaken, Ahead
      <4>3. CASE j = k
        <5>1. toClient'[k] = Append(toClient[k], s)
          BY <2>1, <3>3, <4>3 DEF Greets
        <5>2. toClient[k] \in Seq(ToClient) /\ s \in ToClient
          BY <1>1 DEF Types, ToClient
        <5>3. s \in In(toClient'[k])
          BY <5>1, <5>2, InAppend
        <5> QED
          BY <4>3, <5>3 DEF Ahead
      <4> QED
        BY <4>2, <4>3
    <3>4. ASSUME NEW k \in Conn, NEW m \in ToServer, NEW t \in [Conn -> SUBSET ToClient],
                 Relays(k, m, t)
          PROVE  Ahead(j)'
      <4>1. In(toClient[j]) \subseteq In(toClient'[j])
        BY <2>4, <3>4 DEF Relays
      <4>2. Shake \in In(toServer[j]) => Shake \in In(toServer'[j])
        BY <1>2, <2>1, <3>4 DEF Relays, FirstTaken
      <4> QED
        BY <2>5, <4>1, <4>2 DEF Ahead
    <3> QED
      BY <1>4, <3>1, <3>2, <3>3, <3>4 DEF ServerMove
  <2> QED
    BY <2>2, <2>3, <2>5
<1>5. CASE ClientMove
  <2>1. ASSUME NEW k \in Conn, NEW x \in ToClient, NEW p \in Process, Receives(k, x, p)
        PROVE  Ahead(j)' \/ Signalled(q, j)'
    <3>1. /\ UNCHANGED <<processOf, link, toServer, client, button>> /\ client[p] = k
          /\ p = processOf[k] /\ k \in Opened
          /\ In(toClient[k]) = {x} \cup In(toClient'[k])
          /\ \A i \in Conn \ {k} : toClient'[i] = toClient[i]
          /\ In(signals'[p]) = In(signals[p]) \cup {[conn |-> k, payload |-> x]}
          /\ \A r \in Process \ {p} : signals'[r] = signals[r]
      BY <2>1 DEF Receives, Reads
    <3>2. (Ahead(j) \/ Signalled(q, j)) /\ j \in Opened
      BY <1>3, <3>1 DEF Opened
    <3>3. Signalled(q, j) => Signalled(q, j)'
      BY <3>1 DEF Signalled
    <3>4. j = k => p = q
      <4>1. client[q] = j /\ client[q] # NoConn
        BY <1>2, <3>1, <3>2, ConnFacts
      <4> QED
        BY <3>1, <4>1 DEF Base, Connections
    <3>5. CASE j = k /\ x \in Session
      <4>1. [conn |-> k, payload |-> x] \in In(signals'[q]) /\ [conn |-> k, payload |-> x] \in Of(k, Session)
        BY <3>1, <3>4, <3>5, OfParts
      <4> QED
        BY <3>5, <4>1 DEF Signalled
    <3>6. CASE j = k /\ x \notin Session
      BY <3>1, <3>2, <3>3, <3>6 DEF Ahead
    <3>7. CASE j # k
      BY <1>2, <3>1, <3>2, <3>3, <3>7 DEF Ahead
    <3> QED
      BY <3>5, <3>6, <3>7
  <2>2. ASSUME NEW k \in Conn, NEW p \in Process, Breaks(k, p)
        PROVE  Ahead(j)' \/ Signalled(q, j)'
    <3>1. /\ UNCHANGED <<processOf, toServer, client, button>>
          /\ link' = [link EXCEPT ![k] = "down"] /\ toClient' = [toClient EXCEPT ![k] = <<>>]
          /\ In(signals[q]) \subseteq In(signals'[q])
      BY <2>2 DEF Breaks, Fails
    <3>2. j \in Opened /\ j # k /\ link[j] = "up" /\ toClient'[j] = toClient[j]
      BY <1>1, <1>2, <3>1 DEF Opened, Types
    <3>3. Ahead(j) \/ Signalled(q, j)
      BY <1>3, <3>1, <3>2
    <3> QED
      BY <3>1, <3>2, <3>3 DEF Ahead, Signalled
  <2> QED
    BY <1>5, <2>1, <2>2 DEF ClientMove
<1>6. CASE InterfaceStep
  <2>1. InterfaceMove
    BY <1>6, InterfaceMoved
  <2>2. CASE Quiet \/ \E p \in Process, k \in Opened, m \in Session : Welcomes(p, k, m)
    <3>1. /\ UNCHANGED <<processOf, link, client, toClient>>
          /\ \/ toServer' = toServer
             \/ \E p \in Process, x \in ToServer : ClientTells(p, x)
          /\ button'[q] = button[q] \/ button'[q] = "Connected"
      BY <1>1, <2>2, MusicIsSent DEF Quiet, Welcomes, Types
    <3>2. j \in Opened /\ (Ahead(j) \/ Signalled(q, j))
      BY <1>3, <3>1 DEF Opened
    <3>3. Signalled(q, j) => Signalled(q, j)'
      BY <1>2, <1>6, <3>2, SessionWaits
    <3>4. In(toServer[j]) \subseteq In(toServer'[j])
      BY <1>1, <1>2, <3>1, <3>2, ClientTellsElements
    <3> QED
      BY <3>1, <3>2, <3>3, <3>4 DEF Ahead
  <2>3. ASSUME NEW p \in Process, NEW k \in Opened, Closes(p, k)
        PROVE  Ahead(j)' \/ Signalled(q, j)'
    <3>1. /\ client' = [client EXCEPT ![p] = NoConn] /\ k = client[p]
          /\ link' = [link EXCEPT ![k] = "down"] /\ toClient' = [toClient EXCEPT ![k] = <<>>]
          /\ button' = [button EXCEPT ![p] = "NotConnected"]
          /\ UNCHANGED <<processOf, toServer>>
      BY <2>3 DEF Closes, Ends
    <3>2. p # q /\ j \in Opened /\ j # k /\ link[j] = "up" /\ toClient'[j] = toClient[j]
          /\ client[q] = j /\ button[q] = "Connecting"
      BY <1>1, <1>2, <3>1 DEF Opened, Types
    <3>3. Signalled(q, j) => Signalled(q, j)'
      BY <1>2, <1>6, <3>2, SessionWaits
    <3> QED
      BY <1>3, <3>1, <3>2, <3>3 DEF Ahead
  <2>4. ASSUME NEW p \in Process, NEW k \in Conn \ Opened, Opens(p, k)
        PROVE  Ahead(j)' \/ Signalled(q, j)'
    <3>1. /\ client' = [client EXCEPT ![p] = k] /\ Opened' = Opened \cup {k}
          /\ link' = [link EXCEPT ![k] = "up"] /\ In(toServer'[k]) = {Shake}
          /\ \A i \in Conn \ {k} : toServer'[i] = toServer[i]
          /\ button' = [button EXCEPT ![p] = "Connecting"]
          /\ UNCHANGED <<toClient, signals>>
      BY <2>4 DEF Opens
    <3>2. CASE j = k
      BY <3>1, <3>2 DEF Ahead
    <3>3. CASE j # k
      <4>1. p # q /\ j \in Opened /\ client[q] = j /\ link[j] = "up" /\ button[q] = "Connecting"
        BY <1>1, <1>2, <3>1, <3>3 DEF Types
      <4> QED
        BY <1>2, <1>3, <3>1, <3>3, <4>1 DEF Ahead, Signalled
    <3> QED
      BY <3>2, <3>3
  <2> QED
    BY <2>1, <2>2, <2>3, <2>4 DEF InterfaceMove
<1>7. CASE UNCHANGED vars
  <2>1. UNCHANGED <<processOf, link, toServer, toClient, client, signals, button>>
    BY <1>7 DEF vars, constantVars, networkVars, interfaceVars
  <2> QED
    BY <1>3, <2>1 DEF Ahead, Signalled, Opened
<1> QED
  BY <1>4, <1>5, <1>6, <1>7, ServerMoved, ClientMoved DEF Next

---------------------------------------------------------------------------
(* What the server makes of the music *)

\* Nothing of the music is added for j, nor taken from what it sent.
Hushed(j) == \E u \in Seq(ToClient) : toClient'[j] = toClient[j] \o u /\ In(u) \cap (Session \cup Music) = {}

Passed(j) ==
  \/ toServer'[j] = toServer[j]
  \/ toServer[j] # <<>> /\ Head(toServer[j]) \notin Music /\ toServer'[j] = Tail(toServer[j])

\* The server does something else.
Ignores ==
  /\ ServerMoves /\ tracker' = tracker
  /\ \A j \in Conn : link'[j] = "up" => link[j] = "up"
  /\ \A j \in Conn : users'[j] \in {"host", "guest"} => users'[j] = users[j] /\ Passed(j)
  /\ \A j \in Conn : Hushed(j) /\ In(toServer'[j]) \subseteq In(toServer[j])

\* It sends the session, with the music.
Introduces(k, s) ==
  /\ ServerMoves /\ tracker' = tracker /\ s.stream = tracker
  /\ UNCHANGED link
  /\ Shake \in In(toServer[k]) /\ k \in Live
  /\ In(toServer'[k]) \subseteq In(toServer[k])
  /\ users' = [users EXCEPT ![k] = attributedRole(k)]
  /\ toClient'[k] = IF link[k] = "up" THEN Append(toClient[k], s) ELSE toClient[k]
  /\ \A j \in Conn \ {k} : Hushed(j) /\ toServer'[j] = toServer[j]

\* What its tracker keeps of the music.
Minds(m) ==
  \/ m \in Urls /\ tracker' = m.state
  \/ m \in PlayingStates /\ \E over \in BOOLEAN : tracker' = updatePlayingState(tracker, m.isPlaying, over)
  \/ m = [method |-> "Position"] /\ tracker' = updatePosition(tracker)

\* It takes and relays the music.
Conducts(k, m) ==
  /\ ServerMoves /\ UNCHANGED <<link, users>>
  /\ toServer[k] # <<>> /\ m = Head(toServer[k]) /\ toServer'[k] = Tail(toServer[k])
  /\ m \in In(toServer[k]) /\ k \in Live
  /\ \A j \in Conn \ {k} : toServer'[j] = toServer[j]
  /\ \A j \in Conn :
       toClient'[j] = IF j \in Peers(k) /\ link[j] = "up" THEN Append(toClient[j], m) ELSE toClient[j]
  /\ Minds(m)

LEMMA HushedTold ==
  ASSUME Types, NEW X, ServerTells(X), NEW j \in Conn, X[j] \cap (Session \cup Music) = {}
  PROVE  Hushed(j)
<1>1. PICK u \in Seq(ToClient) :
        toClient'[j] = toClient[j] \o u /\ In(u) = IF link[j] = "up" THEN X[j] ELSE {}
  BY DEF ServerTells, Extended
<1> QED
  BY <1>1 DEF Hushed

LEMMA HushedSame ==
  ASSUME Types, NEW j \in Conn, toClient'[j] = toClient[j]
  PROVE  Hushed(j)
<1>1. toClient[j] \in Seq(ToClient) /\ <<>> \in Seq(ToClient)
  BY EmptySeq DEF Types
<1>2. toClient[j] \o <<>> = toClient[j] /\ In(<<>>) = {}
  BY <1>1, ConcatEmptySeq, InEmpty
<1> QED
  BY <1>1, <1>2 DEF Hushed

LEMMA RelayedInOrder ==
  ASSUME Types, NEW k \in Conn, NEW m \in ToClient, relay(k, m), NEW j \in Conn
  PROVE  toClient'[j] = IF j \in Peers(k) /\ link[j] = "up" THEN Append(toClient[j], m) ELSE toClient[j]
<1>1. toClient[j] \in Seq(ToClient)
  BY DEF Types
<1>2. toClient[j] \o <<m>> = Append(toClient[j], m) /\ toClient[j] \o <<>> = toClient[j]
  BY <1>1, AppendIsConcat, ConcatEmptySeq
<1>3. toClient'[j] = IF link[j] = "up" THEN toClient[j] \o (IF j \in Peers(k) THEN <<m>> ELSE <<>>)
                     ELSE toClient[j]
  BY DEF relay, ServerSends, ToAll
<1> QED
  BY <1>2, <1>3

LEMMA ServerPlayed ==
  ASSUME Base, ServerStep
  PROVE  \/ Ignores
         \/ \E k \in Conn, s \in Session : Introduces(k, s)
         \/ \E k \in Conn, m \in Music : Conducts(k, m)
<1>1. Types
  BY DEF Base
<1>2. ServerMoves
  BY DEF ServerStep, ServerMoves, constantVars, interfaceVars
<1>3. PICK k \in Conn :
        onNewConnection(k) \/ onClientSocketDisconnected(k) \/ onClientPayloadReceived(k)
  BY DEF ServerStep
<1>4. CASE onNewConnection(k)
  <2>1. /\ UNCHANGED <<networkVars, tracker>> /\ users' = [users EXCEPT ![k] = "new"]
        /\ \A j \in Conn : users'[j] \in {"host", "guest"} => users'[j] = users[j]
    BY <1>1, <1>4 DEF onNewConnection, Types
  <2> QED
    BY <1>1, <1>2, <2>1, HushedSame DEF Ignores, Passed, networkVars
<1>5. CASE onClientSocketDisconnected(k)
  <2>1. PICK out \in Message : ServerTells(ToSome(Peers(k), Asked(out)))
    BY <1>1, <1>5, Disconnected
  <2>2. \A j \in Conn : ToSome(Peers(k), Asked(out))[j] \cap (Session \cup Music) = {}
    BY SessionsApart DEF ToSome
  <2>3. \A j \in Conn : Hushed(j)
    BY <1>1, <2>1, <2>2, HushedTold
  <2>4. /\ link' = [link EXCEPT ![k] = "gone"] /\ users' = [users EXCEPT ![k] = "absent"]
        /\ toServer' = [toServer EXCEPT ![k] = <<>>] /\ tracker' = tracker
    BY <1>5 DEF onClientSocketDisconnected, usersWithout
  <2>5. \A j \in Conn : link'[j] = "up" => link[j] = "up"
    BY <1>1, <2>4 DEF Types
  <2>6. \A j \in Conn : users'[j] \in {"host", "guest"} =>
          users'[j] = users[j] /\ toServer'[j] = toServer[j]
    BY <1>1, <2>4 DEF Types
  <2>7. \A j \in Conn : toServer'[j] = toServer[j] \/ toServer'[j] = <<>>
    BY <1>1, <2>4 DEF Types
  <2>8. \A j \in Conn : In(toServer'[j]) \subseteq In(toServer[j])
    BY <2>7, InEmpty
  <2> QED
    BY <1>2, <2>3, <2>4, <2>5, <2>6, <2>8 DEF Ignores, Passed
<1>6. CASE onClientPayloadReceived(k)
  <2>1. PICK m \in ToServer : /\ m = Head(toServer[k]) /\ In(toServer[k]) = {m} \cup In(toServer'[k])
                              /\ Does(k, m)
    BY <1>1, <1>6, PayloadCases
  <2>2. /\ toServer[k] # <<>> /\ k \in Live /\ toServer'[k] = Tail(toServer[k])
        /\ \A j \in Conn \ {k} : toServer'[j] = toServer[j]
        /\ UNCHANGED link
    BY <1>1, <1>6, Handled
  <2>3. ASSUME m \notin Music, UNCHANGED <<users, tracker>>, NEW X, ServerTells(X),
               \A j \in Conn : X[j] \cap (Session \cup Music) = {}
        PROVE  Ignores
    <3>1. \A j \in Conn : Hushed(j)
      BY <1>1, <2>3, HushedTold
    <3>2. \A j \in Conn : Passed(j) /\ In(toServer'[j]) \subseteq In(toServer[j])
      BY <2>1, <2>2, <2>3 DEF Passed
    <3> QED
      BY <1>2, <2>2, <2>3, <3>1, <3>2 DEF Ignores
  <2>4. CASE m.method = "Handshake" /\ handshake(k)
    <3>1. PICK arrived \in Message, s \in Session :
            /\ s.stream = tracker
            /\ ServerTells([ToSome(Peers(k), Asked(arrived)) EXCEPT ![k] = {s}])
            /\ toClient'[k] = IF link[k] = "up" THEN Append(toClient[k], s) ELSE toClient[k]
      BY <1>1, <2>4, Handshaken
    <3> DEFINE t == [ToSome(Peers(k), Asked(arrived)) EXCEPT ![k] = {s}]
    <3>2. users' = [users EXCEPT ![k] = attributedRole(k)] /\ tracker' = tracker /\ m = Shake
      BY <2>1, <2>4, ToServerFields DEF handshake, Shake
    <3>3. \A j \in Conn \ {k} : t[j] \cap (Session \cup Music) = {}
      BY SessionsApart DEF ToSome
    <3> HIDE DEF t
    <3>4. ServerTells(t)
      BY <3>1 DEF t
    <3>5. \A j \in Conn \ {k} : Hushed(j)
      BY <1>1, <3>3, <3>4, HushedTold
    <3>6. Introduces(k, s)
      BY <1>2, <2>1, <2>2, <3>1, <3>2, <3>5 DEF Introduces
    <3> QED
      BY <3>6
  <2>5. CASE m.method = "Message" /\ m.message \in Message /\ interpretMessage(k, m.message)
    <3>1. PICK news \in SUBSET Message, whispered \in SUBSET Conn :
            ServerTells(Told(k, m.message, news, whispered))
      BY <1>1, <2>5, Interpreted
    <3>2. \A j \in Conn : Told(k, m.message, news, whispered)[j] \cap (Session \cup Music) = {}
      BY <2>5, SessionsApart DEF Told
    <3>3. m \notin Music /\ UNCHANGED <<users, tracker>>
      BY <2>5 DEF interpretMessage, Music
    <3> QED
      BY <2>3, <3>1, <3>2, <3>3
  <2>6. CASE m \in Music
    <3>1. m.method \in {"Url", "PlayingState", "Position"} /\ m \in ToClient
      BY <2>6, MusicIsSent DEF Music
    <3>2. /\ UNCHANGED users /\ relay(k, m)
          /\ \/ m.method = "Url" /\ tracker' = m.state
             \/ m.method = "PlayingState" /\ playStateChanged(m.isPlaying)
             \/ m.method = "Position" /\ tracker' = updatePosition(tracker)
      BY <1>6, <2>1, <3>1 DEF onClientPayloadReceived
    <3>3. Minds(m)
      BY <2>6, <3>2, MusicParts DEF Minds, playStateChanged, Urls, PlayingStates
    <3>4. \A j \in Conn :
            toClient'[j] = IF j \in Peers(k) /\ link[j] = "up" THEN Append(toClient[j], m)
                           ELSE toClient[j]
      BY <1>1, <3>1, <3>2, RelayedInOrder
    <3>5. Conducts(k, m)
      BY <1>2, <2>1, <2>2, <3>2, <3>3, <3>4 DEF Conducts
    <3> QED
      BY <2>6, <3>5
  <2>7. CASE /\ m.method = "DocAvailable" /\ m \in ToClient
             /\ ServerTells(ToSome(Peers(k), m)) /\ UNCHANGED serverVars
    <3>1. m \notin Session \cup Music /\ UNCHANGED <<users, tracker>>
      BY <2>7, SessionsApart DEF serverVars
    <3>2. \A j \in Conn : ToSome(Peers(k), m)[j] \cap (Session \cup Music) = {}
      BY <3>1 DEF ToSome
    <3> QED
      BY <2>3, <2>7, <3>1, <3>2
  <2>8. CASE /\ m.method = "DocRequested" /\ UNCHANGED serverVars
             /\ \E d \in ToClient : /\ d = [method |-> "Doc", hashes |-> {m.hash} \cap serverStore]
                                    /\ ServerTells(ToSome({k}, d))
    <3>1. PICK d \in ToClient : d.method = "Doc" /\ ServerTells(ToSome({k}, d))
      BY <2>8
    <3>2. d \notin Session \cup Music /\ m \notin Music /\ UNCHANGED <<users, tracker>>
      BY <2>8, <3>1, SessionsApart DEF Music, serverVars
    <3>3. \A j \in Conn : ToSome({k}, d)[j] \cap (Session \cup Music) = {}
      BY <3>2 DEF ToSome
    <3> QED
      BY <2>3, <3>1, <3>2, <3>3
  <2> QED
    BY <2>1, <2>4, <2>5, <2>6, <2>7, <2>8 DEF Does
<1> QED
  BY <1>3, <1>4, <1>5, <1>6

---------------------------------------------------------------------------
(* What the interface makes of the music *)

PositionTold == [method |-> "Position"]
UrlTold(s) == [method |-> "Url", state |-> s]
PlayTold(b) == [method |-> "PlayingState", isPlaying |-> b]

\* A player a is told of the state s, and becomes e: it plays it, or only keeps it.
Changed(a, e, s) ==
  \/ /\ s.started /\ e.state.started
     /\ e.state.url = s.url /\ e.state.playing = s.playing
     /\ e.heard = [url |-> s.url, on |-> "playing"]
     /\ ~s.playing => "paused" \in slips'
  \/ /\ e.state = s /\ e.heard = a.heard
     /\ a.heard.on # "stopped" \/ s.url # NoTrack => "over" \in slips'

\* It plays or pauses, or its position changes.
PlayChanged(a, e, b) ==
  /\ e.state.url = a.state.url /\ e.state.playing = b
  /\ e.state.started => a.state.started
  /\ e.heard = [url |-> a.heard.url, on |-> IF b THEN "playing" ELSE "paused"]
  /\ e.requested = a.requested

Sought(a, e) ==
  /\ e.state.url = a.state.url /\ e.state.playing = a.state.playing
  /\ e.heard = a.heard /\ e.requested = a.requested

\* What the one in charge tells.
Passes(p, x) == IF audio[p].master THEN ClientTells(p, x) ELSE toServer' = toServer

\* What users do with the music, and the end of a track.
Performs(p, a, e) ==
  \/ /\ inControl(a) /\ ~a.requested
     /\ e.state = a.state /\ e.heard = a.heard /\ e.requested
     /\ toServer' = toServer
  \/ /\ inControl(a) /\ a.heard.on \in {"playing", "paused"}
     /\ \E b \in BOOLEAN : PlayChanged(a, e, b) /\ Passes(p, PlayTold(b))
  \/ /\ inControl(a) /\ a.heard.on \in {"playing", "paused"}
     /\ Sought(a, e) /\ Passes(p, PositionTold)
  \/ /\ e.state.url \in Track /\ e.state.playing
     /\ e.heard = [url |-> e.state.url, on |-> "playing"] /\ ~e.requested
     /\ Passes(p, UrlTold(e.state))
     /\ button[p] = "Connected" /\ ~a.master => "untold" \in slips'
  \/ /\ inControl(a) /\ a.heard.on = "playing"
     /\ e.state.url = a.state.url /\ e.state.playing
     /\ e.heard = [url |-> e.state.url, on |-> "playing"] /\ e.requested = a.requested
     /\ Passes(p, UrlTold(e.state))
  \/ /\ inControl(a)
     /\ e.state = ClearedState /\ e.heard.on = "stopped" /\ e.requested
     /\ toServer' = toServer
  \/ /\ e.state = ClearedState /\ e.heard.on = "stopped" /\ "untold" \in slips'
     /\ toServer' = toServer
  \/ /\ ~inControl(a) /\ a.heard.on = "playing"
     /\ e.state = a.state /\ e.heard = [url |-> a.heard.url, on |-> "ended"]
     /\ e.requested = a.requested
     /\ toServer' = toServer

\* The first signal of p, which came by k, is taken.
Takes1(p, k, m) ==
  /\ signals[p] # <<>> /\ Head(signals[p]) = [conn |-> k, payload |-> m]
  /\ signals'[p] = Tail(signals[p])
  /\ \A q \in Process \ {p} : signals'[q] = signals[q]

Elsewhere(p) ==
  /\ UNCHANGED <<processOf, link, client, hostAble, toClient, users, tracker>>
  /\ \A q \in Process \ {p} : audio'[q] = audio[q]

OthersWait(p) == \A q \in Process \ {p} : signals'[q] = signals[q]

\* Nothing of the music.
Idles(p) ==
  /\ Elsewhere(p)
  /\ UNCHANGED <<audio, button>>
  /\ toServer' = toServer \/ \E x \in ToServer \ Music : ClientTells(p, x)
  /\ \/ UNCHANGED signals
     \/ \E k \in Opened : \E m : m \notin Session \cup Music /\ Takes1(p, k, m)

\* The session, with its music.
Joining(p, k, m) ==
  /\ Elsewhere(p)
  /\ k = client[p] /\ Takes1(p, k, m)
  /\ button' = [button EXCEPT ![p] = "Connected"]
  /\ audio'[p].requested = audio[p].requested
  /\ IF hostAble[p]
     THEN /\ ClientTells(p, UrlTold(audio[p].state))
          /\ m.host => audio'[p].state = audio[p].state /\ audio'[p].heard = audio[p].heard
     ELSE /\ toServer' = toServer
          /\ ~m.host => \E a : a.heard.on = "stopped" /\ Changed(a, audio'[p], m.stream)

\* Music that is told.
Hears(p, k, m) ==
  /\ Elsewhere(p)
  /\ k = client[p] /\ Takes1(p, k, m)
  /\ button' = button
  /\ button[p] # "Connected" => "early" \in slips'
  /\ \/ m \in Urls /\ Changed(audio[p], audio'[p], m.state) /\ toServer' = toServer
     \/ m \in PlayingStates /\ PlayChanged(audio[p], audio'[p], m.isPlaying) /\ toServer' = toServer
     \/ m = PositionTold /\ Sought(audio[p], audio'[p]) /\ Passes(p, PositionTold)

Acting(p) ==
  /\ Elsewhere(p)
  /\ UNCHANGED <<button, signals>>
  /\ Performs(p, audio[p], audio'[p])

LEMMA PassesTold ==
  ASSUME Types, NEW p \in Process, NEW x \in ToServer, tells(p, <<x>>)
  PROVE  Passes(p, x)
BY ClientSendsTells DEF Passes, tells

LEMMA StatesChange ==
  ASSUME NEW a \in Player, NEW s \in Tracker, NEW over \in BOOLEAN,
         slipsOf(a, s, over) \subseteq slips'
  PROVE  Changed(a, onAudioSourceStateChanged(a, s, over), s)
<1>1. CASE hasPosition(s, over)
  <2>1. ~s.playing => "paused" \in slips'
    BY <1>1 DEF slipsOf
  <2> QED
    BY <1>1, <2>1
       DEF Changed, onAudioSourceStateChanged, hasPosition, playAudio, updatePosition, Player, Tracker
<1>2. CASE ~hasPosition(s, over)
  <2>1. a.heard.on # "stopped" \/ s.url # NoTrack => "over" \in slips'
    BY <1>2 DEF slipsOf
  <2> QED
    BY <1>2, <2>1 DEF Changed, onAudioSourceStateChanged, Player, Tracker
<1> QED
  BY <1>1, <1>2

LEMMA PlayerChanges ==
  ASSUME NEW a \in Player, NEW b \in BOOLEAN, NEW over \in BOOLEAN
  PROVE  /\ PlayChanged(a, onAudioPlayStateChanged(a, b, over), b)
         /\ Sought(a, onSeekingRequested(a))
<1>1. PlayChanged(a, onAudioPlayStateChanged(a, b, over), b)
  BY DEF PlayChanged, onAudioPlayStateChanged, updatePlayingState, Player, Tracker, Sound
<1>2. Sought(a, onSeekingRequested(a))
  BY DEF Sought, onSeekingRequested, updatePosition, Player, Tracker, Sound
<1> QED
  BY <1>1, <1>2

LEMMA PlayerJoins ==
  ASSUME NEW a \in Player, NEW host \in BOOLEAN
  PROVE  LET j == streamOnSession(a, host) IN
         /\ host => j.state = a.state /\ j.heard = a.heard
         /\ ~host => j.heard.on = "stopped"
         /\ j.requested = a.requested
         /\ \A s, over : onAudioSourceStateChanged(j, s, over).requested = a.requested
BY DEF streamOnSession, stopPlayingMusic, onAudioSourceStateChanged, playAudio, updatePosition, Player,
       Sound

LEMMA PlayerPlays ==
  ASSUME NEW a \in Player, NEW e
  PROVE  /\ \A url \in Track : e = refreshed(a, url) =>
              /\ e.state.url = url /\ e.state.playing /\ ~e.requested
              /\ e.heard = [url |-> e.state.url, on |-> "playing"]
         /\ e = replayed(a) =>
              /\ e.state.url = a.state.url /\ e.state.playing /\ e.requested = a.requested
              /\ e.heard = [url |-> e.state.url, on |-> "playing"]
         /\ e = nextPlayed(a) => e.state = ClearedState /\ e.heard.on = "stopped" /\ e.requested
         /\ e = stopPlayingMusic(a) => e.state = ClearedState /\ e.heard.on = "stopped"
         /\ e = [a EXCEPT !.state = ClearedState, !.heard.on = "stopped"] =>
              e.state = ClearedState /\ e.heard.on = "stopped"
         /\ e = [a EXCEPT !.heard.on = "ended"] =>
              /\ e.state = a.state /\ e.heard = [url |-> a.heard.url, on |-> "ended"]
              /\ e.requested = a.requested
<1>1. ASSUME NEW url \in Track, e = refreshed(a, url)
      PROVE  /\ e.state.url = url /\ e.state.playing /\ ~e.requested
             /\ e.heard = [url |-> e.state.url, on |-> "playing"]
  BY <1>1 DEF refreshed, registerNewPlay, playAudio, updatePosition, Player, Tracker, Sound
<1>2. ASSUME e = replayed(a)
      PROVE  /\ e.state.url = a.state.url /\ e.state.playing /\ e.requested = a.requested
             /\ e.heard = [url |-> e.state.url, on |-> "playing"]
  BY <1>2 DEF replayed, registerReplay, playAudio, updatePosition, Player, Tracker, Sound
<1>3. ASSUME e = nextPlayed(a)
      PROVE  e.state = ClearedState /\ e.heard.on = "stopped" /\ e.requested
  BY <1>3 DEF nextPlayed, onPlayRequested, stopPlayingMusic, ClearedState, Player, Tracker, Sound
<1>4. ASSUME e = stopPlayingMusic(a)
      PROVE  e.state = ClearedState /\ e.heard.on = "stopped"
  BY <1>4 DEF stopPlayingMusic, ClearedState, Player, Tracker, Sound
<1>5. ASSUME e = [a EXCEPT !.state = ClearedState, !.heard.on = "stopped"]
      PROVE  e.state = ClearedState /\ e.heard.on = "stopped"
  BY <1>5 DEF ClearedState, Player, Tracker, Sound
<1>6. ASSUME e = [a EXCEPT !.heard.on = "ended"]
      PROVE  /\ e.state = a.state /\ e.heard = [url |-> a.heard.url, on |-> "ended"]
             /\ e.requested = a.requested
  BY <1>6 DEF Player, Tracker, Sound
<1> QED
  BY <1>1, <1>2, <1>3, <1>4, <1>5, <1>6

LEMMA Performed ==
  ASSUME Types, NEW p \in Process, musicAct(p)
  PROVE  Performs(p, audio[p], audio'[p])
<1>1. audio[p] \in Player /\ audio'[p] \in Player /\ audio \in [Process -> Player]
  BY MusicTold DEF Types
<1>2. PICK a \in Player, e \in Player : a = audio[p] /\ e = audio'[p]
  BY <1>1
<1> SUFFICES Performs(p, a, e)
  BY <1>2
<1>3. \A x : audio' = [audio EXCEPT ![p] = x] => e = x
  BY <1>1, <1>2
<1>4. /\ PositionTold \in ToServer /\ UrlTold(e.state) \in ToServer
      /\ \A b \in BOOLEAN : PlayTold(b) \in ToServer
  BY DEF PositionTold, UrlTold, PlayTold, ToServer, Music, Player
<1>5. CASE playTrack(p)
  <2>1. e = onPlayRequested(a) /\ inControl(a) /\ ~a.requested /\ toServer' = toServer
    BY <1>2, <1>3, <1>5 DEF playTrack
  <2>2. e.state = a.state /\ e.heard = a.heard /\ e.requested
    BY <2>1 DEF onPlayRequested, Player
  <2> QED
    BY <2>1, <2>2 DEF Performs
<1>6. CASE pauseOrPlay(p)
  <2>1. PICK b \in BOOLEAN, over \in BOOLEAN :
          /\ b = (a.heard.on = "paused")
          /\ audio' = [audio EXCEPT ![p] = onAudioPlayStateChanged(a, b, over)]
    BY <1>2, <1>6 DEF pauseOrPlay
  <2>2. inControl(a) /\ a.heard.on \in {"playing", "paused"} /\ tells(p, <<PlayTold(b)>>)
    BY <1>2, <1>6, <2>1 DEF pauseOrPlay, PlayTold
  <2>3. Passes(p, PlayTold(b))
    BY <1>4, <2>2, PassesTold
  <2>4. PlayChanged(a, e, b)
    BY <1>3, <2>1, PlayerChanges
  <2> QED
    BY <2>2, <2>3, <2>4 DEF Performs
<1>7. CASE seek(p)
  <2>1. e = onSeekingRequested(a) /\ inControl(a) /\ a.heard.on \in {"playing", "paused"}
        /\ tells(p, <<PositionTold>>)
    BY <1>2, <1>3, <1>7 DEF seek, PositionTold
  <2>2. Passes(p, PositionTold)
    BY <1>4, <2>1, PassesTold
  <2>3. Sought(a, e)
    BY <2>1, PlayerChanges
  <2> QED
    BY <2>1, <2>2, <2>3 DEF Performs
<1>8. CASE metadataRefreshed(p)
  <2>1. PICK url \in Track : audio' = [audio EXCEPT ![p] = refreshed(a, url)]
    BY <1>2, <1>8 DEF metadataRefreshed
  <2>2. tells(p, <<UrlTold(e.state)>>) /\ (button[p] = "Connected" /\ ~a.master => "untold" \in slips')
    BY <1>2, <1>8 DEF metadataRefreshed, urlTold, UrlTold
  <2>3. Passes(p, UrlTold(e.state))
    BY <1>4, <2>2, PassesTold
  <2>4. e = refreshed(a, url)
    BY <1>3, <2>1
  <2>5. /\ e.state.url = url /\ e.state.playing /\ ~e.requested
        /\ e.heard = [url |-> e.state.url, on |-> "playing"]
    BY <2>4, PlayerPlays
  <2> QED
    BY <2>2, <2>3, <2>5 DEF Performs
<1>9. CASE onStreamPlayEnded(p)
  <2>1. a.heard.on = "playing"
    BY <1>2, <1>9 DEF onStreamPlayEnded
  <2>2. PICK f : f = [a EXCEPT !.heard.on = "ended"]
    OBVIOUS
  <2>3. /\ f \in Player /\ f.state = a.state /\ f.heard = [url |-> a.heard.url, on |-> "ended"]
        /\ f.requested = a.requested
    <3>1. f \in Player
      BY <2>2, PlayerTypes
    <3> QED
      BY <2>2, <3>1 DEF Player, Tracker, Sound
  <2>4. \/ inControl(a) /\ audio' = [audio EXCEPT ![p] = replayed(f)] /\ tells(p, urlTold(p))
        \/ inControl(a) /\ audio' = [audio EXCEPT ![p] = nextPlayed(f)] /\ toServer' = toServer
        \/ audio' = [audio EXCEPT ![p] = stopPlayingMusic(f)] /\ "untold" \in slips' /\ toServer' = toServer
        \/ ~inControl(a) /\ audio' = [audio EXCEPT ![p] = f] /\ toServer' = toServer
    BY <1>2, <1>9, <2>2 DEF onStreamPlayEnded
  <2>5. \/ inControl(a) /\ e = replayed(f) /\ tells(p, <<UrlTold(e.state)>>)
        \/ inControl(a) /\ e = nextPlayed(f) /\ toServer' = toServer
        \/ e = stopPlayingMusic(f) /\ "untold" \in slips' /\ toServer' = toServer
        \/ ~inControl(a) /\ e = f /\ toServer' = toServer
    BY <1>2, <1>3, <2>4 DEF urlTold, UrlTold
  <2>6. CASE inControl(a) /\ e = replayed(f) /\ tells(p, <<UrlTold(e.state)>>)
    <3>1. Passes(p, UrlTold(e.state))
      BY <1>4, <2>6, PassesTold
    <3>2. /\ e.state.url = f.state.url /\ e.state.playing /\ e.requested = f.requested
          /\ e.heard = [url |-> e.state.url, on |-> "playing"]
      BY <2>3, <2>6, PlayerPlays
    <3> QED
      BY <2>1, <2>3, <2>6, <3>1, <3>2 DEF Performs
  <2>7. CASE inControl(a) /\ e = nextPlayed(f) /\ toServer' = toServer
    <3>1. e.state = ClearedState /\ e.heard.on = "stopped" /\ e.requested
      BY <2>3, <2>7, PlayerPlays
    <3> QED
      BY <2>7, <3>1 DEF Performs
  <2>8. CASE e = stopPlayingMusic(f) /\ "untold" \in slips' /\ toServer' = toServer
    <3>1. e.state = ClearedState /\ e.heard.on = "stopped"
      BY <2>3, <2>8, PlayerPlays
    <3> QED
      BY <2>8, <3>1 DEF Performs
  <2>9. CASE ~inControl(a) /\ e = f /\ toServer' = toServer
    BY <2>1, <2>3, <2>9 DEF Performs
  <2> QED
    BY <2>5, <2>6, <2>7, <2>8, <2>9
<1>10. CASE onStreamError(p)
  <2>1. e = [a EXCEPT !.state = ClearedState, !.heard.on = "stopped"]
    <3>1. audio' = [audio EXCEPT ![p] = [a EXCEPT !.state = ClearedState, !.heard.on = "stopped"]]
      BY <1>2, <1>10 DEF onStreamError
    <3> QED
      BY <1>3, <3>1
  <2>2. "untold" \in slips' /\ toServer' = toServer
    BY <1>10 DEF onStreamError
  <2>3. e.state = ClearedState /\ e.heard.on = "stopped"
    BY <2>1, PlayerPlays
  <2> QED
    BY <2>2, <2>3 DEF Performs
<1> QED
  BY <1>5, <1>6, <1>7, <1>8, <1>9, <1>10 DEF musicAct

LEMMA SessionJoined ==
  ASSUME Base, NEW p \in Process, NEW k, NEW m \in Session, onGameSessionReceived(p, m),
         Takes1(p, k, m), k = client[p],
         UNCHANGED <<processOf, link, client, hostAble, toClient, users, tracker>>
  PROVE  Joining(p, k, m)
<1> DEFINE j == streamOnSession(audio[p], hostAble[p])
           e == audio'[p]
<1>1. audio[p] \in Player /\ hostAble[p] \in BOOLEAN /\ audio \in [Process -> Player]
      /\ m.stream \in Tracker /\ m.host \in BOOLEAN
  BY DEF Base, Types, Session
<1>2. j \in Player
  BY <1>1, PlayerStateTypes, ClearedType
<1>3. PICK over \in BOOLEAN :
        /\ audio' = [audio EXCEPT ![p] =
                       IF ~m.host THEN onAudioSourceStateChanged(j, m.stream, over) ELSE j]
        /\ slips' = slipsBefore(p) \cup (IF ~m.host THEN slipsOf(j, m.stream, over) ELSE {})
  BY DEF onGameSessionReceived
<1>4. button' = [button EXCEPT ![p] = "Connected"]
  BY DEF onGameSessionReceived
<1>5. /\ hostAble[p] => j.state = audio[p].state /\ j.heard = audio[p].heard
      /\ ~hostAble[p] => j.heard.on = "stopped"
      /\ j.requested = audio[p].requested
      /\ onAudioSourceStateChanged(j, m.stream, over).requested = audio[p].requested
  BY <1>1, PlayerJoins
<1>6. IF hostAble[p] THEN ClientSends(p, <<UrlTold(j.state)>>) ELSE toServer' = toServer
  BY DEF onGameSessionReceived, UrlTold
<1> HIDE DEF j
<1>7. e = IF ~m.host THEN onAudioSourceStateChanged(j, m.stream, over) ELSE j
  BY <1>1, <1>3
<1>8. \A q \in Process \ {p} : audio'[q] = audio[q]
  BY <1>1, <1>3
<1>9. ~m.host => Changed(j, e, m.stream)
  BY <1>1, <1>2, <1>3, <1>7, StatesChange
<1>10. UrlTold(j.state) \in ToServer
  BY <1>2 DEF UrlTold, ToServer, Music, Player
<1>11. hostAble[p] => ClientTells(p, UrlTold(audio[p].state))
  BY <1>5, <1>6, <1>10, ClientSendsTells DEF Base
<1>12. e.requested = audio[p].requested
  BY <1>5, <1>7
<1>13. hostAble[p] /\ m.host => e.state = audio[p].state /\ e.heard = audio[p].heard
  BY <1>5, <1>7
<1>14. ~hostAble[p] /\ ~m.host => \E a : a.heard.on = "stopped" /\ Changed(a, e, m.stream)
  BY <1>5, <1>9
<1>15. Elsewhere(p)
  BY <1>8 DEF Elsewhere
<1> QED
  BY <1>4, <1>6, <1>11, <1>12, <1>13, <1>14, <1>15 DEF Joining

LEMMA MusicHeard ==
  ASSUME Base, NEW p \in Process, NEW k, NEW m \in ToClient, onAudioSignal(p, m),
         Takes1(p, k, m), k = client[p],
         UNCHANGED <<processOf, link, client, hostAble, toClient, users, tracker>>
  PROVE  Hears(p, k, m) /\ m \in Music
<1>1. audio[p] \in Player /\ audio \in [Process -> Player]
  BY DEF Base, Types
<1>2. button' = button /\ slipsBeforeMusic(p) \subseteq slips'
  BY MusicReceived
<1>3. button[p] # "Connected" => "early" \in slips'
  BY <1>2 DEF slipsBeforeMusic
<1>4. m \in Music /\ m.method \in {"Url", "PlayingState", "Position"}
  BY ToClientMusic DEF onAudioSignal
<1>5. CASE m.method = "Url"
  <2>1. PICK over \in BOOLEAN :
          /\ audio' = [audio EXCEPT ![p] = onAudioSourceStateChanged(@, m.state, over)]
          /\ slips' = slipsBeforeMusic(p) \cup slipsOf(audio[p], m.state, over)
    BY <1>5 DEF onAudioSignal
  <2>2. m.state \in Tracker /\ m \in Urls /\ toServer' = toServer
    BY <1>4, <1>5 DEF Music, Urls, onAudioSignal
  <2>3. Changed(audio[p], audio'[p], m.state)
    <3>1. audio'[p] = onAudioSourceStateChanged(audio[p], m.state, over)
      BY <1>1, <2>1
    <3>2. slipsOf(audio[p], m.state, over) \subseteq slips'
      BY <2>1
    <3> QED
      BY <1>1, <2>2, <3>1, <3>2, StatesChange
  <2>4. \A q \in Process \ {p} : audio'[q] = audio[q]
    BY <1>1, <2>1
  <2> QED
    BY <1>2, <1>3, <1>4, <2>2, <2>3, <2>4 DEF Hears, Elsewhere
<1>6. CASE m.method = "PlayingState"
  <2>1. PICK over \in BOOLEAN :
          audio' = [audio EXCEPT ![p] = onAudioPlayStateChanged(@, m.isPlaying, over)]
    BY <1>6 DEF onAudioSignal
  <2>2. m.isPlaying \in BOOLEAN /\ m \in PlayingStates /\ toServer' = toServer
    BY <1>4, <1>6 DEF Music, PlayingStates, onAudioSignal
  <2>3. PlayChanged(audio[p], audio'[p], m.isPlaying)
    BY <1>1, <2>1, <2>2, PlayerChanges
  <2>4. \A q \in Process \ {p} : audio'[q] = audio[q]
    BY <1>1, <2>1
  <2> QED
    BY <1>2, <1>3, <1>4, <2>2, <2>3, <2>4 DEF Hears, Elsewhere
<1>7. CASE m.method = "Position"
  <2>1. audio' = [audio EXCEPT ![p] = onSeekingRequested(@)] /\ tells(p, <<PositionTold>>)
    BY <1>7 DEF onAudioSignal, PositionTold
  <2>2. m = PositionTold /\ PositionTold \in ToServer
    BY <1>4, <1>7 DEF Music, PositionTold, ToServer
  <2>3. Passes(p, PositionTold)
    BY <2>1, <2>2, PassesTold DEF Base
  <2>4. Sought(audio[p], audio'[p])
    BY <1>1, <2>1, PlayerChanges
  <2>5. \A q \in Process \ {p} : audio'[q] = audio[q]
    BY <1>1, <2>1
  <2> QED
    BY <1>2, <1>3, <1>4, <2>2, <2>3, <2>4, <2>5 DEF Hears, Elsewhere
<1> QED
  BY <1>4, <1>5, <1>6, <1>7

\* What the interface does, when no signal comes from a connection that had ended.
LEMMA InterfacePlayed ==
  ASSUME Base, InterfaceStep, [Next]_vars, "late" \notin slips'
  PROVE  \/ \E p \in Process :
              \/ Idles(p) \/ Acting(p)
              \/ \E k \in Opened : \E m \in Session : Joining(p, k, m)
              \/ \E k \in Opened : \E m \in Music : Hears(p, k, m)
              \/ \E k \in Opened : Closes(p, k) /\ tracker' = tracker /\ OthersWait(p)
              \/ \E k \in Conn \ Opened : Opens(p, k) /\ tracker' = tracker
<1>1. Types /\ UNCHANGED <<users, tracker>>
  BY DEF Base, InterfaceStep, serverVars
<1>2. slips \subseteq slips'
  BY SlipsGrow
<1>3. PICK p \in Process :
        \/ bindObservedClient(p) \/ onConnectButtonPressed(p)
        \/ sendMessage(p) \/ musicAct(p)
        \/ dropEvent(p) \/ onItemDoubleClick(p)
        \/ onSignal(p)
  BY DEF InterfaceStep, musicAct
<1>4. UNCHANGED signals => Takings
  BY <1>1 DEF Takings, Types
<1>5. ASSUME endClient(p), UNCHANGED <<processOf, toServer>>, Takings, client[p] # NoConn
      PROVE  \E k \in Opened : Closes(p, k)
  <2>1. PICK k \in Opened : Ends(p, k)
    BY <1>5, Ended
  <2> QED
    BY <1>1, <1>5, <2>1 DEF Closes
<1>6. CASE bindObservedClient(p)
  <2>1. PICK k \in Conn \ Opened :
          /\ Opened' = Opened \cup {k}
          /\ processOf'[k] = p /\ \A j \in Opened : processOf'[j] = processOf[j]
          /\ link' = [link EXCEPT ![k] = "up"]
          /\ toServer'[k] = <<[method |-> "Handshake"]>>
          /\ In(toServer'[k]) = {[method |-> "Handshake"]}
          /\ \A j \in Conn \ {k} : toServer'[j] = toServer[j]
          /\ client' = [client EXCEPT ![p] = k]
    BY <1>6, Bound
  <2>2. button[p] = "NotConnected" /\ client[p] = NoConn
    BY <1>6 DEF bindObservedClient, Base, Connections
  <2>3. link[k] = "idle"
    BY <2>1 DEF Base, Connections
  <2>4. Opens(p, k)
    BY <1>1, <1>6, <2>1, <2>2, <2>3 DEF bindObservedClient, Opens, Shake
  <2> QED
    BY <1>1, <2>1, <2>4
<1>7. CASE onConnectButtonPressed(p)
  <2>1. client[p] # NoConn
    BY <1>2, <1>7 DEF onConnectButtonPressed, Base, Connections
  <2>2. UNCHANGED signals
    BY <1>7 DEF onConnectButtonPressed
  <2> QED
    BY <1>1, <1>4, <1>5, <1>7, <2>1, <2>2 DEF onConnectButtonPressed, OthersWait
<1>8. ASSUME UNCHANGED <<processOf, link, client, hostAble, toClient, button, audio, signals>>,
             toServer' = toServer \/ \E x \in ToServer \ Music : ClientTells(p, x)
      PROVE  Idles(p)
  BY <1>1, <1>8 DEF Idles, Elsewhere
<1>9. CASE sendMessage(p)
  <2>1. PICK m \in Message :
          /\ toServer' = toServer \/ ClientTells(p, Asked(m))
          /\ UNCHANGED <<link, toClient, client, hostAble, signals, button, audio, processOf>>
    BY <1>9, Said
  <2>2. Asked(m) \in ToServer \ Music
    BY MessageSent, SessionsApart DEF Asked
  <2> QED
    BY <1>8, <2>1, <2>2
<1>10. CASE musicAct(p)
  <2>1. /\ audio' = [audio EXCEPT ![p] = audio'[p]]
        /\ UNCHANGED <<processOf, link, toClient, client, hostAble, signals, button>>
    BY <1>1, <1>10, MusicTold
  <2>2. \A q \in Process \ {p} : audio'[q] = audio[q]
    <3>1. PICK a : audio' = [audio EXCEPT ![p] = a]
      BY <2>1
    <3> QED
      BY <1>1, <3>1 DEF Types
  <2>3. Performs(p, audio[p], audio'[p])
    BY <1>1, <1>10, Performed
  <2>4. Acting(p)
    BY <1>1, <2>1, <2>2, <2>3 DEF Acting, Elsewhere
  <2> QED
    BY <2>4
<1>11. CASE dropEvent(p)
  <2>1. PICK d \in Document :
          /\ toServer' = toServer \/ ClientTells(p, [method |-> "DocAvailable", hash |-> d])
          /\ UNCHANGED <<link, toClient, client, hostAble, signals, button, audio, processOf>>
    BY <1>11, Dropped
  <2>2. [method |-> "DocAvailable", hash |-> d] \in ToServer
    BY DEF ToServer
  <2>3. [method |-> "DocAvailable", hash |-> d] \notin Music
    BY DEF Music
  <2> QED
    BY <1>8, <2>1, <2>2, <2>3
<1>12. CASE onItemDoubleClick(p)
  <2>1. PICK d \in Document :
          /\ ClientTells(p, [method |-> "DocRequested", hash |-> d])
          /\ UNCHANGED <<link, toClient, client, hostAble, signals, button, audio, processOf>>
    BY <1>12, DocAsked
  <2>2. [method |-> "DocRequested", hash |-> d] \in ToServer
    BY DEF ToServer
  <2>3. [method |-> "DocRequested", hash |-> d] \notin Music
    BY DEF Music
  <2> QED
    BY <1>8, <2>1, <2>2, <2>3
<1>13. CASE onSignal(p)
  <2>1. PICK k \in Opened, m \in ToClient \cup [method : {"Ended"}] : Takes(p, k, m) /\ Shows(p, m)
    BY <1>13, SignalCases
  <2>2. /\ Takings /\ UNCHANGED processOf /\ Takes1(p, k, m)
    <3>1. \A q \in Process \ {p} : signals'[q] = signals[q]
      BY <1>13, SignalTaken
    <3> QED
      BY <1>13, <2>1, <3>1, TakenSignal DEF Takes, Takes1
  <2>3. slipsBefore(p) \subseteq slips' => k = client[p]
    BY <2>1 DEF Takes, slipsBefore
  <2>4. CASE m \in Session /\ onGameSessionReceived(p, m) /\ UNCHANGED <<link, toClient, client, hostAble>>
    <3>1. k = client[p]
      BY <2>3, <2>4, Joins
    <3> QED
      BY <1>1, <2>2, <2>4, <3>1, SessionJoined
  <2>5. CASE m \in ToClient /\ onAudioSignal(p, m) /\ UNCHANGED <<link, toClient, client, hostAble>>
    <3>1. slipsBeforeMusic(p) \subseteq slips'
      BY <2>5, MusicReceived
    <3>2. k = client[p]
      BY <2>3, <3>1 DEF slipsBeforeMusic
    <3> QED
      BY <1>1, <2>2, <2>5, <3>2, MusicHeard
  <2>6. CASE m \in ToClient /\ (onChatSignal(p, m) \/ onDocumentSignal(p, m))
             /\ UNCHANGED <<link, toClient, client, hostAble>>
    <3>1. UNCHANGED <<toServer, button, audio>>
      BY <2>6, ChatReceived, DocumentReceived
    <3>2. m \notin Session \cup Music
      BY <2>6, SessionsApart DEF onChatSignal, onDocumentSignal
    <3>3. Idles(p)
      BY <1>1, <2>2, <2>6, <3>1, <3>2 DEF Idles, Elsewhere
    <3> QED
      BY <3>3
  <2>7. CASE m.method = "Ended" /\ endClient(p) /\ UNCHANGED toServer
    <3>1. slipsBefore(p) \subseteq slips'
      BY <2>1, <2>7, ToClientFields DEF Shows
    <3>2. client[p] # NoConn
      BY <2>3, <3>1, ConnFacts
    <3> QED
      BY <1>1, <1>5, <2>2, <2>7, <3>2 DEF OthersWait, Takes1
  <2> QED
    BY <2>1, <2>4, <2>5, <2>6, <2>7 DEF Shows
<1> QED
  BY <1>3, <1>6, <1>7, <1>9, <1>10, <1>11, <1>12, <1>13

---------------------------------------------------------------------------
(* Host, server and guests agree, once what is said is heard *)

\* What is known of the roles.
Staged == /\ Base /\ Greetings /\ Hosting /\ Mastering /\ HostMusic /\ InCharge /\ Awaited
          /\ "late" \notin slips

LEMMA HostStaged ==
  ASSUME Staged, NEW q \in Process, NEW j \in Opened,
         client[q] = j, link[j] = "up", button[q] = "Connected"
  PROVE  /\ j \in Conn /\ ~Ahead(j)
         /\ j \in Host => /\ audio[q].master /\ hostAble[q]
                          /\ In(signals[q]) \cap Of(j, Music) = {}
         /\ j \notin Host => ~inControl(audio[q]) /\ ~audio[q].master
<1>1. j \in Conn /\ client[q] # NoConn
  BY ConnFacts DEF Staged
<1>2. ~Ahead(j) /\ (hostAble[q] <=> j \in Host) /\ ~audio[q].localOnly
  BY <1>1 DEF Staged, Mastering, Mastered, Base, Connections
<1>3. audio[q].master <=> hostAble[q]
  BY <1>1 DEF Staged, Mastering, Mastered, InCharge
<1>4. HostHears(q, j)
  BY DEF Staged, HostMusic
<1> QED
  BY <1>1, <1>2, <1>3, <1>4 DEF HostHears, inControl

LEMMA GuestStaged ==
  ASSUME Staged, NEW q \in Process, NEW j \in Opened, Follows(q, j), button[q] # "Connected"
  PROVE  In(toClient[j]) \cap Session # {} \/ Signalled(q, j)
<1>1. j \in Conn /\ client[q] # NoConn /\ button[q] \in {"NotConnected", "Connecting", "Connected"}
  BY ConnFacts DEF Staged, Base, Types, Follows
<1>2. button[q] = "Connecting"
  BY <1>1 DEF Staged, Base, Connections
<1>3. Ahead(j) \/ Signalled(q, j)
  BY <1>2 DEF Staged, Awaited, Follows
<1>4. j \in Named
  BY <1>1 DEF Follows, Named
<1>5. Shake \notin In(toServer[j])
  BY <1>1, <1>4 DEF Staged, Greetings
<1> QED
  BY <1>3, <1>5 DEF Ahead

\* Two processes have two connections.
LEMMA ClientsApart ==
  ASSUME Base, NEW p \in Process, NEW q \in Process, client[p] = client[q], client[q] # NoConn
  PROVE  p = q
BY DEF Base, Connections

LEMMA SpeaksSent ==
  ASSUME NEW c \in Aspect
  PROVE  /\ \A x \in ToServer \ Music : x \notin Speaks(c)
         /\ \A x : x \notin Session \cup Music => x \notin Speaks(c)
<1>1. \A x \in ToServer : x \notin Session
  BY DEF ToServer, Music, Session
<1> QED
  BY <1>1, SpeaksParts

\* What the tracker keeps is what is said.
LEMMA MindsSays ==
  ASSUME Types, NEW m \in Music, Minds(m), NEW c \in Aspect
  PROVE  /\ m \notin Speaks(c) => aspect(tracker', c) = aspect(tracker, c)
         /\ m \in Speaks(c) => \A v : m \in Says(c, v) <=> aspect(tracker', c) = v
<1>1. tracker \in Tracker
  BY DEF Types
<1>2. CASE m \in Urls /\ tracker' = m.state
  <2>1. m \in Speaks(c)
    BY <1>2, SpeaksParts
  <2>2. \A v : m \in Says(c, v) <=> aspect(m.state, c) = v
    BY <1>2, SaysParts
  <2> QED
    BY <1>2, <2>1, <2>2
<1>3. CASE m \in PlayingStates /\ \E over \in BOOLEAN :
             tracker' = updatePlayingState(tracker, m.isPlaying, over)
  <2>1. tracker'.url = tracker.url /\ tracker'.playing = m.isPlaying
    BY <1>1, <1>3 DEF updatePlayingState, Tracker, PlayingStates
  <2>2. m \in Speaks(c) <=> c = "playing"
    BY <1>3, SpeaksParts
  <2>3. \A v : m \in Says(c, v) <=> c = "playing" /\ m.isPlaying = v
    BY <1>3, SaysParts
  <2> QED
    BY <2>1, <2>2, <2>3 DEF Aspect, aspect
<1>4. CASE m = [method |-> "Position"] /\ tracker' = updatePosition(tracker)
  <2>1. tracker'.url = tracker.url /\ tracker'.playing = tracker.playing
    BY <1>1, <1>4 DEF updatePosition, Tracker
  <2>2. m \notin Speaks(c)
    BY <1>4, SpeaksParts
  <2> QED
    BY <2>1, <2>2 DEF aspect
<1> QED
  BY <1>2, <1>3, <1>4 DEF Minds

LEMMA TunedServer ==
  ASSUME Staged, Tuned, "untold" \notin slips, ServerStep,
         NEW q \in Process, NEW j \in Opened, NEW c \in Aspect
  PROVE  TunedAt(q, j, c)'
<1>1. Types /\ Base /\ j \in Conn /\ TunedAt(q, j, c)
  BY ConnFacts DEF Staged, Base, Tuned
<1>2. toServer[j] \in Seq(ToServer) /\ toClient[j] \in Seq(ToClient)
  BY <1>1 DEF Types
<1>3. ASSUME Hushed(j), tracker' = tracker, UNCHANGED <<signals, audio>>,
             GuestTuned(q, j, c, aspect(tracker, c))
      PROVE  GuestTuned(q, j, c, aspect(tracker, c))'
  <2>1. PICK u \in Seq(ToClient) : toClient'[j] = toClient[j] \o u /\ In(u) \cap (Session \cup Music) = {}
    BY <1>3 DEF Hushed
  <2>2. In(u) \cap Speaks(c) = {}
    BY <2>1, SpeaksParts
  <2>3. LastIn(toClient[j], Speaks(c), Says(c, aspect(tracker, c)), Heard(q, j, c, aspect(tracker, c)))
    BY <1>3 DEF GuestTuned
  <2>4. LastIn(toClient'[j], Speaks(c), Says(c, aspect(tracker, c)), Heard(q, j, c, aspect(tracker, c)))
    BY <1>2, <2>1, <2>2, <2>3, LastConcat
  <2> QED
    BY <1>3, <2>4 DEF GuestTuned, Heard
<1>4. CASE Ignores
  <2>1. /\ ServerMoves /\ tracker' = tracker /\ Hushed(j)
        /\ link'[j] = "up" => link[j] = "up"
        /\ users'[j] \in {"host", "guest"} => users'[j] = users[j] /\ Passed(j)
    BY <1>1, <1>4 DEF Ignores
  <2>2. ASSUME Tells(q, j)'
        PROVE  HostTuned(q, j, c)'
    <3>1. users'[j] = "host"
      BY <1>1, <2>2 DEF Tells, Host
    <3>2. Tells(q, j) /\ Passed(j)
      BY <1>1, <2>1, <2>2, <3>1 DEF Tells, Host, ServerMoves
    <3>3. LastIn(toServer[j], Speaks(c), Says(c, aspect(audio[q].state, c)),
                 aspect(tracker, c) = aspect(audio[q].state, c))
      BY <1>1, <3>2 DEF TunedAt, HostTuned
    <3>4. CASE toServer'[j] = toServer[j]
      BY <2>1, <3>3, <3>4 DEF HostTuned, ServerMoves
    <3>5. CASE toServer[j] # <<>> /\ Head(toServer[j]) \notin Music /\ toServer'[j] = Tail(toServer[j])
      <4>1. Head(toServer[j]) \in ToServer
        BY <1>2, <3>5, HeadTailProperties
      <4>2. Head(toServer[j]) \notin Speaks(c) /\ Head(toServer[j]) \notin Says(c, aspect(audio[q].state, c))
        BY <3>5, <4>1, SpeaksSent, SaysParts
      <4>3. LastIn(toServer'[j], Speaks(c), Says(c, aspect(audio[q].state, c)),
                   aspect(tracker, c) = aspect(audio[q].state, c))
        BY <1>2, <3>3, <3>5, <4>2, LastTail
      <4> QED
        BY <2>1, <4>3 DEF HostTuned, ServerMoves
    <3> QED
      BY <3>2, <3>4, <3>5 DEF Passed
  <2>3. ASSUME Follows(q, j)'
        PROVE  GuestTuned(q, j, c, aspect(tracker, c))'
    <3>1. Follows(q, j)
      BY <2>1, <2>3 DEF Follows, ServerMoves
    <3> QED
      BY <1>1, <1>3, <2>1, <3>1 DEF TunedAt, ServerMoves
  <2> QED
    BY <2>2, <2>3 DEF TunedAt
<1>5. ASSUME NEW k \in Conn, NEW s \in Session, Introduces(k, s)
      PROVE  TunedAt(q, j, c)'
  <2>1. ServerMoves /\ UNCHANGED <<tracker, link>> /\ s.stream = tracker
    BY <1>5 DEF Introduces
  <2>2. CASE j # k
    <3>1. users'[j] = users[j] /\ toServer'[j] = toServer[j] /\ Hushed(j)
      BY <1>1, <1>5, <2>2 DEF Introduces, Types
    <3>2. Follows(q, j)' => GuestTuned(q, j, c, aspect(tracker, c))'
      BY <1>1, <1>3, <2>1, <3>1 DEF TunedAt, Follows, ServerMoves
    <3>3. Tells(q, j)' => HostTuned(q, j, c)'
      BY <1>1, <2>1, <3>1 DEF TunedAt, Tells, Host, HostTuned, ServerMoves
    <3> QED
      BY <3>2, <3>3 DEF TunedAt
  <2>3. CASE j = k
    <3>1. ~Tells(q, j)'
      <4>1. Ahead(j)
        BY <1>5, <2>3 DEF Introduces, Ahead
      <4>2. ~(client[q] = j /\ link[j] = "up" /\ button[q] = "Connected")
        BY <4>1, HostStaged
      <4> QED
        BY <2>1, <4>2 DEF Tells, ServerMoves
    <3>2. ASSUME Follows(q, j)'
          PROVE  GuestTuned(q, j, c, aspect(tracker, c))'
      <4>1. toClient'[j] = Append(toClient[j], s)
        BY <1>5, <2>1, <2>3, <3>2 DEF Follows, Introduces
      <4>2. s \in Speaks(c) /\ s \in Says(c, aspect(tracker, c)) /\ s \in ToClient
        BY <2>1, SpeaksParts, SaysParts DEF ToClient
      <4>3. LastIn(toClient'[j], Speaks(c), Says(c, aspect(tracker, c)), Heard(q, j, c, aspect(tracker, c))')
        BY <1>2, <4>1, <4>2, LastAppend
      <4> QED
        BY <2>1, <4>3 DEF GuestTuned
    <3> QED
      BY <3>1, <3>2 DEF TunedAt
  <2> QED
    BY <2>2, <2>3
<1>6. ASSUME NEW k \in Conn, NEW m \in Music, Conducts(k, m)
      PROVE  TunedAt(q, j, c)'
  <2>1. ServerMoves /\ UNCHANGED <<link, users>> /\ Minds(m) /\ k \in Host
    BY <1>6 DEF Conducts, Staged, HostMusic
  <2>2. /\ m \notin Speaks(c) => aspect(tracker', c) = aspect(tracker, c)
        /\ m \in Speaks(c) => \A v : m \in Says(c, v) <=> aspect(tracker', c) = v
    BY <1>1, <2>1, MindsSays
  <2>3. ASSUME Tells(q, j)'
        PROVE  HostTuned(q, j, c)'
    <3>1. Tells(q, j) /\ j = k
      BY <2>1, <2>3 DEF Tells, Host, ServerMoves, Staged, Hosting
    <3>2. LastIn(toServer[j], Speaks(c), Says(c, aspect(audio[q].state, c)),
                 aspect(tracker, c) = aspect(audio[q].state, c))
      BY <1>1, <3>1 DEF TunedAt, HostTuned
    <3>3. toServer[j] # <<>> /\ Head(toServer[j]) = m /\ toServer'[j] = Tail(toServer[j])
      BY <1>6, <3>1 DEF Conducts
    <3>4. LastIn(toServer'[j], Speaks(c), Says(c, aspect(audio[q].state, c)),
                 aspect(tracker', c) = aspect(audio[q].state, c))
      <4> DEFINE v == aspect(audio[q].state, c)
      <4> HIDE DEF v
      <4>1. /\ m \notin Speaks(c) /\ aspect(tracker, c) = v => aspect(tracker', c) = v
            /\ m \in Speaks(c) /\ m \in Says(c, v) => aspect(tracker', c) = v
        BY <2>2
      <4>2. LastIn(toServer[j], Speaks(c), Says(c, v), aspect(tracker, c) = v)
        BY <3>2 DEF v
      <4>3. LastIn(toServer'[j], Speaks(c), Says(c, v), aspect(tracker', c) = v)
        BY <1>2, <3>3, <4>1, <4>2, LastTail
      <4> QED
        BY <4>3 DEF v
    <3> QED
      BY <2>1, <3>4 DEF HostTuned, ServerMoves
  <2>4. ASSUME Follows(q, j)'
        PROVE  GuestTuned(q, j, c, aspect(tracker, c))'
    <3>1. Follows(q, j) /\ j # k /\ link[j] = "up" /\ j \in Peers(k)
      BY <1>1, <2>1, <2>4 DEF Follows, ServerMoves, Host, Peers, Live
    <3>2. toClient'[j] = Append(toClient[j], m) /\ m \in ToClient
      BY <1>1, <1>6, <3>1, MusicIsSent DEF Conducts
    <3>3. LastIn(toClient[j], Speaks(c), Says(c, aspect(tracker, c)), Heard(q, j, c, aspect(tracker, c)))
      BY <1>1, <3>1 DEF TunedAt, GuestTuned
    <3>4. CASE m \in Speaks(c)
      <4>1. m \in Says(c, aspect(tracker', c))
        BY <2>2, <3>4
      <4>2. LastIn(toClient'[j], Speaks(c), Says(c, aspect(tracker', c)), Heard(q, j, c, aspect(tracker, c))')
        BY <1>2, <3>2, <3>4, <4>1, LastAppend
      <4> QED
        BY <4>2 DEF GuestTuned
    <3>5. CASE m \notin Speaks(c)
      <4>1. LastIn(toClient'[j], Speaks(c), Says(c, aspect(tracker, c)), Heard(q, j, c, aspect(tracker, c)))
        BY <1>2, <3>2, <3>3, <3>5, LastAppend
      <4> QED
        BY <2>1, <2>2, <3>5, <4>1 DEF GuestTuned, Heard, ServerMoves
    <3> QED
      BY <3>4, <3>5
  <2> QED
    BY <2>3, <2>4 DEF TunedAt
<1> QED
  BY <1>1, <1>4, <1>5, <1>6, ServerPlayed

LEMMA TunedClient ==
  ASSUME Staged, Tuned, "untold" \notin slips, ClientStep,
         NEW q \in Process, NEW j \in Opened, NEW c \in Aspect
  PROVE  TunedAt(q, j, c)'
<1>1. Types /\ Base /\ j \in Conn /\ NoConn \notin Conn /\ TunedAt(q, j, c)
  BY ConnFacts DEF Staged, Base, Tuned
<1>2. /\ toClient[j] \in Seq(ToClient) /\ signals[q] \in Seq(Signal)
      /\ UNCHANGED <<users, tracker>>
  BY <1>1 DEF Types, ClientStep, serverVars
<1>3. ASSUME NEW k \in Conn, NEW x \in ToClient, NEW p \in Process, Receives(k, x, p)
      PROVE  TunedAt(q, j, c)'
  <2>1. /\ UNCHANGED <<link, toServer, client, button, audio>> /\ client[p] = k
        /\ toClient[k] # <<>> /\ x = Head(toClient[k]) /\ toClient'[k] = Tail(toClient[k])
        /\ \A i \in Conn \ {k} : toClient'[i] = toClient[i]
        /\ signals'[p] = Append(signals[p], [conn |-> k, payload |-> x])
        /\ \A r \in Process \ {p} : signals'[r] = signals[r]
    BY <1>3 DEF Receives, Reads
  <2>2. Tells(q, j)' => HostTuned(q, j, c)'
    BY <1>1, <1>2, <2>1 DEF TunedAt, Tells, Host, HostTuned
  <2>3. ASSUME Follows(q, j)'
        PROVE  GuestTuned(q, j, c, aspect(tracker, c))'
    <3>1. Follows(q, j)
      BY <1>2, <2>1, <2>3 DEF Follows
    <3>2. PICK v : v = aspect(tracker, c)
      OBVIOUS
    <3>3. LastIn(toClient[j], Speaks(c), Says(c, v), Heard(q, j, c, v))
      BY <1>1, <3>1, <3>2 DEF TunedAt, GuestTuned
    <3>4. CASE j # k
      <4>1. q # p
        BY <2>1, <3>1, <3>4 DEF Follows
      <4>2. toClient'[j] = toClient[j] /\ signals'[q] = signals[q]
        BY <1>1, <2>1, <3>4, <4>1
      <4> QED
        BY <1>2, <2>1, <3>2, <3>3, <4>2 DEF GuestTuned, Heard
    <3>5. CASE j = k
      <4>1. q = p
        BY <1>1, <2>1, <3>1, <3>5, ClientsApart DEF Follows
      <4>2. [conn |-> k, payload |-> x] \in Signal
        BY DEF Signal
      <4>3. /\ [conn |-> k, payload |-> x] \in Of(k, Speaks(c)) <=> x \in Speaks(c)
            /\ [conn |-> k, payload |-> x] \in Of(k, Says(c, v)) <=> x \in Says(c, v)
        BY OfParts
      <4>4. signals'[q] = Append(signals[q], [conn |-> k, payload |-> x])
        BY <2>1, <4>1
      <4>5. x \notin Speaks(c) => (Heard(q, j, c, v)' <=> Heard(q, j, c, v))
        BY <1>2, <2>1, <3>5, <4>2, <4>3, <4>4, LastAppend DEF Heard
      <4>6. x \in Speaks(c) => (Heard(q, j, c, v)' <=> x \in Says(c, v))
        BY <1>2, <2>1, <3>5, <4>2, <4>3, <4>4, LastAppend DEF Heard
      <4>7. LastIn(toClient'[j], Speaks(c), Says(c, v), Heard(q, j, c, v)')
        BY <1>2, <2>1, <3>3, <3>5, <4>5, <4>6, LastTail
      <4> QED
        BY <1>2, <3>2, <4>7 DEF GuestTuned
    <3> QED
      BY <3>4, <3>5
  <2> QED
    BY <2>2, <2>3 DEF TunedAt
<1>4. ASSUME NEW k \in Conn, NEW p \in Process, Breaks(k, p)
      PROVE  TunedAt(q, j, c)'
  <2>1. /\ UNCHANGED <<toServer, client, button, audio>> /\ client[p] = k
        /\ link' = [link EXCEPT ![k] = "down"] /\ toClient' = [toClient EXCEPT ![k] = <<>>]
        /\ \A r \in Process \ {p} : signals'[r] = signals[r]
    BY <1>4 DEF Breaks, Fails
  <2>2. ASSUME client'[q] = j, link'[j] = "up"
        PROVE  /\ link[j] = "up" /\ toClient'[j] = toClient[j] /\ signals'[q] = signals[q]
    <3>1. j # k
      BY <1>1, <2>1, <2>2 DEF Types
    <3>2. q # p
      BY <2>1, <2>2, <3>1
    <3> QED
      BY <1>1, <2>1, <2>2, <3>1, <3>2 DEF Types
  <2>3. Tells(q, j)' => HostTuned(q, j, c)'
    BY <1>1, <1>2, <2>1, <2>2 DEF TunedAt, Tells, Host, HostTuned
  <2>4. Follows(q, j)' => GuestTuned(q, j, c, aspect(tracker, c))'
    BY <1>1, <1>2, <2>1, <2>2 DEF TunedAt, Follows, GuestTuned, Heard
  <2> QED
    BY <2>3, <2>4 DEF TunedAt
<1>5. ClientMove
  BY <1>1, ClientMoved
<1> QED
  BY <1>3, <1>4, <1>5 DEF ClientMove

---------------------------------------------------------------------------
(* What the interface does keeps them tuned *)

\* Who does nothing is as it was.
LEMMA TunedElsewhere ==
  ASSUME Base, NEW p \in Process, NEW q \in Process \ {p}, NEW j \in Opened, NEW c \in Aspect,
         TunedAt(q, j, c),
         UNCHANGED <<users, tracker>>, audio'[q] = audio[q], signals'[q] = signals[q],
         button'[q] = button[q],
         client'[q] = j /\ link'[j] = "up" =>
           client[q] = j /\ link[j] = "up" /\ toServer'[j] = toServer[j] /\ toClient'[j] = toClient[j]
  PROVE  TunedAt(q, j, c)'
<1>1. Tells(q, j)' => HostTuned(q, j, c)'
  BY DEF TunedAt, Tells, Host, HostTuned
<1>2. Follows(q, j)' => GuestTuned(q, j, c, aspect(tracker, c))'
  BY DEF TunedAt, Follows, GuestTuned, Heard
<1> QED
  BY <1>1, <1>2 DEF TunedAt

LEMMA PassesElsewhere ==
  ASSUME Base, NEW p \in Process, NEW q \in Process \ {p}, NEW j \in Conn, client[q] = j, NEW x,
         ClientTells(p, x) \/ Passes(p, x)
  PROVE  toServer'[j] = toServer[j]
<1>1. j # client[p]
  BY ConnFacts, ClientsApart
<1> QED
  BY <1>1 DEF Passes, ClientTells

\* What the process tells is the last word.
LEMMA ClientTellsLast ==
  ASSUME Types, NEW p \in Process, NEW j \in Conn, client[p] = j, link[j] = "up",
         NEW x \in ToServer, ClientTells(p, x), NEW A, NEW G, NEW b
  PROVE  /\ x \in A => (LastIn(toServer'[j], A, G, b) <=> x \in G)
         /\ x \notin A => (LastIn(toServer'[j], A, G, b) <=> LastIn(toServer[j], A, G, b))
<1>1. toServer[j] \in Seq(ToServer) /\ toServer'[j] = Append(toServer[j], x)
  BY DEF Types, ClientTells
<1> QED
  BY <1>1, LastAppend

\* Who waits for the session may play anything meanwhile.
LEMMA GuestWaits ==
  ASSUME Types, NEW q \in Process, NEW j \in Conn, NEW c \in Aspect, NEW v,
         In(toClient[j]) \cap Session # {} \/ Signalled(q, j),
         UNCHANGED <<toClient, signals>>, GuestTuned(q, j, c, v)
  PROVE  GuestTuned(q, j, c, v)'
<1>1. toClient[j] \in Seq(ToClient) /\ signals[q] \in Seq(Signal)
  BY DEF Types
<1>2. Session \subseteq Speaks(c)
  BY SpeaksParts
<1>3. Heard(q, j, c, v) => Heard(q, j, c, v)' \/ In(toClient[j]) \cap Speaks(c) # {}
  <2>1. CASE In(toClient[j]) \cap Session # {}
    BY <1>2, <2>1
  <2>2. ASSUME Signalled(q, j), Heard(q, j, c, v)
        PROVE  Heard(q, j, c, v)'
    <3>1. In(signals[q]) \cap Of(j, Speaks(c)) # {}
      BY <1>2, <2>2 DEF Signalled, Of
    <3>2. LastIn(signals[q], Of(j, Speaks(c)), Of(j, Says(c, v)), aspect(audio[q].state, c) = v)
      BY <2>2 DEF Heard
    <3>3. LastIn(signals[q], Of(j, Speaks(c)), Of(j, Says(c, v)), aspect(audio'[q].state, c) = v)
      BY <1>1, <3>1, <3>2, LastInWeaker
    <3> QED
      BY <3>3 DEF Heard
  <2> QED
    BY <2>1, <2>2
<1>4. LastIn(toClient[j], Speaks(c), Says(c, v), Heard(q, j, c, v))
  BY DEF GuestTuned
<1>5. LastIn(toClient[j], Speaks(c), Says(c, v), Heard(q, j, c, v)')
  BY <1>1, <1>3, <1>4, LastInWeaker
<1> QED
  BY <1>5 DEF GuestTuned

\* A guest takes the first of what was signalled.
LEMMA GuestTakes ==
  ASSUME Types, NEW q \in Process, NEW j \in Conn, NEW k \in Conn, NEW m, NEW c \in Aspect, NEW v,
         Takes1(q, k, m), UNCHANGED toClient, GuestTuned(q, j, c, v),
         k = j /\ m \in Says(c, v) => aspect(audio'[q].state, c) = v,
         k # j \/ m \notin Speaks(c) => aspect(audio'[q].state, c) = aspect(audio[q].state, c)
  PROVE  GuestTuned(q, j, c, v)'
<1>1. toClient[j] \in Seq(ToClient) /\ signals[q] \in Seq(Signal)
  BY DEF Types
<1>2. /\ Head(signals[q]) \in Of(j, Speaks(c)) <=> k = j /\ m \in Speaks(c)
      /\ Head(signals[q]) \in Of(j, Says(c, v)) <=> k = j /\ m \in Says(c, v)
  BY OfParts DEF Takes1
<1>3. Heard(q, j, c, v) => Heard(q, j, c, v)'
  <2>1. ASSUME Heard(q, j, c, v)
        PROVE  Heard(q, j, c, v)'
    <3>1. LastIn(signals[q], Of(j, Speaks(c)), Of(j, Says(c, v)), aspect(audio[q].state, c) = v)
      BY <2>1 DEF Heard
    <3>2. /\ Head(signals[q]) \notin Of(j, Speaks(c)) /\ aspect(audio[q].state, c) = v
               => aspect(audio'[q].state, c) = v
          /\ Head(signals[q]) \in Of(j, Speaks(c)) /\ Head(signals[q]) \in Of(j, Says(c, v))
               => aspect(audio'[q].state, c) = v
      BY <1>2
    <3>3. LastIn(Tail(signals[q]), Of(j, Speaks(c)), Of(j, Says(c, v)), aspect(audio'[q].state, c) = v)
      BY <1>1, <3>1, <3>2, LastTail DEF Takes1
    <3> QED
      BY <3>3 DEF Heard, Takes1
  <2> QED
    BY <2>1
<1>4. LastIn(toClient[j], Speaks(c), Says(c, v), Heard(q, j, c, v))
  BY DEF GuestTuned
<1>5. LastIn(toClient[j], Speaks(c), Says(c, v), Heard(q, j, c, v)')
  BY <1>1, <1>3, <1>4, LastInWeaker
<1> QED
  BY <1>5 DEF GuestTuned

LEMMA TunedIdles ==
  ASSUME Staged, Tuned, "untold" \notin slips, NEW p \in Process, Idles(p),
         NEW q \in Process, NEW j \in Opened, NEW c \in Aspect
  PROVE  TunedAt(q, j, c)'
<1>1. Types /\ Base /\ j \in Conn /\ TunedAt(q, j, c) /\ Opened \subseteq Conn
  BY ConnFacts DEF Staged, Base, Tuned
<1>2. /\ UNCHANGED <<users, tracker, client, link, toClient, audio, button>>
      /\ toServer' = toServer \/ \E x \in ToServer \ Music : ClientTells(p, x)
      /\ \/ UNCHANGED signals
         \/ \E k \in Opened : \E m : m \notin Session \cup Music /\ Takes1(p, k, m)
  BY DEF Idles, Elsewhere
<1>3. CASE q # p
  <2>1. signals'[q] = signals[q]
    BY <1>2, <1>3 DEF Takes1
  <2>2. client[q] = j => toServer'[j] = toServer[j]
    BY <1>1, <1>2, <1>3, PassesElsewhere
  <2> QED
    BY <1>1, <1>2, <1>3, <2>1, <2>2, TunedElsewhere
<1>4. CASE q = p
  <2>1. ASSUME Tells(q, j)'
        PROVE  HostTuned(q, j, c)'
    <3>1. Tells(q, j) /\ client[q] = j /\ link[j] = "up"
      BY <1>2, <2>1 DEF Tells, Host
    <3>2. LastIn(toServer[j], Speaks(c), Says(c, aspect(audio[q].state, c)),
                 aspect(tracker, c) = aspect(audio[q].state, c))
      BY <1>1, <3>1 DEF TunedAt, HostTuned
    <3>3. ASSUME NEW x \in ToServer \ Music, ClientTells(p, x)
          PROVE  LastIn(toServer'[j], Speaks(c), Says(c, aspect(audio[q].state, c)),
                        aspect(tracker, c) = aspect(audio[q].state, c))
      BY <1>1, <1>4, <3>1, <3>2, <3>3, SpeaksSent, ClientTellsLast
    <3> QED
      BY <1>2, <3>2, <3>3 DEF HostTuned
  <2>2. ASSUME Follows(q, j)'
        PROVE  GuestTuned(q, j, c, aspect(tracker, c))'
    <3>1. PICK v : v = aspect(tracker, c)
      OBVIOUS
    <3>2. GuestTuned(q, j, c, v)
      BY <1>1, <1>2, <2>2, <3>1 DEF TunedAt, Follows
    <3>3. ASSUME NEW k \in Opened, NEW m, m \notin Session \cup Music, Takes1(p, k, m)
          PROVE  GuestTuned(q, j, c, v)'
      <4>1. m \notin Speaks(c) /\ m \notin Says(c, v)
        BY <3>3, SpeaksSent, SaysParts
      <4> QED
        BY <1>1, <1>2, <1>4, <3>2, <3>3, <4>1, GuestTakes
    <3>4. ASSUME UNCHANGED signals
          PROVE  GuestTuned(q, j, c, v)'
      BY <1>2, <3>2, <3>4 DEF GuestTuned, Heard
    <3> QED
      BY <1>2, <3>1, <3>3, <3>4
  <2> QED
    BY <2>1, <2>2 DEF TunedAt
<1> QED
  BY <1>3, <1>4

\* A host tells all that it changes.
LEMMA HostActs ==
  ASSUME Staged, Tuned, "untold" \notin slips, Types', "untold" \notin slips',
         NEW q \in Process, Acting(q), NEW j \in Opened, NEW c \in Aspect, Tells(q, j)'
  PROVE  HostTuned(q, j, c)'
<1>1. Types /\ j \in Conn /\ tracker' = tracker /\ audio'[q].state \in Tracker
  BY ConnFacts DEF Staged, Base, Acting, Elsewhere, Types, Player
<1>2. /\ client[q] = j /\ link[j] = "up" /\ j \in Host /\ button[q] = "Connected"
      /\ ~(audio'[q].requested /\ audio'[q].heard.on = "stopped")
  BY DEF Tells, Acting, Elsewhere, Host
<1>3. audio[q].master /\ inControl(audio[q])
  BY <1>2, HostStaged DEF inControl
<1>4. ~(audio[q].requested /\ audio[q].heard.on = "stopped") => HostTuned(q, j, c)
  BY <1>2 DEF Tuned, TunedAt, Tells, Staged
<1>5. PICK v : v = aspect(audio'[q].state, c)
  OBVIOUS
<1>6. ASSUME NEW x \in ToServer, Passes(q, x),
             \/ x \in Speaks(c) /\ x \in Says(c, v)
             \/ x \notin Speaks(c) /\ HostTuned(q, j, c) /\ aspect(audio[q].state, c) = v
      PROVE  HostTuned(q, j, c)'
  <2>1. ClientTells(q, x)
    BY <1>3, <1>6 DEF Passes
  <2>2. x \notin Speaks(c) => LastIn(toServer[j], Speaks(c), Says(c, v), aspect(tracker, c) = v)
    BY <1>6 DEF HostTuned
  <2>3. LastIn(toServer'[j], Speaks(c), Says(c, v), aspect(tracker, c) = v)
    BY <1>1, <1>2, <1>6, <2>1, <2>2, ClientTellsLast
  <2> QED
    BY <1>1, <1>5, <2>3 DEF HostTuned
<1>7. /\ PositionTold \in ToServer \ Speaks(c)
      /\ UrlTold(audio'[q].state) \in ToServer /\ UrlTold(audio'[q].state) \in Urls
      /\ \A b \in BOOLEAN : PlayTold(b) \in ToServer /\ PlayTold(b) \in PlayingStates
  BY <1>1, SpeaksParts DEF PositionTold, UrlTold, PlayTold, ToServer, Music, Urls, PlayingStates
<1>8. \/ HostTuned(q, j, c) /\ audio'[q].state = audio[q].state /\ toServer' = toServer
      \/ HostTuned(q, j, c) /\ \E b \in BOOLEAN : PlayChanged(audio[q], audio'[q], b) /\ Passes(q, PlayTold(b))
      \/ HostTuned(q, j, c) /\ Sought(audio[q], audio'[q]) /\ Passes(q, PositionTold)
      \/ Passes(q, UrlTold(audio'[q].state))
  <2>1. Performs(q, audio[q], audio'[q])
    BY DEF Acting
  <2> QED
    BY <1>2, <1>3, <1>4, <2>1 DEF Performs
<1>9. CASE HostTuned(q, j, c) /\ audio'[q].state = audio[q].state /\ toServer' = toServer
  BY <1>1, <1>9 DEF HostTuned
<1>10. ASSUME HostTuned(q, j, c), NEW b \in BOOLEAN, PlayChanged(audio[q], audio'[q], b), Passes(q, PlayTold(b))
       PROVE  HostTuned(q, j, c)'
  <2>1. PlayTold(b).isPlaying = b
    BY DEF PlayTold
  <2>2. CASE c = "playing"
    <3>1. v = b
      BY <1>5, <1>10, <2>2 DEF aspect, PlayChanged
    <3>2. PICK x : x = PlayTold(b)
      OBVIOUS
    <3>3. x \in Speaks(c) /\ x \in Says(c, v)
      BY <1>7, <2>1, <2>2, <3>1, <3>2, SpeaksParts, SaysParts
    <3>4. x \in ToServer /\ Passes(q, x)
      BY <1>7, <1>10, <3>2
    <3> QED
      BY <1>6, <3>3, <3>4
  <2>3. CASE c = "url"
    <3>1. v = aspect(audio[q].state, c)
      BY <1>5, <1>10, <2>3 DEF aspect, PlayChanged
    <3>2. PlayTold(b) \notin Speaks(c)
      BY <1>7, <2>3, SpeaksParts
    <3> QED
      BY <1>6, <1>7, <1>10, <3>1, <3>2
  <2> QED
    BY <2>2, <2>3 DEF Aspect
<1>11. CASE HostTuned(q, j, c) /\ Sought(audio[q], audio'[q]) /\ Passes(q, PositionTold)
  <2>1. v = aspect(audio[q].state, c)
    BY <1>5, <1>11 DEF aspect, Sought
  <2> QED
    BY <1>6, <1>7, <1>11, <2>1
<1>12. CASE Passes(q, UrlTold(audio'[q].state))
  <2>1. PICK x : x = UrlTold(audio'[q].state)
    OBVIOUS
  <2>2. x.state = audio'[q].state
    BY <2>1 DEF UrlTold
  <2>3. x \in Speaks(c) /\ x \in Says(c, v)
    BY <1>5, <1>7, <2>1, <2>2, SpeaksParts, SaysParts
  <2>4. x \in ToServer /\ Passes(q, x)
    BY <1>7, <1>12, <2>1
  <2> QED
    BY <1>6, <2>3, <2>4
<1> QED
  BY <1>8, <1>9, <1>10, <1>11, <1>12

\* A guest changes nothing, or waits for the session.
LEMMA TunedActs ==
  ASSUME Staged, Tuned, "untold" \notin slips, Types', "untold" \notin slips',
         NEW p \in Process, Acting(p), NEW q \in Process, NEW j \in Opened, NEW c \in Aspect
  PROVE  TunedAt(q, j, c)'
<1>1. Types /\ Base /\ j \in Conn /\ NoConn \notin Conn /\ TunedAt(q, j, c)
  BY ConnFacts DEF Staged, Base, Tuned
<1>2. /\ UNCHANGED <<users, tracker, client, link, toClient, signals, button>>
      /\ \A r \in Process \ {p} : audio'[r] = audio[r]
      /\ Performs(p, audio[p], audio'[p])
  BY DEF Acting, Elsewhere
<1>3. CASE q # p
  <2>1. client[q] = j => toServer'[j] = toServer[j]
    <3>1. toServer' = toServer \/ \E x : Passes(p, x)
      BY <1>2 DEF Performs
    <3> QED
      BY <1>1, <1>3, <3>1, PassesElsewhere
  <2> QED
    BY <1>1, <1>2, <1>3, <2>1, TunedElsewhere
<1>4. CASE q = p
  <2>1. Tells(q, j)' => HostTuned(q, j, c)'
    BY <1>4, HostActs
  <2>2. ASSUME Follows(q, j)'
        PROVE  GuestTuned(q, j, c, aspect(tracker, c))'
    <3>1. Follows(q, j) /\ GuestTuned(q, j, c, aspect(tracker, c))
      BY <1>1, <1>2, <2>2 DEF TunedAt, Follows
    <3>2. CASE button[q] # "Connected"
      <4>1. In(toClient[j]) \cap Session # {} \/ Signalled(q, j)
        BY <3>1, <3>2, GuestStaged
      <4>2. PICK v : v = aspect(tracker, c)
        OBVIOUS
      <4>3. GuestTuned(q, j, c, v)'
        BY <1>1, <1>2, <3>1, <4>1, <4>2, GuestWaits
      <4> QED
        BY <1>2, <4>2, <4>3
    <3>3. CASE button[q] = "Connected"
      <4>1. ~inControl(audio[q]) /\ ~audio[q].master
        BY <1>1, <3>1, <3>3, HostStaged DEF Follows, Host
      <4>2. audio'[q].state = audio[q].state
        BY <1>2, <1>4, <3>3, <4>1 DEF Performs
      <4> QED
        BY <1>2, <3>1, <4>2 DEF GuestTuned, Heard
    <3> QED
      BY <3>2, <3>3
  <2> QED
    BY <2>1, <2>2 DEF TunedAt
<1> QED
  BY <1>3, <1>4

LEMMA TunedJoins ==
  ASSUME Staged, Tuned, "untold" \notin slips, Types', NEW p \in Process, NEW k \in Opened,
         NEW m \in Session, Joining(p, k, m), NEW q \in Process, NEW j \in Opened, NEW c \in Aspect
  PROVE  TunedAt(q, j, c)'
<1>1. Types /\ Base /\ j \in Conn /\ k \in Conn /\ NoConn \notin Conn /\ TunedAt(q, j, c)
  BY ConnFacts DEF Staged, Base, Tuned
<1>2. /\ UNCHANGED <<users, tracker, client, link, toClient, hostAble>>
      /\ \A r \in Process \ {p} : audio'[r] = audio[r] /\ button'[r] = button[r] /\ signals'[r] = signals[r]
      /\ k = client[p] /\ Takes1(p, k, m)
  BY <1>1 DEF Joining, Elsewhere, Takes1, Types
<1>3. toServer' = toServer \/ \E x : ClientTells(p, x)
  BY DEF Joining
<1>4. CASE q # p
  <2>1. client[q] = j => toServer'[j] = toServer[j]
    BY <1>1, <1>3, <1>4, PassesElsewhere
  <2> QED
    BY <1>1, <1>2, <1>4, <2>1, TunedElsewhere
<1>5. ASSUME q = p, client[q] = j, link[j] = "up"
      PROVE  TunedAt(q, j, c)'
  <2>1. j = k
    BY <1>2, <1>5
  <2>2. (m.host <=> hostAble[q]) /\ (hostAble[q] <=> j \in Host)
    <3>1. [conn |-> k, payload |-> m] \in In(signals[q]) \cap Of(k, Session)
      <4>1. signals[q] # <<>> /\ signals[q] \in Seq(Signal) /\ Head(signals[q]) = [conn |-> k, payload |-> m]
        BY <1>1, <1>2, <1>5 DEF Types, Takes1
      <4>2. Head(signals[q]) \in In(signals[q])
        BY <4>1, InTail
      <4> QED
        BY <4>1, <4>2, OfParts
    <3> QED
      BY <1>5, <2>1, <3>1 DEF Staged, Hosting
  <2>3. ASSUME j \in Host
        PROVE  HostTuned(q, j, c)'
    <3>1. ClientTells(q, UrlTold(audio[q].state)) /\ audio'[q].state = audio[q].state
      BY <1>5, <2>2, <2>3 DEF Joining
    <3>2. audio[q].state \in Tracker
      BY <1>1 DEF Types, Player
    <3>3. PICK x : x = UrlTold(audio[q].state)
      OBVIOUS
    <3>4. x \in ToServer /\ x \in Urls /\ x.state = audio[q].state
      BY <3>2, <3>3 DEF UrlTold, ToServer, Music, Urls
    <3>5. x \in Speaks(c) /\ x \in Says(c, aspect(audio[q].state, c))
      BY <3>4, SpeaksParts, SaysParts
    <3>6. LastIn(toServer'[j], Speaks(c), Says(c, aspect(audio[q].state, c)),
                 aspect(tracker, c) = aspect(audio[q].state, c))
      BY <1>1, <1>5, <3>1, <3>3, <3>4, <3>5, ClientTellsLast
    <3> QED
      BY <1>2, <3>1, <3>6 DEF HostTuned
  <2>4. ASSUME Follows(q, j)
        PROVE  GuestTuned(q, j, c, aspect(tracker, c))'
    <3>1. PICK v : v = aspect(tracker, c)
      OBVIOUS
    <3>2. GuestTuned(q, j, c, v)
      BY <1>1, <2>4, <3>1 DEF TunedAt
    <3>3. ~hostAble[q]
      BY <2>2, <2>4 DEF Follows, Host
    <3>4. \E a : Changed(a, audio'[q], m.stream)
      BY <1>5, <2>2, <3>3 DEF Joining
    <3>5. aspect(audio'[q].state, c) = aspect(m.stream, c)
      BY <3>4 DEF Changed, aspect
    <3>6. m \in Speaks(c) /\ (m \in Says(c, v) => aspect(m.stream, c) = v)
      BY SpeaksParts, SaysParts
    <3>7. GuestTuned(q, j, c, v)'
      BY <1>1, <1>2, <1>5, <2>1, <3>2, <3>5, <3>6, GuestTakes
    <3> QED
      BY <1>2, <3>1, <3>7
  <2> QED
    BY <1>2, <2>3, <2>4 DEF TunedAt, Tells, Follows, Host
<1>6. CASE ~(client[q] = j /\ link[j] = "up")
  BY <1>2, <1>6 DEF TunedAt, Tells, Follows
<1> QED
  BY <1>4, <1>5, <1>6

LEMMA TunedHears ==
  ASSUME Staged, Tuned, "untold" \notin slips, NEW p \in Process, NEW k \in Opened,
         NEW m \in Music, Hears(p, k, m), NEW q \in Process, NEW j \in Opened, NEW c \in Aspect
  PROVE  TunedAt(q, j, c)'
<1>1. Types /\ Base /\ j \in Conn /\ k \in Conn /\ NoConn \notin Conn /\ TunedAt(q, j, c)
  BY ConnFacts DEF Staged, Base, Tuned
<1>2. /\ UNCHANGED <<users, tracker, client, link, toClient, button>>
      /\ \A r \in Process \ {p} : audio'[r] = audio[r] /\ signals'[r] = signals[r]
      /\ k = client[p] /\ Takes1(p, k, m)
  BY DEF Hears, Elsewhere, Takes1
<1>3. CASE q # p
  <2>1. toServer' = toServer \/ \E x : Passes(p, x)
    BY DEF Hears
  <2>2. client[q] = j => toServer'[j] = toServer[j]
    BY <1>1, <1>3, <2>1, PassesElsewhere
  <2> QED
    BY <1>1, <1>2, <1>3, <2>2, TunedElsewhere
<1>4. CASE q = p
  <2>1. ~Tells(q, j)'
    <3>1. SUFFICES ASSUME client[q] = j, link[j] = "up", j \in Host, button[q] = "Connected"
                   PROVE  FALSE
      BY <1>2 DEF Tells, Host
    <3>2. In(signals[q]) \cap Of(j, Music) = {}
      BY <3>1, HostStaged
    <3>3. signals[q] # <<>> /\ signals[q] \in Seq(Signal) /\ Head(signals[q]) = [conn |-> j, payload |-> m]
      BY <1>1, <1>2, <1>4, <3>1 DEF Types, Takes1
    <3>4. Head(signals[q]) \in In(signals[q])
      BY <3>3, InTail
    <3> QED
      BY <3>2, <3>3, <3>4, OfParts
  <2>2. ASSUME Follows(q, j)'
        PROVE  GuestTuned(q, j, c, aspect(tracker, c))'
    <3>1. Follows(q, j) /\ j = k
      BY <1>2, <1>4, <2>2 DEF Follows
    <3>2. PICK v : v = aspect(tracker, c)
      OBVIOUS
    <3>3. GuestTuned(q, j, c, v)
      BY <1>1, <3>1, <3>2 DEF TunedAt
    <3>4. /\ m \in Says(c, v) => aspect(audio'[q].state, c) = v
          /\ m \notin Speaks(c) => aspect(audio'[q].state, c) = aspect(audio[q].state, c)
      <4>1. CASE m \in Urls /\ Changed(audio[q], audio'[q], m.state)
        <5>1. aspect(audio'[q].state, c) = aspect(m.state, c)
          BY <4>1 DEF Changed, aspect
        <5> QED
          BY <4>1, <5>1, SpeaksParts, SaysParts
      <4>2. CASE m \in PlayingStates /\ PlayChanged(audio[q], audio'[q], m.isPlaying)
        <5>1. /\ c = "playing" => aspect(audio'[q].state, c) = m.isPlaying
              /\ c = "url" => aspect(audio'[q].state, c) = aspect(audio[q].state, c)
          BY <4>2 DEF PlayChanged, aspect
        <5> QED
          BY <4>2, <5>1, SpeaksParts, SaysParts DEF Aspect
      <4>3. CASE m = PositionTold /\ Sought(audio[q], audio'[q])
        <5>1. aspect(audio'[q].state, c) = aspect(audio[q].state, c)
          BY <4>3 DEF Sought, aspect
        <5>2. m \notin Speaks(c) /\ m \notin Says(c, v)
          BY <4>3, SpeaksParts, SaysParts DEF PositionTold
        <5> QED
          BY <5>1, <5>2
      <4> QED
        BY <1>4, <4>1, <4>2, <4>3 DEF Hears
    <3>5. GuestTuned(q, j, c, v)'
      BY <1>1, <1>2, <1>4, <3>1, <3>3, <3>4, GuestTakes
    <3> QED
      BY <1>2, <3>2, <3>5
  <2> QED
    BY <2>1, <2>2 DEF TunedAt
<1> QED
  BY <1>3, <1>4

LEMMA TunedEnds ==
  ASSUME Staged, Tuned, "untold" \notin slips, NEW p \in Process, tracker' = tracker,
         \/ \E k \in Opened : Closes(p, k) /\ OthersWait(p)
         \/ \E k \in Conn \ Opened : Opens(p, k),
         NEW q \in Process, NEW j \in Opened', NEW c \in Aspect
  PROVE  TunedAt(q, j, c)'
<1>1. Types /\ Base /\ Opened \subseteq Conn /\ NoConn \notin Conn
  BY ConnFacts DEF Staged, Base
<1>2. ASSUME NEW k \in Opened, Closes(p, k), OthersWait(p)
      PROVE  TunedAt(q, j, c)'
  <2>1. /\ client' = [client EXCEPT ![p] = NoConn] /\ k = client[p]
        /\ link' = [link EXCEPT ![k] = "down"] /\ toClient' = [toClient EXCEPT ![k] = <<>>]
        /\ button' = [button EXCEPT ![p] = "NotConnected"]
        /\ audio' = [audio EXCEPT ![p] = streamClosed(@)]
        /\ UNCHANGED <<processOf, users, toServer>>
    BY <1>2 DEF Closes, Ends
  <2>2. j \in Opened /\ j \in Conn /\ TunedAt(q, j, c)
    BY <1>1, <2>1 DEF Opened, Tuned, Staged
  <2>3. CASE q = p
    <3>1. client'[q] # j
      BY <1>1, <2>1, <2>2, <2>3 DEF Types
    <3> QED
      BY <3>1 DEF TunedAt, Tells, Follows
  <2>4. CASE q # p
    <3>1. audio'[q] = audio[q] /\ button'[q] = button[q] /\ client'[q] = client[q] /\ signals'[q] = signals[q]
      BY <1>1, <1>2, <2>1, <2>4 DEF Types, OthersWait
    <3>2. link'[j] = "up" => link[j] = "up" /\ toClient'[j] = toClient[j]
      BY <1>1, <2>1, <2>2 DEF Types
    <3> QED
      BY <1>1, <2>1, <2>2, <2>4, <3>1, <3>2, TunedElsewhere
  <2> QED
    BY <2>3, <2>4
<1>3. ASSUME NEW k \in Conn \ Opened, Opens(p, k)
      PROVE  TunedAt(q, j, c)'
  <2>1. /\ client' = [client EXCEPT ![p] = k] /\ Opened' = Opened \cup {k}
        /\ link[k] = "idle" /\ link' = [link EXCEPT ![k] = "up"]
        /\ \A i \in Conn \ {k} : toServer'[i] = toServer[i]
        /\ button' = [button EXCEPT ![p] = "Connecting"]
        /\ audio' = [audio EXCEPT ![p] = streamConnecting(@)]
        /\ UNCHANGED <<users, toClient, signals>>
    BY <1>3 DEF Opens
  <2>2. CASE q = p
    <3>1. ~Tells(q, j)'
      BY <1>1, <2>1, <2>2 DEF Tells, Types
    <3>2. users[k] = "absent"
      BY <1>1, <2>1 DEF Base, Connections, Live
    <3>3. ~Follows(q, j)'
      BY <1>1, <2>1, <2>2, <3>2 DEF Follows, Types
    <3> QED
      BY <3>1, <3>3 DEF TunedAt
  <2>3. CASE q # p
    <3>1. audio'[q] = audio[q] /\ button'[q] = button[q] /\ client'[q] = client[q]
      BY <1>1, <2>1, <2>3 DEF Types
    <3>2. CASE j = k
      <4>1. client'[q] # j
        BY <1>1, <1>3, <3>1, <3>2 DEF Base, Connections
      <4> QED
        BY <4>1 DEF TunedAt, Tells, Follows
    <3>3. CASE j # k
      <4>1. j \in Opened /\ j \in Conn /\ toServer'[j] = toServer[j] /\ link'[j] = link[j]
        BY <1>1, <2>1, <3>3 DEF Types
      <4>2. TunedAt(q, j, c)
        BY <4>1 DEF Tuned, Staged
      <4> QED
        BY <1>1, <2>1, <2>3, <3>1, <4>1, <4>2, TunedElsewhere
    <3> QED
      BY <3>2, <3>3
  <2> QED
    BY <2>2, <2>3
<1> QED
  BY <1>2, <1>3

LEMMA TunedStep ==
  Base /\ Greetings /\ Hosting /\ Mastering /\ HostMusic /\ InCharge /\ Awaited /\ Tuned /\ [Next]_vars
    => Tuned'
<1> SUFFICES ASSUME Base, Greetings, Hosting, Mastering, HostMusic, InCharge, Awaited, Tuned,
                    [Next]_vars, slips' \cap {"late", "untold"} = {},
                    NEW q \in Process, NEW j \in Opened', NEW c \in Aspect
             PROVE  TunedAt(q, j, c)'
  BY DEF Tuned
<1>1. Staged /\ "untold" \notin slips /\ "untold" \notin slips' /\ "late" \notin slips'
  BY SlipsGrow DEF Staged
<1>2. Types'
  BY TypesStep
<1>3. CASE ServerStep
  <2>1. j \in Opened
    BY <1>3 DEF ServerStep, constantVars, Opened
  <2> QED
    BY <1>1, <1>3, <2>1, TunedServer
<1>4. CASE ClientStep
  <2>1. j \in Opened
    BY <1>4 DEF ClientStep, constantVars, Opened
  <2> QED
    BY <1>1, <1>4, <2>1, TunedClient
<1>5. CASE InterfaceStep
  <2>1. PICK p \in Process :
              \/ Idles(p) \/ Acting(p)
              \/ \E k \in Opened : \E m \in Session : Joining(p, k, m)
              \/ \E k \in Opened : \E m \in Music : Hears(p, k, m)
              \/ \E k \in Opened : Closes(p, k) /\ tracker' = tracker /\ OthersWait(p)
              \/ \E k \in Conn \ Opened : Opens(p, k) /\ tracker' = tracker
    BY <1>1, <1>5, InterfacePlayed
  <2>2. Elsewhere(p) => j \in Opened
    BY DEF Elsewhere, Opened
  <2>3. CASE Idles(p)
    <3>1. j \in Opened
      BY <2>2, <2>3 DEF Idles
    <3> QED
      BY <1>1, <2>3, <3>1, TunedIdles
  <2>4. CASE Acting(p)
    <3>1. j \in Opened
      BY <2>2, <2>4 DEF Acting
    <3> QED
      BY <1>1, <1>2, <2>4, <3>1, TunedActs
  <2>5. ASSUME NEW k \in Opened, NEW m \in Session, Joining(p, k, m)
        PROVE  TunedAt(q, j, c)'
    <3>1. j \in Opened
      BY <2>2, <2>5 DEF Joining
    <3> QED
      BY <1>1, <1>2, <2>5, <3>1, TunedJoins
  <2>6. ASSUME NEW k \in Opened, NEW m \in Music, Hears(p, k, m)
        PROVE  TunedAt(q, j, c)'
    <3>1. j \in Opened
      BY <2>2, <2>6 DEF Hears
    <3> QED
      BY <1>1, <2>6, <3>1, TunedHears
  <2>7. ASSUME tracker' = tracker,
               \/ \E k \in Opened : Closes(p, k) /\ OthersWait(p)
               \/ \E k \in Conn \ Opened : Opens(p, k)
        PROVE  TunedAt(q, j, c)'
    BY <1>1, <2>7, TunedEnds
  <2> QED
    BY <2>1, <2>3, <2>4, <2>5, <2>6, <2>7
<1>6. CASE UNCHANGED vars
  <2>1. /\ UNCHANGED <<processOf, link, users, tracker, toServer, toClient, client, signals, button, audio>>
    BY <1>6 DEF vars, constantVars, networkVars, serverVars, interfaceVars
  <2>2. j \in Opened
    BY <2>1 DEF Opened
  <2>3. TunedAt(q, j, c)
    BY <1>1, <2>2 DEF Tuned, Staged
  <2> QED
    BY <2>1, <2>3 DEF TunedAt, Tells, Host, HostTuned, Follows, GuestTuned, Heard
<1> QED
  BY <1>3, <1>4, <1>5, <1>6 DEF Next

---------------------------------------------------------------------------
(* What makes sense after what was said *)

\* For every mark of s that is timely (t, or after an element of S), the last element
\* before it that is in A is in G; if none is, b.
Sensed(s, M, S, A, G, t, b) ==
  \A n \in DOMAIN s :
    s[n] \in M /\ (t \/ \E m \in DOMAIN s : m < n /\ s[m] \in S) => LastBefore(s, n, A, G, b)

LEMMA SensedNone ==
  ASSUME NEW s, NEW M, NEW S, NEW A, NEW G, NEW t, NEW b, In(s) \cap M = {}
  PROVE  Sensed(s, M, S, A, G, t, b)
BY DEF Sensed, In

LEMMA SensedAppend ==
  ASSUME NEW T, NEW s \in Seq(T), NEW e \in T, NEW M, NEW S, NEW A, NEW G, NEW t, NEW b,
         Sensed(s, M, S, A, G, t, b),
         e \in M /\ (t \/ In(s) \cap S # {}) => LastIn(s, A, G, b)
  PROVE  Sensed(Append(s, e), M, S, A, G, t, b)
<1> DEFINE u == Append(s, e)
           l == Len(s)
<1>1. /\ l \in Nat /\ DOMAIN s = 1..l /\ DOMAIN u = 1..(l + 1)
      /\ \A i \in 1..l : u[i] = s[i]
      /\ u[l + 1] = e
  BY AppendProperties, LenProperties
<1>2. \A n \in 1..(l + 1) : LastBefore(u, n, A, G, b) <=> LastBefore(s, n, A, G, b)
  BY LastBeforeAppend
<1>3. LastIn(s, A, G, b) <=> LastBefore(s, l + 1, A, G, b)
  BY DEF LastIn
<1> HIDE DEF u, l
<1>4. SUFFICES ASSUME NEW n \in DOMAIN u, u[n] \in M, t \/ \E m \in DOMAIN u : m < n /\ u[m] \in S
               PROVE  LastBefore(s, n, A, G, b)
  BY <1>1, <1>2 DEF Sensed, u
<1>5. \A m \in DOMAIN u : m < n => m \in DOMAIN s /\ u[m] = s[m]
  BY <1>1
<1>6. t \/ \E m \in DOMAIN s : m < n /\ s[m] \in S
  BY <1>4, <1>5
<1>7. CASE n = l + 1
  <2>1. t \/ In(s) \cap S # {}
    BY <1>6 DEF In
  <2> QED
    BY <1>1, <1>3, <1>4, <1>7, <2>1
<1>8. CASE n # l + 1
  <2>1. n \in DOMAIN s /\ u[n] = s[n]
    BY <1>1, <1>8
  <2> QED
    BY <1>4, <1>6, <2>1 DEF Sensed
<1> QED
  BY <1>7, <1>8

LEMMA SensedTail ==
  ASSUME NEW T, NEW s \in Seq(T), s # <<>>, NEW M, NEW S, NEW A, NEW G,
         NEW t, NEW b, NEW d, NEW c, Sensed(s, M, S, A, G, t, b),
         d => t \/ Head(s) \in S,
         Head(s) \notin A /\ b => c, Head(s) \in A /\ Head(s) \in G => c
  PROVE  Sensed(Tail(s), M, S, A, G, d, c)
<1> DEFINE u == Tail(s)
<1>1. /\ u \in Seq(T) /\ Len(u) = Len(s) - 1 /\ Head(s) = s[1]
      /\ \A i \in 1..Len(u) : u[i] = s[i + 1]
  BY HeadTailProperties
<1>2. DOMAIN s = 1..Len(s) /\ Len(s) \in Nat /\ DOMAIN u = 1..Len(u) /\ Len(s) # 0
  BY <1>1, LenProperties, EmptySeq
<1>3. \A n \in Nat : n # 0 /\ LastBefore(s, n + 1, A, G, b) => LastBefore(u, n, A, G, c)
  BY LastBeforeTail
<1> HIDE DEF u
<1>4. \A i \in DOMAIN u : i + 1 \in DOMAIN s /\ u[i] = s[i + 1] /\ i \in Nat /\ i # 0 /\ 1 < i + 1
  BY <1>1, <1>2
<1>5. ASSUME NEW n \in DOMAIN u, u[n] \in M, d \/ \E m \in DOMAIN u : m < n /\ u[m] \in S
      PROVE  LastBefore(u, n, A, G, c)
  <2>1. n + 1 \in DOMAIN s /\ s[n + 1] \in M /\ n \in Nat /\ n # 0
    BY <1>4, <1>5
  <2>2. t \/ \E m \in DOMAIN s : m < n + 1 /\ s[m] \in S
    <3>1. ASSUME NEW m \in DOMAIN u, m < n, u[m] \in S
          PROVE  m + 1 \in DOMAIN s /\ m + 1 < n + 1 /\ s[m + 1] \in S
      BY <1>4, <2>1, <3>1
    <3>2. 1 \in DOMAIN s /\ 1 < n + 1
      BY <1>2, <1>4
    <3> QED
      BY <1>1, <1>5, <3>1, <3>2
  <2> QED
    BY <1>3, <2>1, <2>2 DEF Sensed
<1> QED
  BY <1>5 DEF Sensed, u

LEMMA SensedHead ==
  ASSUME NEW T, NEW s \in Seq(T), s # <<>>, NEW M, NEW S, NEW A, NEW G, NEW b,
         Sensed(s, M, S, A, G, TRUE, b), Head(s) \in M
  PROVE  b
<1>1. Head(s) = s[1] /\ 1 \in DOMAIN s
  BY HeadTailProperties, LenProperties, EmptySeq
<1>2. LastBefore(s, 1, A, G, b)
  BY <1>1 DEF Sensed
<1> QED
  BY <1>2, LastOfFirst

LEMMA SensedConcat ==
  ASSUME NEW T, NEW s \in Seq(T), NEW u \in Seq(T), NEW M, NEW S, NEW A, NEW G, NEW t, NEW b,
         Sensed(s, M, S, A, G, t, b), In(u) \cap M = {}
  PROVE  Sensed(s \o u, M, S, A, G, t, b)
<1> DEFINE w == s \o u
           l == Len(s)
<1>1. /\ l \in Nat /\ Len(u) \in Nat /\ DOMAIN s = 1..l /\ DOMAIN u = 1..Len(u)
      /\ DOMAIN w = 1..(l + Len(u))
      /\ \A n \in 1..(l + Len(u)) : w[n] = IF n <= l THEN s[n] ELSE u[n - l]
  BY ConcatProperties, LenProperties
<1>2. \A n \in 1..(l + 1) : LastBefore(s, n, A, G, b) => LastBefore(w, n, A, G, b)
  BY LastConcat
<1> HIDE DEF w, l
<1>3. ASSUME NEW n \in DOMAIN w, w[n] \in M, t \/ \E m \in DOMAIN w : m < n /\ w[m] \in S
      PROVE  LastBefore(w, n, A, G, b)
  <2>1. n \in DOMAIN s /\ n \in 1..(l + 1)
    <3>1. ~(n <= l) => n - l \in DOMAIN u /\ u[n - l] = w[n]
      BY <1>1
    <3> QED
      BY <1>1, <1>3, <3>1 DEF In
  <2>2. w[n] = s[n] /\ \A m \in DOMAIN w : m < n => m \in DOMAIN s /\ w[m] = s[m]
    BY <1>1, <2>1
  <2> QED
    BY <1>2, <1>3, <2>1, <2>2 DEF Sensed
<1> QED
  BY <1>3 DEF Sensed, w

\* Where an element of S must come first, b counts for nothing.
LEMMA SensedBase ==
  ASSUME NEW s, NEW M, NEW S, NEW A, NEW G, NEW t, NEW b, NEW d, NEW c,
         Sensed(s, M, S, A, G, t, b), S \subseteq A, d => t, d /\ b => c
  PROVE  Sensed(s, M, S, A, G, d, c)
<1>1. ASSUME NEW n \in DOMAIN s, s[n] \in M, d \/ \E m \in DOMAIN s : m < n /\ s[m] \in S
      PROVE  LastBefore(s, n, A, G, c)
  <2>1. LastBefore(s, n, A, G, b)
    BY <1>1 DEF Sensed
  <2>2. b => c \/ \E i \in DOMAIN s : i < n /\ s[i] \in A
    BY <1>1
  <2> QED
    BY <2>1, <2>2, LastWeaker
<1> QED
  BY <1>1 DEF Sensed

---------------------------------------------------------------------------
(* Nothing is paused or sought that is not played *)

\* What is said of the track being played, and what has a track.
Marks == PlayingStates \cup {PositionTold}
Known == {x \in States : stateIn(x).url # NoTrack}

Sane(s) == s.started => s.url # NoTrack

SoundPlayer(a) ==
  /\ Sane(a.state)
  /\ a.heard.on = "stopped" => a.state.url = NoTrack
  /\ a.heard.on # "stopped" => a.state.url # NoTrack /\ a.heard.url = a.state.url

SaneIn(S) == \A x \in S : x \in States => Sane(stateIn(x))

SanelyTold ==
  /\ \A k \in Conn : SaneIn(In(toServer[k])) /\ SaneIn(In(toClient[k]))
  /\ \A p \in Process : \A y \in In(signals[p]) : SaneIn({y.payload})

\* Where a mark is handled there is a track: at the server, and at the user who
\* handles it once the session is known.
ServerSense(k) == Sensed(toServer[k], Marks, {}, States, Known, TRUE, tracker.url # NoTrack)

HasTrack(p, k) == LastIn(signals[p], Of(k, States), Of(k, Known), audio[p].state.url # NoTrack)

SignalSense(p, k) ==
  Sensed(signals[p], Of(k, Marks), Of(k, Session), Of(k, States), Of(k, Known),
         button[p] = "Connected", audio[p].state.url # NoTrack)

ClientSense(p, k) ==
  Sensed(toClient[k], Marks, Session, States, Known,
         button[p] = "Connected" \/ Signalled(p, k), HasTrack(p, k))

Sensibly ==
  /\ Sane(tracker) /\ SanelyTold
  /\ \A p \in Process : SoundPlayer(audio[p])
  /\ \A k \in Conn : ServerSense(k)
  /\ \A p \in Process : \A k \in Opened : client[p] = k => SignalSense(p, k) /\ ClientSense(p, k)

Clean == slips \cap {"late", "early", "paused", "over", "untold"} = {}

Sensible == Clean => Sensibly

LEMMA MarksParts ==
  /\ Music = Urls \cup Marks /\ Marks \cap States = {} /\ Marks \subseteq Music
  /\ Session \subseteq States /\ Urls \subseteq States /\ Known \subseteq States
  /\ States \subseteq Session \cup Music
  /\ Speaks("url") = States
  /\ \A x \in Urls : stateIn(x) = x.state
  /\ \A x \in Session : stateIn(x) = x.stream
  /\ \A v : v # NoTrack => \A x \in Says("url", v) : x \in Known
BY DEF Music, Urls, Marks, PlayingStates, PositionTold, States, Session, Known, Speaks, Says, stateIn, aspect

LEMMA SaneTracker ==
  ASSUME Types, Sane(tracker), NEW m \in Music, Minds(m),
         m \in Urls => Sane(m.state), m \in Marks => tracker.url # NoTrack
  PROVE  /\ Sane(tracker')
         /\ m \in Marks => tracker'.url = tracker.url
         /\ m \in Urls => tracker' = m.state
<1>1. tracker \in Tracker
  BY DEF Types
<1>2. CASE m \in Urls /\ tracker' = m.state
  BY <1>2, MarksParts
<1>3. CASE m \in PlayingStates /\ \E over \in BOOLEAN :
             tracker' = updatePlayingState(tracker, m.isPlaying, over)
  <2>1. tracker'.url = tracker.url /\ (tracker'.started => tracker.started) /\ m \in Marks
    BY <1>1, <1>3 DEF updatePlayingState, Tracker, PlayingStates, Marks
  <2> QED
    BY <2>1, MarksParts DEF Sane
<1>4. CASE m = PositionTold /\ tracker' = updatePosition(tracker)
  <2>1. tracker'.url = tracker.url /\ m \in Marks
    BY <1>1, <1>4 DEF updatePosition, Tracker, Marks
  <2> QED
    BY <2>1, MarksParts DEF Sane
<1> QED
  BY <1>2, <1>3, <1>4 DEF Minds, PositionTold

\* What a guest who knows the session will have, when there is a track.
LEMMA GuestHas ==
  ASSUME Staged, Tuned, "untold" \notin slips, NEW q \in Process, NEW j \in Opened, Follows(q, j),
         tracker.url # NoTrack
  PROVE  LastIn(toClient[j], States, Known, HasTrack(q, j))
<1>1. Types /\ j \in Conn /\ "url" \in Aspect
  BY ConnFacts DEF Staged, Base, Aspect
<1>2. toClient[j] \in Seq(ToClient) /\ signals[q] \in Seq(Signal)
  BY <1>1 DEF Types
<1>3. PICK v : v = tracker.url
  OBVIOUS
<1>4. aspect(tracker, "url") = v /\ aspect(audio[q].state, "url") = audio[q].state.url
  BY <1>3 DEF aspect
<1>5. GuestTuned(q, j, "url", v)
  BY <1>1, <1>4 DEF Tuned, TunedAt, Staged
<1>6. LastIn(toClient[j], States, Says("url", v), Heard(q, j, "url", v))
  BY <1>5, MarksParts DEF GuestTuned
<1>7. \A x : x \in Says("url", v) => x \in Known
  BY <1>3, MarksParts
<1>8. Heard(q, j, "url", v) => HasTrack(q, j)
  <2>1. SUFFICES ASSUME Heard(q, j, "url", v)
                 PROVE  HasTrack(q, j)
    OBVIOUS
  <2>2. LastIn(signals[q], Of(j, States), Of(j, Says("url", v)), audio[q].state.url = v)
    BY <1>4, <2>1, MarksParts DEF Heard
  <2>3. \A x : x \in Of(j, Says("url", v)) => x \in Of(j, Known)
    BY <1>7 DEF Of
  <2>4. LastIn(signals[q], Of(j, States), Of(j, Known), audio[q].state.url # NoTrack)
    BY <1>2, <1>3, <2>2, <2>3, LastInWeaker
  <2> QED
    BY <2>4 DEF HasTrack
<1> QED
  BY <1>2, <1>6, <1>7, <1>8, LastInWeaker

\* What a host tells of the track being played comes after its track.
LEMMA HostHas ==
  ASSUME Staged, Tuned, "untold" \notin slips, NEW q \in Process, NEW j \in Opened, Tells(q, j),
         audio[q].state.url # NoTrack
  PROVE  LastIn(toServer[j], States, Known, tracker.url # NoTrack)
<1>1. Types /\ j \in Conn /\ "url" \in Aspect
  BY ConnFacts DEF Staged, Base, Aspect
<1>2. toServer[j] \in Seq(ToServer)
  BY <1>1 DEF Types
<1>3. PICK v : v = audio[q].state.url
  OBVIOUS
<1>4. aspect(tracker, "url") = tracker.url /\ aspect(audio[q].state, "url") = v
  BY <1>3 DEF aspect
<1>5. HostTuned(q, j, "url")
  BY <1>1 DEF Tuned, TunedAt, Staged
<1>6. LastIn(toServer[j], States, Says("url", v), tracker.url = v)
  BY <1>4, <1>5, MarksParts DEF HostTuned
<1>7. \A x : x \in Says("url", v) => x \in Known
  BY <1>3, MarksParts
<1> QED
  BY <1>2, <1>3, <1>6, <1>7, LastInWeaker

LEMMA SensibleServer ==
  ASSUME Staged, Tuned, "untold" \notin slips, Sensibly, ServerStep, HostMusic', "late" \notin slips'
  PROVE  Sensibly'
<1>1. Types /\ Base /\ Opened \subseteq Conn
  BY ConnFacts DEF Staged, Base
<1>2. \A j \in Conn : toServer[j] \in Seq(ToServer) /\ toClient[j] \in Seq(ToClient)
  BY <1>1 DEF Types
<1>3. /\ Sane(tracker) /\ SanelyTold
      /\ \A p \in Process : SoundPlayer(audio[p])
      /\ \A k \in Conn : ServerSense(k)
      /\ \A p \in Process : \A k \in Opened : client[p] = k => SignalSense(p, k) /\ ClientSense(p, k)
  BY DEF Sensibly
\* Who does not host sends no music.
<1>4. \A j \in Conn : ~(users'[j] = "host") => ServerSense(j)'
  <2>1. ASSUME NEW j \in Conn, ~(users'[j] = "host")
        PROVE  ServerSense(j)'
    <3>1. In(toServer'[j]) \cap Marks = {}
      BY <2>1, MarksParts DEF HostMusic, Host
    <3> QED
      BY <3>1, SensedNone DEF ServerSense
  <2> QED
    BY <2>1
<1>5. ASSUME NEW j \in Conn, Hushed(j)
      PROVE  /\ SaneIn(In(toClient'[j]))
             /\ \A q \in Process : client[q] = j /\ j \in Opened /\ UNCHANGED <<signals, audio, button>>
                  => ClientSense(q, j)'
  <2>1. PICK u \in Seq(ToClient) : toClient'[j] = toClient[j] \o u /\ In(u) \cap (Session \cup Music) = {}
    BY <1>5 DEF Hushed
  <2>2. In(toClient'[j]) = In(toClient[j]) \cup In(u) /\ In(u) \cap Marks = {} /\ In(u) \cap States = {}
    BY <1>2, <2>1, InConcat, MarksParts
  <2>3. SaneIn(In(toClient'[j]))
    BY <1>3, <2>2 DEF SanelyTold, SaneIn
  <2>4. ASSUME NEW q \in Process, client[q] = j, j \in Opened, UNCHANGED <<signals, audio, button>>
        PROVE  ClientSense(q, j)'
    <3>1. ClientSense(q, j)
      BY <1>3, <2>4
    <3>2. Sensed(toClient'[j], Marks, Session, States, Known, button[q] = "Connected" \/ Signalled(q, j), HasTrack(q, j))
      BY <1>2, <2>1, <2>2, <3>1, SensedConcat DEF ClientSense
    <3> QED
      BY <2>4, <3>2 DEF ClientSense, HasTrack, Signalled
  <2> QED
    BY <2>3, <2>4
<1>6. ServerMoves =>
        /\ \A p \in Process : SoundPlayer(audio[p])'
        /\ \A p \in Process : \A y \in In(signals'[p]) : SaneIn({y.payload})
        /\ \A p \in Process : \A k \in Opened' : client'[p] = k => k \in Opened /\ client[p] = k /\ SignalSense(p, k)'
  BY <1>3 DEF ServerMoves, SanelyTold, Opened, SignalSense
<1>7. ASSUME ServerMoves, Sane(tracker)',
             \A k \in Conn : users'[k] = "host" => ServerSense(k)',
             \A k \in Conn : In(toServer'[k]) \subseteq In(toServer[k]) /\ SaneIn(In(toClient'[k])),
             \A p \in Process : \A k \in Opened : client[p] = k => ClientSense(p, k)'
      PROVE  Sensibly'
  <2>1. \A k \in Conn : SaneIn(In(toServer'[k]))
    BY <1>3, <1>7 DEF SanelyTold, SaneIn
  <2>2. SanelyTold'
    BY <1>6, <1>7, <2>1 DEF SanelyTold
  <2> QED
    BY <1>4, <1>6, <1>7, <2>2 DEF Sensibly
<1>8. CASE Ignores
  <2>1. ServerMoves /\ tracker' = tracker /\ UNCHANGED <<signals, audio, button>>
    BY <1>8 DEF Ignores, ServerMoves
  <2>2. ASSUME NEW j \in Conn, users'[j] = "host"
        PROVE  ServerSense(j)'
    <3>1. ServerSense(j) /\ Passed(j)
      BY <1>3, <1>8, <2>2 DEF Ignores
    <3>2. CASE toServer'[j] = toServer[j]
      BY <2>1, <3>1, <3>2 DEF ServerSense
    <3>3. CASE toServer[j] # <<>> /\ Head(toServer[j]) \notin Music /\ toServer'[j] = Tail(toServer[j])
      <4>1. Head(toServer[j]) \notin States /\ Head(toServer[j]) \notin Known
        <5>1. Head(toServer[j]) \in ToServer
          BY <1>2, <3>3, HeadTailProperties
        <5>2. Head(toServer[j]) \notin Speaks("url")
          BY <3>3, <5>1, SpeaksSent DEF Aspect
        <5> QED
          BY <5>2, MarksParts
      <4>2. Sensed(toServer'[j], Marks, {}, States, Known, TRUE, tracker.url # NoTrack)
        BY <1>2, <3>1, <3>3, <4>1, SensedTail DEF ServerSense
      <4> QED
        BY <2>1, <4>2 DEF ServerSense
    <3> QED
      BY <3>1, <3>2, <3>3 DEF Passed
  <2>3. \A k \in Conn : In(toServer'[k]) \subseteq In(toServer[k]) /\ Hushed(k)
    BY <1>8 DEF Ignores
  <2>4. \A k \in Conn : In(toServer'[k]) \subseteq In(toServer[k]) /\ SaneIn(In(toClient'[k]))
    BY <1>5, <2>3
  <2>5. \A p \in Process : \A k \in Opened : client[p] = k => ClientSense(p, k)'
    BY <1>1, <1>5, <2>1, <2>3
  <2> QED
    BY <1>3, <1>7, <2>1, <2>2, <2>4, <2>5
<1>9. ASSUME NEW k \in Conn, NEW s \in Session, Introduces(k, s)
      PROVE  Sensibly'
  <2>1. ServerMoves /\ tracker' = tracker /\ s.stream = tracker /\ UNCHANGED <<signals, audio, button>>
    BY <1>9 DEF Introduces, ServerMoves
  <2>2. /\ k \notin Host /\ In(toServer'[k]) \subseteq In(toServer[k])
        /\ \A j \in Conn \ {k} : Hushed(j) /\ toServer'[j] = toServer[j]
        /\ toClient'[k] = IF link[k] = "up" THEN Append(toClient[k], s) ELSE toClient[k]
    BY <1>9 DEF Introduces, Staged, Greetings, Named, Host
  <2>3. ASSUME NEW j \in Conn
        PROVE  ServerSense(j)'
    <3>1. CASE j = k
      <4>1. In(toServer'[j]) \cap Marks = {}
        BY <2>2, <3>1, MarksParts DEF Staged, HostMusic
      <4> QED
        BY <4>1, SensedNone DEF ServerSense
    <3>2. CASE j # k
      BY <1>3, <2>1, <2>2, <3>2 DEF ServerSense
    <3> QED
      BY <3>1, <3>2
  <2>4. s \in ToClient /\ s \notin Marks /\ SaneIn({s})
    BY <1>3, <2>1, MarksParts DEF ToClient, SaneIn
  <2>5. SaneIn(In(toClient'[k]))
    <3>1. In(toClient'[k]) \subseteq In(toClient[k]) \cup {s}
      BY <1>2, <2>2, <2>4, InAppend
    <3> QED
      BY <1>3, <2>4, <3>1 DEF SanelyTold, SaneIn
  <2>6. ASSUME NEW p \in Process, client[p] = k, k \in Opened
        PROVE  ClientSense(p, k)'
    <3>1. ClientSense(p, k)
      BY <1>3, <2>6
    <3>2. Sensed(toClient'[k], Marks, Session, States, Known, button[p] = "Connected" \/ Signalled(p, k), HasTrack(p, k))
      <4>1. CASE toClient'[k] = toClient[k]
        BY <3>1, <4>1 DEF ClientSense
      <4>2. CASE toClient'[k] = Append(toClient[k], s)
        BY <1>2, <2>4, <3>1, <4>2, SensedAppend DEF ClientSense
      <4> QED
        BY <2>2, <4>1, <4>2
    <3> QED
      BY <2>1, <3>2 DEF ClientSense, HasTrack, Signalled
  <2>7. \A j \in Conn : In(toServer'[j]) \subseteq In(toServer[j]) /\ SaneIn(In(toClient'[j]))
    BY <1>5, <2>2, <2>5
  <2>8. \A p \in Process : \A j \in Opened : client[p] = j => ClientSense(p, j)'
    BY <1>1, <1>5, <2>1, <2>2, <2>6
  <2> QED
    BY <1>3, <1>7, <2>1, <2>3, <2>7, <2>8
<1>10. ASSUME NEW k \in Conn, NEW m \in Music, Conducts(k, m)
       PROVE  Sensibly'
  <2>1. /\ ServerMoves /\ UNCHANGED <<signals, audio, button, link, users>> /\ Minds(m) /\ k \in Host
        /\ toServer[k] # <<>> /\ m = Head(toServer[k]) /\ toServer'[k] = Tail(toServer[k])
        /\ m \in In(toServer[k])
        /\ \A j \in Conn \ {k} : toServer'[j] = toServer[j]
        /\ \A j \in Conn :
             toClient'[j] = IF j \in Peers(k) /\ link[j] = "up" THEN Append(toClient[j], m) ELSE toClient[j]
    BY <1>10 DEF Conducts, ServerMoves, Staged, HostMusic
  <2>2. m \in Urls => Sane(m.state)
    <3>1. m \in Urls => m \in States /\ stateIn(m) = m.state
      BY MarksParts
    <3> QED
      BY <1>3, <2>1, <3>1 DEF SanelyTold, SaneIn
  <2>3. m \in Marks => tracker.url # NoTrack
    BY <1>2, <1>3, <2>1, SensedHead DEF ServerSense
  <2>4. /\ Sane(tracker')
        /\ m \in Marks => tracker'.url = tracker.url
        /\ m \in Urls => tracker' = m.state
    BY <1>1, <1>3, <2>1, <2>2, <2>3, SaneTracker
  <2>5. ASSUME NEW j \in Conn, users'[j] = "host"
        PROVE  ServerSense(j)'
    <3>1. j = k
      BY <2>1, <2>5 DEF Host, Staged, Hosting
    <3>2. /\ m \notin States /\ tracker.url # NoTrack => tracker'.url # NoTrack
          /\ m \in States /\ m \in Known => tracker'.url # NoTrack
      BY <2>4, MarksParts DEF Known
    <3>3. Sensed(toServer'[k], Marks, {}, States, Known, TRUE, tracker'.url # NoTrack)
      <4> DEFINE has == tracker.url # NoTrack
                 will == tracker'.url # NoTrack
      <4>1. Sensed(toServer[k], Marks, {}, States, Known, TRUE, has)
        BY <1>3 DEF ServerSense
      <4>2. /\ Head(toServer[k]) \notin States /\ has => will
            /\ Head(toServer[k]) \in States /\ Head(toServer[k]) \in Known => will
        BY <2>1, <3>2
      <4> HIDE DEF has, will
      <4>3. Sensed(Tail(toServer[k]), Marks, {}, States, Known, TRUE, will)
        BY <1>2, <2>1, <4>1, <4>2, SensedTail
      <4> QED
        BY <2>1, <4>3 DEF will
    <3> QED
      BY <3>1, <3>3 DEF ServerSense
  <2>6. m \in ToClient /\ SaneIn({m})
    BY <2>2, MarksParts, MusicIsSent DEF SaneIn, Session, Music
  <2>7. ASSUME NEW j \in Conn
        PROVE  In(toServer'[j]) \subseteq In(toServer[j]) /\ SaneIn(In(toClient'[j]))
    <3>1. In(toServer'[j]) \subseteq In(toServer[j])
      BY <1>2, <2>1, InTail
    <3>2. In(toClient'[j]) \subseteq In(toClient[j]) \cup {m}
      BY <1>2, <2>1, <2>6, InAppend
    <3> QED
      BY <1>3, <2>6, <3>1, <3>2 DEF SanelyTold, SaneIn
  <2>8. ASSUME NEW p \in Process, NEW j \in Opened, client[p] = j
        PROVE  ClientSense(p, j)'
    <3>1. ClientSense(p, j) /\ j \in Conn
      BY <1>1, <1>3, <2>8
    <3>2. Sensed(toClient'[j], Marks, Session, States, Known, button[p] = "Connected" \/ Signalled(p, j), HasTrack(p, j))
      <4>1. CASE toClient'[j] = toClient[j]
        BY <3>1, <4>1 DEF ClientSense
      <4>2. CASE j \in Peers(k) /\ link[j] = "up"
        <5>1. ASSUME m \in Marks, (button[p] = "Connected" \/ Signalled(p, j)) \/ In(toClient[j]) \cap Session # {}
              PROVE  LastIn(toClient[j], States, Known, HasTrack(p, j))
          <6>1. Shake \notin In(toServer[j])
            <7>1. CASE button[p] = "Connected"
              BY <2>8, <4>2, <7>1, HostStaged DEF Ahead
            <7>2. CASE Signalled(p, j)
              BY <3>1, <7>2 DEF Staged, Greetings, Ahead
            <7>3. CASE In(toClient[j]) \cap Session # {}
              BY <3>1, <7>3 DEF Staged, Greetings
            <7> QED
              BY <5>1, <7>1, <7>2, <7>3
          <6>2. j \in Named /\ j # k
            BY <3>1, <4>2, <6>1 DEF Staged, Greetings, Peers
          <6>3. j \notin Host
            BY <2>1, <6>2 DEF Staged, Hosting
          <6>4. Follows(p, j)
            BY <2>8, <4>2, <6>2, <6>3 DEF Follows, Named, Host
          <6> QED
            BY <2>3, <5>1, <6>4, GuestHas
        <5>2. toClient'[j] = Append(toClient[j], m)
          BY <2>1, <3>1, <4>2
        <5> QED
          BY <1>2, <2>6, <3>1, <5>1, <5>2, SensedAppend DEF ClientSense
      <4> QED
        BY <2>1, <3>1, <4>1, <4>2
    <3> QED
      BY <2>1, <3>2 DEF ClientSense, HasTrack, Signalled
  <2> QED
    BY <1>7, <2>1, <2>4, <2>5, <2>7, <2>8
<1> QED
  BY <1>1, <1>8, <1>9, <1>10, ServerPlayed

LEMMA SensibleClient ==
  ASSUME Staged, Sensibly, ClientStep
  PROVE  Sensibly'
<1>1. Types /\ Base /\ Opened \subseteq Conn /\ NoConn \notin Conn
  BY ConnFacts DEF Staged, Base
<1>2. /\ \A j \in Conn : toClient[j] \in Seq(ToClient)
      /\ \A q \in Process : signals[q] \in Seq(Signal)
      /\ UNCHANGED <<processOf, users, tracker>>
  BY <1>1 DEF Types, ClientStep, serverVars, constantVars
<1>3. /\ Sane(tracker) /\ SanelyTold
      /\ \A p \in Process : SoundPlayer(audio[p])
      /\ \A k \in Conn : ServerSense(k)
      /\ \A p \in Process : \A k \in Opened : client[p] = k => SignalSense(p, k) /\ ClientSense(p, k)
  BY DEF Sensibly
<1>4. ASSUME UNCHANGED <<toServer, client, audio>>, SanelyTold',
             \A p \in Process : \A k \in Opened : client[p] = k => SignalSense(p, k)' /\ ClientSense(p, k)'
      PROVE  Sensibly'
  BY <1>2, <1>3, <1>4 DEF Sensibly, ServerSense, Opened
<1>5. ASSUME NEW k \in Conn, NEW x \in ToClient, NEW p \in Process, Receives(k, x, p)
      PROVE  Sensibly'
  <2> DEFINE y == [conn |-> k, payload |-> x]
  <2>1. /\ UNCHANGED <<link, toServer, client, button, audio>> /\ client[p] = k /\ k \in Opened
        /\ toClient[k] # <<>> /\ x = Head(toClient[k]) /\ toClient'[k] = Tail(toClient[k])
        /\ In(toClient[k]) = {x} \cup In(toClient'[k])
        /\ \A i \in Conn \ {k} : toClient'[i] = toClient[i]
        /\ signals'[p] = Append(signals[p], y)
        /\ In(signals'[p]) = In(signals[p]) \cup {y}
        /\ \A r \in Process \ {p} : signals'[r] = signals[r]
    BY <1>5 DEF Receives, Reads
  <2>2. y.payload = x /\ y \in Signal /\ \A S : y \in Of(k, S) <=> x \in S
    BY OfParts DEF Signal
  <2> HIDE DEF y
  <2>3. SanelyTold'
    <3>1. ASSUME NEW r \in Process, NEW z \in In(signals'[r])
          PROVE  SaneIn({z.payload})
      <4>1. z \in In(signals[r]) \/ (r = p /\ z = y)
        BY <2>1, <3>1
      <4>2. SaneIn({x})
        BY <1>3, <2>1 DEF SanelyTold, SaneIn
      <4> QED
        BY <1>3, <2>2, <4>1, <4>2 DEF SanelyTold
    <3>2. ASSUME NEW i \in Conn
          PROVE  SaneIn(In(toServer'[i])) /\ SaneIn(In(toClient'[i]))
      <4>1. In(toClient'[i]) \subseteq In(toClient[i])
        BY <2>1
      <4> QED
        BY <1>3, <2>1, <4>1 DEF SanelyTold, SaneIn
    <3> QED
      BY <3>1, <3>2 DEF SanelyTold
  <2>4. ASSUME NEW q \in Process, NEW j \in Opened, client[q] = j
        PROVE  SignalSense(q, j)' /\ ClientSense(q, j)'
    <3>1. SignalSense(q, j) /\ ClientSense(q, j) /\ j \in Conn
      BY <1>1, <1>3, <2>4
    <3>2. CASE j # k
      <4>1. q # p
        BY <2>1, <2>4, <3>2
      <4>2. toClient'[j] = toClient[j] /\ signals'[q] = signals[q]
        BY <2>1, <3>1, <3>2, <4>1
      <4> QED
        BY <2>1, <3>1, <4>2 DEF SignalSense, ClientSense, HasTrack, Signalled
    <3>3. CASE j = k
      <4>1. q = p
        BY <1>1, <2>1, <2>4, <3>1, <3>3, ClientsApart
      <4>2. ASSUME x \in Marks, button[q] = "Connected" \/ Signalled(q, k)
            PROVE  HasTrack(q, k)
        <5>1. 1 \in DOMAIN toClient[k] /\ toClient[k][1] = x /\ \A i \in DOMAIN toClient[k] : ~(i < 1)
          BY <1>2, <2>1, HeadTailProperties, LenProperties, EmptySeq
        <5>2. LastBefore(toClient[k], 1, States, Known, HasTrack(q, k))
          BY <3>1, <3>3, <4>2, <5>1 DEF ClientSense, Sensed
        <5> QED
          BY <5>1, <5>2 DEF LastBefore
      <4>3. SignalSense(q, k)'
        <5>1. y \in Of(k, Marks) /\ (button[q] = "Connected" \/ In(signals[q]) \cap Of(k, Session) # {}) =>
                LastIn(signals[q], Of(k, States), Of(k, Known), audio[q].state.url # NoTrack)
          BY <2>2, <4>2 DEF HasTrack, Signalled
        <5>2. Sensed(Append(signals[q], y), Of(k, Marks), Of(k, Session), Of(k, States), Of(k, Known),
                     button[q] = "Connected", audio[q].state.url # NoTrack)
          BY <1>2, <2>2, <3>1, <3>3, <5>1, SensedAppend DEF SignalSense
        <5> QED
          BY <2>1, <4>1, <5>2 DEF SignalSense
      <4>4. ClientSense(q, k)'
        <5>1. /\ x \notin States => (HasTrack(q, k)' <=> HasTrack(q, k))
              /\ x \in States => (HasTrack(q, k)' <=> x \in Known)
          <6> DEFINE b == audio[q].state.url # NoTrack
          <6>1. /\ y \in Of(k, States) <=> x \in States
                /\ y \in Of(k, Known) <=> x \in Known
            BY <2>2
          <6>2. /\ HasTrack(q, k) = LastIn(signals[q], Of(k, States), Of(k, Known), b)
                /\ HasTrack(q, k)' = LastIn(Append(signals[q], y), Of(k, States), Of(k, Known), b)
            BY <2>1, <4>1 DEF HasTrack
          <6> HIDE DEF b
          <6>3. /\ y \notin Of(k, States) => (LastIn(Append(signals[q], y), Of(k, States), Of(k, Known), b)
                                               <=> LastIn(signals[q], Of(k, States), Of(k, Known), b))
                /\ y \in Of(k, States) => (LastIn(Append(signals[q], y), Of(k, States), Of(k, Known), b)
                                               <=> y \in Of(k, Known))
            BY <1>2, <2>2, LastAppend
          <6> QED
            BY <6>1, <6>2, <6>3
        <5>2. Signalled(q, k)' => Signalled(q, k) \/ x \in Session
          BY <2>1, <2>2, <4>1 DEF Signalled
        <5> DEFINE t == button[q] = "Connected" \/ Signalled(q, k)
                   d == button[q] = "Connected" \/ Signalled(q, k)'
                   b == HasTrack(q, k)
                   c == HasTrack(q, k)'
        <5>3. /\ Sensed(toClient[k], Marks, Session, States, Known, t, b)
              /\ d => t \/ Head(toClient[k]) \in Session
              /\ Head(toClient[k]) \notin States /\ b => c
              /\ Head(toClient[k]) \in States /\ Head(toClient[k]) \in Known => c
          BY <2>1, <3>1, <3>3, <5>1, <5>2 DEF ClientSense
        <5> HIDE DEF t, d, b, c
        <5>4. Sensed(Tail(toClient[k]), Marks, Session, States, Known, d, c)
          BY <1>2, <2>1, <5>3, SensedTail
        <5> QED
          BY <2>1, <5>4 DEF ClientSense, d, c
      <4> QED
        BY <3>3, <4>3, <4>4
    <3> QED
      BY <3>2, <3>3
  <2> QED
    BY <1>4, <2>1, <2>3, <2>4
<1>6. ASSUME NEW k \in Conn, NEW p \in Process, Breaks(k, p)
      PROVE  Sensibly'
  <2> DEFINE y == [conn |-> k, payload |-> [method |-> "Ended"]]
  <2>1. /\ UNCHANGED <<toServer, client, button, audio>> /\ client[p] = k
        /\ toClient' = [toClient EXCEPT ![k] = <<>>]
        /\ signals'[p] = Append(signals[p], y)
        /\ In(signals'[p]) = In(signals[p]) \cup {y}
        /\ \A r \in Process \ {p} : signals'[r] = signals[r]
    BY <1>6 DEF Breaks, Fails
  <2>2. /\ y.payload = [method |-> "Ended"] /\ y \in Signal
        /\ y \notin Of(k, Marks) /\ SaneIn({y.payload})
    <3>1. [method |-> "Ended"] \notin Marks /\ [method |-> "Ended"] \notin States
      BY DEF Marks, PlayingStates, PositionTold, States, Session, Urls
    <3> QED
      BY <3>1, OfParts DEF Signal, SaneIn
  <2> HIDE DEF y
  <2>3. \A i \in Conn : toClient'[i] = toClient[i] \/ (i = k /\ In(toClient'[i]) = {})
    BY <1>1, <2>1, InEmpty DEF Types
  <2>4. SanelyTold'
    <3>1. ASSUME NEW r \in Process, NEW z \in In(signals'[r])
          PROVE  SaneIn({z.payload})
      <4>1. z \in In(signals[r]) \/ z = y
        BY <2>1, <3>1
      <4> QED
        BY <1>3, <2>2, <4>1 DEF SanelyTold
    <3>2. ASSUME NEW i \in Conn
          PROVE  SaneIn(In(toServer'[i])) /\ SaneIn(In(toClient'[i]))
      <4>1. In(toClient'[i]) \subseteq In(toClient[i])
        BY <2>3
      <4> QED
        BY <1>3, <2>1, <4>1 DEF SanelyTold, SaneIn
    <3> QED
      BY <3>1, <3>2 DEF SanelyTold
  <2>5. ASSUME NEW q \in Process, NEW j \in Opened, client[q] = j
        PROVE  SignalSense(q, j)' /\ ClientSense(q, j)'
    <3>1. SignalSense(q, j) /\ ClientSense(q, j) /\ j \in Conn
      BY <1>1, <1>3, <2>5
    <3>2. CASE j # k
      <4>1. q # p
        BY <2>1, <2>5, <3>2
      <4>2. toClient'[j] = toClient[j] /\ signals'[q] = signals[q]
        BY <2>1, <2>3, <3>1, <3>2, <4>1
      <4> QED
        BY <2>1, <3>1, <4>2 DEF SignalSense, ClientSense, HasTrack, Signalled
    <3>3. CASE j = k
      <4>1. q = p
        BY <1>1, <2>1, <2>5, <3>1, <3>3, ClientsApart
      <4>2. Sensed(Append(signals[q], y), Of(k, Marks), Of(k, Session), Of(k, States), Of(k, Known),
                   button[q] = "Connected", audio[q].state.url # NoTrack)
        BY <1>2, <2>2, <3>1, <3>3, SensedAppend DEF SignalSense
      <4>3. SignalSense(q, k)'
        BY <2>1, <4>1, <4>2 DEF SignalSense
      <4>4. In(toClient'[k]) \cap Marks = {}
        BY <1>1, <2>1, InEmpty DEF Types
      <4>5. ClientSense(q, k)'
        BY <4>4, SensedNone DEF ClientSense
      <4> QED
        BY <3>3, <4>3, <4>5
    <3> QED
      BY <3>2, <3>3
  <2> QED
    BY <1>4, <2>1, <2>4, <2>5
<1>7. ClientMove
  BY <1>1, ClientMoved
<1> QED
  BY <1>5, <1>6, <1>7 DEF ClientMove

\* Who hosts hears no music.
LEMMA HostSense ==
  ASSUME HostMusic', InCharge', "late" \notin slips', NoConn \notin Conn,
         NEW q \in Process, NEW j \in Conn, j \in Opened',
         client'[q] = j, button'[q] = "Connected", hostAble'[q]
  PROVE  SignalSense(q, j)' /\ ClientSense(q, j)'
<1>1. audio'[q].master
  BY DEF InCharge
<1>2. In(toClient'[j]) \cap Marks = {} /\ In(signals'[q]) \cap Of(j, Marks) = {}
  <2>1. In(toClient'[j]) \cap Music = {} /\ In(signals'[q]) \cap Of(j, Music) = {}
    BY <1>1 DEF HostMusic, HostHears
  <2>2. Of(j, Marks) \subseteq Of(j, Music)
    BY MarksParts DEF Of
  <2> QED
    BY <2>1, <2>2, MarksParts
<1> QED
  BY <1>2, SensedNone DEF SignalSense, ClientSense

LEMMA SenseTakes ==
  ASSUME Types, NEW p \in Process, NEW k \in Conn, NEW j \in Conn, NEW m, Takes1(p, j, m),
         UNCHANGED toClient, SignalSense(p, k), ClientSense(p, k),
         button'[p] = "Connected" => button[p] = "Connected" \/ (j = k /\ m \in Session),
         ~(j = k /\ m \in States) /\ audio[p].state.url # NoTrack => audio'[p].state.url # NoTrack,
         j = k /\ m \in Known => audio'[p].state.url # NoTrack
  PROVE  SignalSense(p, k)' /\ ClientSense(p, k)'
<1> DEFINE y == Head(signals[p])
<1>1. toClient[k] \in Seq(ToClient) /\ signals[p] \in Seq(Signal) /\ signals[p] # <<>>
      /\ signals'[p] = Tail(signals[p])
  BY DEF Types, Takes1
<1>2. In(signals[p]) = {y} \cup In(signals'[p])
  BY <1>1, InTail
<1>3. \A S : y \in Of(k, S) <=> j = k /\ m \in S
  BY OfParts DEF Takes1
<1> DEFINE b == audio[p].state.url # NoTrack
           c == audio'[p].state.url # NoTrack
           t == button[p] = "Connected"
           d == button'[p] = "Connected"
           t2 == t \/ Signalled(p, k)
           d2 == d \/ Signalled(p, k)'
           h == HasTrack(p, k)
           h2 == HasTrack(p, k)'
<1>4. /\ d => t \/ y \in Of(k, Session)
      /\ y \notin Of(k, States) /\ b => c
      /\ y \in Of(k, States) /\ y \in Of(k, Known) => c
  BY <1>3
<1>5. Sensed(signals[p], Of(k, Marks), Of(k, Session), Of(k, States), Of(k, Known), t, b)
  BY DEF SignalSense
<1>6. HasTrack(p, k) = LastIn(signals[p], Of(k, States), Of(k, Known), b)
      /\ HasTrack(p, k)' = LastIn(signals'[p], Of(k, States), Of(k, Known), c)
  BY DEF HasTrack
<1>7. SignalSense(p, k)' = Sensed(signals'[p], Of(k, Marks), Of(k, Session), Of(k, States), Of(k, Known), d, c)
  BY DEF SignalSense
<1>8. Sensed(toClient[k], Marks, Session, States, Known, t2, h)
  BY DEF ClientSense
<1>9. ClientSense(p, k)' = Sensed(toClient[k], Marks, Session, States, Known, d2, h2)
  BY DEF ClientSense
<1>10. d2 => t2
  BY <1>2, <1>4 DEF Signalled
<1> HIDE DEF b, c, t, d, y
<1>11. Sensed(Tail(signals[p]), Of(k, Marks), Of(k, Session), Of(k, States), Of(k, Known), d, c)
  BY <1>1, <1>4, <1>5, SensedTail DEF y
<1>12. LastIn(signals[p], Of(k, States), Of(k, Known), b) => LastIn(Tail(signals[p]), Of(k, States), Of(k, Known), c)
  BY <1>1, <1>4, LastTail DEF y
<1>13. h => h2
  BY <1>1, <1>6, <1>12 DEF h, h2
<1> HIDE DEF t2, d2, h, h2
<1>14. Sensed(toClient[k], Marks, Session, States, Known, d2, h2)
  BY <1>8, <1>10, <1>13, SensedBase, MarksParts
<1> QED
  BY <1>1, <1>7, <1>9, <1>11, <1>14

\* Who waits for the session may play anything meanwhile.
LEMMA SenseWaits ==
  ASSUME Types, NEW p \in Process, NEW k \in Conn, UNCHANGED <<toClient, signals, button>>,
         SignalSense(p, k), ClientSense(p, k),
         button[p] = "Connected" => audio'[p].state = audio[p].state
  PROVE  SignalSense(p, k)' /\ ClientSense(p, k)'
<1>1. CASE button[p] = "Connected"
  BY <1>1 DEF SignalSense, ClientSense, HasTrack, Signalled
<1>2. CASE button[p] # "Connected"
  <2> DEFINE b == audio[p].state.url # NoTrack
             c == audio'[p].state.url # NoTrack
  <2>1. Sensed(signals[p], Of(k, Marks), Of(k, Session), Of(k, States), Of(k, Known), FALSE, b)
    BY <1>2 DEF SignalSense, Sensed
  <2>2. Sensed(toClient[k], Marks, Session, States, Known, Signalled(p, k), HasTrack(p, k))
    BY <1>2 DEF ClientSense, Sensed
  <2>3. HasTrack(p, k) = LastIn(signals[p], Of(k, States), Of(k, Known), b)
        /\ HasTrack(p, k)' = LastIn(signals[p], Of(k, States), Of(k, Known), c)
    BY DEF HasTrack
  <2>4. Of(k, Session) \subseteq Of(k, States)
    BY MarksParts DEF Of
  <2>5. SignalSense(p, k)' <=> Sensed(signals[p], Of(k, Marks), Of(k, Session), Of(k, States), Of(k, Known), FALSE, c)
    BY <1>2 DEF SignalSense, Sensed
  <2>6. ClientSense(p, k)' <=> Sensed(toClient[k], Marks, Session, States, Known, Signalled(p, k), HasTrack(p, k)')
    BY <1>2 DEF ClientSense, Sensed, Signalled
  <2> HIDE DEF b, c
  <2>7. Sensed(signals[p], Of(k, Marks), Of(k, Session), Of(k, States), Of(k, Known), FALSE, c)
    BY <2>1, <2>4, SensedBase
  <2>8. Signalled(p, k) /\ HasTrack(p, k) => HasTrack(p, k)'
    <3>1. signals[p] \in Seq(Signal)
      BY DEF Types
    <3>2. Signalled(p, k) => In(signals[p]) \cap Of(k, States) # {}
      BY <2>4 DEF Signalled
    <3>3. Signalled(p, k) /\ LastIn(signals[p], Of(k, States), Of(k, Known), b)
            => LastIn(signals[p], Of(k, States), Of(k, Known), c)
      BY <3>1, <3>2, LastInWeaker
    <3> QED
      BY <2>3, <3>3
  <2>9. Sensed(toClient[k], Marks, Session, States, Known, Signalled(p, k), HasTrack(p, k)')
    BY <2>2, <2>8, SensedBase, MarksParts
  <2> QED
    BY <2>5, <2>6, <2>7, <2>9
<1> QED
  BY <1>1, <1>2

\* What p sends makes sense.
Sends(p, x) ==
  /\ ClientTells(p, x)
  /\ x \in Urls => Sane(x.state)
  /\ x \in Marks => \A j \in Opened : client[p] = j /\ link[j] = "up" /\ j \in Host =>
                      LastIn(toServer[j], States, Known, tracker.url # NoTrack)

LEMMA SensibleElsewhere ==
  ASSUME Staged, Sensibly, HostMusic', InCharge', "late" \notin slips', NEW p \in Process,
         Elsewhere(p), OthersWait(p), \A q \in Process \ {p} : button'[q] = button[q],
         SoundPlayer(audio[p])',
         toServer' = toServer \/ \E x \in ToServer : Sends(p, x),
         In(signals'[p]) \subseteq In(signals[p]),
         \A k \in Opened : client[p] = k /\ ~(button'[p] = "Connected" /\ hostAble[p]) =>
            SignalSense(p, k)' /\ ClientSense(p, k)'
  PROVE  Sensibly'
<1>1. Types /\ Base /\ Opened \subseteq Conn /\ NoConn \notin Conn
  BY ConnFacts DEF Staged, Base
<1>2. /\ \A j \in Conn : toServer[j] \in Seq(ToServer)
      /\ UNCHANGED <<processOf, link, client, hostAble, toClient, users, tracker>>
      /\ \A q \in Process \ {p} : audio'[q] = audio[q] /\ signals'[q] = signals[q]
  BY <1>1 DEF Types, Elsewhere, OthersWait
<1>3. /\ Sane(tracker) /\ SanelyTold
      /\ \A q \in Process : SoundPlayer(audio[q])
      /\ \A k \in Conn : ServerSense(k)
      /\ \A q \in Process : \A k \in Opened : client[q] = k => SignalSense(q, k) /\ ClientSense(q, k)
  BY DEF Sensibly
<1>4. ASSUME NEW j \in Conn
      PROVE  SaneIn(In(toServer'[j])) /\ ServerSense(j)'
  <2>1. CASE toServer'[j] = toServer[j]
    BY <1>2, <1>3, <2>1 DEF SanelyTold, ServerSense
  <2>2. ASSUME NEW x \in ToServer, Sends(p, x), j = client[p], link[j] = "up"
        PROVE  SaneIn(In(toServer'[j])) /\ ServerSense(j)'
    <3>1. toServer'[j] = Append(toServer[j], x)
      BY <2>2 DEF Sends, ClientTells
    <3>2. In(toServer'[j]) = In(toServer[j]) \cup {x}
      BY <1>2, <3>1, InAppend
    <3>3. SaneIn({x})
      <4>1. x \in States => x \in Urls
        BY DEF States, ToServer, Music, Session, Urls
      <4>2. x \in Urls => stateIn(x) = x.state
        BY MarksParts
      <4> QED
        BY <2>2, <4>1, <4>2 DEF SaneIn, Sends
    <3>4. SaneIn(In(toServer'[j]))
      BY <1>3, <3>2, <3>3 DEF SanelyTold, SaneIn
    <3>5. CASE j \in Host
      <4>1. j \in Opened
        BY <1>1, <2>2 DEF Base, Connections
      <4>2. x \in Marks => LastIn(toServer[j], States, Known, tracker.url # NoTrack)
        BY <2>2, <3>5, <4>1 DEF Sends
      <4> DEFINE b == tracker.url # NoTrack
      <4>3. Sensed(toServer[j], Marks, {}, States, Known, TRUE, b)
        BY <1>3 DEF ServerSense
      <4> HIDE DEF b
      <4>4. Sensed(Append(toServer[j], x), Marks, {}, States, Known, TRUE, b)
        BY <1>2, <4>2, <4>3, SensedAppend DEF b
      <4> QED
        BY <1>2, <3>1, <3>4, <4>4 DEF ServerSense, b
    <3>6. CASE j \notin Host
      <4>1. In(toServer'[j]) \cap Marks = {}
        BY <1>2, <3>6, MarksParts DEF HostMusic, Host
      <4> QED
        BY <3>4, <4>1, SensedNone DEF ServerSense
    <3> QED
      BY <3>5, <3>6
  <2>3. toServer'[j] = toServer[j] \/ \E x \in ToServer : Sends(p, x) /\ j = client[p] /\ link[j] = "up"
    BY DEF Sends, ClientTells
  <2> QED
    BY <2>1, <2>2, <2>3
<1>5. SanelyTold'
  <2>1. \A q \in Process : In(signals'[q]) \subseteq In(signals[q])
    BY <1>2
  <2> QED
    BY <1>2, <1>3, <1>4, <2>1 DEF SanelyTold
<1>6. \A q \in Process : SoundPlayer(audio[q])'
  <2>1. ASSUME NEW q \in Process
        PROVE  SoundPlayer(audio[q])'
    <3>1. CASE q # p
      BY <1>2, <1>3, <3>1
    <3> QED
      BY <3>1
  <2> QED
    BY <2>1
<1>7. ASSUME NEW q \in Process, NEW j \in Opened, client[q] = j
      PROVE  SignalSense(q, j)' /\ ClientSense(q, j)'
  <2>1. CASE q # p
    BY <1>2, <1>3, <1>7, <2>1 DEF SignalSense, ClientSense, HasTrack, Signalled
  <2>2. CASE q = p /\ button'[p] = "Connected" /\ hostAble[p]
    <3>1. j \in Conn /\ j \in Opened'
      BY <1>1, <1>2 DEF Opened
    <3> QED
      BY <1>1, <1>2, <1>7, <2>2, <3>1, HostSense
  <2>3. CASE q = p /\ ~(button'[p] = "Connected" /\ hostAble[p])
    BY <1>7, <2>3
  <2> QED
    BY <2>1, <2>2, <2>3
<1> QED
  BY <1>2, <1>3, <1>4, <1>5, <1>6, <1>7 DEF Sensibly, Opened

LEMMA SensibleIdles ==
  ASSUME Staged, Sensibly, HostMusic', InCharge', "late" \notin slips', NEW p \in Process, Idles(p)
  PROVE  Sensibly'
<1>1. Types /\ Base /\ Opened \subseteq Conn
  BY ConnFacts DEF Staged, Base
<1>2. Elsewhere(p) /\ UNCHANGED <<audio, button, toClient>>
  BY DEF Idles, Elsewhere
<1>3. toServer' = toServer \/ \E x \in ToServer : Sends(p, x)
  <2>1. ASSUME NEW x \in ToServer \ Music, ClientTells(p, x)
        PROVE  Sends(p, x)
    BY <2>1, MarksParts DEF Sends
  <2> QED
    BY <2>1 DEF Idles
<1>4. CASE UNCHANGED signals
  <2>1. OthersWait(p) /\ In(signals'[p]) \subseteq In(signals[p])
    BY <1>4 DEF OthersWait
  <2>2. ASSUME NEW k \in Opened, client[p] = k
        PROVE  SignalSense(p, k)' /\ ClientSense(p, k)'
    <3>1. k \in Conn /\ SignalSense(p, k) /\ ClientSense(p, k)
      BY <1>1, <2>2 DEF Sensibly
    <3> QED
      BY <1>1, <1>2, <1>4, <3>1, SenseWaits
  <2>3. SoundPlayer(audio[p])'
    BY <1>2 DEF Sensibly
  <2> QED
    BY <1>2, <1>3, <2>1, <2>2, <2>3, SensibleElsewhere
<1>5. ASSUME NEW j \in Opened, NEW m, m \notin Session \cup Music, Takes1(p, j, m)
      PROVE  Sensibly'
  <2>1. OthersWait(p) /\ In(signals'[p]) \subseteq In(signals[p])
    <3>1. signals[p] \in Seq(Signal)
      BY <1>1 DEF Types
    <3> QED
      BY <1>5, <3>1, InTail DEF OthersWait, Takes1
  <2>2. ASSUME NEW k \in Opened, client[p] = k
        PROVE  SignalSense(p, k)' /\ ClientSense(p, k)'
    <3>1. k \in Conn /\ j \in Conn /\ SignalSense(p, k) /\ ClientSense(p, k)
      BY <1>1, <2>2 DEF Sensibly
    <3>2. m \notin Session /\ m \notin States /\ m \notin Known
      BY <1>5, MarksParts
    <3> QED
      BY <1>1, <1>2, <1>5, <3>1, <3>2, SenseTakes
  <2>3. SoundPlayer(audio[p])'
    BY <1>2 DEF Sensibly
  <2> QED
    BY <1>2, <1>3, <2>1, <2>2, <2>3, SensibleElsewhere
<1> QED
  BY <1>4, <1>5 DEF Idles

\* Whatever a user does with the music, what is heard is the track that is kept.
LEMMA SoundActs ==
  ASSUME NEW p, NEW a \in Player, NEW e \in Player, SoundPlayer(a), Performs(p, a, e)
  PROVE  SoundPlayer(e)
<1>1. CASE e.state = a.state /\ e.heard = a.heard
  BY <1>1 DEF SoundPlayer
<1>2. CASE a.heard.on \in {"playing", "paused"} /\ \E b \in BOOLEAN : PlayChanged(a, e, b)
  BY <1>2 DEF SoundPlayer, PlayChanged, Sane
<1>3. CASE a.heard.on \in {"playing", "paused"} /\ Sought(a, e)
  BY <1>3 DEF SoundPlayer, Sought, Sane
<1>4. CASE e.state.url \in Track /\ e.heard = [url |-> e.state.url, on |-> "playing"]
  BY <1>4, NoTrackAssumption DEF SoundPlayer, Sane
<1>5. CASE a.heard.on = "playing" /\ e.state.url = a.state.url /\ e.heard = [url |-> e.state.url, on |-> "playing"]
  BY <1>5 DEF SoundPlayer, Sane
<1>6. CASE e.state = ClearedState /\ e.heard.on = "stopped"
  BY <1>6 DEF SoundPlayer, Sane, ClearedState
<1>7. CASE a.heard.on = "playing" /\ e.state = a.state /\ e.heard = [url |-> a.heard.url, on |-> "ended"]
  BY <1>7 DEF SoundPlayer
<1> QED
  BY <1>1, <1>2, <1>3, <1>4, <1>5, <1>6, <1>7 DEF Performs

LEMMA SensibleActs ==
  ASSUME Staged, Tuned, "untold" \notin slips, Sensibly, Types', HostMusic', InCharge',
         "late" \notin slips', "untold" \notin slips', NEW p \in Process, Acting(p)
  PROVE  Sensibly'
<1>1. Types /\ Base /\ Opened \subseteq Conn /\ audio[p] \in Player /\ audio'[p] \in Player
  BY ConnFacts DEF Staged, Base, Types
<1>2. /\ Elsewhere(p) /\ UNCHANGED <<toClient, signals, button>>
      /\ Performs(p, audio[p], audio'[p]) /\ SoundPlayer(audio[p])
  BY DEF Acting, Elsewhere, Sensibly
<1>3. SoundPlayer(audio'[p])
  BY <1>1, <1>2, SoundActs
<1>4. Mastered(p)
  BY DEF Staged, Mastering
<1>5. \/ toServer' = toServer
      \/ Passes(p, UrlTold(audio'[p].state))
      \/ /\ audio[p].heard.on \in {"playing", "paused"}
         /\ Passes(p, PositionTold) \/ \E b \in BOOLEAN : Passes(p, PlayTold(b))
  BY <1>2 DEF Performs
<1>6. ASSUME NEW x \in ToServer, Passes(p, x), x \in Urls => Sane(x.state),
             x \in Marks => audio[p].heard.on \in {"playing", "paused"}
      PROVE  toServer' = toServer \/ Sends(p, x)
  <2>1. SUFFICES ASSUME audio[p].master, ClientTells(p, x)
                 PROVE  Sends(p, x)
    BY <1>6 DEF Passes
  <2>2. ASSUME x \in Marks, NEW j \in Opened, client[p] = j, link[j] = "up", j \in Host
        PROVE  LastIn(toServer[j], States, Known, tracker.url # NoTrack)
    <3>1. button[p] = "Connected" /\ audio[p].heard.on # "stopped" /\ audio[p].state.url # NoTrack
      BY <1>2, <1>4, <1>6, <2>1, <2>2 DEF Mastered, SoundPlayer
    <3>2. Tells(p, j)
      BY <2>2, <3>1 DEF Tells
    <3> QED
      BY <3>1, <3>2, HostHas
  <2> QED
    BY <1>6, <2>1, <2>2 DEF Sends
<1>7. toServer' = toServer \/ \E x \in ToServer : Sends(p, x)
  <2>1. CASE Passes(p, UrlTold(audio'[p].state))
    <3>1. PICK x : x = UrlTold(audio'[p].state)
      OBVIOUS
    <3>2. x \in ToServer /\ x \in Urls /\ x.state = audio'[p].state
      BY <1>1, <3>1 DEF UrlTold, ToServer, Music, Urls, Player
    <3>3. x \notin Marks
      BY <3>2, MarksParts
    <3> QED
      BY <1>3, <1>6, <2>1, <3>1, <3>2, <3>3 DEF SoundPlayer
  <2>2. ASSUME audio[p].heard.on \in {"playing", "paused"}, NEW x \in {PositionTold} \cup {PlayTold(b) : b \in BOOLEAN},
               Passes(p, x)
        PROVE  toServer' = toServer \/ \E y \in ToServer : Sends(p, y)
    <3>1. x \in Marks /\ x \in ToServer
      BY DEF Marks, PlayingStates, PositionTold, PlayTold, ToServer, Music
    <3>2. x \notin Urls
      BY <3>1, MarksParts
    <3> QED
      BY <1>6, <2>2, <3>1, <3>2
  <2> QED
    BY <1>5, <2>1, <2>2
<1>8. ASSUME NEW k \in Opened, client[p] = k, ~(button'[p] = "Connected" /\ hostAble[p])
      PROVE  SignalSense(p, k)' /\ ClientSense(p, k)'
  <2>1. k \in Conn /\ SignalSense(p, k) /\ ClientSense(p, k)
    BY <1>1, <1>8 DEF Sensibly
  <2>2. ASSUME button[p] = "Connected"
        PROVE  audio'[p].state = audio[p].state
    <3>1. ~audio[p].master /\ ~inControl(audio[p])
      BY <1>2, <1>4, <1>8, <2>2 DEF Mastered, inControl
    <3> QED
      BY <1>2, <2>2, <3>1 DEF Performs
  <2> QED
    BY <1>1, <1>2, <2>1, <2>2, SenseWaits
<1>9. OthersWait(p) /\ In(signals'[p]) \subseteq In(signals[p]) /\ SoundPlayer(audio[p])'
  BY <1>2, <1>3 DEF OthersWait
<1> QED
  BY <1>2, <1>7, <1>8, <1>9, SensibleElsewhere

LEMMA SoundChanged ==
  ASSUME NEW a, NEW e, NEW s, Sane(s), Changed(a, e, s), "over" \notin slips'
  PROVE  SoundPlayer(e)
<1>1. CASE s.started /\ e.state.url = s.url /\ e.heard = [url |-> s.url, on |-> "playing"]
  BY <1>1 DEF SoundPlayer, Sane
<1>2. CASE e.state = s /\ e.heard = a.heard /\ (a.heard.on # "stopped" \/ s.url # NoTrack => "over" \in slips')
  BY <1>2 DEF SoundPlayer, Sane
<1> QED
  BY <1>1, <1>2 DEF Changed

LEMMA TakenFirst ==
  ASSUME Types, NEW p \in Process, NEW k \in Conn, NEW m, Takes1(p, k, m)
  PROVE  /\ [conn |-> k, payload |-> m] \in In(signals[p])
         /\ In(signals'[p]) \subseteq In(signals[p])
         /\ signals[p] \in Seq(Signal)
<1>1. signals[p] \in Seq(Signal)
  BY DEF Types
<1> QED
  BY <1>1, InTail DEF Takes1

LEMMA SensibleJoins ==
  ASSUME Staged, Sensibly, Types', HostMusic', InCharge', "late" \notin slips', "over" \notin slips',
         NEW p \in Process, NEW k \in Opened, NEW m \in Session, Joining(p, k, m)
  PROVE  Sensibly'
<1>1. Types /\ Base /\ Opened \subseteq Conn /\ k \in Conn
  BY ConnFacts DEF Staged, Base
<1>2. /\ Elsewhere(p) /\ k = client[p] /\ Takes1(p, k, m) /\ UNCHANGED toClient
      /\ SoundPlayer(audio[p]) /\ button'[p] = "Connected"
      /\ \A q \in Process \ {p} : button'[q] = button[q]
  BY <1>1 DEF Joining, Elsewhere, Sensibly, Types
<1>3. [conn |-> k, payload |-> m] \in In(signals[p]) /\ In(signals'[p]) \subseteq In(signals[p])
  BY <1>1, <1>2, TakenFirst
<1>4. m.host <=> hostAble[p]
  <2>1. [conn |-> k, payload |-> m] \in In(signals[p]) \cap Of(k, Session)
    BY <1>3, OfParts
  <2>2. [conn |-> k, payload |-> m].payload = m
    OBVIOUS
  <2> QED
    BY <1>2, <2>1, <2>2 DEF Staged, Hosting
<1>5. OthersWait(p)
  BY <1>2 DEF OthersWait, Takes1
<1>6. CASE hostAble[p]
  <2>1. audio'[p].state = audio[p].state /\ audio'[p].heard = audio[p].heard
        /\ ClientTells(p, UrlTold(audio[p].state))
    BY <1>4, <1>6 DEF Joining
  <2>2. SoundPlayer(audio[p])'
    BY <1>2, <2>1 DEF SoundPlayer
  <2>3. PICK x : x = UrlTold(audio[p].state)
    OBVIOUS
  <2>4. x \in ToServer /\ x \in Urls /\ x.state = audio[p].state
    BY <1>1, <2>3 DEF UrlTold, ToServer, Music, Urls, Types, Player
  <2>5. Sends(p, x)
    BY <1>2, <2>1, <2>3, <2>4, MarksParts DEF Sends, SoundPlayer
  <2> QED
    BY <1>2, <1>3, <1>5, <1>6, <2>2, <2>4, <2>5, SensibleElsewhere
<1>7. CASE ~hostAble[p]
  <2>1. toServer' = toServer /\ \E a : a.heard.on = "stopped" /\ Changed(a, audio'[p], m.stream)
    BY <1>4, <1>7 DEF Joining
  <2>2. Sane(m.stream)
    <3>1. m \in States /\ stateIn(m) = m.stream
      BY MarksParts
    <3>2. [conn |-> k, payload |-> m].payload = m
      OBVIOUS
    <3> QED
      BY <1>3, <3>1, <3>2 DEF Sensibly, SanelyTold, SaneIn
  <2>3. SoundPlayer(audio'[p])
    BY <2>1, <2>2, SoundChanged
  <2>4. audio'[p].state.url = m.stream.url
    BY <2>1 DEF Changed
  <2>5. m \in States /\ (m \in Known => audio'[p].state.url # NoTrack)
    BY <2>4, MarksParts DEF Known
  <2>6. SignalSense(p, k) /\ ClientSense(p, k)
    BY <1>2 DEF Sensibly
  <2>7. SignalSense(p, k)' /\ ClientSense(p, k)'
    BY <1>1, <1>2, <2>5, <2>6, SenseTakes
  <2>8. SoundPlayer(audio[p])'
    BY <2>3
  <2> QED
    BY <1>2, <1>3, <1>5, <2>1, <2>7, <2>8, SensibleElsewhere
<1> QED
  BY <1>6, <1>7

LEMMA SensibleHears ==
  ASSUME Staged, Sensibly, HostMusic', InCharge', "late" \notin slips', "over" \notin slips',
         "early" \notin slips', NEW p \in Process, NEW k \in Opened, NEW m \in Music, Hears(p, k, m)
  PROVE  Sensibly'
<1>1. Types /\ Base /\ Opened \subseteq Conn /\ k \in Conn
  BY ConnFacts DEF Staged, Base
<1>2. /\ Elsewhere(p) /\ k = client[p] /\ Takes1(p, k, m) /\ UNCHANGED <<toClient, button>>
      /\ SoundPlayer(audio[p]) /\ button[p] = "Connected"
  BY DEF Hears, Elsewhere, Sensibly
<1>3. [conn |-> k, payload |-> m] \in In(signals[p]) /\ In(signals'[p]) \subseteq In(signals[p])
  BY <1>1, <1>2, TakenFirst
<1>4. OthersWait(p)
  BY <1>2 DEF OthersWait, Takes1
<1>5. toServer' = toServer
  <2>1. ~audio[p].master
    <3>1. [conn |-> k, payload |-> m] \in Of(k, Music)
      BY OfParts
    <3>2. HostHears(p, k)
      BY <1>2 DEF Staged, HostMusic
    <3> QED
      BY <1>3, <3>1, <3>2 DEF HostHears
  <2> QED
    BY <2>1 DEF Hears, Passes
<1>6. m \in Marks => audio[p].state.url # NoTrack
  <2>1. SUFFICES ASSUME m \in Marks
                 PROVE  audio[p].state.url # NoTrack
    OBVIOUS
  <2>2. signals[p] \in Seq(Signal) /\ signals[p] # <<>> /\ Head(signals[p]) \in Of(k, Marks)
    BY <1>1, <1>2, <2>1, OfParts DEF Types, Takes1
  <2>3. Head(signals[p]) = signals[p][1] /\ 1 \in DOMAIN signals[p]
    BY <2>2, HeadTailProperties, LenProperties, EmptySeq
  <2>4. LastBefore(signals[p], 1, Of(k, States), Of(k, Known), audio[p].state.url # NoTrack)
    BY <1>2, <2>2, <2>3 DEF Sensibly, SignalSense, Sensed
  <2>5. Len(signals[p]) \in Nat /\ DOMAIN signals[p] = 1..Len(signals[p])
    BY <2>2, LenProperties
  <2>6. \A i \in DOMAIN signals[p] : ~(i < 1)
    BY <2>5
  <2> QED
    BY <2>4, <2>6 DEF LastBefore
<1>7. SoundPlayer(audio'[p])
  <2>1. CASE m \in Urls /\ Changed(audio[p], audio'[p], m.state)
    <3>1. m \in States /\ stateIn(m) = m.state
      BY <2>1, MarksParts
    <3>2. [conn |-> k, payload |-> m].payload = m
      OBVIOUS
    <3>3. Sane(m.state)
      BY <1>3, <3>1, <3>2 DEF Sensibly, SanelyTold, SaneIn
    <3> QED
      BY <2>1, <3>3, SoundChanged
  <2>2. CASE m \in PlayingStates /\ PlayChanged(audio[p], audio'[p], m.isPlaying)
    <3>1. audio[p].state.url # NoTrack
      BY <1>6, <2>2 DEF Marks
    <3> QED
      BY <1>2, <2>2, <3>1 DEF PlayChanged, SoundPlayer, Sane
  <2>3. CASE m = PositionTold /\ Sought(audio[p], audio'[p])
    <3>1. audio[p].state.url # NoTrack
      BY <1>6, <2>3 DEF Marks
    <3> QED
      BY <1>2, <2>3, <3>1 DEF Sought, SoundPlayer, Sane
  <2> QED
    BY <2>1, <2>2, <2>3 DEF Hears
<1>8. /\ m \notin States => audio'[p].state.url = audio[p].state.url
      /\ m \in Known => audio'[p].state.url # NoTrack
  <2>1. CASE m \in Urls /\ Changed(audio[p], audio'[p], m.state)
    <3>1. audio'[p].state.url = m.state.url
      BY <2>1 DEF Changed
    <3> QED
      BY <2>1, <3>1, MarksParts DEF Known
  <2>2. CASE m \in Marks /\ audio'[p].state.url = audio[p].state.url
    BY <2>2, MarksParts
  <2> QED
    BY <2>1, <2>2 DEF Hears, PlayChanged, Sought, Marks
<1>9. SignalSense(p, k)' /\ ClientSense(p, k)'
  <2>1. SignalSense(p, k) /\ ClientSense(p, k)
    BY <1>2 DEF Sensibly
  <2> QED
    BY <1>1, <1>2, <1>8, <2>1, SenseTakes
<1>10. SoundPlayer(audio[p])'
  BY <1>7
<1> QED
  BY <1>2, <1>3, <1>4, <1>5, <1>9, <1>10, SensibleElsewhere

LEMMA SoundClosed ==
  ASSUME NEW a \in Player, SoundPlayer(a)
  PROVE  SoundPlayer(streamClosed(a)) /\ SoundPlayer(streamConnecting(a))
<1>1. SoundPlayer(streamConnecting(a))
  BY DEF SoundPlayer, streamConnecting, Player
<1>2. CASE a.master
  <2>1. streamClosed(a).state = a.state /\ streamClosed(a).heard = a.heard
    BY <1>2 DEF streamClosed, Player
  <2> QED
    BY <1>1, <2>1 DEF SoundPlayer
<1>3. CASE ~a.master
  <2>1. streamClosed(a).state = ClearedState /\ streamClosed(a).heard.on = "stopped"
    BY <1>3 DEF streamClosed, stopPlayingMusic, Player, Sound
  <2> QED
    BY <1>1, <2>1 DEF SoundPlayer, Sane, ClearedState
<1> QED
  BY <1>2, <1>3

LEMMA SensibleEnds ==
  ASSUME Staged, Sensibly, NEW p \in Process, tracker' = tracker,
         \/ \E k \in Opened : Closes(p, k) /\ OthersWait(p)
         \/ \E k \in Conn \ Opened : Opens(p, k)
  PROVE  Sensibly'
<1>1. Types /\ Base /\ Opened \subseteq Conn /\ NoConn \notin Conn
  BY ConnFacts DEF Staged, Base
<1>2. /\ Sane(tracker) /\ SanelyTold
      /\ \A q \in Process : SoundPlayer(audio[q]) /\ audio[q] \in Player /\ signals[q] \in Seq(Signal)
      /\ \A k \in Conn : ServerSense(k)
      /\ \A q \in Process : \A k \in Opened : client[q] = k => SignalSense(q, k) /\ ClientSense(q, k)
  BY <1>1 DEF Sensibly, Types
<1>3. ASSUME NEW k \in Opened, Closes(p, k), OthersWait(p)
      PROVE  Sensibly'
  <2>1. /\ client' = [client EXCEPT ![p] = NoConn] /\ k = client[p]
        /\ toClient' = [toClient EXCEPT ![k] = <<>>]
        /\ button' = [button EXCEPT ![p] = "NotConnected"]
        /\ audio' = [audio EXCEPT ![p] = streamClosed(@)]
        /\ UNCHANGED <<processOf, users, toServer>> /\ Takings
    BY <1>3 DEF Closes, Ends
  <2>2. \A q \in Process : In(signals'[q]) \subseteq In(signals[q])
    BY <1>2, <2>1, InTail DEF Takings
  <2>3. \A q \in Process \ {p} : /\ audio'[q] = audio[q] /\ button'[q] = button[q]
                                 /\ client'[q] = client[q] /\ signals'[q] = signals[q]
    BY <1>1, <1>3, <2>1 DEF Types, OthersWait
  <2>4. audio'[p] = streamClosed(audio[p]) /\ client'[p] = NoConn
    BY <1>1, <2>1 DEF Types
  <2>5. \A j \in Conn : In(toClient'[j]) \subseteq In(toClient[j])
    BY <1>1, <2>1 DEF Types, In
  <2>6. \A q \in Process : SoundPlayer(audio[q])'
    <3>1. SoundPlayer(audio'[p])
      BY <1>2, <2>4, SoundClosed
    <3> QED
      BY <1>2, <2>3, <3>1 DEF SoundPlayer
  <2>7. ASSUME NEW q \in Process, NEW j \in Opened', client'[q] = j
        PROVE  SignalSense(q, j)' /\ ClientSense(q, j)'
    <3>1. q # p /\ j \in Opened /\ client[q] = j /\ j # NoConn
      BY <1>1, <2>1, <2>3, <2>4, <2>7 DEF Opened
    <3>2. j # k
      BY <1>1, <2>1, <3>1, ClientsApart
    <3>3. toClient'[j] = toClient[j]
      BY <1>1, <2>1, <3>1, <3>2 DEF Types
    <3>4. SignalSense(q, j) /\ ClientSense(q, j)
      BY <1>2, <3>1
    <3> QED
      BY <2>3, <3>1, <3>3, <3>4 DEF SignalSense, ClientSense, HasTrack, Signalled
  <2>8. SanelyTold' /\ Sane(tracker)' /\ \A j \in Conn : ServerSense(j)'
    BY <1>2, <2>1, <2>2, <2>5 DEF SanelyTold, SaneIn, ServerSense
  <2> QED
    BY <2>6, <2>7, <2>8 DEF Sensibly
<1>4. ASSUME NEW k \in Conn \ Opened, Opens(p, k)
      PROVE  Sensibly'
  <2>1. /\ client[p] = NoConn /\ Opened' = Opened \cup {k} /\ link[k] = "idle"
        /\ In(toServer'[k]) = {Shake}
        /\ \A i \in Conn \ {k} : toServer'[i] = toServer[i]
        /\ client' = [client EXCEPT ![p] = k]
        /\ button' = [button EXCEPT ![p] = "Connecting"]
        /\ audio' = [audio EXCEPT ![p] = streamConnecting(@)]
        /\ UNCHANGED <<toClient, signals>>
    BY <1>4 DEF Opens
  <2>2. \A q \in Process \ {p} : /\ audio'[q] = audio[q] /\ button'[q] = button[q]
                                 /\ client'[q] = client[q]
    BY <1>1, <2>1 DEF Types
  <2>3. audio'[p] = streamConnecting(audio[p]) /\ client'[p] = k
    BY <1>1, <2>1 DEF Types
  <2>4. \A q \in Process : SoundPlayer(audio[q])'
    <3>1. SoundPlayer(audio'[p])
      BY <1>2, <2>3, SoundClosed
    <3> QED
      BY <1>2, <2>2, <3>1 DEF SoundPlayer
  <2>5. Shake \notin Marks \cup States
    BY DEF Shake, Marks, PlayingStates, PositionTold, States, Session, Urls
  <2>6. \A j \in Conn : SaneIn(In(toServer'[j])) /\ ServerSense(j)'
    <3>1. In(toServer'[k]) \cap Marks = {} /\ SaneIn(In(toServer'[k]))
      BY <2>1, <2>5 DEF SaneIn
    <3>2. ServerSense(k)'
      BY <3>1, SensedNone DEF ServerSense
    <3> QED
      BY <1>2, <2>1, <3>1, <3>2 DEF ServerSense, SanelyTold
  <2>7. SanelyTold'
    BY <1>2, <2>1, <2>6 DEF SanelyTold
  <2>8. ASSUME NEW q \in Process, NEW j \in Opened', client'[q] = j
        PROVE  SignalSense(q, j)' /\ ClientSense(q, j)'
    <3>1. CASE q = p
      <4>1. j = k /\ In(toClient'[j]) \cap Marks = {}
        BY <1>1, <2>1, <2>3, <2>8, <3>1 DEF Base, Connections
      <4>2. In(signals'[p]) \cap Of(j, Marks) = {}
        BY <1>1, <2>1, <4>1 DEF Base, Connections, Of
      <4> QED
        BY <3>1, <4>1, <4>2, SensedNone DEF SignalSense, ClientSense
    <3>2. CASE q # p
      <4>1. client[q] = j /\ client[q] # NoConn
        BY <1>1, <2>1, <2>2, <2>8, <3>2 DEF Opened
      <4>2. j \in Opened
        BY <1>1, <4>1 DEF Base, Connections
      <4>3. SignalSense(q, j) /\ ClientSense(q, j)
        BY <1>2, <4>1, <4>2
      <4> QED
        BY <2>1, <2>2, <3>2, <4>3 DEF SignalSense, ClientSense, HasTrack, Signalled
    <3> QED
      BY <3>1, <3>2
  <2> QED
    BY <1>2, <2>4, <2>6, <2>7, <2>8 DEF Sensibly
<1> QED
  BY <1>3, <1>4

LEMMA SensibleStep ==
  Base /\ Greetings /\ Hosting /\ Mastering /\ HostMusic /\ InCharge /\ Awaited /\ Tuned /\ Sensible
  /\ [Next]_vars
    => Sensible'
<1> SUFFICES ASSUME Base, Greetings, Hosting, Mastering, HostMusic, InCharge, Awaited, Tuned, Sensible,
                    [Next]_vars, Clean'
             PROVE  Sensibly'
  BY DEF Sensible
<1>1. /\ slips \subseteq slips' /\ Staged /\ Sensibly /\ "untold" \notin slips
      /\ slips' \cap {"late", "early", "paused", "over", "untold"} = {}
  <2>1. slips \subseteq slips'
    BY SlipsGrow
  <2>2. Clean
    BY <2>1 DEF Clean
  <2> QED
    BY <2>1, <2>2 DEF Staged, Sensible, Clean
<1>2. Types' /\ HostMusic' /\ InCharge'
  BY TypesStep, HostMusicStep, InChargeStep DEF Base
<1>3. CASE ServerStep
  BY <1>1, <1>2, <1>3, SensibleServer
<1>4. CASE ClientStep
  BY <1>1, <1>2, <1>4, SensibleClient
<1>5. CASE InterfaceStep
  <2>1. PICK p \in Process :
              \/ Idles(p) \/ Acting(p)
              \/ \E k \in Opened : \E m \in Session : Joining(p, k, m)
              \/ \E k \in Opened : \E m \in Music : Hears(p, k, m)
              \/ \E k \in Opened : Closes(p, k) /\ tracker' = tracker /\ OthersWait(p)
              \/ \E k \in Conn \ Opened : Opens(p, k) /\ tracker' = tracker
    BY <1>1, <1>5, InterfacePlayed
  <2>2. CASE Idles(p)
    BY <1>1, <1>2, <2>2, SensibleIdles
  <2>3. CASE Acting(p)
    BY <1>1, <1>2, <2>3, SensibleActs
  <2>4. ASSUME NEW k \in Opened, NEW m \in Session, Joining(p, k, m)
        PROVE  Sensibly'
    BY <1>1, <1>2, <2>4, SensibleJoins
  <2>5. ASSUME NEW k \in Opened, NEW m \in Music, Hears(p, k, m)
        PROVE  Sensibly'
    BY <1>1, <1>2, <2>5, SensibleHears
  <2>6. ASSUME tracker' = tracker,
               \/ \E k \in Opened : Closes(p, k) /\ OthersWait(p)
               \/ \E k \in Conn \ Opened : Opens(p, k)
        PROVE  Sensibly'
    BY <1>1, <2>6, SensibleEnds
  <2> QED
    BY <2>1, <2>2, <2>3, <2>4, <2>5, <2>6
<1>6. CASE UNCHANGED vars
  <2>1. /\ UNCHANGED <<processOf, tracker, toServer, toClient, client, signals, button, audio>>
    BY <1>6 DEF vars, constantVars, networkVars, serverVars, interfaceVars
  <2> QED
    BY <1>1, <2>1 DEF Sensibly, SanelyTold, ServerSense, SignalSense, ClientSense, HasTrack, Signalled, SoundPlayer, Opened
<1> QED
  BY <1>3, <1>4, <1>5, <1>6 DEF Next

---------------------------------------------------------------------------
(* The music in every state *)

\* What is heard playing is known to play.
Played(a) == a.heard.on = "playing" => a.state.playing

HeardPlays == slips \cap {"late", "paused", "over"} = {} => \A p \in Process : Played(audio[p])

LEMMA HeardPlaysStep == Base /\ Hosting /\ HeardPlays /\ [Next]_vars => HeardPlays'
<1> SUFFICES ASSUME Base, Hosting, HeardPlays, [Next]_vars, slips' \cap {"late", "paused", "over"} = {},
                    NEW q \in Process
             PROVE  Played(audio'[q])
  BY DEF HeardPlays
<1>1. Types /\ slips \subseteq slips' /\ \A p \in Process : Played(audio[p]) /\ audio[p] \in Player
  BY SlipsGrow DEF Base, Types, HeardPlays
<1>2. CASE audio' = audio
  BY <1>1, <1>2
<1>3. ASSUME ServerStep \/ ClientStep \/ UNCHANGED vars
      PROVE  audio' = audio
  BY <1>3 DEF ServerStep, ClientStep, onPayloadReceived, onError, vars, interfaceVars
<1>4. CASE InterfaceStep
  <2>1. PICK p \in Process :
              \/ Idles(p) \/ Acting(p)
              \/ \E k \in Opened : \E m \in Session : Joining(p, k, m)
              \/ \E k \in Opened : \E m \in Music : Hears(p, k, m)
              \/ \E k \in Opened : Closes(p, k) /\ tracker' = tracker /\ OthersWait(p)
              \/ \E k \in Conn \ Opened : Opens(p, k) /\ tracker' = tracker
    BY <1>1, <1>4, InterfacePlayed
  <2>2. ASSUME \A r \in Process \ {p} : audio'[r] = audio[r], Played(audio'[p])
        PROVE  Played(audio'[q])
    <3>1. CASE q = p
      BY <2>2, <3>1
    <3>2. CASE q # p
      BY <1>1, <2>2, <3>2
    <3> QED
      BY <3>1, <3>2
  <2>3. CASE Idles(p)
    BY <1>2, <2>3 DEF Idles
  <2>4. CASE Acting(p)
    <3>1. Played(audio'[p])
      <4>1. Performs(p, audio[p], audio'[p]) /\ Played(audio[p])
        BY <1>1, <2>4 DEF Acting
      <4>2. PICK a, e : a = audio[p] /\ e = audio'[p]
        OBVIOUS
      <4>3. CASE e.state = a.state /\ e.heard = a.heard
        BY <4>1, <4>2, <4>3 DEF Played
      <4>4. CASE \E b \in BOOLEAN : PlayChanged(a, e, b)
        BY <4>1, <4>2, <4>4 DEF PlayChanged, Played
      <4>5. CASE Sought(a, e)
        BY <4>1, <4>2, <4>5 DEF Sought, Played
      <4>6. CASE e.state.playing
        BY <4>2, <4>6 DEF Played
      <4>7. CASE e.heard.on = "stopped" \/ e.heard = [url |-> a.heard.url, on |-> "ended"]
        BY <4>2, <4>7 DEF Played
      <4> QED
        BY <4>1, <4>2, <4>3, <4>4, <4>5, <4>6, <4>7 DEF Performs
    <3> QED
      BY <2>2, <2>4, <3>1 DEF Acting, Elsewhere
  <2>5. ASSUME NEW a, NEW e, NEW s, Changed(a, e, s), Played(a) \/ a.heard.on = "stopped"
        PROVE  Played(e)
    <3>1. CASE e.state.playing = s.playing /\ (~s.playing => "paused" \in slips')
      BY <1>1, <3>1 DEF Played
    <3>2. CASE e.heard = a.heard /\ (a.heard.on # "stopped" \/ s.url # NoTrack => "over" \in slips')
      BY <1>1, <3>2 DEF Played
    <3> QED
      BY <2>5, <3>1, <3>2 DEF Changed
  <2>6. ASSUME NEW k \in Opened, NEW m \in Session, Joining(p, k, m)
        PROVE  Played(audio'[q])
    <3>1. m.host <=> hostAble[p]
      <4>1. k \in Conn /\ k = client[p] /\ Takes1(p, k, m)
        BY <1>1, <2>6, ConnFacts DEF Joining, Base
      <4>2. [conn |-> k, payload |-> m] \in In(signals[p]) \cap Of(k, Session)
        BY <1>1, <4>1, TakenFirst, OfParts
      <4>3. [conn |-> k, payload |-> m].payload = m
        OBVIOUS
      <4> QED
        BY <4>1, <4>2, <4>3 DEF Hosting
    <3>2. Played(audio'[p])
      <4>1. CASE hostAble[p]
        BY <1>1, <2>6, <3>1, <4>1 DEF Joining, Played
      <4>2. CASE ~hostAble[p]
        BY <2>5, <2>6, <3>1, <4>2 DEF Joining
      <4> QED
        BY <4>1, <4>2
    <3> QED
      BY <2>2, <2>6, <3>2 DEF Joining, Elsewhere
  <2>7. ASSUME NEW k \in Opened, NEW m \in Music, Hears(p, k, m)
        PROVE  Played(audio'[q])
    <3>1. \/ Changed(audio[p], audio'[p], m.state)
          \/ PlayChanged(audio[p], audio'[p], m.isPlaying)
          \/ Sought(audio[p], audio'[p])
      BY <2>7 DEF Hears
    <3>2. Played(audio'[p])
      <4>1. CASE Changed(audio[p], audio'[p], m.state)
        BY <1>1, <2>5, <4>1
      <4>2. CASE PlayChanged(audio[p], audio'[p], m.isPlaying)
        BY <4>2 DEF PlayChanged, Played
      <4>3. CASE Sought(audio[p], audio'[p])
        BY <1>1, <4>3 DEF Sought, Played
      <4> QED
        BY <3>1, <4>1, <4>2, <4>3
    <3> QED
      BY <2>2, <2>7, <3>2 DEF Hears, Elsewhere
  <2>8. ASSUME NEW k \in Opened, Closes(p, k)
        PROVE  Played(audio'[q])
    <3>1. audio' = [audio EXCEPT ![p] = streamClosed(@)]
      BY <2>8 DEF Closes, Ends
    <3>2. Played(streamClosed(audio[p]))
      BY <1>1 DEF streamClosed, stopPlayingMusic, Played, Player, Sound
    <3> QED
      BY <1>1, <2>2, <3>1, <3>2 DEF Types
  <2>9. ASSUME NEW k \in Conn \ Opened, Opens(p, k)
        PROVE  Played(audio'[q])
    <3>1. audio' = [audio EXCEPT ![p] = streamConnecting(@)]
      BY <2>9 DEF Opens
    <3>2. Played(streamConnecting(audio[p]))
      BY <1>1 DEF streamConnecting, Played, Player
    <3> QED
      BY <1>1, <2>2, <3>1, <3>2 DEF Types
  <2> QED
    BY <2>1, <2>3, <2>4, <2>6, <2>7, <2>8, <2>9
<1> QED
  BY <1>2, <1>3, <1>4 DEF Next

Musical == InCharge /\ Awaited /\ Tuned /\ Sensible /\ HeardPlays

LEMMA InitMusical == Init => Musical
<1> SUFFICES ASSUME Init
             PROVE  Musical
  OBVIOUS
<1>1. Opened = {} /\ NoConn \notin Conn
  BY BoundsAssumption DEF Init, Opened, Conn, NoConn
<1>2. /\ tracker = ClearedState
      /\ \A p \in Process : audio[p] = NewPlayer /\ client[p] = NoConn
      /\ \A k \in Conn : In(toServer[k]) = {} /\ In(toClient[k]) = {}
      /\ \A p \in Process : In(signals[p]) = {}
  BY InEmpty DEF Init
<1>3. InCharge /\ Awaited /\ Tuned
  BY <1>1, <1>2 DEF InCharge, Awaited, Tuned
<1>4. HeardPlays
  BY <1>2 DEF HeardPlays, Played, NewPlayer
<1>5. \A k \in Conn : ServerSense(k)
  BY <1>2, SensedNone DEF ServerSense
<1>6. SanelyTold
  BY <1>2 DEF SanelyTold, SaneIn
<1>7. Sane(tracker) /\ \A p \in Process : SoundPlayer(audio[p])
  BY <1>2 DEF Sane, SoundPlayer, NewPlayer, ClearedState
<1>8. Sensible
  BY <1>1, <1>5, <1>6, <1>7 DEF Sensible, Sensibly
<1> QED
  BY <1>3, <1>4, <1>8 DEF Musical

LEMMA MusicalStep ==
  ASSUME Base, Surviving, Musical, [Next]_vars
  PROVE  Musical'
BY InChargeStep, AwaitedStep, TunedStep, SensibleStep, HeardPlaysStep DEF Surviving, Musical

LEMMA MusicSettled ==
  ASSUME Base, Musical
  PROVE  AudioFollowsHost
<1> SUFFICES ASSUME NEW h \in Process, NEW p \in Process, isSettledHost(h), isGuest(p),
                    slips \cap {"late", "untold"} = {}
             PROVE  /\ \A a \in {audio[h], audio[p]} :
                         a.state.url = tracker.url /\ a.state.playing = tracker.playing
                    /\ slips \cap {"paused", "over"} = {} /\ audio[p].heard.on = "playing" =>
                         tracker.playing /\ ("early" \in slips \/ audio[p].heard.url = tracker.url)
  BY DEF AudioFollowsHost
<1>1. PICK j : j = client[h]
  OBVIOUS
<1>2. PICK k : k = client[p]
  OBVIOUS
<1>3. /\ j # NoConn /\ link[j] = "up" /\ users[j] = "host" /\ toServer[j] = <<>>
      /\ button[h] = "Connected" /\ ~audio[h].requested
      /\ k # NoConn /\ link[k] = "up" /\ users[k] = "guest" /\ toClient[k] = <<>>
      /\ signals[p] = <<>>
  BY <1>1, <1>2 DEF isSettledHost, isGuest, settled
<1>4. j \in Opened /\ k \in Opened /\ j \in Conn
  BY <1>1, <1>2, <1>3, ConnFacts DEF Base, Connections
<1>5. Tells(h, j) /\ Follows(p, k)
  BY <1>1, <1>2, <1>3, <1>4 DEF Tells, Follows, Host
<1>6. ASSUME NEW c \in Aspect
      PROVE  aspect(audio[h].state, c) = aspect(tracker, c) /\ aspect(audio[p].state, c) = aspect(tracker, c)
  <2>1. HostTuned(h, j, c) /\ GuestTuned(p, k, c, aspect(tracker, c))
    BY <1>4, <1>5 DEF Musical, Tuned, TunedAt
  <2>2. aspect(tracker, c) = aspect(audio[h].state, c)
    BY <1>3, <2>1, LastOfNone DEF HostTuned
  <2>3. Heard(p, k, c, aspect(tracker, c))
    BY <1>3, <2>1, LastOfNone DEF GuestTuned
  <2>4. aspect(audio[p].state, c) = aspect(tracker, c)
    BY <1>3, <2>3, LastOfNone DEF Heard
  <2> QED
    BY <2>2, <2>4
<1>7. \A a \in {audio[h], audio[p]} : a.state.url = tracker.url /\ a.state.playing = tracker.playing
  <2>1. "url" \in Aspect /\ "playing" \in Aspect
    BY DEF Aspect
  <2>2. \A s : aspect(s, "url") = s.url /\ aspect(s, "playing") = s.playing
    BY DEF aspect
  <2>3. audio[h].state.url = tracker.url /\ audio[p].state.url = tracker.url
    BY <1>6, <2>1, <2>2
  <2>4. audio[h].state.playing = tracker.playing /\ audio[p].state.playing = tracker.playing
    BY <1>6, <2>1, <2>2
  <2> QED
    BY <2>3, <2>4
<1>8. ASSUME slips \cap {"paused", "over"} = {}, audio[p].heard.on = "playing"
      PROVE  tracker.playing /\ ("early" \in slips \/ audio[p].heard.url = tracker.url)
  <2>1. Played(audio[p])
    BY <1>8 DEF Musical, HeardPlays
  <2>2. ASSUME "early" \notin slips
        PROVE  audio[p].heard.url = tracker.url
    <3>1. SoundPlayer(audio[p])
      BY <1>8, <2>2 DEF Musical, Sensible, Clean, Sensibly
    <3> QED
      BY <1>7, <1>8, <3>1 DEF SoundPlayer
  <2> QED
    BY <1>7, <1>8, <2>1, <2>2 DEF Played
<1> QED
  BY <1>7, <1>8

\* AudioFollowsHost, whatever the applications, the tracks and the connections: what
\* RPZServer's tracker, the host's PlaylistAudioManager and a guest's agree on, once
\* the music that was told has been handled, and that a guest hears nothing else.
THEOREM AudioAlwaysFollows == Spec => []AudioFollowsHost
<1>1. Init => Base /\ Surviving /\ Musical
  BY InitBase, InitSurvives, InitMusical
<1>2. Base /\ Surviving /\ Musical /\ [Next]_vars => Base' /\ Surviving' /\ Musical'
  <2>1. Base /\ [Next]_vars => Base'
    BY TypesStep, ConnectionsStep DEF Base
  <2> QED
    BY <2>1, SurvivingStep, MusicalStep
<1>3. Base /\ Musical => AudioFollowsHost
  BY MusicSettled
<1> QED
  BY <1>1, <1>2, <1>3, PTL DEF Spec
=============================================================================
