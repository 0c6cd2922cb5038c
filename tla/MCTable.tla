------------------------------- MODULE MCTable -------------------------------
(***************************************************************************)
(* A game master, whose process holds the server, and a player.            *)
(***************************************************************************)
EXTENDS RPZTable

CONSTANTS gm, pl

MCProcess == {gm, pl}
MCLoopback == {gm}

\* The game master has joined as the host and done nothing yet. From Init it is
\* reached in seven steps: the connection is bound, made and greeted, the session
\* is read and handled, and the state of the music that it answers is stored.
Joined ==
  /\ serverProcess \in ServerProcesses
  /\ processOf = <<gm>>
  /\ link = [k \in Conn |-> IF k = 1 THEN "up" ELSE "idle"]
  /\ toServer = [k \in Conn |-> <<>>]
  /\ toClient = [k \in Conn |-> <<>>]
  /\ users = [k \in Conn |-> IF k = 1 THEN "host" ELSE "absent"]
  /\ messages = {message("login", 1, NoConn, 0)}
  /\ tracker = ClearedState
  /\ client = [p \in Process |-> IF p = gm THEN 1 ELSE NoConn]
  /\ hostAble = [p \in Process |-> TRUE]
  /\ signals = [p \in Process |-> <<>>]
  /\ button = [p \in Process |-> IF p = gm THEN "Connected" ELSE "NotConnected"]
  /\ chat = [p \in Process |-> IF p = gm THEN welcomed(EmptyChat, messages) ELSE EmptyChat]
  /\ audio = [p \in Process |->
       IF p = gm THEN streamOnSession(streamConnecting(NewPlayer), TRUE) ELSE NewPlayer]
  /\ shelf = [p \in Process |-> EmptyShelf]
  /\ acts = 0 /\ crashed = "no" /\ slips = {}

SpecJoined == Joined /\ [][Next]_vars
=============================================================================
