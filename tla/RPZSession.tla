----------------------------- MODULE RPZSession -----------------------------
(***************************************************************************)
(* A session: the server and its clients, over connections that may close  *)
(* at any time.                                                            *)
(***************************************************************************)
EXTENDS RPZServer, RPZClient

vars == <<networkVars, serverVars, clientVars>>

TypeOK == NetworkTypeOK /\ ServerTypeOK /\ ClientTypeOK

Init == NetworkInit /\ ServerInit /\ ClientInit

Next ==
  \E c \in Client :
    \/ ServerStep(c) /\ UNCHANGED clientVars
    \/ ClientStep(c) /\ UNCHANGED serverVars

Spec == Init /\ [][Next]_vars

\* The event loops of the server, of a client's thread and of the map thread
\* handle what is in their queues. Nothing makes a user connect, close or edit.
Fairness ==
  \A c \in Client :
    /\ WF_vars(ServerStep(c) /\ UNCHANGED clientVars)
    /\ WF_vars((onPayloadReceived(c) \/ handlePosted(c)) /\ UNCHANGED serverVars)
    /\ WF_vars(handleMapEvent(c) /\ UNCHANGED serverVars)

FairSpec == Spec /\ Fairness

---------------------------------------------------------------------------
(* The users *)

\* The server never has two hosts, its table of roles lists every named user
\* once, under the role it was given, and nobody who is gone: whatever the
\* order in which the host leaves, another local user joins and handshakes are
\* read.
RolesExact ==
  /\ Cardinality(socketsByRole["Host"]) <= 1
  /\ \A r \in Role :
       socketsByRole[r] = {c \in Connected : usersById[c].named /\ usersById[c].role = r}

Pending(queue, methods) == \E n \in DOMAIN queue : queue[n].method \in methods

\* A client that has read all it was sent knows every user the server named,
\* with the role, the character and the sheet they have there, and no user
\* that the server forgot; of its own sheet it may know a newer version, that
\* the server has yet to read.
RosterConverges ==
  \A c \in Client : Up(c) /\ synced[c] /\ toClient[c] = <<>> =>
    \A d \in Client :
      /\ d \in Connected /\ usersById[d].named =>
           \/ sessionUsers[c][d] = usersById[d]
           \/ d = c /\ Pending(toServer[c], {"CharacterChanged"})
      /\ sessionUsers[c][d] # NoUser => d \in Connected

\* The players that a client lists are those it knows to play a character, from
\* the session on: users told of before, sheets of users not told of, and users
\* in the session who were told of already, leave no trace.
PlayersListed ==
  \A c \in Client : Up(c) /\ synced[c] =>
    characterized[c] = {d \in Client : sessionUsers[c][d] # NoUser
                                       /\ sessionUsers[c][d].role = "Player"}

\* Looking a character up finds a player of it as long as there is one.
CharactersFound ==
  \A c \in Client, d \in Client :
    Up(c) /\ synced[c] /\ d \in characterized[c] =>
      LET k == sessionUsers[c][d].character IN
        association[c][k] # NoUser /\ sessionUsers[c][association[c][k]].character = k

\* The state is well typed, and the tables of characters are those of the users.
CharacterTablesFollow == TypeOK /\ PlayersListed /\ CharactersFound

\* Whoever connects and stays is let in or told to leave.
HandshakeAnswered == \A c \in Client : link[c] = "up" ~> synced[c] \/ link[c] # "up"

\* Who leaves ends up forgotten by everybody.
LeaversForgotten ==
  \A d \in Client :
    link[d] = "down" ~> \A c \in Client : sessionUsers[c][d] = NoUser

---------------------------------------------------------------------------
(* The map *)

Host == socketsByRole["Host"]

\* Nothing about the map is left to handle, at a client, at the server or on
\* the way.
MapIsQuiet ==
  \A c \in Client :
    /\ clientInbox[c] = <<>> /\ mapInbox[c] = <<>>
    /\ ~Pending(toServer[c], MapChange)
    /\ ~Pending(toClient[c], MapChange \cup {"GameSessionSync"})

\* No message to a user who is not the host carries an atom meant for the host,
\* by whatever way it came to the map: drawn, loaded, brought back by an undo
\* or sent to someone who joins.
CarriesRestricted(m) ==
  \/ m.method \in MapChange /\ RestrictedIdsOf(m.payload.atoms) # {}
  \/ m.method = "GameSessionSync" /\ RestrictedIdsOf(m.map.atoms) # {}

RestrictedStayWithHost ==
  \A c \in Client \ Host : \A n \in DOMAIN toClient[c] : ~CarriesRestricted(toClient[c][n])

\* Once all is handled, the server shows the map of the host.
ServerMirrorsHost ==
  MapIsQuiet =>
    \A c \in Host : Up(c) /\ synced[c] => hints.atoms = map[c].atoms

\* Once all is handled, every other user shows the server's map, less the
\* atoms that are not for them.
UsersMirrorServer ==
  MapIsQuiet =>
    \A c \in Connected \ Host : Up(c) /\ synced[c] =>
      \A i \in AtomId :
        map[c].atoms[i] = IF i \in hints.restricted THEN NoAtom ELSE hints.atoms[i]

\* The hashes that the server's storage forgot with an atom that used them,
\* though others still do: who joins is not told to fetch those.
ForgottenHashes == HashesOf(hints.atoms) \ hints.hashes

\* Once all is handled, whoever shows an atom has its asset, as far as the
\* server stores it with its file and did not forget that it is used: whether
\* the asset was announced by the map of the session, by an addition or by a
\* load, whatever was removed before, and though other assets of the same
\* request cannot be sent.
AssetsAtHand ==
  (MapIsQuiet /\ \A c \in Client : /\ ~Pending(toServer[c], {"AskForAssets"})
                                   /\ ~Pending(toClient[c], {"RequestedAsset"}))
    => \A c \in Connected : Up(c) /\ synced[c] =>
         (HashesOf(map[c].atoms) \cap FiledAssets) \ ForgottenHashes \subseteq assets[c]
=============================================================================
