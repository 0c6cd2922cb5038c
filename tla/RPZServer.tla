----------------------------- MODULE RPZServer ------------------------------
(***************************************************************************)
(* RPZServer (src/network/rpz/server): the users and their roles, the      *)
(* server's copy of the map, and what it relays. It runs in one thread:    *)
(* each action is one slot, run to its end.                                *)
(***************************************************************************)
EXTENDS RPZNetwork, SequencesExt

CONSTANTS
  StoredAssets,   \* AssetsDatabase::getStoredAssetHashes, on the server
  FiledAssets     \* those whose file is still there: the others cannot be packaged

ASSUME StoredAssetsAssumption == StoredAssets \subseteq Assets /\ IsFiniteSet(StoredAssets)
ASSUME FiledAssetsAssumption == FiledAssets \subseteq StoredAssets

VARIABLES
  usersById,       \* _usersById; its ids are those of the live sockets
  socketsByRole,   \* _socketsByRole
  hints,           \* _hints: the server's storage of atoms
  mapHasLoaded     \* _mapHasLoaded

serverVars == <<usersById, socketsByRole, hints, mapHasLoaded>>

ServerTypeOK ==
  /\ usersById \in Users
  /\ socketsByRole \in [Role -> SUBSET Client]
  /\ hints \in Storage
  /\ mapHasLoaded \in BOOLEAN

ServerInit ==
  /\ usersById = NoUsers
  /\ socketsByRole = [r \in Role |-> {}]
  /\ hints = StorageOf(NoAtoms)
  /\ mapHasLoaded = FALSE

Connected == {c \in Client : usersById[c] # NoUser}

\* Mutant: messages are for the users of the same role.
PeersOfRole(c) == {d \in Connected \ {c} : usersById[d].role = usersById[c].role}

\* Who is told what happens to a user: every other live socket.
Peers(c) == Connected \ {c}

---------------------------------------------------------------------------
(* Connections *)

\* The connection may already be closed at the other end.
onNewConnection(c) ==
  /\ link[c] \in {"up", "down"}
  /\ c \notin Connected
  /\ usersById' = [usersById EXCEPT ![c] = NewUser]
  /\ UNCHANGED <<networkVars, socketsByRole, hints, mapHasLoaded>>

\* What the client sent and the server did not read yet is lost.
onClientSocketDisconnected(c) ==
  /\ link[c] = "down"
  /\ c \in Connected
  /\ link' = [link EXCEPT ![c] = "gone"]
  /\ toServer' = [toServer EXCEPT ![c] = <<>>]
  /\ usersById' = [usersById EXCEPT ![c] = NoUser]
  /\ socketsByRole' = [socketsByRole EXCEPT ![usersById[c].role] = @ \ {c}]
  /\ ServerSends(ToAll(Peers(c), [method |-> "UserOut", id |-> c]))
  /\ UNCHANGED <<hints, mapHasLoaded>>

---------------------------------------------------------------------------
(* Handshake *)

\* Mutant: every local user may host.
mayHostAnyway(c) == c \in Loopback

mayHost(c) == c \in Loopback /\ socketsByRole["Host"] = {}

\* Who joins without a character from the server's machine is the host, if
\* there is none; who joins without a character observes.
attributedRole(c, character) ==
  CASE character # NoCharacter -> "Player"
    [] character = NoCharacter /\ mayHost(c) -> "Host"
    [] OTHER -> "Observer"

\* The host is not sent the map: it is expected to send its own.
gameSession(c, users) ==
  LET full == users[c].role # "Host"
  IN [method |-> "GameSessionSync", users |-> users, full |-> full,
      map |-> IF full THEN restrictPayload(hints, generateResetPayload(hints))
              ELSE generateResetPayload(StorageOf(NoAtoms))]

\* Mutant: the client is not told that it is outdated.
rejectVersionQuietly(c) ==
  /\ c \in Outdated
  /\ UNCHANGED <<toClient, serverVars>>

rejectVersion(c) ==
  /\ c \in Outdated
  /\ ServerSends(ToAll({c}, [method |-> "ServerStatus"]))
  /\ UNCHANGED serverVars

acceptHandshake(c, character) ==
  LET user == [NewUser EXCEPT !.role = attributedRole(c, character),
                              !.character = character, !.named = TRUE]
      users == [usersById EXCEPT ![c] = user]
      others == ToAll(Peers(c), [method |-> "UserIn", id |-> c, user |-> user])
  IN /\ c \notin Outdated
     /\ usersById' = users
     /\ socketsByRole' = [socketsByRole EXCEPT ![user.role] = @ \cup {c}]
     /\ ServerSends([others EXCEPT ![c] = <<gameSession(c, users)>>])
     /\ UNCHANGED <<hints, mapHasLoaded>>

---------------------------------------------------------------------------
(* What a connected client sends *)

\* Mutant: the sheet is relayed and not stored.
characterChangedNotStored(c, sheet) ==
  LET user == [usersById[c] EXCEPT !.sheet = sheet]
  IN /\ ServerSends(ToAll(Peers(c),
                          [method |-> "UserDataChanged", id |-> c, user |-> user]))
     /\ UNCHANGED serverVars

characterChanged(c, sheet) ==
  LET user == [usersById[c] EXCEPT !.sheet = sheet]
  IN /\ usersById' = [usersById EXCEPT ![c] = user]
     /\ ServerSends(ToAll(Peers(c),
                          [method |-> "UserDataChanged", id |-> c, user |-> user]))
     /\ UNCHANGED <<socketsByRole, hints, mapHasLoaded>>

\* Mutant: the first asset without a file ends the answer.
sendAssetsUntilOneFails(c, hashes) ==
  LET packages == {[method |-> "RequestedAsset", hash |-> h] : h \in hashes \cap FiledAssets}
  IN /\ ServerSends([d \in Client |-> IF d = c /\ hashes \cap StoredAssets \subseteq FiledAssets
                                       THEN SetToSeq(packages) ELSE <<>>])
     /\ UNCHANGED serverVars

\* Every requested asset that the server has, in any order; one whose package
\* cannot be made is skipped.
sendAssets(c, hashes) ==
  LET requested == hashes \cap StoredAssets
      packages == {[method |-> "RequestedAsset", hash |-> h] : h \in requested \cap FiledAssets}
  IN /\ ServerSends([d \in Client |-> IF d = c THEN SetToSeq(packages) ELSE <<>>])
     /\ UNCHANGED serverVars

\* Mutant: changes are for observers only.
withheldObservers == socketsByRole["Observer"]

\* Who is sent what the restrictions leave of a change.
withheld == socketsByRole["Player"] \cup socketsByRole["Observer"]

\* Mutant: a payload is restricted before it is handled.
hintsBefore(p) == hints

\* The server's storage, once it handled p.
hintsAfter(p) == StorageAfter(hints, p)

\* The payload is handled first, so that what it adds is already restricted;
\* the hosts get it whole, the others what the restrictions leave of it.
broadcastMapChanges(c, method, p) ==
  LET whole == [method |-> method, payload |-> p]
      rest == [method |-> method, payload |-> restrictPayload(hintsAfter(p), p)]
      hosts == socketsByRole["Host"] \ {c}
      others == IF worthSending(hintsAfter(p), p) THEN withheld \ {c} ELSE {}
  IN /\ hints' = StorageAfter(hints, p)
     /\ mapHasLoaded' = (mapHasLoaded \/ p.type = "Reset")
     /\ ServerSends([d \in Client |-> ToAll(hosts, whole)[d] \o ToAll(others, rest)[d]])
     /\ UNCHANGED <<usersById, socketsByRole>>

\* What is left to read of a closed connection may still be handled.
onClientPayloadReceived(c) ==
  /\ c \in Connected
  /\ toServer[c] # <<>>
  /\ toServer' = [toServer EXCEPT ![c] = Tail(@)]
  /\ LET m == Head(toServer[c]) IN
       \/ m.method = "Handshake" /\ rejectVersion(c)
       \/ m.method = "Handshake" /\ acceptHandshake(c, m.character)
       \/ m.method = "CharacterChanged" /\ characterChanged(c, m.sheet)
       \/ m.method = "AskForAssets" /\ sendAssets(c, m.hashes)
       \/ m.method \in MapChange /\ broadcastMapChanges(c, m.method, m.payload)
  /\ UNCHANGED link

ServerStep(c) ==
  \/ onNewConnection(c)
  \/ onClientSocketDisconnected(c)
  \/ onClientPayloadReceived(c)
=============================================================================
