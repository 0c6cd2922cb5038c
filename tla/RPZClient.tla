----------------------------- MODULE RPZClient ------------------------------
(***************************************************************************)
(* The client side of a session: RPZClient (src/network/rpz/client), whose *)
(* socket and posted calls are events of its thread, and the part of       *)
(* MapHint (src/shared/hints) that takes part in a session, in the map     *)
(* thread. An alteration made in the interface is posted to both threads;  *)
(* each handles it in its own time.                                        *)
(***************************************************************************)
EXTENDS RPZNetwork

CONSTANTS
  Incarnates,      \* the characters each user may choose at login
  StartMaps,       \* the maps each user may have open before connecting
  Changes,         \* alterations that a user in charge of a map may make
  Moves,           \* updates that a player may make to a token of theirs
  Leavers,         \* bound: the clients that may leave
  MaxChanges,      \* bound: alterations and sheet edits of all the users
  HostWaits        \* TRUE: nobody alters a map before the host's one is sent

ASSUME IncarnatesAssumption == Incarnates \in [Client -> SUBSET (Character \cup {NoCharacter})]
ASSUME StartMapsAssumption == StartMaps \in [Client -> SUBSET Maps]
ASSUME LeaversAssumption == Leavers \subseteq Client
ASSUME ChangesAssumption == Changes \subseteq Payload
ASSUME MovesAssumption == Moves \subseteq Updates
ASSUME MaxChangesAssumption == MaxChanges \in Nat
ASSUME HostWaitsAssumption == HostWaits \in BOOLEAN

VARIABLES
  sessionUsers,      \* _sessionUsers
  synced,            \* _myUserId is known: the session was received
  characterized,     \* _characterizedUserIds
  association,       \* _associatedUserIdByCharacterId
  hostAble,          \* Authorisations::_isHostAble
  initialMapSetupReceived,
  clientInbox,       \* events posted to the thread of the RPZClient
  mapInbox,          \* events posted to the map thread
  map,               \* the storage of atoms of MapHint
  assets,            \* AssetsDatabase::getStoredAssetHashes, on the client
  changes            \* bounded by MaxChanges

rosterVars == <<sessionUsers, synced, characterized, association, hostAble>>
mapVars == <<initialMapSetupReceived, mapInbox, map, assets>>
clientVars == <<rosterVars, mapVars, clientInbox, changes>>

alter(p) == [op |-> "alter", payload |-> p]
sessionReceived == [op |-> "session"]
sendMapHistory(p) == [op |-> "history", payload |-> p]

ClientTypeOK ==
  /\ sessionUsers \in [Client -> Users]
  /\ synced \in [Client -> BOOLEAN]
  /\ characterized \in [Client -> SUBSET Client]
  /\ association \in [Client -> [Character -> Client \cup {NoUser}]]
  /\ hostAble \in [Client -> BOOLEAN]
  /\ initialMapSetupReceived \in [Client -> BOOLEAN]
  /\ clientInbox \in [Client -> Seq([op : {"alter", "history"}, payload : Payload])]
  /\ mapInbox \in [Client -> Seq([op : {"alter"}, payload : Payload] \cup {sessionReceived})]
  /\ map \in [Client -> Storage]
  /\ assets \in [Client -> SUBSET Assets]
  /\ changes \in 0..MaxChanges

\* The assets a user has are those of the map they had open.
ClientInit ==
  /\ sessionUsers = [c \in Client |-> NoUsers]
  /\ synced = [c \in Client |-> FALSE]
  /\ characterized = [c \in Client |-> {}]
  /\ association = [c \in Client |-> [k \in Character |-> NoUser]]
  /\ hostAble = [c \in Client |-> TRUE]
  /\ initialMapSetupReceived = [c \in Client |-> FALSE]
  /\ clientInbox = [c \in Client |-> <<>>]
  /\ mapInbox = [c \in Client |-> <<>>]
  /\ \E start \in [Client -> UNION {StartMaps[c] : c \in Client}] :
       /\ \A c \in Client : start[c] \in StartMaps[c]
       /\ map = [c \in Client |-> StorageOf(start[c])]
       /\ assets = [c \in Client |-> HashesOf(start[c])]
  /\ changes = 0

\* identity: what the client knows of itself.
identity(c) == IF synced[c] THEN sessionUsers[c][c] ELSE NewUser

Up(c) == link[c] = "up"

---------------------------------------------------------------------------
(* The connection *)

connect(c) ==
  /\ link[c] = "idle"
  /\ link' = [link EXCEPT ![c] = "up"]
  /\ \E character \in Incarnates[c] :
       toServer' = [toServer EXCEPT ![c] =
                      <<[method |-> "Handshake", character |-> character]>>]
  /\ UNCHANGED <<toClient, clientVars>>

\* The user leaves, the application stops or the network fails: the RPZClient
\* is deleted with all that was posted to it, and the host ability is given
\* back. What becomes of the map is no business of the session any more.
ended(c) ==
  /\ link' = [link EXCEPT ![c] = "down"]
  /\ toClient' = [toClient EXCEPT ![c] = <<>>]
  /\ clientInbox' = [clientInbox EXCEPT ![c] = <<>>]
  /\ mapInbox' = [mapInbox EXCEPT ![c] = <<>>]
  /\ sessionUsers' = [sessionUsers EXCEPT ![c] = NoUsers]
  /\ synced' = [synced EXCEPT ![c] = FALSE]
  /\ characterized' = [characterized EXCEPT ![c] = {}]
  /\ association' = [association EXCEPT ![c] = [k \in Character |-> NoUser]]
  /\ hostAble' = [hostAble EXCEPT ![c] = TRUE]
  /\ initialMapSetupReceived' = [initialMapSetupReceived EXCEPT ![c] = FALSE]
  /\ UNCHANGED <<toServer, map, assets, changes>>

close(c) == c \in Leavers /\ Up(c) /\ ended(c)

---------------------------------------------------------------------------
(* What the server sends: the users *)

\* A player's id and character enter the tables with the user and leave them
\* with the user.
registerIn(c, arrived) ==
  LET players == {d \in Client : arrived[d] # NoUser /\ arrived[d].role = "Player"}
      playedBy(k) == {d \in players : arrived[d].character = k}
  IN /\ characterized' = [characterized EXCEPT ![c] = @ \cup players]
     /\ \E chosen \in [Character -> Client \cup {NoUser}] :
          /\ \A k \in Character :
               chosen[k] \in IF playedBy(k) = {} THEN {association[c][k]} ELSE playedBy(k)
          /\ association' = [association EXCEPT ![c] = chosen]

\* Mutant: every character loses its player.
registerOutForgetting(c, d) ==
  LET out == sessionUsers[c][d] IN
  IF out = NoUser \/ out.role # "Player"
  THEN UNCHANGED <<characterized, association>>
  ELSE /\ characterized' = [characterized EXCEPT ![c] = @ \ {d}]
       /\ association' = [association EXCEPT ![c] = [k \in Character |-> NoUser]]

registerOut(c, d) ==
  LET out == sessionUsers[c][d] IN
  IF out = NoUser \/ out.role # "Player"
  THEN UNCHANGED <<characterized, association>>
  ELSE /\ characterized' = [characterized EXCEPT ![c] = @ \ {d}]
       /\ association' = [association EXCEPT ![c][out.character] = NoUser]

userIn(c, d, user) ==
  /\ sessionUsers' = [sessionUsers EXCEPT ![c][d] = user]
  /\ registerIn(c, [NoUsers EXCEPT ![d] = user])
  /\ UNCHANGED <<toServer, synced, hostAble, mapVars>>

userOut(c, d) ==
  /\ registerOut(c, d)
  /\ sessionUsers' = [sessionUsers EXCEPT ![c][d] = NoUser]
  /\ UNCHANGED <<toServer, synced, hostAble, mapVars>>

\* The tables of characters are left as they are.
userDataChanged(c, d, user) ==
  /\ sessionUsers' = [sessionUsers EXCEPT ![c][d] = user]
  /\ UNCHANGED <<toServer, synced, characterized, association, hostAble, mapVars>>

---------------------------------------------------------------------------
(* What the server sends: the map *)

\* What an atom without an asset announces, the empty hash, is asked for too.
missingAssets(c, p) ==
  IF p.type \in {"Added", "Reset"} THEN p.assets \ assets[c] ELSE {}

\* Handling the alteration is left to the map thread, after the events before.
onMapChangeReceived(c, heavy, p, before) ==
  /\ initialMapSetupReceived' = [initialMapSetupReceived EXCEPT ![c] = @ \/ heavy]
  /\ ClientSends(c, IF missingAssets(c, p) = {} THEN <<>>
                    ELSE <<[method |-> "AskForAssets", hashes |-> missingAssets(c, p)]>>)
  /\ mapInbox' = [mapInbox EXCEPT ![c] = @ \o before \o <<alter(p)>>]
  /\ UNCHANGED <<map, assets>>

\* The users are replaced; the tables of characters only grow.
gameSessionSync(c, m) ==
  /\ sessionUsers' = [sessionUsers EXCEPT ![c] = m.users]
  /\ registerIn(c, m.users)
  /\ synced' = [synced EXCEPT ![c] = TRUE]
  /\ hostAble' = [hostAble EXCEPT ![c] = m.users[c].role = "Host"]
  /\ \/ /\ m.full
        /\ onMapChangeReceived(c, TRUE, m.map, <<sessionReceived>>)
     \/ /\ ~m.full
        /\ mapInbox' = [mapInbox EXCEPT ![c] = Append(@, sessionReceived)]
        /\ UNCHANGED <<toServer, initialMapSetupReceived, map, assets>>

mapChanged(c, m) ==
  /\ onMapChangeReceived(c, m.method = "MapChangedHeavily", m.payload, <<>>)
  /\ UNCHANGED rosterVars

\* The interface imports the asset into the database.
requestedAsset(c, h) ==
  /\ assets' = [assets EXCEPT ![c] = @ \cup {h}]
  /\ UNCHANGED <<toServer, rosterVars, initialMapSetupReceived, mapInbox, map>>

onPayloadReceived(c) ==
  /\ Up(c)
  /\ toClient[c] # <<>>
  /\ LET m == Head(toClient[c]) IN
       \/ /\ m.method = "ServerStatus"
          /\ ended(c)
       \/ /\ \/ m.method = "UserIn" /\ userIn(c, m.id, m.user)
             \/ m.method = "UserOut" /\ userOut(c, m.id)
             \/ m.method = "UserDataChanged" /\ userDataChanged(c, m.id, m.user)
             \/ m.method = "GameSessionSync" /\ gameSessionSync(c, m)
             \/ m.method \in MapChange /\ mapChanged(c, m)
             \/ m.method = "RequestedAsset" /\ requestedAsset(c, m.hash)
          /\ toClient' = [toClient EXCEPT ![c] = Tail(@)]
          /\ UNCHANGED <<link, clientInbox, changes>>

---------------------------------------------------------------------------
(* What the user does *)

\* A player edits the sheet of the character played.
notifyCharacterChange(c) ==
  /\ Up(c)
  /\ identity(c).role = "Player"
  /\ changes < MaxChanges
  /\ identity(c).sheet < MaxSheet
  /\ changes' = changes + 1
  /\ sessionUsers' = [sessionUsers EXCEPT ![c][c].sheet = @ + 1]
  /\ ClientSends(c, <<[method |-> "CharacterChanged", sheet |-> identity(c).sheet + 1]>>)
  /\ UNCHANGED <<link, toClient, synced, characterized, association, hostAble,
                 mapVars, clientInbox>>

\* A token may be moved by who may do everything and by the player it is
\* bound to; Values number the characters.
ownedTokens(c) ==
  {i \in AtomId : /\ isAtomOwnable(map[c].atoms[i])
                  /\ map[c].atoms[i].meta["CharacterId"] = identity(c).character}

MoveOwned(c) ==
  UNION {{MetadataChangedPayload({i}, u) : u \in Moves} : i \in ownedTokens(c)}

\* The interface offers everything until the session says otherwise.
Alterations(c) ==
  CASE hostAble[c] -> Changes
    [] ~hostAble[c] /\ identity(c).role = "Player" -> MoveOwned(c)
    [] OTHER -> {}

\* The session was handled by both threads.
historySent(c) ==
  /\ synced[c]
  /\ \A n \in DOMAIN mapInbox[c] : mapInbox[c][n].op # "session"
  /\ \A n \in DOMAIN clientInbox[c] : clientInbox[c][n].op # "history"

\* The ids on the map of the user, or about to be: those of atoms to add are new.
KnownIds(c) ==
  IdsOf(map[c].atoms) \cup
  UNION {IdsOf(mapInbox[c][n].payload.atoms) :
           n \in {k \in DOMAIN mapInbox[c] : mapInbox[c][k].op = "alter"}}

queueAlteration(c) ==
  /\ Up(c)
  /\ changes < MaxChanges
  /\ HostWaits => historySent(c)
  /\ changes' = changes + 1
  /\ \E p \in Alterations(c) :
       /\ p.type = "Added" => IdsOf(p.atoms) \cap KnownIds(c) = {}
       /\ clientInbox' = [clientInbox EXCEPT ![c] = Append(@, alter(p))]
       /\ mapInbox' = [mapInbox EXCEPT ![c] = Append(@, alter(p))]
  /\ UNCHANGED <<networkVars, rosterVars, initialMapSetupReceived, map, assets>>

---------------------------------------------------------------------------
(* Posted events *)

\* Mutant: players only may alter the map.
maySendAsPlayer(c) == identity(c).role = "Player"

\* A client observes, as it believes, until the session is received.
maySend(c) == identity(c).role # "Observer"

\* An alteration is sent by who may; the map history always is.
handlePosted(c) ==
  /\ Up(c)
  /\ clientInbox[c] # <<>>
  /\ clientInbox' = [clientInbox EXCEPT ![c] = Tail(@)]
  /\ LET e == Head(clientInbox[c]) IN
     IF e.op = "alter" /\ ~maySend(c)
     THEN UNCHANGED toServer
     ELSE ClientSends(c, <<[method |-> MethodOf(e.payload), payload |-> e.payload]>>)
  /\ UNCHANGED <<link, toClient, rosterVars, mapVars, changes>>

\* The map thread: an alteration is applied; on a session, who is in charge
\* of the map posts it to the client's thread.
handleMapEvent(c) ==
  /\ Up(c)
  /\ mapInbox[c] # <<>>
  /\ mapInbox' = [mapInbox EXCEPT ![c] = Tail(@)]
  /\ LET e == Head(mapInbox[c]) IN
       \/ /\ e.op = "alter"
          /\ map' = [map EXCEPT ![c] = StorageAfter(@, e.payload)]
          /\ UNCHANGED clientInbox
       \/ /\ e.op = "session"
          /\ clientInbox' = IF hostAble[c]
               THEN [clientInbox EXCEPT ![c] =
                       Append(@, sendMapHistory(generateResetPayload(map[c])))]
               ELSE clientInbox
          /\ UNCHANGED map
  /\ UNCHANGED <<networkVars, rosterVars, initialMapSetupReceived, assets, changes>>

ClientStep(c) ==
  \/ connect(c) \/ close(c) \/ onPayloadReceived(c)
  \/ notifyCharacterChange(c) \/ queueAlteration(c)
  \/ handlePosted(c) \/ handleMapEvent(c)
=============================================================================
