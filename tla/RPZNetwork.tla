----------------------------- MODULE RPZNetwork -----------------------------
(***************************************************************************)
(* What the server and its clients share: the connections, the messages of *)
(* RPZJSON::Method and the part of a map storage that both sides keep.     *)
(*                                                                         *)
(* A Client is one connection of one RPZClient object, which is thrown     *)
(* away when it ends; it is also the id that the server shuffles for the   *)
(* user. Each direction of a connection is a TCP stream: a FIFO, whose     *)
(* unread part is lost when the connection is.                             *)
(***************************************************************************)
EXTENDS MapPayloads, Sequences

CONSTANTS
  Client,         \* connections, and RPZUser::Id
  Loopback,       \* those that come from the machine of the server
  Outdated,       \* those of another version of the software
  Character,      \* RPZCharacter::Id
  NoCharacter,    \* the empty character: the user plays none
  NoUser,         \* an id that is not in a table of users
  MaxSheet        \* bound: versions of a character sheet

ASSUME ClientAssumption == Loopback \subseteq Client /\ Outdated \subseteq Client
ASSUME CharacterAssumption == NoCharacter \notin Character
ASSUME NoUserAssumption == NoUser \notin Client
ASSUME MaxSheetAssumption == MaxSheet \in Nat

Role == {"Observer", "Host", "Player"}

\* RPZUser. named: a handshake gave it a name, a role and maybe a character.
User == [role : Role, character : Character \cup {NoCharacter},
         sheet : 0..MaxSheet, named : BOOLEAN]

ASSUME NoUserIsNotAUser == NoUser \notin User

\* A user that has not been named yet has the first role of the enumeration.
NewUser == [role |-> "Observer", character |-> NoCharacter, sheet |-> 0, named |-> FALSE]

Users == [Client -> User \cup {NoUser}]
NoUsers == [c \in Client |-> NoUser]

\* The atoms of a map, the asset hashes and the restricted ids kept with them.
Storage == [atoms : Maps, hashes : SUBSET Assets, restricted : SUBSET AtomId]

StorageOf(m) == [atoms |-> m, hashes |-> HashesOf(m), restricted |-> RestrictedIdsOf(m)]

StorageAfter(s, p) ==
  [atoms      |-> AtomsAfter(s.atoms, p),
   hashes     |-> HashesAfter(s.hashes, s.atoms, p),
   restricted |-> RestrictedAfter(s.restricted, s.atoms, p)]

generateResetPayload(s) == ResetPayload(s.atoms, s.hashes)

\* With nothing to hide a payload is left as it is, and is worth sending.
restrictPayload(s, p) ==
  IF s.restricted = {} THEN p ELSE restrictTargetedAtoms(p, s.restricted)

worthSending(s, p) == s.restricted = {} \/ atomsAreLeft(restrictPayload(s, p))

---------------------------------------------------------------------------
(* Messages *)

MapChange == {"MapChanged", "MapChangedHeavily"}

MethodOf(p) == IF p.type = "Reset" THEN "MapChangedHeavily" ELSE "MapChanged"

ToServerMessage ==
  [method : {"Handshake"}, character : Character \cup {NoCharacter}]
    \cup [method : {"CharacterChanged"}, sheet : 0..MaxSheet]
    \cup [method : {"AskForAssets"}, hashes : SUBSET AnyHash]
    \cup [method : MapChange, payload : Payload]

\* A session that is not full comes without a map.
ToClientMessage ==
  [method : {"ServerStatus"}]
    \cup [method : {"UserIn", "UserDataChanged"}, id : Client, user : User]
    \cup [method : {"UserOut"}, id : Client]
    \cup [method : {"GameSessionSync"}, users : Users, full : BOOLEAN, map : Payload]
    \cup [method : {"RequestedAsset"}, hash : Assets]
    \cup [method : MapChange, payload : Payload]

---------------------------------------------------------------------------
VARIABLES
  link,        \* idle, up, then down once the client closed, gone once the
               \* server knows
  toServer,    \* sent by a client, not handled by the server yet
  toClient     \* sent by the server, not handled by the client yet

networkVars == <<link, toServer, toClient>>

NetworkTypeOK ==
  /\ link \in [Client -> {"idle", "up", "down", "gone"}]
  /\ toServer \in [Client -> Seq(ToServerMessage)]
  /\ toClient \in [Client -> Seq(ToClientMessage)]

NetworkInit ==
  /\ link = [c \in Client |-> "idle"]
  /\ toServer = [c \in Client |-> <<>>]
  /\ toClient = [c \in Client |-> <<>>]

\* sent[c]: the messages for c, in order. A socket that is not connected
\* sends nothing.
ServerSends(sent) ==
  toClient' = [c \in Client |-> IF link[c] = "up" THEN toClient[c] \o sent[c]
                                ELSE toClient[c]]

ClientSends(c, messages) ==
  toServer' = IF link[c] = "up" THEN [toServer EXCEPT ![c] = @ \o messages]
              ELSE toServer

\* The same message to every connection of S.
ToAll(S, m) == [c \in Client |-> IF c \in S THEN <<m>> ELSE <<>>]
=============================================================================
