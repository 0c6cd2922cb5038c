-------------------------- MODULE RPZSessionProofs --------------------------
(***************************************************************************)
(* Theorems about a session, whatever the number of its users, the maps    *)
(* they open and the alterations they make: the roles, the secrets of the  *)
(* host, who is in the session as every client comes to know it, and the   *)
(* map of the session, as it comes to be the same for all. For the last,   *)
(* what a queue makes of a map is told by a path of maps along it, which   *)
(* is extended when a message is queued and cut when one is handled.       *)
(***************************************************************************)
EXTENDS RPZSession, MapPayloadsProofs, SequenceTheorems, FiniteSetTheorems

\* The fields of a message, by its method.
LEMMA ToServerFields ==
  ASSUME NEW m \in ToServerMessage
  PROVE  /\ m.method \in {"Handshake", "CharacterChanged", "AskForAssets"} \cup MapChange
         /\ m.method = "Handshake" => m.character \in Character \cup {NoCharacter}
         /\ m.method = "CharacterChanged" => m.sheet \in 0..MaxSheet
         /\ m.method = "AskForAssets" => m.hashes \in SUBSET AnyHash
         /\ m.method \in MapChange => m.payload \in Payload
BY DEF ToServerMessage, MapChange

LEMMA ToClientFields ==
  ASSUME NEW m \in ToClientMessage
  PROVE  /\ m.method \in {"UserIn", "UserDataChanged"} => m.id \in Client /\ m.user \in User
         /\ m.method = "UserOut" => m.id \in Client
         /\ m.method = "GameSessionSync" =>
              m.users \in Users /\ m.full \in BOOLEAN /\ m.map \in Payload
         /\ m.method = "RequestedAsset" => m.hash \in Assets
         /\ m.method \in MapChange => m.payload \in Payload
BY DEF ToClientMessage, MapChange

\* What is in a queue that grew, and in one whose first element was taken.
LEMMA ConcatElements ==
  ASSUME NEW S, NEW s \in Seq(S), NEW t \in Seq(S)
  PROVE  /\ s \o t \in Seq(S)
         /\ \A n \in DOMAIN (s \o t) :
              \/ n \in DOMAIN s /\ (s \o t)[n] = s[n]
              \/ n > Len(s) /\ n - Len(s) \in DOMAIN t /\ (s \o t)[n] = t[n - Len(s)]
BY ConcatProperties, LenProperties

\* Each element of q is one of s or one of t.
ComesFrom(q, s, t) ==
  \A n \in DOMAIN q : \/ \E j \in DOMAIN s : q[n] = s[j]
                      \/ \E j \in DOMAIN t : q[n] = t[j]

LEMMA ConcatSource ==
  ASSUME NEW S, NEW s \in Seq(S), NEW t \in Seq(S), NEW q, q = s \o t
  PROVE  q \in Seq(S) /\ ComesFrom(q, s, t)
BY ConcatElements DEF ComesFrom

LEMMA AppendElements ==
  ASSUME NEW S, NEW s \in Seq(S), NEW e \in S
  PROVE  /\ Append(s, e) \in Seq(S)
         /\ \A n \in DOMAIN Append(s, e) :
              \/ n \in DOMAIN s /\ Append(s, e)[n] = s[n]
              \/ n = Len(s) + 1 /\ Append(s, e)[n] = e
BY AppendProperties, LenProperties

LEMMA TailElements ==
  ASSUME NEW S, NEW s \in Seq(S), s # <<>>
  PROVE  /\ Head(s) \in S /\ Tail(s) \in Seq(S)
         /\ 1 \in DOMAIN s /\ s[1] = Head(s)
         /\ \A n \in DOMAIN Tail(s) :
              n \in Nat \ {0} /\ n + 1 \in DOMAIN s /\ Tail(s)[n] = s[n + 1]
<1>1. Head(s) \in S /\ Tail(s) \in Seq(S) /\ Len(Tail(s)) = Len(s) - 1
      /\ \A n \in 1..Len(Tail(s)) : Tail(s)[n] = s[n + 1]
  BY HeadTailProperties
<1>2. DOMAIN s = 1..Len(s) /\ Len(s) \in Nat /\ DOMAIN Tail(s) = 1..Len(Tail(s))
  BY <1>1, LenProperties
<1>3. Len(s) # 0
  BY EmptySeq
<1> QED
  BY <1>1, <1>2, <1>3

LEMMA SingletonElements ==
  ASSUME NEW S, NEW e \in S
  PROVE  <<e>> \in Seq(S) /\ DOMAIN <<e>> = {1} /\ <<e>>[1] = e
OBVIOUS

\* A finite set can be put in a sequence.
LEMMA SetToSeqElements ==
  ASSUME NEW S, IsFiniteSet(S)
  PROVE  SetToSeq(S) \in Seq(S)
<1>1. Cardinality(S) \in Nat /\ ExistsBijection(1..Cardinality(S), S)
  BY FS_CardinalityType
<1>2. \E f \in [1..Cardinality(S) -> S] : IsInjective(f)
  BY <1>1 DEF ExistsBijection, Bijection, Injection, IsInjective
<1>3. SetToSeq(S) \in [1..Cardinality(S) -> S]
  BY <1>2 DEF SetToSeq
<1> QED
  BY <1>1, <1>3, SeqDef

---------------------------------------------------------------------------
(* Storages *)

LEMMA StorageOfType ==
  ASSUME NEW m \in Maps
  PROVE  StorageOf(m) \in Storage
BY HashesOfType DEF StorageOf, Storage, RestrictedIdsOf

LEMMA StorageAfterType ==
  ASSUME NEW s \in Storage, NEW p \in Payload
  PROVE  StorageAfter(s, p) \in Storage
BY AtomsAfterType, HashesAfterType, RestrictedAfterType DEF StorageAfter, Storage

LEMMA generateResetPayloadType ==
  ASSUME NEW s \in Storage
  PROVE  generateResetPayload(s) \in Payload
BY ResetPayloadType DEF generateResetPayload, Storage

\* What the restrictions leave of a payload is one of the same type.
LEMMA restrictTargetedAtomsType ==
  ASSUME NEW p \in Payload, NEW hidden \in SUBSET AtomId
  PROVE  restrictTargetedAtoms(p, hidden) \in Payload
<1>1. CASE p.type \in {"Added", "Reset"}
  <2> DEFINE left == [i \in AtomId |-> IF i \in hidden THEN NoAtom ELSE p.atoms[i]]
  <2>1. left \in Maps
    BY PayloadFields DEF Maps
  <2>2. AnnouncedBy(left) \in SUBSET AnyHash
    BY <2>1, AnnouncedByType
  <2>3. restrictTargetedAtoms(p, hidden) = [p EXCEPT !.atoms = left, !.assets = AnnouncedBy(left)]
    BY <1>1 DEF restrictTargetedAtoms
  <2> QED
    BY <1>1, <2>1, <2>2, <2>3 DEF Payload, carriesAtoms
<1>2. CASE p.type = "BulkMetadataChanged"
  <2> DEFINE left == [i \in AtomId |-> IF i \in hidden THEN NoUpdate ELSE p.updates[i]]
  <2>1. left \in [AtomId -> Updates]
    BY PayloadFields, EmptyType
  <2>2. restrictTargetedAtoms(p, hidden) = [p EXCEPT !.updates = left]
    BY <1>2 DEF restrictTargetedAtoms
  <2> QED
    BY <1>2, <2>1, <2>2 DEF Payload, carriesAtoms
<1>3. CASE p.type \in {"Removed", "MetadataChanged"}
  <2>1. restrictTargetedAtoms(p, hidden) = [p EXCEPT !.ids = {}, !.updates = NoUpdates]
    BY <1>3 DEF restrictTargetedAtoms
  <2> QED
    BY <1>3, <2>1, EmptyType DEF Payload, carriesAtoms
<1> QED
  BY <1>1, <1>2, <1>3, PayloadFields DEF Alteration

LEMMA restrictPayloadType ==
  ASSUME NEW s \in Storage, NEW p \in Payload
  PROVE  restrictPayload(s, p) \in Payload
BY restrictTargetedAtomsType DEF restrictPayload, Storage

---------------------------------------------------------------------------
(* Types *)

\* What the server sends reaches the clients that are up, after what was sent
\* before; nobody else is sent anything.
LEMMA ServerSendsElements ==
  ASSUME NetworkTypeOK, NEW sent \in [Client -> Seq(ToClientMessage)], ServerSends(sent)
  PROVE  /\ toClient' \in [Client -> Seq(ToClientMessage)]
         /\ \A c \in Client :
              /\ link[c] # "up" => toClient'[c] = toClient[c]
              /\ link[c] = "up" => toClient'[c] = toClient[c] \o sent[c]
              /\ \A n \in DOMAIN toClient'[c] :
                   \/ n \in DOMAIN toClient[c] /\ toClient'[c][n] = toClient[c][n]
                   \/ /\ link[c] = "up"
                      /\ \E k \in DOMAIN sent[c] : toClient'[c][n] = sent[c][k]
<1> SUFFICES ASSUME NEW c \in Client
             PROVE  /\ toClient'[c] \in Seq(ToClientMessage)
                    /\ link[c] # "up" => toClient'[c] = toClient[c]
                    /\ link[c] = "up" => toClient'[c] = toClient[c] \o sent[c]
                    /\ \A n \in DOMAIN toClient'[c] :
                         \/ n \in DOMAIN toClient[c] /\ toClient'[c][n] = toClient[c][n]
                         \/ /\ link[c] = "up"
                            /\ \E k \in DOMAIN sent[c] : toClient'[c][n] = sent[c][k]
  BY DEF ServerSends
<1>1. toClient[c] \in Seq(ToClientMessage) /\ sent[c] \in Seq(ToClientMessage)
  BY DEF NetworkTypeOK
<1>2. toClient'[c] = IF link[c] = "up" THEN toClient[c] \o sent[c] ELSE toClient[c]
  BY DEF ServerSends
<1>3. CASE link[c] = "up"
  BY <1>1, <1>2, <1>3, ConcatElements
<1>4. CASE link[c] # "up"
  BY <1>1, <1>2, <1>4
<1> QED
  BY <1>3, <1>4

\* What a client sends is read by the server after what the client sent before.
LEMMA ClientSendsElements ==
  ASSUME NetworkTypeOK, NEW c \in Client, NEW messages \in Seq(ToServerMessage),
         ClientSends(c, messages)
  PROVE  /\ toServer' \in [Client -> Seq(ToServerMessage)]
         /\ \A d \in Client : d # c \/ link[c] # "up" => toServer'[d] = toServer[d]
         /\ link[c] = "up" => toServer'[c] = toServer[c] \o messages
         /\ \A n \in DOMAIN toServer'[c] :
              \/ n \in DOMAIN toServer[c] /\ toServer'[c][n] = toServer[c][n]
              \/ \E k \in DOMAIN messages :
                   n = Len(toServer[c]) + k /\ toServer'[c][n] = messages[k]
<1>1. toServer \in [Client -> Seq(ToServerMessage)]
  BY DEF NetworkTypeOK
<1>2. CASE link[c] = "up"
  <2>1. toServer' = [toServer EXCEPT ![c] = toServer[c] \o messages]
    BY <1>2 DEF ClientSends
  <2>2. toServer[c] \o messages \in Seq(ToServerMessage)
        /\ \A n \in DOMAIN (toServer[c] \o messages) :
             \/ n \in DOMAIN toServer[c] /\ (toServer[c] \o messages)[n] = toServer[c][n]
             \/ n > Len(toServer[c]) /\ n - Len(toServer[c]) \in DOMAIN messages
                /\ (toServer[c] \o messages)[n] = messages[n - Len(toServer[c])]
    BY <1>1, ConcatElements
  <2>3. DOMAIN (toServer[c] \o messages) \subseteq Int /\ Len(toServer[c]) \in Nat
    BY <1>1, <2>2, LenProperties
  <2>4. \A n \in DOMAIN (toServer[c] \o messages) : n = Len(toServer[c]) + (n - Len(toServer[c]))
    BY <2>3
  <2> QED
    BY <1>1, <1>2, <2>1, <2>2, <2>4
<1>3. CASE link[c] # "up"
  BY <1>1, <1>3 DEF ClientSends
<1> QED
  BY <1>2, <1>3

LEMMA ToAllType ==
  ASSUME NEW S, NEW m \in ToClientMessage
  PROVE  /\ ToAll(S, m) \in [Client -> Seq(ToClientMessage)]
         /\ \A c \in Client : \A k \in DOMAIN ToAll(S, m)[c] : c \in S /\ ToAll(S, m)[c][k] = m
<1>1. <<m>> \in Seq(ToClientMessage) /\ <<>> \in Seq(ToClientMessage)
  OBVIOUS
<1>2. ToAll(S, m) = [c \in Client |-> IF c \in S THEN <<m>> ELSE <<>>]
  BY DEF ToAll
<1>3. DOMAIN <<m>> = {1} /\ <<m>>[1] = m
  OBVIOUS
<1>4. \A k : k \notin DOMAIN <<>>
  OBVIOUS
<1> QED
  BY <1>1, <1>2, <1>3, <1>4

\* A client whose session was received is one of the users it knows, and
\* nothing on the way will make it forget that.
KnowsItself ==
  \A c \in Client :
    /\ synced[c] => sessionUsers[c][c] # NoUser
    /\ \A n \in DOMAIN toClient[c] :
         /\ toClient[c][n].method = "UserOut" => toClient[c][n].id # c
         /\ toClient[c][n].method = "GameSessionSync" => toClient[c][n].users[c] # NoUser

TypeInv == TypeOK /\ KnowsItself

LEMMA NoUsersType == NoUsers \in Users
BY DEF NoUsers, Users

LEMMA NewUserType == NewUser \in User
BY MaxSheetAssumption DEF NewUser, User, Role

LEMMA TypeInit == Init => TypeInv
<1> SUFFICES ASSUME Init
             PROVE  TypeInv
  OBVIOUS
<1>1. NetworkTypeOK
  BY DEF Init, NetworkInit, NetworkTypeOK
<1>2. ServerTypeOK
  BY StorageOfType, EmptyType, NoUsersType DEF Init, ServerInit, ServerTypeOK
<1>3. ClientTypeOK
  <2>1. PICK start \in [Client -> UNION {StartMaps[c] : c \in Client}] :
               /\ \A c \in Client : start[c] \in StartMaps[c]
               /\ map = [c \in Client |-> StorageOf(start[c])]
               /\ assets = [c \in Client |-> HashesOf(start[c])]
    BY DEF Init, ClientInit
  <2>2. \A c \in Client : start[c] \in Maps
    BY <2>1, StartMapsAssumption
  <2>3. map \in [Client -> Storage] /\ assets \in [Client -> SUBSET Assets]
    BY <2>1, <2>2, StorageOfType, HashesOfType
  <2>4. /\ clientInbox \in [Client -> Seq([op : {"alter", "history"}, payload : Payload])]
        /\ mapInbox \in [Client -> Seq([op : {"alter"}, payload : Payload] \cup {sessionReceived})]
    BY EmptySeq DEF Init, ClientInit
  <2>5. sessionUsers \in [Client -> Users] /\ changes \in 0..MaxChanges
    BY NoUsersType, MaxChangesAssumption DEF Init, ClientInit
  <2>6. /\ synced \in [Client -> BOOLEAN]
        /\ characterized \in [Client -> SUBSET Client]
        /\ association \in [Client -> [Character -> Client \cup {NoUser}]]
        /\ hostAble \in [Client -> BOOLEAN]
        /\ initialMapSetupReceived \in [Client -> BOOLEAN]
    BY DEF Init, ClientInit
  <2> QED
    BY <2>3, <2>4, <2>5, <2>6 DEF ClientTypeOK
<1>4. KnowsItself
  BY DEF Init, NetworkInit, ClientInit, KnowsItself
<1> QED
  BY <1>1, <1>2, <1>3, <1>4 DEF TypeInv, TypeOK

\* When the server sends nothing that makes a client forget itself, no client does.
LEMMA ServerSendsType ==
  ASSUME TypeInv, NEW sent \in [Client -> Seq(ToClientMessage)], ServerSends(sent),
         UNCHANGED clientVars,
         \A c \in Client : \A k \in DOMAIN sent[c] :
           /\ sent[c][k].method = "UserOut" => sent[c][k].id # c
           /\ sent[c][k].method = "GameSessionSync" => sent[c][k].users[c] # NoUser
  PROVE  toClient' \in [Client -> Seq(ToClientMessage)] /\ ClientTypeOK' /\ KnowsItself'
<1>1. ClientTypeOK'
  BY DEF TypeInv, TypeOK, ClientTypeOK, clientVars, rosterVars, mapVars
<1>2. UNCHANGED <<synced, sessionUsers>>
  BY DEF clientVars, rosterVars
<1>3. ASSUME NEW c \in Client, NEW n \in DOMAIN toClient'[c]
      PROVE  /\ toClient'[c][n].method = "UserOut" => toClient'[c][n].id # c
             /\ toClient'[c][n].method = "GameSessionSync" => toClient'[c][n].users[c] # NoUser
  <2>1. \/ n \in DOMAIN toClient[c] /\ toClient'[c][n] = toClient[c][n]
        \/ \E k \in DOMAIN sent[c] : toClient'[c][n] = sent[c][k]
    BY ServerSendsElements DEF TypeInv, TypeOK
  <2> QED
    BY <2>1 DEF TypeInv, KnowsItself
<1>4. KnowsItself'
  BY <1>2, <1>3 DEF TypeInv, KnowsItself
<1> QED
  BY <1>1, <1>4, ServerSendsElements DEF TypeInv, TypeOK

LEMMA onNewConnectionType ==
  ASSUME TypeInv, NEW c \in Client, onNewConnection(c), UNCHANGED clientVars
  PROVE  TypeInv'
<1>1. ServerTypeOK'
  BY NewUserType DEF TypeInv, TypeOK, ServerTypeOK, onNewConnection, Users
<1> QED
  BY <1>1 DEF TypeInv, TypeOK, onNewConnection, networkVars, NetworkTypeOK,
              clientVars, rosterVars, mapVars, ClientTypeOK, KnowsItself

LEMMA onClientSocketDisconnectedType ==
  ASSUME TypeInv, NEW c \in Client, onClientSocketDisconnected(c), UNCHANGED clientVars
  PROVE  TypeInv'
<1> DEFINE m == [method |-> "UserOut", id |-> c]
<1>1. m \in ToClientMessage
  BY DEF ToClientMessage
<1>2. ToAll(Peers(c), m) \in [Client -> Seq(ToClientMessage)]
      /\ \A d \in Client : \A k \in DOMAIN ToAll(Peers(c), m)[d] :
           d # c /\ ToAll(Peers(c), m)[d][k] = m
  BY <1>1, ToAllType DEF Peers
<1>3. ServerSends(ToAll(Peers(c), m))
  BY DEF onClientSocketDisconnected
<1>4. toClient' \in [Client -> Seq(ToClientMessage)] /\ ClientTypeOK' /\ KnowsItself'
  <2> HIDE DEF m
  <2>1. m.method = "UserOut" /\ m.id = c
    BY DEF m
  <2> QED
    BY <1>2, <1>3, <2>1, ServerSendsType
<1>5. NetworkTypeOK'
  <2>1. [link EXCEPT ![c] = "gone"] \in [Client -> {"idle", "up", "down", "gone"}]
    BY DEF TypeInv, TypeOK, NetworkTypeOK
  <2>2. [toServer EXCEPT ![c] = <<>>] \in [Client -> Seq(ToServerMessage)]
    BY EmptySeq DEF TypeInv, TypeOK, NetworkTypeOK
  <2> QED
    BY <1>4, <2>1, <2>2 DEF NetworkTypeOK, onClientSocketDisconnected
<1>6. ServerTypeOK'
  BY DEF TypeInv, TypeOK, ServerTypeOK, onClientSocketDisconnected, Users
<1> QED
  BY <1>4, <1>5, <1>6 DEF TypeInv, TypeOK

LEMMA gameSessionType ==
  ASSUME ServerTypeOK, NEW c \in Client, NEW users \in Users
  PROVE  /\ gameSession(c, users) \in ToClientMessage
         /\ gameSession(c, users).method = "GameSessionSync"
         /\ gameSession(c, users).users = users
<1>1. restrictPayload(hints, generateResetPayload(hints)) \in Payload
  BY generateResetPayloadType, restrictPayloadType DEF ServerTypeOK
<1>2. generateResetPayload(StorageOf(NoAtoms)) \in Payload
  BY generateResetPayloadType, StorageOfType, EmptyType
<1> QED
  BY <1>1, <1>2 DEF gameSession, ToClientMessage

LEMMA acceptHandshakeType ==
  ASSUME TypeInv, NEW c \in Client, NEW character \in Character \cup {NoCharacter},
         acceptHandshake(c, character), UNCHANGED clientVars
  PROVE  toClient' \in [Client -> Seq(ToClientMessage)] /\ ServerTypeOK'
         /\ ClientTypeOK' /\ KnowsItself'
<1> DEFINE user == [NewUser EXCEPT !.role = attributedRole(c, character),
                                   !.character = character, !.named = TRUE]
           users == [usersById EXCEPT ![c] = user]
           m == [method |-> "UserIn", id |-> c, user |-> user]
           sent == [ToAll(Peers(c), m) EXCEPT ![c] = <<gameSession(c, users)>>]
<1>1. attributedRole(c, character) \in Role
  BY DEF attributedRole, Role
<1>2. user \in User
  BY <1>1, NewUserType DEF User, NewUser
<1>3. users \in Users
  BY <1>2 DEF TypeInv, TypeOK, ServerTypeOK, Users
<1>4. usersById' = users /\ socketsByRole' = [socketsByRole EXCEPT ![user.role] = @ \cup {c}]
      /\ ServerSends(sent) /\ UNCHANGED <<hints, mapHasLoaded>>
  BY DEF acceptHandshake
<1>5. user.role \in Role
  BY <1>1, <1>2 DEF User
<1>6. ServerTypeOK'
  <2> HIDE DEF user
  <2> QED
    BY <1>3, <1>4, <1>5 DEF TypeInv, TypeOK, ServerTypeOK
<1>7. m \in ToClientMessage /\ m.method = "UserIn"
  <2> HIDE DEF user
  <2> QED
    BY <1>2 DEF ToClientMessage
<1>8. users[c] = user
  BY DEF TypeInv, TypeOK, ServerTypeOK, Users
<1> HIDE DEF user, users, m
<1>9. sent \in [Client -> Seq(ToClientMessage)]
      /\ \A d \in Client : \A k \in DOMAIN sent[d] :
           \/ d # c /\ sent[d][k] = m
           \/ d = c /\ sent[d][k] = gameSession(c, users)
  <2>1. gameSession(c, users) \in ToClientMessage
    BY <1>3, gameSessionType DEF TypeInv, TypeOK
  <2>2. ToAll(Peers(c), m) \in [Client -> Seq(ToClientMessage)]
        /\ \A d \in Client : \A k \in DOMAIN ToAll(Peers(c), m)[d] : ToAll(Peers(c), m)[d][k] = m
    BY <1>7, ToAllType
  <2>3. <<gameSession(c, users)>> \in Seq(ToClientMessage)
        /\ DOMAIN <<gameSession(c, users)>> = {1}
        /\ <<gameSession(c, users)>>[1] = gameSession(c, users)
    BY <2>1, SingletonElements
  <2> QED
    BY <2>2, <2>3
<1>10. \A d \in Client : \A k \in DOMAIN sent[d] :
         /\ sent[d][k].method = "UserOut" => sent[d][k].id # d
         /\ sent[d][k].method = "GameSessionSync" => sent[d][k].users[d] # NoUser
  <2>1. gameSession(c, users).method = "GameSessionSync" /\ gameSession(c, users).users = users
    BY <1>3, gameSessionType DEF TypeInv, TypeOK
  <2> HIDE DEF sent
  <2> QED
    BY <1>2, <1>7, <1>8, <1>9, <2>1, NoUserIsNotAUser
<1> QED
  BY <1>4, <1>6, <1>9, <1>10, ServerSendsType

LEMMA characterChangedType ==
  ASSUME TypeInv, NEW c \in Client, c \in Connected, NEW sheet \in 0..MaxSheet,
         characterChanged(c, sheet), UNCHANGED clientVars
  PROVE  toClient' \in [Client -> Seq(ToClientMessage)] /\ ServerTypeOK'
         /\ ClientTypeOK' /\ KnowsItself'
<1> DEFINE user == [usersById[c] EXCEPT !.sheet = sheet]
           m == [method |-> "UserDataChanged", id |-> c, user |-> user]
<1>1. user \in User
  BY DEF TypeInv, TypeOK, ServerTypeOK, Connected, Users, User
<1>2. usersById' = [usersById EXCEPT ![c] = user] /\ ServerSends(ToAll(Peers(c), m))
      /\ UNCHANGED <<socketsByRole, hints, mapHasLoaded>>
  BY DEF characterChanged
<1> HIDE DEF user
<1>3. m \in ToClientMessage /\ m.method = "UserDataChanged"
  BY <1>1 DEF ToClientMessage
<1>4. ServerTypeOK'
  BY <1>1, <1>2 DEF TypeInv, TypeOK, ServerTypeOK, Users
<1> HIDE DEF m
<1>5. ToAll(Peers(c), m) \in [Client -> Seq(ToClientMessage)]
      /\ \A d \in Client : \A k \in DOMAIN ToAll(Peers(c), m)[d] : ToAll(Peers(c), m)[d][k] = m
  BY <1>3, ToAllType
<1> QED
  BY <1>2, <1>3, <1>4, <1>5, ServerSendsType

LEMMA sendAssetsSent ==
  ASSUME NEW c \in Client, NEW hashes \in SUBSET AnyHash, sendAssets(c, hashes)
  PROVE  \E sent \in [Client -> Seq(ToClientMessage)] :
           /\ ServerSends(sent) /\ UNCHANGED serverVars
           /\ \A d \in Client \ {c} : sent[d] = <<>>
           /\ \A d \in Client : \A k \in DOMAIN sent[d] : sent[d][k].method = "RequestedAsset"
<1> DEFINE asked == (hashes \cap StoredAssets) \cap FiledAssets
           packages == {[method |-> "RequestedAsset", hash |-> h] : h \in asked}
           sent == [d \in Client |-> IF d = c THEN SetToSeq(packages) ELSE <<>>]
<1>1. ServerSends(sent) /\ UNCHANGED serverVars
  BY DEF sendAssets
<1>2. SetToSeq(packages) \in Seq(packages)
  <2>1. IsFiniteSet(asked)
    BY StoredAssetsAssumption, FS_Subset
  <2>2. \E f \in Surjection(asked, packages) : TRUE
    <3> DEFINE f == [h \in asked |-> [method |-> "RequestedAsset", hash |-> h]]
    <3>1. f \in Surjection(asked, packages)
      BY DEF Surjection
    <3> QED
      BY <3>1
  <2>3. IsFiniteSet(packages)
    BY <2>1, <2>2, FS_Surjection
  <2> QED
    BY <2>3, SetToSeqElements
<1>3. \A m \in packages : m \in ToClientMessage /\ m.method = "RequestedAsset"
  BY StoredAssetsAssumption DEF ToClientMessage
<1> HIDE DEF packages
<1>4. SetToSeq(packages) \in Seq(ToClientMessage)
  BY <1>2, <1>3, SeqMonotonic
<1>5. \A k \in DOMAIN SetToSeq(packages) : SetToSeq(packages)[k].method = "RequestedAsset"
  BY <1>2, <1>3, ElementOfSeq, LenProperties
<1>6. sent \in [Client -> Seq(ToClientMessage)] /\ (\A d \in Client \ {c} : sent[d] = <<>>)
      /\ \A d \in Client : \A k \in DOMAIN sent[d] : sent[d][k].method = "RequestedAsset"
  BY <1>4, <1>5
<1> QED
  BY <1>1, <1>6

LEMMA sendAssetsType ==
  ASSUME TypeInv, NEW c \in Client, NEW hashes \in SUBSET AnyHash,
         sendAssets(c, hashes), UNCHANGED clientVars
  PROVE  toClient' \in [Client -> Seq(ToClientMessage)] /\ ServerTypeOK'
         /\ ClientTypeOK' /\ KnowsItself'
<1>1. PICK sent \in [Client -> Seq(ToClientMessage)] :
        /\ ServerSends(sent) /\ UNCHANGED serverVars
        /\ \A d \in Client : \A k \in DOMAIN sent[d] : sent[d][k].method = "RequestedAsset"
  BY sendAssetsSent
<1>2. ServerTypeOK'
  BY <1>1 DEF serverVars, TypeInv, TypeOK, ServerTypeOK
<1> QED
  BY <1>1, <1>2, ServerSendsType

\* What a change of the map is relayed as: whole to the hosts, and to the others
\* what the restrictions leave.
Relayed(c, method, p) ==
  LET whole == [method |-> method, payload |-> p]
      rest == [method |-> method, payload |-> restrictPayload(hintsAfter(p), p)]
      hosts == socketsByRole["Host"] \ {c}
      others == IF worthSending(hintsAfter(p), p) THEN withheld \ {c} ELSE {}
  IN [d \in Client |-> ToAll(hosts, whole)[d] \o ToAll(others, rest)[d]]

LEMMA RelayedElements ==
  ASSUME ServerTypeOK, NEW c \in Client, NEW method \in MapChange, NEW p \in Payload
  PROVE  /\ Relayed(c, method, p) \in [Client -> Seq(ToClientMessage)]
         /\ \A d \in Client : \A k \in DOMAIN Relayed(c, method, p)[d] :
              LET m == Relayed(c, method, p)[d][k] IN
                /\ m.method = method
                /\ \/ d \in socketsByRole["Host"] /\ m.payload = p
                   \/ m.payload = restrictPayload(hintsAfter(p), p)
<1> DEFINE whole == [method |-> method, payload |-> p]
           rest == [method |-> method, payload |-> restrictPayload(hintsAfter(p), p)]
           hosts == socketsByRole["Host"] \ {c}
           others == IF worthSending(hintsAfter(p), p) THEN withheld \ {c} ELSE {}
<1>1. hintsAfter(p) \in Storage
  BY StorageAfterType DEF hintsAfter, ServerTypeOK
<1>2. restrictPayload(hintsAfter(p), p) \in Payload
  BY <1>1, restrictPayloadType
<1>3. whole \in ToClientMessage /\ rest \in ToClientMessage
  BY <1>2 DEF ToClientMessage
<1>4. whole.method = method /\ whole.payload = p
      /\ rest.method = method /\ rest.payload = restrictPayload(hintsAfter(p), p)
  OBVIOUS
<1>5. Relayed(c, method, p) =
        [d \in Client |-> ToAll(hosts, whole)[d] \o ToAll(others, rest)[d]]
  BY DEF Relayed
<1> HIDE DEF whole, rest, others
<1> SUFFICES ASSUME NEW d \in Client
             PROVE  /\ Relayed(c, method, p)[d] \in Seq(ToClientMessage)
                    /\ \A k \in DOMAIN Relayed(c, method, p)[d] :
                         LET m == Relayed(c, method, p)[d][k] IN
                           /\ m.method = method
                           /\ \/ d \in socketsByRole["Host"] /\ m.payload = p
                              \/ m.payload = restrictPayload(hintsAfter(p), p)
  BY <1>5
<1>6. /\ ToAll(hosts, whole)[d] \in Seq(ToClientMessage)
      /\ \A k \in DOMAIN ToAll(hosts, whole)[d] :
           d \in hosts /\ ToAll(hosts, whole)[d][k] = whole
      /\ ToAll(others, rest)[d] \in Seq(ToClientMessage)
      /\ \A k \in DOMAIN ToAll(others, rest)[d] : ToAll(others, rest)[d][k] = rest
  BY <1>3, ToAllType
<1>7. Relayed(c, method, p)[d] = ToAll(hosts, whole)[d] \o ToAll(others, rest)[d]
  BY <1>5
<1> HIDE DEF hosts
<1>8. Relayed(c, method, p)[d] \in Seq(ToClientMessage)
      /\ ComesFrom(Relayed(c, method, p)[d], ToAll(hosts, whole)[d], ToAll(others, rest)[d])
  BY <1>6, <1>7, ConcatSource, Zenon
<1>9. ASSUME NEW k \in DOMAIN Relayed(c, method, p)[d]
      PROVE  \/ d \in hosts /\ Relayed(c, method, p)[d][k] = whole
             \/ Relayed(c, method, p)[d][k] = rest
  BY <1>6, <1>8 DEF ComesFrom
<1> QED
  BY <1>4, <1>8, <1>9 DEF hosts

LEMMA broadcastMapChangesType ==
  ASSUME TypeInv, NEW c \in Client, NEW method \in MapChange, NEW p \in Payload,
         broadcastMapChanges(c, method, p), UNCHANGED clientVars
  PROVE  toClient' \in [Client -> Seq(ToClientMessage)] /\ ServerTypeOK'
         /\ ClientTypeOK' /\ KnowsItself'
<1>1. ServerSends(Relayed(c, method, p)) /\ hints' = StorageAfter(hints, p)
      /\ mapHasLoaded' = (mapHasLoaded \/ p.type = "Reset")
      /\ UNCHANGED <<usersById, socketsByRole>>
  BY DEF broadcastMapChanges, Relayed
<1>2. ServerTypeOK'
  BY <1>1, StorageAfterType DEF TypeInv, TypeOK, ServerTypeOK
<1>3. \A d \in Client : \A k \in DOMAIN Relayed(c, method, p)[d] :
        Relayed(c, method, p)[d][k].method \notin {"UserOut", "GameSessionSync"}
  BY RelayedElements DEF TypeInv, TypeOK, MapChange
<1>4. Relayed(c, method, p) \in [Client -> Seq(ToClientMessage)]
  BY RelayedElements DEF TypeInv, TypeOK
<1> QED
  BY <1>1, <1>2, <1>3, <1>4, ServerSendsType

LEMMA onClientPayloadReceivedType ==
  ASSUME TypeInv, NEW c \in Client, onClientPayloadReceived(c), UNCHANGED clientVars
  PROVE  TypeInv'
<1> DEFINE m == Head(toServer[c])
<1>1. toServer[c] \in Seq(ToServerMessage) /\ toServer[c] # <<>>
  BY DEF TypeInv, TypeOK, NetworkTypeOK, onClientPayloadReceived
<1>2. m \in ToServerMessage /\ Tail(toServer[c]) \in Seq(ToServerMessage)
  BY <1>1, TailElements
<1>3. toServer' \in [Client -> Seq(ToServerMessage)] /\ UNCHANGED link
  BY <1>2 DEF TypeInv, TypeOK, NetworkTypeOK, onClientPayloadReceived
<1>4. /\ toClient' \in [Client -> Seq(ToClientMessage)] /\ ServerTypeOK'
      /\ ClientTypeOK' /\ KnowsItself'
  <2>1. CASE m.method = "Handshake" /\ rejectVersion(c)
    <3> DEFINE status == [method |-> "ServerStatus"]
    <3>1. status \in ToClientMessage /\ status.method = "ServerStatus"
      BY DEF ToClientMessage
    <3>2. ServerSends(ToAll({c}, status)) /\ UNCHANGED serverVars
      BY <2>1 DEF rejectVersion
    <3> HIDE DEF status
    <3>3. ToAll({c}, status) \in [Client -> Seq(ToClientMessage)]
          /\ \A d \in Client : \A k \in DOMAIN ToAll({c}, status)[d] :
               ToAll({c}, status)[d][k] = status
      BY <3>1, ToAllType
    <3>4. ServerTypeOK'
      BY <3>2 DEF serverVars, TypeInv, TypeOK, ServerTypeOK
    <3> QED
      BY <3>1, <3>2, <3>3, <3>4, ServerSendsType
  <2>2. CASE m.method = "Handshake" /\ acceptHandshake(c, m.character)
    BY <1>2, <2>2, ToServerFields, acceptHandshakeType
  <2>3. CASE m.method = "CharacterChanged" /\ characterChanged(c, m.sheet)
    BY <1>2, <2>3, ToServerFields, characterChangedType DEF onClientPayloadReceived
  <2>4. CASE m.method = "AskForAssets" /\ sendAssets(c, m.hashes)
    BY <1>2, <2>4, ToServerFields, sendAssetsType
  <2>5. CASE m.method \in MapChange /\ broadcastMapChanges(c, m.method, m.payload)
    BY <1>2, <2>5, ToServerFields, broadcastMapChangesType
  <2> QED
    BY <2>1, <2>2, <2>3, <2>4, <2>5 DEF onClientPayloadReceived
<1> QED
  BY <1>3, <1>4 DEF TypeInv, TypeOK, NetworkTypeOK

LEMMA ServerStepType ==
  ASSUME TypeInv, NEW c \in Client, ServerStep(c), UNCHANGED clientVars
  PROVE  TypeInv'
BY onNewConnectionType, onClientSocketDisconnectedType, onClientPayloadReceivedType
   DEF ServerStep

LEMMA connectType ==
  ASSUME TypeInv, NEW c \in Client, connect(c), UNCHANGED serverVars
  PROVE  TypeInv'
<1>1. PICK character \in Incarnates[c] :
        toServer' = [toServer EXCEPT ![c] = <<[method |-> "Handshake", character |-> character]>>]
  BY DEF connect
<1>2. character \in Character \cup {NoCharacter}
  BY IncarnatesAssumption
<1>3. [method |-> "Handshake", character |-> character] \in ToServerMessage
  BY <1>2 DEF ToServerMessage
<1>4. toServer' \in [Client -> Seq(ToServerMessage)]
  BY <1>1, <1>3, SingletonElements DEF TypeInv, TypeOK, NetworkTypeOK
<1>5. NetworkTypeOK'
  BY <1>4 DEF TypeInv, TypeOK, NetworkTypeOK, connect
<1> QED
  BY <1>5 DEF TypeInv, TypeOK, connect, clientVars, rosterVars, mapVars, ClientTypeOK,
              serverVars, ServerTypeOK, KnowsItself

LEMMA endedType ==
  ASSUME TypeInv, NEW c \in Client, ended(c), UNCHANGED serverVars
  PROVE  TypeInv'
<1>1. NetworkTypeOK'
  <2>1. link' \in [Client -> {"idle", "up", "down", "gone"}]
    BY DEF TypeInv, TypeOK, NetworkTypeOK, ended
  <2>2. toClient' \in [Client -> Seq(ToClientMessage)]
    BY EmptySeq DEF TypeInv, TypeOK, NetworkTypeOK, ended
  <2> QED
    BY <2>1, <2>2 DEF TypeInv, TypeOK, NetworkTypeOK, ended
<1>2. ClientTypeOK'
  <2>1. clientInbox' \in [Client -> Seq([op : {"alter", "history"}, payload : Payload])]
    BY EmptySeq DEF TypeInv, TypeOK, ClientTypeOK, ended
  <2>2. mapInbox' \in [Client -> Seq([op : {"alter"}, payload : Payload] \cup {sessionReceived})]
    BY EmptySeq DEF TypeInv, TypeOK, ClientTypeOK, ended
  <2>3. sessionUsers' \in [Client -> Users]
    BY NoUsersType DEF TypeInv, TypeOK, ClientTypeOK, ended
  <2>4. /\ synced' \in [Client -> BOOLEAN]
        /\ characterized' \in [Client -> SUBSET Client]
        /\ association' \in [Client -> [Character -> Client \cup {NoUser}]]
        /\ hostAble' \in [Client -> BOOLEAN]
        /\ initialMapSetupReceived' \in [Client -> BOOLEAN]
    BY DEF TypeInv, TypeOK, ClientTypeOK, ended
  <2> QED
    BY <2>1, <2>2, <2>3, <2>4 DEF TypeInv, TypeOK, ClientTypeOK, ended
<1>3. KnowsItself'
  <2>1. toClient'[c] = <<>> /\ ~synced'[c]
    BY DEF ended, TypeInv, TypeOK, NetworkTypeOK, ClientTypeOK
  <2>2. \A d \in Client \ {c} : toClient'[d] = toClient[d] /\ synced'[d] = synced[d]
                                /\ sessionUsers'[d] = sessionUsers[d]
    BY DEF ended, TypeInv, TypeOK, NetworkTypeOK, ClientTypeOK
  <2>3. \A n : n \notin DOMAIN <<>>
    OBVIOUS
  <2> QED
    BY <2>1, <2>2, <2>3 DEF TypeInv, KnowsItself
<1> QED
  BY <1>1, <1>2, <1>3 DEF TypeInv, TypeOK, serverVars, ServerTypeOK

\* What registering users does to the tables of characters.
LEMMA registerInType ==
  ASSUME ClientTypeOK, NEW c \in Client, NEW arrived \in Users, registerIn(c, arrived)
  PROVE  /\ characterized' \in [Client -> SUBSET Client]
         /\ association' \in [Client -> [Character -> Client \cup {NoUser}]]
<1> DEFINE players == {d \in Client : arrived[d] # NoUser /\ arrived[d].role = "Player"}
<1>1. characterized' = [characterized EXCEPT ![c] = @ \cup players]
  BY DEF registerIn
<1>2. \E chosen \in [Character -> Client \cup {NoUser}] :
        association' = [association EXCEPT ![c] = chosen]
  BY DEF registerIn
<1> QED
  BY <1>1, <1>2 DEF ClientTypeOK

LEMMA registerOutType ==
  ASSUME ClientTypeOK, NEW c \in Client, NEW d \in Client, registerOut(c, d)
  PROVE  /\ characterized' \in [Client -> SUBSET Client]
         /\ association' \in [Client -> [Character -> Client \cup {NoUser}]]
<1> DEFINE out == sessionUsers[c][d]
<1>1. CASE out = NoUser \/ out.role # "Player"
  BY <1>1 DEF registerOut, ClientTypeOK
<1>2. CASE ~(out = NoUser \/ out.role # "Player")
  <2>1. characterized' = [characterized EXCEPT ![c] = @ \ {d}]
        /\ association' = [association EXCEPT ![c] = [association[c] EXCEPT ![out.character] = NoUser]]
    BY <1>2 DEF registerOut, ClientTypeOK
  <2>2. association[c] \in [Character -> Client \cup {NoUser}]
    BY DEF ClientTypeOK
  <2>3. [association[c] EXCEPT ![out.character] = NoUser] \in [Character -> Client \cup {NoUser}]
    BY <2>2
  <2> HIDE DEF out
  <2> QED
    BY <2>1, <2>3 DEF ClientTypeOK
<1> QED
  BY <1>1, <1>2

\* Asking for assets and leaving an alteration to the map thread.
LEMMA onMapChangeReceivedType ==
  ASSUME TypeInv, NEW c \in Client, NEW heavy \in BOOLEAN, NEW p \in Payload,
         NEW before \in Seq({sessionReceived}), onMapChangeReceived(c, heavy, p, before)
  PROVE  /\ toServer' \in [Client -> Seq(ToServerMessage)]
         /\ initialMapSetupReceived' \in [Client -> BOOLEAN]
         /\ mapInbox' \in [Client -> Seq([op : {"alter"}, payload : Payload] \cup {sessionReceived})]
         /\ UNCHANGED <<map, assets>>
<1> DEFINE messages == IF missingAssets(c, p) = {} THEN <<>>
                       ELSE <<[method |-> "AskForAssets", hashes |-> missingAssets(c, p)]>>
           Event == [op : {"alter"}, payload : Payload] \cup {sessionReceived}
<1>1. missingAssets(c, p) \in SUBSET AnyHash
  BY PayloadFields DEF missingAssets
<1>2. [method |-> "AskForAssets", hashes |-> missingAssets(c, p)] \in ToServerMessage
  BY <1>1 DEF ToServerMessage
<1>3. messages \in Seq(ToServerMessage)
  BY <1>2, SingletonElements, EmptySeq
<1>4. toServer' \in [Client -> Seq(ToServerMessage)]
  BY <1>3, ClientSendsElements DEF TypeInv, TypeOK, onMapChangeReceived
<1>5. alter(p) \in Event
  BY DEF alter
<1>6. <<alter(p)>> \in Seq(Event) /\ before \in Seq(Event) /\ mapInbox[c] \in Seq(Event)
  BY <1>5, SingletonElements, SeqMonotonic DEF TypeInv, TypeOK, ClientTypeOK
<1>7. mapInbox[c] \o before \in Seq(Event)
  BY <1>6, ConcatProperties
<1>8. mapInbox[c] \o before \o <<alter(p)>> \in Seq(Event)
  BY <1>6, <1>7, ConcatProperties
<1>9. mapInbox' \in [Client -> Seq(Event)]
  BY <1>8 DEF onMapChangeReceived, TypeInv, TypeOK, ClientTypeOK
<1> QED
  BY <1>4, <1>9 DEF onMapChangeReceived, TypeInv, TypeOK, ClientTypeOK

\* What a client reads from the server.
LEMMA onPayloadReceivedType ==
  ASSUME TypeInv, NEW c \in Client, onPayloadReceived(c), UNCHANGED serverVars
  PROVE  TypeInv'
<1> DEFINE m == Head(toClient[c])
<1>1. toClient[c] \in Seq(ToClientMessage) /\ toClient[c] # <<>>
  BY DEF TypeInv, TypeOK, NetworkTypeOK, onPayloadReceived
<1>2. /\ m \in ToClientMessage /\ Tail(toClient[c]) \in Seq(ToClientMessage)
      /\ 1 \in DOMAIN toClient[c] /\ toClient[c][1] = m
      /\ \A n \in DOMAIN Tail(toClient[c]) :
           n + 1 \in DOMAIN toClient[c] /\ Tail(toClient[c])[n] = toClient[c][n + 1]
  BY <1>1, TailElements
<1>3. CASE ended(c)
  BY <1>3, endedType
<1>4. CASE /\ toClient' = [toClient EXCEPT ![c] = Tail(@)]
           /\ UNCHANGED <<link, clientInbox, changes>>
           /\ \/ m.method = "UserIn" /\ userIn(c, m.id, m.user)
              \/ m.method = "UserOut" /\ userOut(c, m.id)
              \/ m.method = "UserDataChanged" /\ userDataChanged(c, m.id, m.user)
              \/ m.method = "GameSessionSync" /\ gameSessionSync(c, m)
              \/ m.method \in MapChange /\ mapChanged(c, m)
              \/ m.method = "RequestedAsset" /\ requestedAsset(c, m.hash)
  <2>1. /\ toClient' \in [Client -> Seq(ToClientMessage)]
        /\ toClient'[c] = Tail(toClient[c])
        /\ \A d \in Client : d # c => toClient'[d] = toClient[d]
    BY <1>2, <1>4 DEF TypeInv, TypeOK, NetworkTypeOK
  <2>2. \A d \in Client : \A n \in DOMAIN toClient'[d] :
          /\ toClient'[d][n].method = "UserOut" => toClient'[d][n].id # d
          /\ toClient'[d][n].method = "GameSessionSync" => toClient'[d][n].users[d] # NoUser
    <3> TAKE d \in Client
    <3> TAKE n \in DOMAIN toClient'[d]
    <3>1. CASE d = c
      <4>1. n + 1 \in DOMAIN toClient[c] /\ toClient'[c][n] = toClient[c][n + 1]
        BY <1>2, <2>1, <3>1
      <4> QED
        BY <3>1, <4>1 DEF TypeInv, KnowsItself
    <3>2. CASE d # c
      BY <2>1, <3>2 DEF TypeInv, KnowsItself
    <3> QED
      BY <3>1, <3>2
  <2>3. CASE /\ sessionUsers' \in [Client -> Users]
             /\ synced' \in [Client -> BOOLEAN]
             /\ characterized' \in [Client -> SUBSET Client]
             /\ association' \in [Client -> [Character -> Client \cup {NoUser}]]
             /\ hostAble' \in [Client -> BOOLEAN]
             /\ toServer' \in [Client -> Seq(ToServerMessage)]
             /\ initialMapSetupReceived' \in [Client -> BOOLEAN]
             /\ mapInbox' \in [Client -> Seq([op : {"alter"}, payload : Payload] \cup {sessionReceived})]
             /\ map' \in [Client -> Storage]
             /\ assets' \in [Client -> SUBSET Assets]
             /\ \A d \in Client : synced'[d] => sessionUsers'[d][d] # NoUser
    <3>1. NetworkTypeOK'
      BY <1>4, <2>1, <2>3 DEF TypeInv, TypeOK, NetworkTypeOK
    <3>2. ClientTypeOK'
      BY <1>4, <2>3 DEF TypeInv, TypeOK, ClientTypeOK
    <3>3. KnowsItself'
      BY <2>2, <2>3 DEF KnowsItself
    <3> QED
      BY <3>1, <3>2, <3>3 DEF TypeInv, TypeOK, serverVars, ServerTypeOK
  <2>4. CASE m.method = "UserIn" /\ userIn(c, m.id, m.user)
    <3>1. m.id \in Client /\ m.user \in User
      BY <1>2, <2>4, ToClientFields
    <3>2. [NoUsers EXCEPT ![m.id] = m.user] \in Users
      BY <3>1, NoUsersType DEF Users
    <3>3. /\ characterized' \in [Client -> SUBSET Client]
          /\ association' \in [Client -> [Character -> Client \cup {NoUser}]]
      BY <2>4, <3>2, registerInType DEF userIn, TypeInv, TypeOK
    <3>4. sessionUsers' = [sessionUsers EXCEPT ![c] = [sessionUsers[c] EXCEPT ![m.id] = m.user]]
      BY <2>4 DEF userIn, TypeInv, TypeOK, ClientTypeOK
    <3>5. [sessionUsers[c] EXCEPT ![m.id] = m.user] \in Users
      BY <3>1 DEF TypeInv, TypeOK, ClientTypeOK, Users
    <3>6. sessionUsers' \in [Client -> Users]
      BY <3>4, <3>5 DEF TypeInv, TypeOK, ClientTypeOK
    <3>7. \A d \in Client : sessionUsers[d][d] # NoUser => sessionUsers'[d][d] # NoUser
      BY <3>1, <3>4, NoUserIsNotAUser DEF TypeInv, TypeOK, ClientTypeOK, Users
    <3> QED
      BY <2>3, <2>4, <3>3, <3>6, <3>7
         DEF userIn, mapVars, TypeInv, TypeOK, ClientTypeOK, NetworkTypeOK, KnowsItself
  <2>5. CASE m.method = "UserOut" /\ userOut(c, m.id)
    <3>1. m.id \in Client /\ m.id # c
      BY <1>2, <2>5, ToClientFields DEF TypeInv, KnowsItself
    <3>2. /\ characterized' \in [Client -> SUBSET Client]
          /\ association' \in [Client -> [Character -> Client \cup {NoUser}]]
      BY <2>5, <3>1, registerOutType DEF userOut, TypeInv, TypeOK
    <3>3. sessionUsers' = [sessionUsers EXCEPT ![c] = [sessionUsers[c] EXCEPT ![m.id] = NoUser]]
      BY <2>5 DEF userOut, TypeInv, TypeOK, ClientTypeOK
    <3>4. [sessionUsers[c] EXCEPT ![m.id] = NoUser] \in Users
      BY <3>1 DEF TypeInv, TypeOK, ClientTypeOK, Users
    <3>5. sessionUsers' \in [Client -> Users]
      BY <3>3, <3>4 DEF TypeInv, TypeOK, ClientTypeOK
    <3>6. \A d \in Client : sessionUsers'[d][d] = sessionUsers[d][d]
      BY <3>1, <3>3 DEF TypeInv, TypeOK, ClientTypeOK, Users
    <3> QED
      BY <2>3, <2>5, <3>2, <3>5, <3>6
         DEF userOut, mapVars, TypeInv, TypeOK, ClientTypeOK, NetworkTypeOK, KnowsItself
  <2>6. CASE m.method = "UserDataChanged" /\ userDataChanged(c, m.id, m.user)
    <3>1. m.id \in Client /\ m.user \in User
      BY <1>2, <2>6, ToClientFields
    <3>2. sessionUsers' = [sessionUsers EXCEPT ![c] = [sessionUsers[c] EXCEPT ![m.id] = m.user]]
      BY <2>6 DEF userDataChanged, TypeInv, TypeOK, ClientTypeOK
    <3>3. [sessionUsers[c] EXCEPT ![m.id] = m.user] \in Users
      BY <3>1 DEF TypeInv, TypeOK, ClientTypeOK, Users
    <3>4. sessionUsers' \in [Client -> Users]
      BY <3>2, <3>3 DEF TypeInv, TypeOK, ClientTypeOK
    <3>5. \A d \in Client : sessionUsers[d][d] # NoUser => sessionUsers'[d][d] # NoUser
      BY <3>1, <3>2, NoUserIsNotAUser DEF TypeInv, TypeOK, ClientTypeOK, Users
    <3> QED
      BY <2>3, <2>6, <3>4, <3>5
         DEF userDataChanged, mapVars, TypeInv, TypeOK, ClientTypeOK, NetworkTypeOK, KnowsItself
  <2>7. CASE m.method = "GameSessionSync" /\ gameSessionSync(c, m)
    <3>1. m.users \in Users /\ m.full \in BOOLEAN /\ m.map \in Payload /\ m.users[c] # NoUser
      BY <1>2, <2>7, ToClientFields DEF TypeInv, KnowsItself
    <3>2. /\ characterized' \in [Client -> SUBSET Client]
          /\ association' \in [Client -> [Character -> Client \cup {NoUser}]]
      BY <2>7, <3>1, registerInType DEF gameSessionSync, TypeInv, TypeOK
    <3>3. /\ sessionUsers' \in [Client -> Users] /\ synced' \in [Client -> BOOLEAN]
          /\ hostAble' \in [Client -> BOOLEAN]
          /\ \A d \in Client : synced'[d] => sessionUsers'[d][d] # NoUser
      BY <2>7, <3>1 DEF gameSessionSync, TypeInv, TypeOK, ClientTypeOK, KnowsItself
    <3>4. CASE m.full /\ onMapChangeReceived(c, TRUE, m.map, <<sessionReceived>>)
      <4>1. <<sessionReceived>> \in Seq({sessionReceived})
        OBVIOUS
      <4> QED
        BY <2>3, <3>1, <3>2, <3>3, <3>4, <4>1, onMapChangeReceivedType
           DEF TypeInv, TypeOK, ClientTypeOK
    <3>5. CASE /\ mapInbox' = [mapInbox EXCEPT ![c] = Append(@, sessionReceived)]
               /\ UNCHANGED <<toServer, initialMapSetupReceived, map, assets>>
      <4> DEFINE Event == [op : {"alter"}, payload : Payload] \cup {sessionReceived}
      <4>1. mapInbox[c] \in Seq(Event) /\ sessionReceived \in Event
        BY DEF TypeInv, TypeOK, ClientTypeOK
      <4>2. Append(mapInbox[c], sessionReceived) \in Seq(Event)
        BY <4>1, AppendProperties
      <4>3. mapInbox' \in [Client -> Seq(Event)]
        BY <3>5, <4>2 DEF TypeInv, TypeOK, ClientTypeOK
      <4> QED
        BY <2>3, <3>2, <3>3, <3>5, <4>3 DEF TypeInv, TypeOK, ClientTypeOK, NetworkTypeOK
    <3> QED
      BY <2>7, <3>4, <3>5 DEF gameSessionSync
  <2>8. CASE m.method \in MapChange /\ mapChanged(c, m)
    <3>1. m.payload \in Payload
      BY <1>2, <2>8, ToClientFields
    <3>2. onMapChangeReceived(c, m.method = "MapChangedHeavily", m.payload, <<>>)
          /\ UNCHANGED rosterVars
      BY <2>8 DEF mapChanged
    <3>3. (m.method = "MapChangedHeavily") \in BOOLEAN /\ <<>> \in Seq({sessionReceived})
      BY EmptySeq
    <3> QED
      BY <2>3, <3>1, <3>2, <3>3, onMapChangeReceivedType
         DEF rosterVars, TypeInv, TypeOK, ClientTypeOK, KnowsItself
  <2>9. CASE m.method = "RequestedAsset" /\ requestedAsset(c, m.hash)
    <3>1. m.hash \in Assets
      BY <1>2, <2>9, ToClientFields
    <3>2. assets' \in [Client -> SUBSET Assets]
      BY <2>9, <3>1 DEF requestedAsset, TypeInv, TypeOK, ClientTypeOK
    <3> QED
      BY <2>3, <2>9, <3>2
         DEF requestedAsset, rosterVars, TypeInv, TypeOK, ClientTypeOK, NetworkTypeOK, KnowsItself
  <2> QED
    BY <1>4, <2>4, <2>5, <2>6, <2>7, <2>8, <2>9
<1> QED
  BY <1>3, <1>4 DEF onPayloadReceived

\* Who edits a sheet is a user of the session.
LEMMA notifyCharacterChangeType ==
  ASSUME TypeInv, NEW c \in Client, notifyCharacterChange(c), UNCHANGED serverVars
  PROVE  TypeInv' /\ synced[c] /\ sessionUsers[c][c] \in User
<1> DEFINE self == sessionUsers[c][c]
           m == [method |-> "CharacterChanged", sheet |-> identity(c).sheet + 1]
<1>1. synced[c] /\ self \in User /\ identity(c) = self
  BY DEF notifyCharacterChange, identity, NewUser, TypeInv, KnowsItself, TypeOK, ClientTypeOK, Users
<1>2. self.sheet + 1 \in 0..MaxSheet
  BY <1>1, MaxSheetAssumption DEF notifyCharacterChange, User
<1>3. m \in ToServerMessage
  BY <1>1, <1>2 DEF ToServerMessage
<1>4. <<m>> \in Seq(ToServerMessage)
  BY <1>3, SingletonElements
<1>5. toServer' \in [Client -> Seq(ToServerMessage)]
  BY <1>4, ClientSendsElements DEF notifyCharacterChange, TypeInv, TypeOK
<1>6. NetworkTypeOK'
  BY <1>5 DEF TypeInv, TypeOK, NetworkTypeOK, notifyCharacterChange
<1> DEFINE edited == [self EXCEPT !.sheet = self.sheet + 1]
<1>7. edited \in User
  BY <1>1, <1>2 DEF User
<1>8. sessionUsers' = [sessionUsers EXCEPT ![c] = [sessionUsers[c] EXCEPT ![c] = edited]]
  BY DEF notifyCharacterChange, TypeInv, TypeOK, ClientTypeOK, Users
<1>9. sessionUsers' \in [Client -> Users]
  BY <1>7, <1>8 DEF TypeInv, TypeOK, ClientTypeOK, Users
<1>10. changes' \in 0..MaxChanges
  BY MaxChangesAssumption DEF notifyCharacterChange, TypeInv, TypeOK, ClientTypeOK
<1>11. ClientTypeOK'
  BY <1>9, <1>10 DEF notifyCharacterChange, mapVars, TypeInv, TypeOK, ClientTypeOK
<1>12. sessionUsers'[c][c] = edited /\ \A d \in Client \ {c} : sessionUsers'[d] = sessionUsers[d]
  BY <1>8 DEF TypeInv, TypeOK, ClientTypeOK, Users
<1>13. KnowsItself'
  <2> HIDE DEF edited
  <2> QED
    BY <1>7, <1>12, NoUserIsNotAUser DEF notifyCharacterChange, TypeInv, KnowsItself
<1> QED
  BY <1>1, <1>6, <1>11, <1>13 DEF TypeInv, TypeOK, serverVars, ServerTypeOK

\* What a user may do to a map are alterations.
LEMMA AlterationsType ==
  ASSUME NEW c \in Client, NEW p \in Alterations(c)
  PROVE  p \in Payload
<1>1. CASE hostAble[c]
  BY <1>1, ChangesAssumption DEF Alterations
<1>2. CASE ~hostAble[c] /\ identity(c).role = "Player"
  <2>1. p \in MoveOwned(c)
    BY <1>2 DEF Alterations
  <2>2. PICK i \in ownedTokens(c), u \in Moves : p = MetadataChangedPayload({i}, u)
    BY <2>1 DEF MoveOwned
  <2> QED
    BY <2>2, MetadataChangedPayloadType, MovesAssumption DEF ownedTokens
<1>3. CASE ~hostAble[c] /\ identity(c).role # "Player"
  BY <1>3 DEF Alterations
<1> QED
  BY <1>1, <1>2, <1>3

LEMMA queueAlterationType ==
  ASSUME TypeInv, NEW c \in Client, queueAlteration(c), UNCHANGED serverVars
  PROVE  TypeInv'
<1>1. PICK p \in Alterations(c) :
        /\ clientInbox' = [clientInbox EXCEPT ![c] = Append(@, alter(p))]
        /\ mapInbox' = [mapInbox EXCEPT ![c] = Append(@, alter(p))]
  BY DEF queueAlteration
<1>2. p \in Payload
  BY AlterationsType
<1> DEFINE Posted == [op : {"alter", "history"}, payload : Payload]
           Event == [op : {"alter"}, payload : Payload] \cup {sessionReceived}
<1>3. alter(p) \in Posted /\ alter(p) \in Event
  BY <1>2 DEF alter
<1>4. clientInbox[c] \in Seq(Posted) /\ mapInbox[c] \in Seq(Event)
  BY DEF TypeInv, TypeOK, ClientTypeOK
<1>5. Append(clientInbox[c], alter(p)) \in Seq(Posted)
      /\ Append(mapInbox[c], alter(p)) \in Seq(Event)
  BY <1>3, <1>4, AppendProperties
<1>6. clientInbox' \in [Client -> Seq(Posted)] /\ mapInbox' \in [Client -> Seq(Event)]
  BY <1>1, <1>5 DEF TypeInv, TypeOK, ClientTypeOK
<1>7. changes' \in 0..MaxChanges
  BY MaxChangesAssumption DEF queueAlteration, TypeInv, TypeOK, ClientTypeOK
<1>8. ClientTypeOK'
  BY <1>6, <1>7 DEF queueAlteration, rosterVars, TypeInv, TypeOK, ClientTypeOK
<1> QED
  BY <1>8 DEF queueAlteration, networkVars, rosterVars, TypeInv, TypeOK, NetworkTypeOK,
              serverVars, ServerTypeOK, KnowsItself

LEMMA handlePostedType ==
  ASSUME TypeInv, NEW c \in Client, handlePosted(c), UNCHANGED serverVars
  PROVE  TypeInv'
<1> DEFINE e == Head(clientInbox[c])
           Posted == [op : {"alter", "history"}, payload : Payload]
           m == [method |-> MethodOf(e.payload), payload |-> e.payload]
<1>1. clientInbox[c] \in Seq(Posted) /\ clientInbox[c] # <<>>
  BY DEF TypeInv, TypeOK, ClientTypeOK, handlePosted
<1>2. e \in Posted /\ Tail(clientInbox[c]) \in Seq(Posted)
  BY <1>1, TailElements
<1>3. clientInbox' \in [Client -> Seq(Posted)]
  BY <1>2 DEF handlePosted, TypeInv, TypeOK, ClientTypeOK
<1>4. m \in ToServerMessage
  BY <1>2 DEF ToServerMessage, MethodOf, MapChange
<1>5. <<m>> \in Seq(ToServerMessage)
  BY <1>4, SingletonElements
<1>6. UNCHANGED toServer \/ ClientSends(c, <<m>>)
  BY DEF handlePosted
<1>7. toServer' \in [Client -> Seq(ToServerMessage)]
  BY <1>5, <1>6, ClientSendsElements DEF TypeInv, TypeOK, NetworkTypeOK
<1>8. NetworkTypeOK'
  BY <1>7 DEF handlePosted, TypeInv, TypeOK, NetworkTypeOK
<1>9. ClientTypeOK'
  BY <1>3 DEF handlePosted, rosterVars, mapVars, TypeInv, TypeOK, ClientTypeOK
<1> QED
  BY <1>8, <1>9 DEF handlePosted, rosterVars, TypeInv, TypeOK, serverVars, ServerTypeOK, KnowsItself

LEMMA handleMapEventType ==
  ASSUME TypeInv, NEW c \in Client, handleMapEvent(c), UNCHANGED serverVars
  PROVE  TypeInv'
<1> DEFINE e == Head(mapInbox[c])
           Posted == [op : {"alter", "history"}, payload : Payload]
           Event == [op : {"alter"}, payload : Payload] \cup {sessionReceived}
           history == sendMapHistory(generateResetPayload(map[c]))
<1>1. mapInbox[c] \in Seq(Event) /\ mapInbox[c] # <<>>
  BY DEF TypeInv, TypeOK, ClientTypeOK, handleMapEvent
<1>2. e \in Event /\ Tail(mapInbox[c]) \in Seq(Event)
  BY <1>1, TailElements
<1>3. mapInbox' \in [Client -> Seq(Event)]
  BY <1>2 DEF handleMapEvent, TypeInv, TypeOK, ClientTypeOK
<1>4. map[c] \in Storage
  BY DEF TypeInv, TypeOK, ClientTypeOK
<1>5. clientInbox' \in [Client -> Seq(Posted)] /\ map' \in [Client -> Storage]
  <2>1. CASE /\ e.op = "alter"
             /\ map' = [map EXCEPT ![c] = StorageAfter(@, e.payload)]
             /\ UNCHANGED clientInbox
    <3>1. e.payload \in Payload
      BY <1>2, <2>1 DEF sessionReceived
    <3>2. StorageAfter(map[c], e.payload) \in Storage
      BY <1>4, <3>1, StorageAfterType
    <3> QED
      BY <2>1, <3>2 DEF TypeInv, TypeOK, ClientTypeOK
  <2>2. CASE /\ clientInbox' = IF hostAble[c]
                  THEN [clientInbox EXCEPT ![c] = Append(@, history)]
                  ELSE clientInbox
             /\ UNCHANGED map
    <3>1. history \in Posted
      BY <1>4, generateResetPayloadType DEF sendMapHistory
    <3>2. clientInbox[c] \in Seq(Posted)
      BY DEF TypeInv, TypeOK, ClientTypeOK
    <3>3. Append(clientInbox[c], history) \in Seq(Posted)
      BY <3>1, <3>2, AppendProperties
    <3> HIDE DEF history
    <3> QED
      BY <2>2, <3>3 DEF TypeInv, TypeOK, ClientTypeOK
  <2> QED
    BY <2>1, <2>2 DEF handleMapEvent
<1>6. ClientTypeOK'
  BY <1>3, <1>5 DEF handleMapEvent, rosterVars, TypeInv, TypeOK, ClientTypeOK
<1> QED
  BY <1>6 DEF handleMapEvent, networkVars, rosterVars, TypeInv, TypeOK, NetworkTypeOK,
              serverVars, ServerTypeOK, KnowsItself

LEMMA ClientStepType ==
  ASSUME TypeInv, NEW c \in Client, ClientStep(c), UNCHANGED serverVars
  PROVE  TypeInv'
BY connectType, endedType, onPayloadReceivedType, notifyCharacterChangeType,
   queueAlterationType, handlePostedType, handleMapEventType DEF ClientStep, close

LEMMA StutterType == TypeInv /\ UNCHANGED vars => TypeInv'
BY DEF vars, networkVars, serverVars, clientVars, rosterVars, mapVars, TypeInv, TypeOK,
       NetworkTypeOK, ServerTypeOK, ClientTypeOK, KnowsItself

LEMMA TypeStep == TypeInv /\ [Next]_vars => TypeInv'
BY ServerStepType, ClientStepType, StutterType DEF Next

\* Every state of a session is well typed. That is not inductive alone: a
\* client reads its own entry in the table of users, where an empty one has no
\* role, so no message may ever remove a client from its own table.
THEOREM TypeCorrect == Spec => []TypeInv
BY TypeInit, TypeStep, PTL DEF Spec

---------------------------------------------------------------------------
(* Roles *)

Named(c) == usersById[c] # NoUser /\ usersById[c].named

\* The table of roles lists exactly the named users, each under its role.
RolesListNamed ==
  \A r \in Role, c \in Client :
    c \in socketsByRole[r] <=> Named(c) /\ usersById[c].role = r

OneHost == \A c, d \in Client : c \in Host /\ d \in Host => c = d

\* A connection begins with its handshake, so that there is none to read any
\* more once the user is named: nobody is named, and given a role, twice.
HandshakeFirst ==
  \A c \in Client : \A n \in DOMAIN toServer[c] :
    toServer[c][n].method = "Handshake" => n = 1 /\ ~Named(c)

IdleIsUnknown == \A c \in Client : link[c] = "idle" => usersById[c] = NoUser

RolesInv == RolesListNamed /\ OneHost /\ HandshakeFirst /\ IdleIsUnknown

LEMMA RolesInit == Init => RolesInv
BY DEF Init, NetworkInit, ServerInit, NoUsers, RolesInv, RolesListNamed, OneHost, HandshakeFirst,
       IdleIsUnknown, Named, Host, Role

LEMMA RolesListed == TypeInv /\ RolesInv => RolesExact
<1> SUFFICES ASSUME TypeInv, RolesInv
             PROVE  RolesExact
  OBVIOUS
<1>1. ASSUME NEW r \in Role
      PROVE  socketsByRole[r] = {c \in Connected : usersById[c].named /\ usersById[c].role = r}
  <2>1. socketsByRole[r] \subseteq Client
    BY DEF TypeInv, TypeOK, ServerTypeOK
  <2>2. \A c \in Client : c \in socketsByRole[r] <=>
                          c \in Connected /\ usersById[c].named /\ usersById[c].role = r
    BY DEF RolesInv, RolesListNamed, Named, Connected
  <2>3. Connected \subseteq Client
    BY DEF Connected
  <2> QED
    BY <2>1, <2>2, <2>3
<1>2. Cardinality(socketsByRole["Host"]) <= 1
  <2>1. socketsByRole["Host"] \subseteq Client
    BY DEF TypeInv, TypeOK, ServerTypeOK, Role
  <2>2. CASE socketsByRole["Host"] = {}
    BY <2>2, FS_EmptySet
  <2>3. CASE socketsByRole["Host"] # {}
    <3>1. PICK c \in socketsByRole["Host"] : TRUE
      BY <2>3
    <3>2. socketsByRole["Host"] = {c}
      BY <2>1, <3>1 DEF RolesInv, OneHost, Host
    <3> QED
      BY <3>2, FS_Singleton
  <2> QED
    BY <2>2, <2>3
<1> QED
  BY <1>1, <1>2 DEF RolesExact

\* What a client sends once it is connected is no handshake.
SendsNoHandshake ==
  \A d \in Client : \A n \in DOMAIN toServer'[d] :
    \/ n \in DOMAIN toServer[d] /\ toServer'[d][n] = toServer[d][n]
    \/ toServer'[d][n].method # "Handshake"

LEMMA ClientSendsNoHandshake ==
  ASSUME TypeInv, NEW c \in Client, NEW m \in ToServerMessage, m.method # "Handshake",
         ClientSends(c, <<m>>)
  PROVE  SendsNoHandshake
<1>1. <<m>> \in Seq(ToServerMessage) /\ DOMAIN <<m>> = {1} /\ <<m>>[1] = m
  BY SingletonElements
<1> QED
  BY <1>1, ClientSendsElements DEF TypeInv, TypeOK, SendsNoHandshake

LEMMA onMapChangeReceivedSends ==
  ASSUME TypeInv, NEW c \in Client, NEW heavy, NEW p \in Payload, NEW before,
         onMapChangeReceived(c, heavy, p, before)
  PROVE  SendsNoHandshake
<1> DEFINE m == [method |-> "AskForAssets", hashes |-> missingAssets(c, p)]
<1>1. CASE missingAssets(c, p) = {}
  <2>1. ClientSends(c, <<>>)
    BY <1>1 DEF onMapChangeReceived
  <2> QED
    <3>1. <<>> \in Seq(ToServerMessage) /\ \A k : k \notin DOMAIN <<>>
      OBVIOUS
    <3> QED
      BY <2>1, <3>1, ClientSendsElements DEF TypeInv, TypeOK, SendsNoHandshake
<1>2. CASE missingAssets(c, p) # {}
  <2>1. ClientSends(c, <<m>>)
    BY <1>2 DEF onMapChangeReceived
  <2>2. missingAssets(c, p) \in SUBSET AnyHash
    BY PayloadFields DEF missingAssets
  <2>3. m \in ToServerMessage /\ m.method # "Handshake"
    BY <2>2 DEF ToServerMessage
  <2> QED
    BY <2>1, <2>3, ClientSendsNoHandshake
<1> QED
  BY <1>1, <1>2

LEMMA onPayloadReceivedSends ==
  ASSUME TypeInv, NEW c \in Client, onPayloadReceived(c)
  PROVE  SendsNoHandshake
<1> DEFINE m == Head(toClient[c])
<1>1. m \in ToClientMessage
  BY TailElements DEF TypeInv, TypeOK, NetworkTypeOK, onPayloadReceived
<1>2. CASE UNCHANGED toServer
  BY <1>2 DEF SendsNoHandshake
<1>3. CASE m.method = "GameSessionSync" /\ gameSessionSync(c, m)
  BY <1>1, <1>2, <1>3, ToClientFields, onMapChangeReceivedSends DEF gameSessionSync
<1>4. CASE m.method \in MapChange /\ mapChanged(c, m)
  BY <1>1, <1>4, ToClientFields, onMapChangeReceivedSends DEF mapChanged
<1> QED
  BY <1>2, <1>3, <1>4
     DEF onPayloadReceived, ended, userIn, userOut, userDataChanged, requestedAsset

LEMMA PostedSends ==
  ASSUME TypeInv, NEW c \in Client, handlePosted(c)
  PROVE  SendsNoHandshake
<1> DEFINE e == Head(clientInbox[c])
           m == [method |-> MethodOf(e.payload), payload |-> e.payload]
<1>1. e.payload \in Payload
  <2>1. /\ clientInbox[c] \in Seq([op : {"alter", "history"}, payload : Payload])
        /\ clientInbox[c] # <<>>
    BY DEF TypeInv, TypeOK, ClientTypeOK, handlePosted
  <2>2. e \in [op : {"alter", "history"}, payload : Payload]
    BY <2>1, TailElements
  <2> QED
    BY <2>2
<1>2. m \in ToServerMessage /\ m.method # "Handshake"
  BY <1>1 DEF ToServerMessage, MethodOf, MapChange
<1> QED
  BY <1>2, ClientSendsNoHandshake DEF handlePosted, SendsNoHandshake

\* The map is no business of the roles, nor is what a client does once connected.
LEMMA RolesUntouched ==
  ASSUME RolesInv, UNCHANGED <<usersById, socketsByRole>>, SendsNoHandshake,
         \A d \in Client : link'[d] = "idle" => link[d] = "idle"
  PROVE  RolesInv'
BY DEF RolesInv, RolesListNamed, OneHost, HandshakeFirst, IdleIsUnknown, Named, Host,
       SendsNoHandshake

LEMMA connectRoles ==
  ASSUME TypeInv, RolesInv, NEW c \in Client, connect(c), UNCHANGED serverVars
  PROVE  RolesInv'
<1>1. PICK character \in Incarnates[c] :
        toServer' = [toServer EXCEPT ![c] = <<[method |-> "Handshake", character |-> character]>>]
  BY DEF connect
<1>2. DOMAIN toServer'[c] = {1} /\ \A d \in Client \ {c} : toServer'[d] = toServer[d]
  BY <1>1 DEF TypeInv, TypeOK, NetworkTypeOK
<1>3. usersById[c] = NoUser
  BY DEF connect, RolesInv, IdleIsUnknown
<1>4. HandshakeFirst'
  BY <1>2, <1>3 DEF RolesInv, HandshakeFirst, Named, serverVars
<1>5. IdleIsUnknown'
  BY DEF connect, RolesInv, IdleIsUnknown, TypeInv, TypeOK, NetworkTypeOK, serverVars
<1> QED
  BY <1>4, <1>5 DEF RolesInv, RolesListNamed, OneHost, Host, Named, serverVars

LEMMA ClientStepRoles ==
  ASSUME TypeInv, RolesInv, NEW c \in Client, ClientStep(c), UNCHANGED serverVars
  PROVE  RolesInv'
<1>1. CASE connect(c)
  BY <1>1, connectRoles
<1>2. CASE close(c)
  BY <1>2, RolesUntouched
     DEF close, ended, SendsNoHandshake, serverVars, TypeInv, TypeOK, NetworkTypeOK
<1>3. CASE onPayloadReceived(c)
  <2>1. \A d \in Client : link'[d] = "idle" => link[d] = "idle"
    BY <1>3 DEF onPayloadReceived, ended, TypeInv, TypeOK, NetworkTypeOK
  <2> QED
    BY <1>3, <2>1, RolesUntouched, onPayloadReceivedSends DEF serverVars
<1>4. CASE notifyCharacterChange(c)
  <2> DEFINE m == [method |-> "CharacterChanged", sheet |-> identity(c).sheet + 1]
  <2>1. identity(c) = sessionUsers[c][c] /\ sessionUsers[c][c] \in User
    BY <1>4, notifyCharacterChangeType DEF identity
  <2>2. m \in ToServerMessage /\ m.method # "Handshake"
    BY <1>4, <2>1, MaxSheetAssumption DEF notifyCharacterChange, ToServerMessage, User
  <2> QED
    BY <1>4, <2>2, ClientSendsNoHandshake, RolesUntouched DEF notifyCharacterChange, serverVars
<1>5. CASE queueAlteration(c)
  BY <1>5, RolesUntouched DEF queueAlteration, networkVars, SendsNoHandshake, serverVars
<1>6. CASE handlePosted(c)
  BY <1>6, RolesUntouched, PostedSends DEF handlePosted, serverVars
<1>7. CASE handleMapEvent(c)
  BY <1>7, RolesUntouched DEF handleMapEvent, networkVars, SendsNoHandshake, serverVars
<1> QED
  BY <1>1, <1>2, <1>3, <1>4, <1>5, <1>6, <1>7 DEF ClientStep

LEMMA onNewConnectionRoles ==
  ASSUME TypeInv, RolesInv, NEW c \in Client, onNewConnection(c)
  PROVE  RolesInv'
<1>1. usersById[c] = NoUser /\ usersById' = [usersById EXCEPT ![c] = NewUser]
      /\ UNCHANGED <<link, toServer, toClient, socketsByRole>> /\ link[c] # "idle"
  BY DEF onNewConnection, networkVars, Connected
<1>2. \A d \in Client : (Named(d))' <=> Named(d)
  BY <1>1 DEF Named, NewUser, TypeInv, TypeOK, ServerTypeOK, Users
<1>3. \A d \in Client : d # c => usersById'[d] = usersById[d]
  BY <1>1 DEF TypeInv, TypeOK, ServerTypeOK, Users
<1>4. ~Named(c)
  BY <1>1 DEF Named
<1>5. RolesListNamed'
  BY <1>1, <1>2, <1>3, <1>4 DEF RolesInv, RolesListNamed
<1>6. IdleIsUnknown'
  BY <1>1, <1>3 DEF RolesInv, IdleIsUnknown
<1> QED
  BY <1>1, <1>2, <1>5, <1>6 DEF RolesInv, OneHost, Host, HandshakeFirst

LEMMA onClientSocketDisconnectedRoles ==
  ASSUME TypeInv, RolesInv, NEW c \in Client, onClientSocketDisconnected(c)
  PROVE  RolesInv'
<1> DEFINE role == usersById[c].role
<1>1. usersById[c] \in User /\ role \in Role
  BY DEF onClientSocketDisconnected, Connected, TypeInv, TypeOK, ServerTypeOK, Users, User
<1>2. /\ usersById' = [usersById EXCEPT ![c] = NoUser]
      /\ socketsByRole' = [socketsByRole EXCEPT ![role] = @ \ {c}]
      /\ link' = [link EXCEPT ![c] = "gone"]
      /\ toServer' = [toServer EXCEPT ![c] = <<>>]
  BY DEF onClientSocketDisconnected
<1>3. \A d \in Client : IF d = c THEN usersById'[d] = NoUser ELSE usersById'[d] = usersById[d]
  BY <1>2 DEF TypeInv, TypeOK, ServerTypeOK, Users
<1>4. \A r \in Role : socketsByRole'[r] = IF r = role THEN socketsByRole[r] \ {c} ELSE socketsByRole[r]
  BY <1>2 DEF TypeInv, TypeOK, ServerTypeOK
<1>5. RolesListNamed'
  <2> SUFFICES ASSUME NEW r \in Role, NEW d \in Client
               PROVE  d \in socketsByRole'[r] <=> (Named(d))' /\ usersById'[d].role = r
    BY DEF RolesListNamed
  <2>1. d \in socketsByRole[r] <=> Named(d) /\ usersById[d].role = r
    BY DEF RolesInv, RolesListNamed
  <2>2. CASE d = c
    BY <1>3, <1>4, <2>1, <2>2 DEF Named
  <2>3. CASE d # c
    BY <1>3, <1>4, <2>1, <2>3 DEF Named
  <2> QED
    BY <2>2, <2>3
<1>6. OneHost'
  BY <1>4 DEF RolesInv, OneHost, Host, Role
<1>7. \A d \in Client : IF d = c THEN toServer'[d] = <<>> ELSE toServer'[d] = toServer[d]
  BY <1>2 DEF TypeInv, TypeOK, NetworkTypeOK
<1>8. HandshakeFirst'
  <2>1. \A n : n \notin DOMAIN <<>>
    OBVIOUS
  <2> QED
    BY <1>3, <1>7, <2>1 DEF RolesInv, HandshakeFirst, Named
<1>9. IdleIsUnknown'
  BY <1>2, <1>3 DEF RolesInv, IdleIsUnknown, TypeInv, TypeOK, NetworkTypeOK
<1> QED
  BY <1>5, <1>6, <1>8, <1>9 DEF RolesInv

\* The user whose handshake is accepted had no role before.
LEMMA acceptHandshakeRoles ==
  ASSUME TypeInv, RolesInv, NEW c \in Client, c \in Connected, ~Named(c),
         NEW character \in Character \cup {NoCharacter}, acceptHandshake(c, character)
  PROVE  RolesListNamed' /\ OneHost'
<1> DEFINE role == attributedRole(c, character)
           user == [NewUser EXCEPT !.role = role, !.character = character, !.named = TRUE]
<1>1. /\ usersById' = [usersById EXCEPT ![c] = user]
      /\ socketsByRole' = [socketsByRole EXCEPT ![user.role] = @ \cup {c}]
  BY DEF acceptHandshake
<1>2. role \in Role /\ (role = "Host" => socketsByRole["Host"] = {})
  BY DEF attributedRole, mayHost, Role
<1>3. user.role = role /\ user.named
  BY DEF NewUser
<1>4. user # NoUser
  <2>1. user \in User
    BY <1>2, NewUserType DEF User, NewUser
  <2> QED
    BY <2>1, NoUserIsNotAUser
<1> HIDE DEF user
<1>5. \A d \in Client : IF d = c THEN usersById'[d] = user ELSE usersById'[d] = usersById[d]
  BY <1>1 DEF TypeInv, TypeOK, ServerTypeOK, Users
<1>6. \A r \in Role : socketsByRole'[r] = IF r = role THEN socketsByRole[r] \cup {c} ELSE socketsByRole[r]
  BY <1>1, <1>3 DEF TypeInv, TypeOK, ServerTypeOK
<1>7. RolesListNamed'
  <2> SUFFICES ASSUME NEW r \in Role, NEW d \in Client
               PROVE  d \in socketsByRole'[r] <=> (Named(d))' /\ usersById'[d].role = r
    BY DEF RolesListNamed
  <2>1. d \in socketsByRole[r] <=> Named(d) /\ usersById[d].role = r
    BY DEF RolesInv, RolesListNamed
  <2>2. CASE d = c
    <3>1. usersById'[d] = user /\ (Named(d))'
      BY <1>3, <1>4, <1>5, <2>2 DEF Named
    <3>2. d \in socketsByRole'[r] <=> r = role
      BY <1>6, <2>1, <2>2
    <3> QED
      BY <1>3, <3>1, <3>2
  <2>3. CASE d # c
    BY <1>5, <1>6, <2>1, <2>3 DEF Named
  <2> QED
    BY <2>2, <2>3
<1>8. OneHost'
  BY <1>2, <1>6 DEF RolesInv, OneHost, Host, Role
<1> QED
  BY <1>7, <1>8

LEMMA onClientPayloadReceivedRoles ==
  ASSUME TypeInv, RolesInv, NEW c \in Client, onClientPayloadReceived(c)
  PROVE  RolesInv'
<1> DEFINE m == Head(toServer[c])
<1>1. c \in Connected /\ toServer[c] \in Seq(ToServerMessage) /\ toServer[c] # <<>>
      /\ toServer' = [toServer EXCEPT ![c] = Tail(@)] /\ UNCHANGED link
  BY DEF TypeInv, TypeOK, NetworkTypeOK, onClientPayloadReceived
<1>2. /\ m \in ToServerMessage /\ 1 \in DOMAIN toServer[c] /\ toServer[c][1] = m
      /\ \A n \in DOMAIN Tail(toServer[c]) :
           n \in Nat \ {0} /\ n + 1 \in DOMAIN toServer[c]
           /\ Tail(toServer[c])[n] = toServer[c][n + 1]
  BY <1>1, TailElements
<1>3. \A n \in DOMAIN toServer'[c] : toServer'[c][n].method # "Handshake"
  <2> TAKE n \in DOMAIN toServer'[c]
  <2>1. toServer'[c] = Tail(toServer[c])
    BY <1>1 DEF TypeInv, TypeOK, NetworkTypeOK
  <2>2. n \in Nat \ {0} /\ n + 1 \in DOMAIN toServer[c] /\ toServer'[c][n] = toServer[c][n + 1]
    BY <1>2, <2>1
  <2> QED
    BY <2>2 DEF RolesInv, HandshakeFirst
<1>4. \A d \in Client : d # c => toServer'[d] = toServer[d]
  BY <1>1 DEF TypeInv, TypeOK, NetworkTypeOK
<1>5. CASE UNCHANGED <<usersById, socketsByRole>>
  <2>1. HandshakeFirst'
    BY <1>3, <1>4, <1>5 DEF RolesInv, HandshakeFirst, Named
  <2> QED
    BY <1>1, <1>5, <2>1 DEF RolesInv, RolesListNamed, OneHost, Host, IdleIsUnknown, Named
<1>6. CASE \A d \in Client : d # c => usersById'[d] = usersById[d]
  <2>1. HandshakeFirst'
    BY <1>3, <1>4, <1>6 DEF RolesInv, HandshakeFirst, Named
  <2>2. IdleIsUnknown'
    BY <1>1, <1>6 DEF RolesInv, IdleIsUnknown, Connected
  <2>3. CASE m.method = "Handshake" /\ acceptHandshake(c, m.character)
    <3>1. ~Named(c)
      BY <1>2, <2>3 DEF RolesInv, HandshakeFirst
    <3>2. m.character \in Character \cup {NoCharacter}
      BY <1>2, <2>3, ToServerFields
    <3> QED
      BY <1>1, <2>1, <2>2, <2>3, <3>1, <3>2, acceptHandshakeRoles DEF RolesInv
  <2>4. CASE m.method = "CharacterChanged" /\ characterChanged(c, m.sheet)
    <3>1. usersById' = [usersById EXCEPT ![c] = [usersById[c] EXCEPT !.sheet = m.sheet]]
          /\ UNCHANGED socketsByRole
      BY <2>4 DEF characterChanged
    <3>2. usersById[c] \in User /\ usersById[c] # NoUser
      BY <1>1 DEF Connected, TypeInv, TypeOK, ServerTypeOK, Users
    <3>3. m.sheet \in 0..MaxSheet
      BY <1>2, <2>4, ToServerFields
    <3> DEFINE user == [usersById[c] EXCEPT !.sheet = m.sheet]
    <3>4. user \in User /\ user.role = usersById[c].role /\ user.named = usersById[c].named
      BY <3>2, <3>3 DEF User
    <3> HIDE DEF user
    <3>5. usersById'[c] = user
      BY <3>1 DEF user, TypeInv, TypeOK, ServerTypeOK, Users
    <3>6. RolesListNamed'
      BY <1>6, <3>1, <3>2, <3>4, <3>5, NoUserIsNotAUser DEF RolesInv, RolesListNamed, Named
    <3>7. OneHost'
      BY <3>1 DEF RolesInv, OneHost, Host
    <3> QED
      BY <2>1, <2>2, <3>6, <3>7 DEF RolesInv
  <2> QED
    BY <1>5, <2>3, <2>4
       DEF onClientPayloadReceived, rejectVersion, sendAssets, broadcastMapChanges, serverVars
<1>7. (\A d \in Client : d # c => usersById'[d] = usersById[d])
  BY DEF onClientPayloadReceived, rejectVersion, acceptHandshake, characterChanged, sendAssets,
         broadcastMapChanges, serverVars, TypeInv, TypeOK, ServerTypeOK, Users
<1> QED
  BY <1>6, <1>7

LEMMA RolesStep == TypeInv /\ RolesInv /\ [Next]_vars => RolesInv'
<1> SUFFICES ASSUME TypeInv, RolesInv, [Next]_vars
             PROVE  RolesInv'
  OBVIOUS
<1>1. CASE UNCHANGED vars
  BY <1>1, RolesUntouched DEF vars, networkVars, serverVars, SendsNoHandshake
<1>2. ASSUME NEW c \in Client, ServerStep(c)
      PROVE  RolesInv'
  BY <1>2, onNewConnectionRoles, onClientSocketDisconnectedRoles, onClientPayloadReceivedRoles
     DEF ServerStep
<1>3. ASSUME NEW c \in Client, ClientStep(c), UNCHANGED serverVars
      PROVE  RolesInv'
  BY <1>3, ClientStepRoles
<1> QED
  BY <1>1, <1>2, <1>3 DEF Next

\* There is at most one host, and the table of roles is exact, in whatever
\* order users come, are named and go: since a connection begins with its
\* handshake, nobody can be given a second role.
THEOREM RolesStayExact == Spec => []RolesExact
<1>1. Init => TypeInv /\ RolesInv
  BY TypeInit, RolesInit
<1>2. TypeInv /\ RolesInv /\ [Next]_vars => (TypeInv /\ RolesInv)'
  BY TypeStep, RolesStep
<1>3. TypeInv /\ RolesInv => RolesExact
  BY RolesListed
<1> QED
  BY <1>1, <1>2, <1>3, PTL DEF Spec

---------------------------------------------------------------------------
(* What is meant for the host *)

QueueEndsWithLink == \A c \in Client : link[c] # "up" => toClient[c] = <<>>

\* Every hidden atom of the server's map is known as such. The converse does
\* not hold: an atom that replaces a hidden one is taken for hidden too.
HintsKnowHidden == RestrictedIdsOf(hints.atoms) \subseteq hints.restricted

SecretsInv == QueueEndsWithLink /\ HintsKnowHidden /\ RestrictedStayWithHost

LEMMA NothingHidden == RestrictedIdsOf(NoAtoms) = {}
BY DEF RestrictedIdsOf, isRestrictedAtom, NoAtoms

\* A storage that knows what is hidden on its map still does once a payload is
\* handled, and then knows of what the payload brought.
LEMMA StorageAfterKnowsHidden ==
  ASSUME NEW s \in Storage, NEW p \in Payload, RestrictedIdsOf(s.atoms) \subseteq s.restricted
  PROVE  LET t == StorageAfter(s, p) IN
           /\ RestrictedIdsOf(t.atoms) \subseteq t.restricted
           /\ RestrictedIdsOf(p.atoms) \subseteq t.restricted
<1> DEFINE atoms == AtomsAfter(s.atoms, p)
           restricted == RestrictedAfter(s.restricted, s.atoms, p)
<1>1. StorageAfter(s, p).atoms = atoms /\ StorageAfter(s, p).restricted = restricted
  BY DEF StorageAfter
<1>2. s.atoms \in Maps
  BY DEF Storage
<1>3. CASE p.type = "Reset"
  BY <1>1, <1>3 DEF AtomsAfter, RestrictedAfter
<1>4. CASE p.type = "Added"
  <2>1. atoms = [i \in AtomId |-> IF p.atoms[i] # NoAtom THEN p.atoms[i] ELSE s.atoms[i]]
        /\ restricted = s.restricted \cup RestrictedIdsOf(p.atoms)
    BY <1>4 DEF AtomsAfter, RestrictedAfter
  <2> HIDE DEF atoms, restricted
  <2> QED
    BY <1>1, <2>1 DEF RestrictedIdsOf, isRestrictedAtom
<1>5. CASE p.type = "Removed"
  <2>1. atoms = [i \in AtomId |-> IF i \in p.ids THEN NoAtom ELSE s.atoms[i]]
        /\ restricted = s.restricted \ (p.ids \cap IdsOf(s.atoms))
    BY <1>5 DEF AtomsAfter, RestrictedAfter
  <2>2. RestrictedIdsOf(p.atoms) = {}
    BY <1>5, PayloadFields, NothingHidden
  <2> HIDE DEF atoms, restricted
  <2> QED
    BY <1>1, <2>1, <2>2 DEF RestrictedIdsOf, isRestrictedAtom
<1>6. CASE p.type \in {"MetadataChanged", "BulkMetadataChanged"}
  <2>1. atoms = [i \in AtomId |-> IF s.atoms[i] = NoAtom THEN NoAtom
                                  ELSE setMetadata(s.atoms[i], p.updates[i])]
        /\ restricted = s.restricted
    BY <1>6 DEF AtomsAfter, RestrictedAfter
  <2>2. RestrictedIdsOf(p.atoms) = {}
    BY <1>6, PayloadFields, NothingHidden
  <2>3. ASSUME NEW i \in AtomId, isRestrictedAtom(atoms[i])
        PROVE  isRestrictedAtom(s.atoms[i])
    <3>1. s.atoms[i] # NoAtom /\ atoms[i] = setMetadata(s.atoms[i], p.updates[i])
      BY <2>1, <2>3 DEF isRestrictedAtom
    <3>2. s.atoms[i] \in Atom /\ p.updates[i] \in Updates
      BY <1>2, <3>1, PayloadFields DEF Maps
    <3> HIDE DEF atoms
    <3> QED
      BY <2>3, <3>1, <3>2, setMetadataType DEF isRestrictedAtom
  <2> HIDE DEF atoms, restricted
  <2> QED
    BY <1>1, <2>1, <2>2, <2>3 DEF RestrictedIdsOf
<1> QED
  BY <1>3, <1>4, <1>5, <1>6, PayloadFields DEF Alteration

\* What the restrictions leave of a payload holds nothing hidden, as soon as
\* the storage knows of all that is hidden in it.
LEMMA restrictPayloadHides ==
  ASSUME NEW s \in Storage, NEW p \in Payload, RestrictedIdsOf(p.atoms) \subseteq s.restricted
  PROVE  RestrictedIdsOf(restrictPayload(s, p).atoms) = {}
<1>1. CASE s.restricted = {}
  BY <1>1 DEF restrictPayload
<1>2. CASE s.restricted # {} /\ p.type \in {"Added", "Reset"}
  <2> DEFINE left == [i \in AtomId |-> IF i \in s.restricted THEN NoAtom ELSE p.atoms[i]]
  <2>1. restrictPayload(s, p) = [p EXCEPT !.atoms = left, !.assets = AnnouncedBy(left)]
    BY <1>2 DEF restrictPayload, restrictTargetedAtoms
  <2>2. restrictPayload(s, p).atoms = left
    BY <2>1 DEF Payload
  <2> QED
    BY <2>2 DEF RestrictedIdsOf, isRestrictedAtom
<1>3. CASE s.restricted # {} /\ p.type = "BulkMetadataChanged"
  <2> DEFINE left == [i \in AtomId |-> IF i \in s.restricted THEN NoUpdate ELSE p.updates[i]]
  <2>1. restrictPayload(s, p) = [p EXCEPT !.updates = left]
    BY <1>3 DEF restrictPayload, restrictTargetedAtoms
  <2>2. restrictPayload(s, p).atoms = p.atoms
    BY <2>1 DEF Payload
  <2> QED
    BY <1>3, <2>2, PayloadFields, NothingHidden
<1>4. CASE s.restricted # {} /\ p.type \in {"Removed", "MetadataChanged"}
  <2>1. restrictPayload(s, p) = [p EXCEPT !.ids = {}, !.updates = NoUpdates]
    BY <1>4 DEF restrictPayload, restrictTargetedAtoms
  <2>2. restrictPayload(s, p).atoms = p.atoms
    BY <2>1 DEF Payload
  <2> QED
    BY <1>4, <2>2, PayloadFields, NothingHidden
<1> QED
  BY <1>1, <1>2, <1>3, <1>4, PayloadFields DEF Alteration

LEMMA SecretsInit == Init => SecretsInv
BY NothingHidden DEF Init, NetworkInit, ServerInit, StorageOf, SecretsInv, QueueEndsWithLink,
   HintsKnowHidden, RestrictedStayWithHost

\* Clients only take messages from what was sent to them.
LEMMA ClientStepSecrets ==
  ASSUME TypeInv, SecretsInv, NEW c \in Client, ClientStep(c), UNCHANGED serverVars
  PROVE  SecretsInv'
<1>1. CASE UNCHANGED toClient /\ \A d \in Client : link'[d] # "up" => link[d] # "up"
  BY <1>1 DEF SecretsInv, QueueEndsWithLink, HintsKnowHidden, RestrictedStayWithHost,
              CarriesRestricted, Host, serverVars
<1>2. CASE ended(c)
  <2>1. \A d \in Client : IF d = c THEN toClient'[d] = <<>>
                          ELSE toClient'[d] = toClient[d] /\ link'[d] = link[d]
    BY <1>2 DEF ended, TypeInv, TypeOK, NetworkTypeOK
  <2>2. QueueEndsWithLink'
    BY <2>1 DEF SecretsInv, QueueEndsWithLink
  <2>3. \A n : n \notin DOMAIN <<>>
    OBVIOUS
  <2>4. RestrictedStayWithHost'
    BY <2>1, <2>3 DEF SecretsInv, RestrictedStayWithHost, CarriesRestricted, Host, serverVars
  <2> QED
    BY <2>2, <2>4 DEF SecretsInv, HintsKnowHidden, serverVars
<1>3. CASE /\ Up(c) /\ toClient[c] # <<>> /\ UNCHANGED link
           /\ toClient' = [toClient EXCEPT ![c] = Tail(@)]
  <2>1. toClient[c] \in Seq(ToClientMessage)
    BY DEF TypeInv, TypeOK, NetworkTypeOK
  <2>2. \A n \in DOMAIN Tail(toClient[c]) :
          n + 1 \in DOMAIN toClient[c] /\ Tail(toClient[c])[n] = toClient[c][n + 1]
    BY <1>3, <2>1, TailElements
  <2>3. \A d \in Client : IF d = c THEN toClient'[d] = Tail(toClient[d])
                          ELSE toClient'[d] = toClient[d]
    BY <1>3 DEF TypeInv, TypeOK, NetworkTypeOK
  <2>4. QueueEndsWithLink'
    BY <1>3, <2>3 DEF SecretsInv, QueueEndsWithLink, Up
  <2>5. ASSUME NEW d \in Client \ Host, NEW n \in DOMAIN toClient'[d]
        PROVE  ~CarriesRestricted(toClient'[d][n])
    <3>1. CASE d = c
      <4>1. n + 1 \in DOMAIN toClient[c] /\ toClient'[d][n] = toClient[c][n + 1]
        BY <2>2, <2>3, <3>1
      <4> QED
        BY <3>1, <4>1 DEF SecretsInv, RestrictedStayWithHost
    <3>2. CASE d # c
      BY <2>3, <3>2 DEF SecretsInv, RestrictedStayWithHost
    <3> QED
      BY <3>1, <3>2
  <2>6. RestrictedStayWithHost'
    BY <2>5 DEF RestrictedStayWithHost, CarriesRestricted, Host, serverVars
  <2> QED
    BY <2>4, <2>6 DEF SecretsInv, HintsKnowHidden, serverVars
<1>4. CASE onPayloadReceived(c)
  BY <1>2, <1>3, <1>4 DEF onPayloadReceived
<1>5. CASE connect(c)
  BY <1>1, <1>5 DEF connect, TypeInv, TypeOK, NetworkTypeOK
<1> QED
  BY <1>1, <1>2, <1>4, <1>5
     DEF ClientStep, close, notifyCharacterChange, queueAlteration, handlePosted, handleMapEvent,
         networkVars

\* Who is a host no more has nothing left to read; whoever else is none is sent
\* nothing hidden.
LEMMA SendsSecrets ==
  ASSUME TypeInv, SecretsInv, NEW sent \in [Client -> Seq(ToClientMessage)], ServerSends(sent),
         \A d \in Client : link'[d] # "up" => link[d] # "up",
         \A d \in Client : d \in Host => d \in Host' \/ link[d] # "up",
         \A d \in Client \ Host : \A k \in DOMAIN sent[d] : ~CarriesRestricted(sent[d][k])
  PROVE  QueueEndsWithLink' /\ RestrictedStayWithHost'
<1>1. \A d \in Client :
        /\ link[d] # "up" => toClient'[d] = toClient[d]
        /\ \A n \in DOMAIN toClient'[d] :
             \/ n \in DOMAIN toClient[d] /\ toClient'[d][n] = toClient[d][n]
             \/ link[d] = "up" /\ \E k \in DOMAIN sent[d] : toClient'[d][n] = sent[d][k]
  BY ServerSendsElements DEF TypeInv, TypeOK
<1>2. QueueEndsWithLink'
  BY <1>1 DEF SecretsInv, QueueEndsWithLink
<1>3. ASSUME NEW d \in Client \ Host', NEW n \in DOMAIN toClient'[d]
      PROVE  ~CarriesRestricted(toClient'[d][n])
  <2>1. CASE d \in Host
    <3>1. toClient'[d] = <<>>
      BY <1>1, <1>3, <2>1 DEF SecretsInv, QueueEndsWithLink
    <3> QED
      BY <1>3, <3>1
  <2>2. CASE d \notin Host
    BY <1>1, <2>2 DEF SecretsInv, RestrictedStayWithHost
  <2> QED
    BY <2>1, <2>2
<1>4. RestrictedStayWithHost'
  BY <1>3 DEF RestrictedStayWithHost, CarriesRestricted
<1> QED
  BY <1>2, <1>4

\* A message of another method carries nothing.
LEMMA CarriesNothing ==
  ASSUME NEW m, m.method \notin MapChange \cup {"GameSessionSync"}
  PROVE  ~CarriesRestricted(m)
BY DEF CarriesRestricted

LEMMA gameSessionSecrets ==
  ASSUME TypeInv, SecretsInv, NEW c \in Client, NEW users
  PROVE  ~CarriesRestricted(gameSession(c, users))
<1> DEFINE full == users[c].role # "Host"
           m == IF full THEN restrictPayload(hints, generateResetPayload(hints))
                ELSE generateResetPayload(StorageOf(NoAtoms))
<1>1. gameSession(c, users) =
        [method |-> "GameSessionSync", users |-> users, full |-> full, map |-> m]
  BY DEF gameSession
<1>2. RestrictedIdsOf(m.atoms) = {}
  <2>1. generateResetPayload(hints) \in Payload /\ generateResetPayload(hints).atoms = hints.atoms
    BY generateResetPayloadType DEF TypeInv, TypeOK, ServerTypeOK, generateResetPayload, ResetPayload
  <2>2. RestrictedIdsOf(restrictPayload(hints, generateResetPayload(hints)).atoms) = {}
    BY <2>1, restrictPayloadHides DEF SecretsInv, HintsKnowHidden, TypeInv, TypeOK, ServerTypeOK
  <2>3. RestrictedIdsOf(generateResetPayload(StorageOf(NoAtoms)).atoms) = {}
    BY NothingHidden DEF generateResetPayload, ResetPayload, StorageOf
  <2> QED
    BY <2>2, <2>3
<1> HIDE DEF m
<1>3. gameSession(c, users).method = "GameSessionSync" /\ gameSession(c, users).map = m
  BY <1>1
<1> QED
  BY <1>2, <1>3 DEF CarriesRestricted, MapChange

LEMMA onClientSocketDisconnectedSecrets ==
  ASSUME TypeInv, SecretsInv, NEW c \in Client, onClientSocketDisconnected(c)
  PROVE  SecretsInv'
<1> DEFINE m == [method |-> "UserOut", id |-> c]
<1>1. m \in ToClientMessage /\ m.method = "UserOut"
  BY DEF ToClientMessage
<1>2. /\ ServerSends(ToAll(Peers(c), m)) /\ link[c] = "down" /\ UNCHANGED hints
      /\ link' = [link EXCEPT ![c] = "gone"]
      /\ socketsByRole' = [socketsByRole EXCEPT ![usersById[c].role] = @ \ {c}]
  BY DEF onClientSocketDisconnected
<1> HIDE DEF m
<1>3. ToAll(Peers(c), m) \in [Client -> Seq(ToClientMessage)]
      /\ \A d \in Client : \A k \in DOMAIN ToAll(Peers(c), m)[d] : ToAll(Peers(c), m)[d][k] = m
  BY <1>1, ToAllType
<1>4. ~CarriesRestricted(m)
  BY <1>1, CarriesNothing DEF MapChange
<1>5. \A d \in Client : link'[d] # "up" => link[d] # "up"
  BY <1>2 DEF TypeInv, TypeOK, NetworkTypeOK
<1>6. \A d \in Client : d \in Host => d \in Host' \/ link[d] # "up"
  BY <1>2 DEF Host, TypeInv, TypeOK, ServerTypeOK, Role
<1>7. QueueEndsWithLink' /\ RestrictedStayWithHost'
  BY <1>2, <1>3, <1>4, <1>5, <1>6, SendsSecrets
<1> QED
  BY <1>2, <1>7 DEF SecretsInv, HintsKnowHidden

LEMMA onClientPayloadReceivedSecrets ==
  ASSUME TypeInv, SecretsInv, NEW c \in Client, onClientPayloadReceived(c)
  PROVE  SecretsInv'
<1> DEFINE m == Head(toServer[c])
<1>1. m \in ToServerMessage /\ UNCHANGED link
  BY TailElements DEF TypeInv, TypeOK, NetworkTypeOK, onClientPayloadReceived
<1>2. CASE m.method = "Handshake" /\ rejectVersion(c)
  <2> DEFINE status == [method |-> "ServerStatus"]
  <2>1. status \in ToClientMessage /\ status.method = "ServerStatus"
    BY DEF ToClientMessage
  <2>2. ServerSends(ToAll({c}, status)) /\ UNCHANGED <<socketsByRole, hints>>
    BY <1>2 DEF rejectVersion, serverVars
  <2> HIDE DEF status
  <2>3. ToAll({c}, status) \in [Client -> Seq(ToClientMessage)]
        /\ \A d \in Client : \A k \in DOMAIN ToAll({c}, status)[d] : ToAll({c}, status)[d][k] = status
    BY <2>1, ToAllType
  <2>4. ~CarriesRestricted(status)
    BY <2>1, CarriesNothing DEF MapChange
  <2>5. QueueEndsWithLink' /\ RestrictedStayWithHost'
    BY <1>1, <2>2, <2>3, <2>4, SendsSecrets DEF Host
  <2> QED
    BY <2>2, <2>5 DEF SecretsInv, HintsKnowHidden
<1>3. CASE m.method = "Handshake" /\ acceptHandshake(c, m.character)
  <2> DEFINE user == [NewUser EXCEPT !.role = attributedRole(c, m.character),
                                     !.character = m.character, !.named = TRUE]
             users == [usersById EXCEPT ![c] = user]
             told == [method |-> "UserIn", id |-> c, user |-> user]
             sent == [ToAll(Peers(c), told) EXCEPT ![c] = <<gameSession(c, users)>>]
  <2>1. /\ socketsByRole' = [socketsByRole EXCEPT ![user.role] = @ \cup {c}]
        /\ ServerSends(sent) /\ UNCHANGED hints
    BY <1>3 DEF acceptHandshake
  <2>2. m.character \in Character \cup {NoCharacter}
    BY <1>1, <1>3, ToServerFields
  <2>3. user \in User
    BY <2>2, NewUserType DEF User, NewUser, attributedRole, Role
  <2>4. users \in Users
    BY <2>3 DEF TypeInv, TypeOK, ServerTypeOK, Users
  <2> HIDE DEF user
  <2>5. told \in ToClientMessage /\ told.method = "UserIn"
    BY <2>3 DEF ToClientMessage
  <2> HIDE DEF users, told
  <2>6. gameSession(c, users) \in ToClientMessage
    BY <2>4, gameSessionType DEF TypeInv, TypeOK
  <2>7. ToAll(Peers(c), told) \in [Client -> Seq(ToClientMessage)]
        /\ \A d \in Client : \A k \in DOMAIN ToAll(Peers(c), told)[d] :
             ToAll(Peers(c), told)[d][k] = told
    BY <2>5, ToAllType
  <2>8. <<gameSession(c, users)>> \in Seq(ToClientMessage)
        /\ DOMAIN <<gameSession(c, users)>> = {1}
        /\ <<gameSession(c, users)>>[1] = gameSession(c, users)
    BY <2>6, SingletonElements
  <2>9. sent \in [Client -> Seq(ToClientMessage)]
        /\ \A d \in Client : \A k \in DOMAIN sent[d] :
             sent[d][k] = told \/ sent[d][k] = gameSession(c, users)
    BY <2>7, <2>8
  <2>10. ~CarriesRestricted(told) /\ ~CarriesRestricted(gameSession(c, users))
    BY <2>5, CarriesNothing, gameSessionSecrets DEF MapChange
  <2>11. \A d \in Client : d \in Host => d \in Host'
    BY <2>1 DEF Host, TypeInv, TypeOK, ServerTypeOK, Role
  <2> HIDE DEF sent
  <2>12. QueueEndsWithLink' /\ RestrictedStayWithHost'
    BY <1>1, <2>1, <2>9, <2>10, <2>11, SendsSecrets
  <2> QED
    BY <2>1, <2>12 DEF SecretsInv, HintsKnowHidden
<1>4. CASE m.method = "CharacterChanged" /\ characterChanged(c, m.sheet)
  <2> DEFINE user == [usersById[c] EXCEPT !.sheet = m.sheet]
             told == [method |-> "UserDataChanged", id |-> c, user |-> user]
  <2>1. ServerSends(ToAll(Peers(c), told)) /\ UNCHANGED <<socketsByRole, hints>>
    BY <1>4 DEF characterChanged
  <2>2. m.sheet \in 0..MaxSheet /\ usersById[c] \in User
    BY <1>1, <1>4, ToServerFields
       DEF onClientPayloadReceived, Connected, TypeInv, TypeOK, ServerTypeOK, Users
  <2>3. user \in User
    BY <2>2 DEF User
  <2> HIDE DEF user
  <2>4. told \in ToClientMessage /\ told.method = "UserDataChanged"
    BY <2>3 DEF ToClientMessage
  <2> HIDE DEF told
  <2>5. ToAll(Peers(c), told) \in [Client -> Seq(ToClientMessage)]
        /\ \A d \in Client : \A k \in DOMAIN ToAll(Peers(c), told)[d] :
             ToAll(Peers(c), told)[d][k] = told
    BY <2>4, ToAllType
  <2>6. ~CarriesRestricted(told)
    BY <2>4, CarriesNothing DEF MapChange
  <2>7. QueueEndsWithLink' /\ RestrictedStayWithHost'
    BY <1>1, <2>1, <2>5, <2>6, SendsSecrets DEF Host
  <2> QED
    BY <2>1, <2>7 DEF SecretsInv, HintsKnowHidden
<1>5. CASE m.method = "AskForAssets" /\ sendAssets(c, m.hashes)
  <2>1. m.hashes \in SUBSET AnyHash
    BY <1>1, <1>5, ToServerFields
  <2>2. PICK sent \in [Client -> Seq(ToClientMessage)] :
          /\ ServerSends(sent) /\ UNCHANGED serverVars
          /\ \A d \in Client : \A k \in DOMAIN sent[d] : sent[d][k].method = "RequestedAsset"
    BY <1>5, <2>1, sendAssetsSent
  <2>3. \A d \in Client : \A k \in DOMAIN sent[d] : ~CarriesRestricted(sent[d][k])
    BY <2>2, CarriesNothing DEF MapChange
  <2>4. QueueEndsWithLink' /\ RestrictedStayWithHost'
    BY <1>1, <2>2, <2>3, SendsSecrets DEF Host, serverVars
  <2> QED
    BY <2>2, <2>4 DEF SecretsInv, HintsKnowHidden, serverVars
<1>6. CASE m.method \in MapChange /\ broadcastMapChanges(c, m.method, m.payload)
  <2> DEFINE p == m.payload
  <2>1. p \in Payload
    BY <1>1, <1>6, ToServerFields
  <2>2. /\ ServerSends(Relayed(c, m.method, p)) /\ hints' = StorageAfter(hints, p)
        /\ UNCHANGED socketsByRole
    BY <1>6 DEF broadcastMapChanges, Relayed
  <2>3. /\ RestrictedIdsOf(hints'.atoms) \subseteq hints'.restricted
        /\ RestrictedIdsOf(p.atoms) \subseteq hintsAfter(p).restricted
        /\ hintsAfter(p) \in Storage
    BY <2>1, <2>2, StorageAfterKnowsHidden, StorageAfterType
       DEF hintsAfter, SecretsInv, HintsKnowHidden, TypeInv, TypeOK, ServerTypeOK
  <2>4. RestrictedIdsOf(restrictPayload(hintsAfter(p), p).atoms) = {}
    BY <2>1, <2>3, restrictPayloadHides
  <2>5. ASSUME NEW d \in Client \ Host, NEW k \in DOMAIN Relayed(c, m.method, p)[d]
        PROVE  ~CarriesRestricted(Relayed(c, m.method, p)[d][k])
    <3> DEFINE r == Relayed(c, m.method, p)[d][k]
    <3>1. r.method = m.method /\ r.payload = restrictPayload(hintsAfter(p), p)
      BY <1>6, <2>1, <2>5, RelayedElements DEF Host, TypeInv, TypeOK
    <3> HIDE DEF r
    <3> QED
      BY <1>6, <2>4, <3>1 DEF r, CarriesRestricted, MapChange
  <2>6. Relayed(c, m.method, p) \in [Client -> Seq(ToClientMessage)]
    BY <1>6, <2>1, RelayedElements DEF TypeInv, TypeOK
  <2>7. QueueEndsWithLink' /\ RestrictedStayWithHost'
    BY <1>1, <2>2, <2>5, <2>6, SendsSecrets DEF Host
  <2> QED
    BY <2>3, <2>7 DEF SecretsInv, HintsKnowHidden
<1> QED
  BY <1>2, <1>3, <1>4, <1>5, <1>6 DEF onClientPayloadReceived

LEMMA SecretsStep == TypeInv /\ SecretsInv /\ [Next]_vars => SecretsInv'
<1> SUFFICES ASSUME TypeInv, SecretsInv, [Next]_vars
             PROVE  SecretsInv'
  OBVIOUS
<1>1. CASE UNCHANGED <<link, toClient, socketsByRole, hints>>
  BY <1>1 DEF SecretsInv, QueueEndsWithLink, HintsKnowHidden, RestrictedStayWithHost,
              CarriesRestricted, Host
<1>2. CASE UNCHANGED vars
  BY <1>1, <1>2 DEF vars, networkVars, serverVars
<1>3. ASSUME NEW c \in Client, ServerStep(c)
      PROVE  SecretsInv'
  BY <1>1, <1>3, onClientSocketDisconnectedSecrets, onClientPayloadReceivedSecrets
     DEF ServerStep, onNewConnection, networkVars
<1>4. ASSUME NEW c \in Client, ClientStep(c), UNCHANGED serverVars
      PROVE  SecretsInv'
  BY <1>4, ClientStepSecrets
<1> QED
  BY <1>2, <1>3, <1>4 DEF Next

\* No message on its way to a user who is not the host carries an atom meant for
\* the host, whatever is drawn, loaded, updated, brought back or sent to someone
\* who joins. It takes that a payload is restricted after it was handled, by a
\* server that forgets a hidden id only with the atom, and that a host who left
\* has nothing left to read.
THEOREM RestrictedAlwaysStayWithHost == Spec => []RestrictedStayWithHost
<1>1. Init => TypeInv /\ SecretsInv
  BY TypeInit, SecretsInit
<1>2. TypeInv /\ SecretsInv /\ [Next]_vars => (TypeInv /\ SecretsInv)'
  BY TypeStep, SecretsStep
<1>3. TypeInv /\ SecretsInv => RestrictedStayWithHost
  BY DEF SecretsInv
<1> QED
  BY <1>1, <1>2, <1>3, PTL DEF Spec

---------------------------------------------------------------------------
(* Who is in the session, as every client comes to know it: what a client *)
(* will know is what it knows once all it was sent is read, which the last *)
(* message about a user decides. *)

\* m tells who d is.
About(m, d) ==
  \/ m.method = "GameSessionSync"
  \/ m.method \in {"UserIn", "UserDataChanged", "UserOut"} /\ m.id = d

Tells(m, d) ==
  IF m.method = "GameSessionSync" THEN m.users[d]
  ELSE IF m.method = "UserOut" THEN NoUser ELSE m.user

NoneAbout(q, d) == \A n \in DOMAIN q : ~About(q[n], d)

LastAbout(q, d, n) == About(q[n], d) /\ \A k \in DOMAIN q : k > n => ~About(q[k], d)

\* u is what is known of d once q is read, by who knew one of known before.
WillKnow(q, known, d, u) ==
  \/ \E n \in DOMAIN q : LastAbout(q, d, n) /\ u = Tells(q[n], d)
  \/ NoneAbout(q, d) /\ u \in known

NoEdit(q) == \A n \in DOMAIN q : q[n].method # "CharacterChanged"

LastEdit(q, n) ==
  /\ q[n].method = "CharacterChanged"
  /\ \A k \in DOMAIN q : k > n => q[k].method # "CharacterChanged"

\* v is the sheet the server has once q is read, when it has sheet before.
WillHave(q, sheet, v) ==
  \/ \E n \in DOMAIN q : LastEdit(q, n) /\ v = q[n].sheet
  \/ NoEdit(q) /\ v = sheet

\* What a client knows of d: nothing before the session is received.
Known(c, d) == IF synced[c] THEN {sessionUsers[c][d]} ELSE {}

\* u is right of d: the user the server has, if it is named.
Agrees(d, u) ==
  IF Named(d) THEN u = usersById[d] ELSE u # NoUser => usersById[d] # NoUser

---------------------------------------------------------------------------
(* The invariant *)

\* What a client will know of the others is right, session received or not.
OthersKnown ==
  \A c \in Client : \A d \in Client \ {c} : \A u \in User \cup {NoUser} :
    WillKnow(toClient[c], Known(c, d), d, u) => Agrees(d, u)

\* Nobody is sent a thing before the server knows the connection, or after it ended.
Unheard ==
  \A c \in Client : ~Up(c) \/ usersById[c] = NoUser => toClient[c] = <<>> /\ ~synced[c]

\* A client is told of itself once, by its session, when all it can have asked
\* for is to be let in.
ToldOfItself(c) ==
  \A n \in DOMAIN toClient[c] : About(toClient[c][n], c) =>
    /\ ~synced[c] /\ Named(c)
    /\ toClient[c][n].method = "GameSessionSync"
    /\ toClient[c][n].users[c] = usersById[c]
    /\ \A k \in DOMAIN toClient[c] : About(toClient[c][k], c) => k = n

\* From then on it is ahead of the server, by the edits on their way.
AheadOfServer(c) ==
  IF synced[c]
  THEN /\ Named(c)
       /\ sessionUsers[c][c] = [usersById[c] EXCEPT !.sheet = sessionUsers[c][c].sheet]
       /\ \A v \in 0..MaxSheet :
            WillHave(toServer[c], usersById[c].sheet, v) => v = sessionUsers[c][c].sheet
  ELSE NoEdit(toServer[c])

SelfKnown == \A c \in Client : Up(c) => ToldOfItself(c) /\ AheadOfServer(c)

RosterInv == OthersKnown /\ Unheard /\ SelfKnown

---------------------------------------------------------------------------
(* Queues *)

\* The elements of a queue stay at their place when it grows.
LEMMA ConcatKeeps ==
  ASSUME NEW S, NEW s \in Seq(S), NEW t \in Seq(S)
  PROVE  /\ \A n \in DOMAIN s : n \in DOMAIN (s \o t) /\ (s \o t)[n] = s[n] /\ n <= Len(s)
         /\ \A n \in DOMAIN t : Len(s) + n \in DOMAIN (s \o t) /\ (s \o t)[Len(s) + n] = t[n]
                                /\ n \in Nat \ {0}
         /\ Len(s) \in Nat /\ DOMAIN s \subseteq Nat
         /\ DOMAIN (s \o t) \subseteq Nat
BY ConcatProperties, LenProperties

\* Messages about others change nothing of what will be known of d.
LEMMA OtherNews ==
  ASSUME NEW s \in Seq(ToClientMessage), NEW t \in Seq(ToClientMessage), NEW q, q = s \o t,
         NEW known, NEW d, NEW u, NoneAbout(t, d), WillKnow(q, known, d, u)
  PROVE  WillKnow(s, known, d, u)
<1>1. /\ \A n \in DOMAIN s : n \in DOMAIN q /\ q[n] = s[n]
      /\ \A n \in DOMAIN q : \/ n \in DOMAIN s /\ q[n] = s[n]
                             \/ \E k \in DOMAIN t : q[n] = t[k]
  <2>1. \A n \in DOMAIN s : n \in DOMAIN (s \o t) /\ (s \o t)[n] = s[n]
    BY ConcatKeeps
  <2>2. \A n \in DOMAIN (s \o t) : \/ n \in DOMAIN s /\ (s \o t)[n] = s[n]
                                   \/ \E k \in DOMAIN t : (s \o t)[n] = t[k]
    BY ConcatElements
  <2> QED
    BY <2>1, <2>2
<1>2. CASE NoneAbout(q, d) /\ u \in known
  BY <1>1, <1>2 DEF WillKnow, NoneAbout
<1>3. CASE \E n \in DOMAIN q : LastAbout(q, d, n) /\ u = Tells(q[n], d)
  <2>1. PICK n \in DOMAIN q : LastAbout(q, d, n) /\ u = Tells(q[n], d)
    BY <1>3
  <2>2. n \in DOMAIN s /\ q[n] = s[n]
    BY <1>1, <2>1 DEF NoneAbout, LastAbout
  <2>3. LastAbout(s, d, n)
    BY <1>1, <2>1, <2>2 DEF LastAbout
  <2> QED
    BY <2>1, <2>2, <2>3 DEF WillKnow
<1> QED
  BY <1>2, <1>3 DEF WillKnow

\* A message about d decides what will be known of d.
LEMMA News ==
  ASSUME NEW s \in Seq(ToClientMessage), NEW m \in ToClientMessage, NEW q, q = s \o <<m>>,
         NEW known, NEW d, NEW u, About(m, d), WillKnow(q, known, d, u)
  PROVE  u = Tells(m, d)
<1>1. /\ Len(s) + 1 \in DOMAIN q /\ q[Len(s) + 1] = m
      /\ \A n \in DOMAIN q : n = Len(s) + 1 \/ Len(s) + 1 > n
  <2>1. Len(q) = Len(s) + 1 /\ q \in Seq(ToClientMessage) /\ q[Len(s) + 1] = m
    BY ConcatProperties
  <2> QED
    BY <2>1, LenProperties
<1>2. PICK n \in DOMAIN q : LastAbout(q, d, n) /\ u = Tells(q[n], d)
  BY <1>1 DEF WillKnow, NoneAbout
<1>3. n = Len(s) + 1
  BY <1>1, <1>2 DEF LastAbout
<1> QED
  BY <1>1, <1>2, <1>3

\* Reading a message about d makes it what is known; another one changes nothing.
LEMMA NewsRead ==
  ASSUME NEW q \in Seq(ToClientMessage), q # <<>>, NEW known, NEW after, NEW d, NEW u,
         About(Head(q), d) => after \subseteq {Tells(Head(q), d)},
         ~About(Head(q), d) => after \subseteq known,
         WillKnow(Tail(q), after, d, u)
  PROVE  WillKnow(q, known, d, u)
<1>1. /\ 1 \in DOMAIN q /\ q[1] = Head(q)
      /\ \A n \in DOMAIN Tail(q) : n \in Nat \ {0} /\ n + 1 \in DOMAIN q /\ Tail(q)[n] = q[n + 1]
  BY TailElements
<1>2. \A k \in DOMAIN q :
        \/ k = 1
        \/ k - 1 \in DOMAIN Tail(q) /\ q[k] = Tail(q)[k - 1] /\ k > 1 /\ k \in Nat
  <2>1. Len(Tail(q)) = Len(q) - 1 /\ Tail(q) \in Seq(ToClientMessage)
    BY HeadTailProperties
  <2>2. DOMAIN Tail(q) = 1..Len(Tail(q)) /\ DOMAIN q = 1..Len(q) /\ Len(q) \in Nat
    BY <2>1, LenProperties
  <2>3. \A k \in DOMAIN q : k # 1 => k - 1 \in DOMAIN Tail(q) /\ k > 1 /\ k \in Nat /\ (k - 1) + 1 = k
    BY <2>1, <2>2
  <2> QED
    BY <1>1, <2>3
<1>3. CASE \E n \in DOMAIN Tail(q) : LastAbout(Tail(q), d, n) /\ u = Tells(Tail(q)[n], d)
  <2>1. PICK n \in DOMAIN Tail(q) : LastAbout(Tail(q), d, n) /\ u = Tells(Tail(q)[n], d)
    BY <1>3
  <2>2. n \in Nat \ {0} /\ n + 1 \in DOMAIN q /\ Tail(q)[n] = q[n + 1]
    BY <1>1
  <2>3. ASSUME NEW k \in DOMAIN q, k > n + 1
        PROVE  ~About(q[k], d)
    <3>1. k - 1 \in DOMAIN Tail(q) /\ q[k] = Tail(q)[k - 1] /\ k - 1 > n
      BY <1>2, <2>2, <2>3
    <3> QED
      BY <2>1, <3>1 DEF LastAbout
  <2> QED
    BY <2>1, <2>2, <2>3 DEF WillKnow, LastAbout
<1>4. CASE NoneAbout(Tail(q), d) /\ u \in after
  <2>1. \A k \in DOMAIN q : k > 1 => ~About(q[k], d)
    BY <1>2, <1>4 DEF NoneAbout
  <2>2. CASE About(Head(q), d)
    BY <1>1, <1>4, <2>1, <2>2 DEF WillKnow, LastAbout
  <2>3. CASE ~About(Head(q), d)
    BY <1>1, <1>2, <1>4, <2>1, <2>3 DEF WillKnow, NoneAbout
  <2> QED
    BY <2>2, <2>3
<1> QED
  BY <1>3, <1>4 DEF WillKnow

\* The same of the edits of a sheet that the server has yet to read.
LEMMA OtherSends ==
  ASSUME NEW s \in Seq(ToServerMessage), NEW t \in Seq(ToServerMessage), NEW q, q = s \o t,
         NEW sheet, NEW v, NoEdit(t), WillHave(q, sheet, v)
  PROVE  WillHave(s, sheet, v)
<1>1. /\ \A n \in DOMAIN s : n \in DOMAIN q /\ q[n] = s[n]
      /\ \A n \in DOMAIN q : \/ n \in DOMAIN s /\ q[n] = s[n]
                             \/ \E k \in DOMAIN t : q[n] = t[k]
  <2>1. \A n \in DOMAIN s : n \in DOMAIN (s \o t) /\ (s \o t)[n] = s[n]
    BY ConcatKeeps
  <2>2. \A n \in DOMAIN (s \o t) : \/ n \in DOMAIN s /\ (s \o t)[n] = s[n]
                                   \/ \E k \in DOMAIN t : (s \o t)[n] = t[k]
    BY ConcatElements
  <2> QED
    BY <2>1, <2>2
<1>2. CASE NoEdit(q) /\ v = sheet
  BY <1>1, <1>2 DEF WillHave, NoEdit
<1>3. CASE \E n \in DOMAIN q : LastEdit(q, n) /\ v = q[n].sheet
  <2>1. PICK n \in DOMAIN q : LastEdit(q, n) /\ v = q[n].sheet
    BY <1>3
  <2>2. n \in DOMAIN s /\ q[n] = s[n]
    BY <1>1, <2>1 DEF NoEdit, LastEdit
  <2>3. LastEdit(s, n)
    BY <1>1, <2>1, <2>2 DEF LastEdit
  <2> QED
    BY <2>1, <2>2, <2>3 DEF WillHave
<1> QED
  BY <1>2, <1>3 DEF WillHave

LEMMA EditSent ==
  ASSUME NEW s \in Seq(ToServerMessage), NEW m \in ToServerMessage, NEW q, q = s \o <<m>>,
         NEW sheet, NEW v, m.method = "CharacterChanged", WillHave(q, sheet, v)
  PROVE  v = m.sheet
<1>1. /\ Len(s) + 1 \in DOMAIN q /\ q[Len(s) + 1] = m
      /\ \A n \in DOMAIN q : n = Len(s) + 1 \/ Len(s) + 1 > n
  <2>1. Len(q) = Len(s) + 1 /\ q \in Seq(ToServerMessage) /\ q[Len(s) + 1] = m
    BY ConcatProperties
  <2> QED
    BY <2>1, LenProperties
<1>2. PICK n \in DOMAIN q : LastEdit(q, n) /\ v = q[n].sheet
  BY <1>1 DEF WillHave, NoEdit
<1>3. n = Len(s) + 1
  BY <1>1, <1>2 DEF LastEdit
<1> QED
  BY <1>1, <1>2, <1>3

LEMMA EditRead ==
  ASSUME NEW q \in Seq(ToServerMessage), q # <<>>, NEW sheet, NEW after, NEW v,
         Head(q).method = "CharacterChanged" => after = Head(q).sheet,
         Head(q).method # "CharacterChanged" => after = sheet,
         WillHave(Tail(q), after, v)
  PROVE  WillHave(q, sheet, v)
<1>1. /\ 1 \in DOMAIN q /\ q[1] = Head(q)
      /\ \A n \in DOMAIN Tail(q) : n \in Nat \ {0} /\ n + 1 \in DOMAIN q /\ Tail(q)[n] = q[n + 1]
  BY TailElements
<1>2. \A k \in DOMAIN q :
        \/ k = 1
        \/ k - 1 \in DOMAIN Tail(q) /\ q[k] = Tail(q)[k - 1] /\ k > 1 /\ k \in Nat
  <2>1. Len(Tail(q)) = Len(q) - 1 /\ Tail(q) \in Seq(ToServerMessage)
    BY HeadTailProperties
  <2>2. DOMAIN Tail(q) = 1..Len(Tail(q)) /\ DOMAIN q = 1..Len(q) /\ Len(q) \in Nat
    BY <2>1, LenProperties
  <2>3. \A k \in DOMAIN q : k # 1 => k - 1 \in DOMAIN Tail(q) /\ k > 1 /\ k \in Nat /\ (k - 1) + 1 = k
    BY <2>1, <2>2
  <2> QED
    BY <1>1, <2>3
<1>3. CASE \E n \in DOMAIN Tail(q) : LastEdit(Tail(q), n) /\ v = Tail(q)[n].sheet
  <2>1. PICK n \in DOMAIN Tail(q) : LastEdit(Tail(q), n) /\ v = Tail(q)[n].sheet
    BY <1>3
  <2>2. n \in Nat \ {0} /\ n + 1 \in DOMAIN q /\ Tail(q)[n] = q[n + 1]
    BY <1>1
  <2>3. ASSUME NEW k \in DOMAIN q, k > n + 1
        PROVE  q[k].method # "CharacterChanged"
    <3>1. k - 1 \in DOMAIN Tail(q) /\ q[k] = Tail(q)[k - 1] /\ k - 1 > n
      BY <1>2, <2>2, <2>3
    <3> QED
      BY <2>1, <3>1 DEF LastEdit
  <2> QED
    BY <2>1, <2>2, <2>3 DEF WillHave, LastEdit
<1>4. CASE NoEdit(Tail(q)) /\ v = after
  <2>1. \A k \in DOMAIN q : k > 1 => q[k].method # "CharacterChanged"
    BY <1>2, <1>4 DEF NoEdit
  <2>2. CASE Head(q).method = "CharacterChanged"
    BY <1>1, <1>4, <2>1, <2>2 DEF WillHave, LastEdit
  <2>3. CASE Head(q).method # "CharacterChanged"
    BY <1>1, <1>2, <1>4, <2>1, <2>3 DEF WillHave, NoEdit
  <2> QED
    BY <2>2, <2>3
<1> QED
  BY <1>3, <1>4 DEF WillHave

LEMMA EmptyTells ==
  /\ \A n : n \notin DOMAIN <<>>
  /\ NoEdit(<<>>)
  /\ \A d, u, known : WillKnow(<<>>, known, d, u) <=> u \in known
BY DEF NoEdit, WillKnow, NoneAbout

LEMMA RosterInit == Init => RosterInv
BY EmptyTells
   DEF Init, NetworkInit, ServerInit, ClientInit, NoUsers, RosterInv, OthersKnown, Unheard, SelfKnown,
       ToldOfItself, AheadOfServer, Known, Up

\* A client that read all it was sent knows the users of the server.
LEMMA RosterRight == TypeInv /\ RosterInv => RosterConverges
<1> SUFFICES ASSUME TypeInv, RosterInv,
                    NEW c \in Client, Up(c), synced[c], toClient[c] = <<>>, NEW d \in Client
             PROVE  /\ d \in Connected /\ usersById[d].named =>
                         \/ sessionUsers[c][d] = usersById[d]
                         \/ d = c /\ Pending(toServer[c], {"CharacterChanged"})
                    /\ sessionUsers[c][d] # NoUser => d \in Connected
  BY DEF RosterConverges
<1>1. CASE d # c
  <2>1. sessionUsers[c][d] \in User \cup {NoUser}
    BY DEF TypeInv, TypeOK, ClientTypeOK, Users
  <2>2. WillKnow(toClient[c], Known(c, d), d, sessionUsers[c][d])
    BY EmptyTells DEF Known
  <2>3. Agrees(d, sessionUsers[c][d])
    BY <1>1, <2>1, <2>2 DEF RosterInv, OthersKnown
  <2> QED
    BY <2>3, <1>1 DEF Agrees, Named, Connected
<1>2. CASE d = c
  <2>1. AheadOfServer(c)
    BY DEF RosterInv, SelfKnown
  <2>2. Named(c) /\ usersById[c] \in User
    BY <2>1 DEF AheadOfServer, Named, TypeInv, TypeOK, ServerTypeOK, Users
  <2>3. CASE NoEdit(toServer[c])
    <3>1. usersById[c].sheet \in 0..MaxSheet
      BY <2>2 DEF User
    <3>2. usersById[c].sheet = sessionUsers[c][c].sheet
      BY <2>1, <2>3, <3>1 DEF AheadOfServer, WillHave
    <3>3. sessionUsers[c][c] = usersById[c]
      <4>1. [usersById[c] EXCEPT !.sheet = usersById[c].sheet] = usersById[c]
        BY <2>2 DEF User
      <4> QED
        BY <2>1, <3>2, <4>1 DEF AheadOfServer
    <3> QED
      BY <1>2, <2>2, <3>3 DEF Named, Connected
  <2>4. CASE ~NoEdit(toServer[c])
    BY <1>2, <2>2, <2>4 DEF NoEdit, Pending, Named, Connected
  <2> QED
    BY <2>3, <2>4
<1> QED
  BY <1>1, <1>2

---------------------------------------------------------------------------
(* Steps of the server *)

\* What an unheard client will know of anyone: nothing.
LEMMA UnheardKnowsNothing ==
  ASSUME NEW c, toClient[c] = <<>>, ~synced[c], NEW d, NEW u
  PROVE  ~WillKnow(toClient[c], Known(c, d), d, u)
BY EmptyTells DEF Known

LEMMA onNewConnectionRoster ==
  ASSUME TypeInv, RosterInv, NEW e \in Client, onNewConnection(e), UNCHANGED clientVars
  PROVE  RosterInv'
<1>1. /\ usersById[e] = NoUser /\ usersById' = [usersById EXCEPT ![e] = NewUser]
      /\ UNCHANGED <<link, toServer, toClient, sessionUsers, synced>>
  BY DEF onNewConnection, networkVars, Connected, clientVars, rosterVars
<1>2. /\ usersById'[e] = NewUser /\ ~NewUser.named /\ NewUser # NoUser
      /\ \A d \in Client \ {e} : usersById'[d] = usersById[d]
  BY <1>1, NewUserType, NoUserIsNotAUser DEF TypeInv, TypeOK, ServerTypeOK, Users, NewUser
<1>3. OthersKnown'
  <2> SUFFICES ASSUME NEW c \in Client, NEW d \in Client \ {c}, NEW u \in User \cup {NoUser},
                      WillKnow(toClient[c], Known(c, d), d, u)
               PROVE  Agrees(d, u)'
    BY <1>1 DEF OthersKnown, Known
  <2>1. Agrees(d, u)
    BY DEF RosterInv, OthersKnown
  <2> QED
    BY <1>2, <2>1 DEF Agrees, Named
<1>4. Unheard'
  BY <1>1, <1>2 DEF RosterInv, Unheard, Up
<1>5. ASSUME NEW c \in Client, Up(c)
      PROVE  (ToldOfItself(c) /\ AheadOfServer(c))'
  <2>1. ToldOfItself(c) /\ AheadOfServer(c)
    BY <1>5 DEF RosterInv, SelfKnown
  <2>2. CASE c = e
    <3>1. toClient[c] = <<>> /\ ~synced[c]
      BY <1>1, <2>2 DEF RosterInv, Unheard
    <3> QED
      BY <1>1, <2>1, <3>1, EmptyTells DEF ToldOfItself, AheadOfServer
  <2>3. CASE c # e
    BY <1>1, <1>2, <2>1, <2>3 DEF ToldOfItself, AheadOfServer, Named
  <2> QED
    BY <2>2, <2>3
<1> QED
  BY <1>1, <1>3, <1>4, <1>5 DEF RosterInv, SelfKnown, Up

\* What the server sends follows what it sent; those who are not there, or
\* that it does not know, are sent nothing.
LEMMA Reaches ==
  ASSUME TypeInv, RosterInv, NEW sent \in [Client -> Seq(ToClientMessage)], ServerSends(sent),
         NEW c \in Client, usersById[c] = NoUser => sent[c] = <<>>
  PROVE  /\ toClient[c] \in Seq(ToClientMessage) /\ sent[c] \in Seq(ToClientMessage)
         /\ Up(c) => toClient'[c] = toClient[c] \o sent[c]
         /\ ~Up(c) \/ usersById[c] = NoUser => toClient[c] = <<>> /\ toClient'[c] = <<>> /\ ~synced[c]
<1>1. toClient[c] \in Seq(ToClientMessage) /\ sent[c] \in Seq(ToClientMessage)
  BY DEF TypeInv, TypeOK, NetworkTypeOK
<1>2. /\ link[c] # "up" => toClient'[c] = toClient[c]
      /\ link[c] = "up" => toClient'[c] = toClient[c] \o sent[c]
  BY ServerSendsElements DEF TypeInv, TypeOK
<1>3. <<>> \o <<>> = <<>>
  OBVIOUS
<1> QED
  BY <1>1, <1>2, <1>3 DEF RosterInv, Unheard, Up

\* Everyone else is told of e what is right of e.
LEMMA ServerTells ==
  ASSUME TypeInv, RosterInv, UNCHANGED clientVars, NEW e \in Client, NEW m \in ToClientMessage,
         NEW sent \in [Client -> Seq(ToClientMessage)], ServerSends(sent),
         \A c \in Client \ {e} : sent[c] = IF c \in Connected THEN <<m>> ELSE <<>>,
         \A d \in Client : About(m, d) <=> d = e,
         \A d \in Client \ {e} : usersById'[d] = usersById[d],
         Agrees(e, Tells(m, e))',
         NEW c \in Client \ {e}, NEW d \in Client \ {c}, NEW u \in User \cup {NoUser},
         WillKnow(toClient[c], Known(c, d), d, u)'
  PROVE  Agrees(d, u)'
<1>1. (Known(c, d))' = Known(c, d) /\ synced'[c] = synced[c]
  BY DEF Known, clientVars, rosterVars
<1>2. CASE ~Up(c) \/ usersById[c] = NoUser
  <2>1. toClient'[c] = <<>> /\ ~synced[c]
    BY <1>2, Reaches DEF Connected
  <2> QED
    BY <1>1, <2>1, EmptyTells DEF Known
<1>3. CASE Up(c) /\ usersById[c] # NoUser
  <2>1. /\ toClient'[c] = toClient[c] \o <<m>> /\ toClient[c] \in Seq(ToClientMessage)
        /\ <<m>> \in Seq(ToClientMessage)
    <3>1. sent[c] = <<m>>
      BY <1>3 DEF Connected
    <3>2. <<m>> \in Seq(ToClientMessage)
      BY SingletonElements
    <3>3. usersById[c] = NoUser => sent[c] = <<>>
      BY <1>3
    <3> QED
      BY <1>3, <3>1, <3>2, <3>3, Reaches
  <2>2. WillKnow(toClient'[c], Known(c, d), d, u)
    BY <1>1 DEF WillKnow
  <2>3. CASE d = e
    <3>1. u = Tells(m, d)
      BY <2>1, <2>2, <2>3, News
    <3> QED
      BY <2>3, <3>1
  <2>4. CASE d # e
    <3>1. NoneAbout(<<m>>, d)
      BY <2>4, SingletonElements DEF NoneAbout
    <3>2. WillKnow(toClient[c], Known(c, d), d, u)
      BY <2>1, <2>2, <3>1, OtherNews
    <3>3. Agrees(d, u)
      BY <3>2 DEF RosterInv, OthersKnown
    <3> QED
      BY <2>4, <3>3 DEF Agrees, Named
  <2> QED
    BY <2>3, <2>4
<1> QED
  BY <1>2, <1>3

\* Messages that are not about c leave what it will know of itself.
LEMMA ToldOfOthers ==
  ASSUME TypeInv, NEW c \in Client, ToldOfItself(c), NEW t \in Seq(ToClientMessage),
         toClient'[c] = toClient[c] \o t, NoneAbout(t, c), synced'[c] = synced[c],
         usersById'[c] = usersById[c]
  PROVE  ToldOfItself(c)'
<1>1. toClient[c] \in Seq(ToClientMessage)
  BY DEF TypeInv, TypeOK, NetworkTypeOK
<1>2. /\ \A n \in DOMAIN toClient[c] : n \in DOMAIN toClient'[c] /\ toClient'[c][n] = toClient[c][n]
      /\ \A n \in DOMAIN toClient'[c] :
           \/ n \in DOMAIN toClient[c] /\ toClient'[c][n] = toClient[c][n]
           \/ \E k \in DOMAIN t : toClient'[c][n] = t[k]
  BY <1>1, ConcatKeeps, ConcatElements
<1>3. \A n \in DOMAIN toClient'[c] : About(toClient'[c][n], c) =>
        n \in DOMAIN toClient[c] /\ toClient'[c][n] = toClient[c][n]
  BY <1>2 DEF NoneAbout
<1> QED
  BY <1>3 DEF ToldOfItself, Named

\* What becomes of a sheet depends on the edits to read only.
LEMMA SameEdits ==
  ASSUME NEW c \in Client, AheadOfServer(c), usersById'[c] = usersById[c],
         synced'[c] = synced[c], sessionUsers'[c] = sessionUsers[c],
         NoEdit(toServer[c]) => NoEdit(toServer'[c]),
         \A v : WillHave(toServer'[c], usersById[c].sheet, v)
                => WillHave(toServer[c], usersById[c].sheet, v)
  PROVE  AheadOfServer(c)'
<1>1. CASE synced[c]
  <2>1. \A v \in 0..MaxSheet : WillHave(toServer'[c], usersById'[c].sheet, v)
                                => v = sessionUsers'[c][c].sheet
    BY <1>1 DEF AheadOfServer
  <2>2. Named(c)' /\ sessionUsers'[c][c] = [usersById'[c] EXCEPT !.sheet = sessionUsers'[c][c].sheet]
    BY <1>1 DEF AheadOfServer, Named
  <2> QED
    BY <1>1, <2>1, <2>2 DEF AheadOfServer, WillHave
<1>2. CASE ~synced[c]
  BY <1>2 DEF AheadOfServer, NoEdit
<1> QED
  BY <1>1, <1>2

\* The server may read anything but an edit.
ReadsNoEdit(c) ==
  \/ toServer'[c] = toServer[c]
  \/ /\ toServer[c] # <<>> /\ toServer'[c] = Tail(toServer[c])
     /\ Head(toServer[c]).method # "CharacterChanged"

LEMMA SheetStands ==
  ASSUME TypeInv, NEW c \in Client, AheadOfServer(c), ReadsNoEdit(c),
         synced' = synced, sessionUsers' = sessionUsers, usersById'[c] = usersById[c]
  PROVE  AheadOfServer(c)'
<1>1. toServer[c] \in Seq(ToServerMessage)
  BY DEF TypeInv, TypeOK, NetworkTypeOK
<1>2. NoEdit(toServer[c]) => NoEdit(toServer'[c])
  <2>1. CASE toServer'[c] = toServer[c]
    BY <2>1
  <2>2. CASE toServer[c] # <<>> /\ toServer'[c] = Tail(toServer[c])
    <3>1. \A n \in DOMAIN toServer'[c] :
            n + 1 \in DOMAIN toServer[c] /\ toServer'[c][n] = toServer[c][n + 1]
      BY <1>1, <2>2, TailElements
    <3> QED
      BY <3>1 DEF NoEdit
  <2> QED
    BY <2>1, <2>2 DEF ReadsNoEdit
<1>3. ASSUME NEW v, WillHave(toServer'[c], usersById[c].sheet, v)
      PROVE  WillHave(toServer[c], usersById[c].sheet, v)
  BY <1>1, <1>3, EditRead DEF ReadsNoEdit
<1> QED
  BY <1>2, <1>3, SameEdits

LEMMA onClientSocketDisconnectedRoster ==
  ASSUME TypeInv, RosterInv, NEW e \in Client, onClientSocketDisconnected(e), UNCHANGED clientVars
  PROVE  RosterInv'
<1> DEFINE m == [method |-> "UserOut", id |-> e]
           sent == ToAll(Peers(e), m)
<1>1. /\ link[e] = "down" /\ link' = [link EXCEPT ![e] = "gone"]
      /\ toServer' = [toServer EXCEPT ![e] = <<>>]
      /\ usersById' = [usersById EXCEPT ![e] = NoUser]
      /\ ServerSends(sent)
      /\ UNCHANGED <<sessionUsers, synced>>
  BY DEF onClientSocketDisconnected, clientVars, rosterVars
<1>2. /\ usersById'[e] = NoUser
      /\ \A d \in Client \ {e} : usersById'[d] = usersById[d] /\ toServer'[d] = toServer[d]
                                /\ link'[d] = link[d]
      /\ link'[e] # "up"
  BY <1>1 DEF TypeInv, TypeOK, ServerTypeOK, NetworkTypeOK, Users
<1>3. m \in ToClientMessage /\ Tells(m, e) = NoUser /\ \A d \in Client : About(m, d) <=> d = e
  BY DEF ToClientMessage, Tells, About
<1>4. \A c \in Client : sent[c] = IF c \in Connected \ {e} THEN <<m>> ELSE <<>>
  BY DEF ToAll, Peers
<1> HIDE DEF m
<1>5. sent \in [Client -> Seq(ToClientMessage)]
  BY <1>3, ToAllType
<1> HIDE DEF sent
<1>6. \A c \in Client :
        /\ toClient[c] \in Seq(ToClientMessage) /\ sent[c] \in Seq(ToClientMessage)
        /\ Up(c) => toClient'[c] = toClient[c] \o sent[c]
        /\ ~Up(c) \/ usersById[c] = NoUser => toClient'[c] = <<>> /\ ~synced[c]
  BY <1>1, <1>4, <1>5, Reaches DEF Connected
<1>7. OthersKnown'
  <2> SUFFICES ASSUME NEW c \in Client, NEW d \in Client \ {c}, NEW u \in User \cup {NoUser},
                      WillKnow(toClient[c], Known(c, d), d, u)'
               PROVE  Agrees(d, u)'
    BY DEF OthersKnown
  <2>1. CASE c = e
    <3>1. toClient'[c] = <<>> /\ ~synced'[c]
      BY <1>1, <1>6, <2>1 DEF Up
    <3> QED
      BY <3>1, EmptyTells DEF Known
  <2>2. CASE c # e
    <3>1. Agrees(e, Tells(m, e))'
      BY <1>2, <1>3 DEF Agrees, Named
    <3> QED
      BY <1>1, <1>2, <1>3, <1>4, <1>5, <2>2, <3>1, ServerTells
  <2> QED
    BY <2>1, <2>2
<1>8. Unheard'
  BY <1>1, <1>2, <1>6 DEF Unheard, Up
<1>9. ASSUME NEW c \in Client, Up(c)'
      PROVE  (ToldOfItself(c) /\ AheadOfServer(c))'
  <2>1. c # e /\ Up(c)
    BY <1>2, <1>9 DEF Up
  <2>2. ToldOfItself(c) /\ AheadOfServer(c)
    BY <2>1 DEF RosterInv, SelfKnown
  <2>3. NoneAbout(sent[c], c)
    BY <1>3, <1>4, <2>1, EmptyTells, SingletonElements DEF NoneAbout
  <2>4. ToldOfItself(c)'
    BY <1>1, <1>2, <1>6, <2>1, <2>2, <2>3, ToldOfOthers
  <2>5. AheadOfServer(c)'
    <3>1. ReadsNoEdit(c) /\ usersById'[c] = usersById[c]
      BY <1>2, <2>1 DEF ReadsNoEdit
    <3>2. synced' = synced /\ sessionUsers' = sessionUsers
      BY <1>1
    <3> QED
      BY <2>2, <3>1, <3>2, SheetStands, Zenon
  <2> QED
    BY <2>4, <2>5
<1> QED
  BY <1>7, <1>8, <1>9 DEF RosterInv, SelfKnown

\* Messages about nobody, to who is known, after a message that is no edit.
LEMMA SilentRoster ==
  ASSUME TypeInv, RosterInv, UNCHANGED <<link, usersById, clientVars>>,
         NEW sent \in [Client -> Seq(ToClientMessage)], ServerSends(sent),
         \A c \in Client : usersById[c] = NoUser => sent[c] = <<>>,
         \A c \in Client : \A k \in DOMAIN sent[c] :
           sent[c][k].method \notin {"GameSessionSync", "UserIn", "UserDataChanged", "UserOut"},
         NEW e \in Client, toServer[e] # <<>>, Head(toServer[e]).method # "CharacterChanged",
         toServer' = [toServer EXCEPT ![e] = Tail(@)]
  PROVE  RosterInv'
<1>1. UNCHANGED <<sessionUsers, synced>>
  BY DEF clientVars, rosterVars
<1>2. \A c \in Client : IF c = e THEN toServer'[c] = Tail(toServer[c]) ELSE toServer'[c] = toServer[c]
  BY DEF TypeInv, TypeOK, NetworkTypeOK
<1>3. \A c \in Client :
        /\ toClient[c] \in Seq(ToClientMessage) /\ sent[c] \in Seq(ToClientMessage)
        /\ Up(c) => toClient'[c] = toClient[c] \o sent[c]
        /\ ~Up(c) \/ usersById[c] = NoUser => toClient'[c] = <<>> /\ ~synced[c]
  BY Reaches
<1>4. \A c \in Client, d \in Client : NoneAbout(sent[c], d)
  BY DEF NoneAbout, About
<1>5. OthersKnown'
  <2> SUFFICES ASSUME NEW c \in Client, NEW d \in Client \ {c}, NEW u \in User \cup {NoUser},
                      WillKnow(toClient'[c], Known(c, d), d, u)
               PROVE  Agrees(d, u)
    BY <1>1 DEF OthersKnown, Agrees, Named, Known, WillKnow
  <2>1. CASE ~Up(c)
    BY <1>3, <2>1, EmptyTells DEF Known
  <2>2. CASE Up(c)
    BY <1>3, <1>4, <2>2, OtherNews DEF RosterInv, OthersKnown
  <2> QED
    BY <2>1, <2>2
<1>6. Unheard'
  BY <1>1, <1>3 DEF Unheard, Up
<1>7. ASSUME NEW c \in Client, Up(c)
      PROVE  (ToldOfItself(c) /\ AheadOfServer(c))'
  <2>1. ToldOfItself(c) /\ AheadOfServer(c)
    BY <1>7 DEF RosterInv, SelfKnown
  <2>2. ToldOfItself(c)'
    BY <1>1, <1>3, <1>4, <1>7, <2>1, ToldOfOthers
  <2>3. AheadOfServer(c)'
    <3>1. ReadsNoEdit(c)
      BY <1>2 DEF ReadsNoEdit
    <3>2. usersById'[c] = usersById[c] /\ synced' = synced /\ sessionUsers' = sessionUsers
      BY <1>1
    <3> QED
      BY <2>1, <3>1, <3>2, SheetStands, Zenon
  <2> QED
    BY <2>2, <2>3
<1> QED
  BY <1>5, <1>6, <1>7 DEF RosterInv, SelfKnown, Up

\* What was an edit to read is one the server has made.
LEMMA characterChangedRoster ==
  ASSUME TypeInv, RosterInv, NEW e \in Client, usersById[e] # NoUser, toServer[e] # <<>>,
         Head(toServer[e]).method = "CharacterChanged",
         toServer' = [toServer EXCEPT ![e] = Tail(@)],
         characterChanged(e, Head(toServer[e]).sheet), UNCHANGED <<link, clientVars>>
  PROVE  RosterInv'
<1>0. PICK sheet, user : sheet = Head(toServer[e]).sheet
                         /\ user = [usersById[e] EXCEPT !.sheet = sheet]
  OBVIOUS
<1> DEFINE m == [method |-> "UserDataChanged", id |-> e, user |-> user]
           sent == ToAll(Peers(e), m)
<1>1. /\ usersById' = [usersById EXCEPT ![e] = user] /\ ServerSends(sent)
      /\ UNCHANGED <<link, sessionUsers, synced>>
  BY <1>0 DEF characterChanged, clientVars, rosterVars
<1>2. /\ toServer[e] \in Seq(ToServerMessage) /\ Head(toServer[e]) \in ToServerMessage
      /\ 1 \in DOMAIN toServer[e] /\ toServer[e][1] = Head(toServer[e])
  BY TailElements DEF TypeInv, TypeOK, NetworkTypeOK
<1>3. sheet \in 0..MaxSheet /\ usersById[e] \in User
  BY <1>0, <1>2, ToServerFields DEF TypeInv, TypeOK, ServerTypeOK, Users
<1>4. user \in User /\ user # NoUser /\ user.named = usersById[e].named /\ user.sheet = sheet
      /\ \A v : [user EXCEPT !.sheet = v] = [usersById[e] EXCEPT !.sheet = v]
  BY <1>0, <1>3, NoUserIsNotAUser DEF User
<1>5. /\ usersById'[e] = user
      /\ \A d \in Client \ {e} : usersById'[d] = usersById[d] /\ toServer'[d] = toServer[d]
      /\ toServer'[e] = Tail(toServer[e])
  BY <1>1 DEF TypeInv, TypeOK, ServerTypeOK, NetworkTypeOK, Users
<1>6. m \in ToClientMessage /\ Tells(m, e) = user /\ \A d \in Client : About(m, d) <=> d = e
  BY <1>4 DEF ToClientMessage, Tells, About
<1>7. \A c \in Client : sent[c] = IF c \in Connected \ {e} THEN <<m>> ELSE <<>>
  BY DEF ToAll, Peers
<1> HIDE DEF m
<1>8. sent \in [Client -> Seq(ToClientMessage)]
  BY <1>6, ToAllType
<1> HIDE DEF sent
<1>9. \A c \in Client :
        /\ toClient[c] \in Seq(ToClientMessage) /\ sent[c] \in Seq(ToClientMessage)
        /\ Up(c) => toClient'[c] = toClient[c] \o sent[c]
        /\ ~Up(c) \/ usersById[c] = NoUser => toClient'[c] = <<>> /\ ~synced[c]
  BY <1>1, <1>7, <1>8, Reaches DEF Connected
<1>10. \A c \in Client : NoneAbout(sent[c], c) /\ (c = e => \A d \in Client : NoneAbout(sent[c], d))
  BY <1>6, <1>7, EmptyTells, SingletonElements DEF NoneAbout
<1>11. OthersKnown'
  <2> SUFFICES ASSUME NEW c \in Client, NEW d \in Client \ {c}, NEW u \in User \cup {NoUser},
                      WillKnow(toClient[c], Known(c, d), d, u)'
               PROVE  Agrees(d, u)'
    BY DEF OthersKnown
  <2>1. WillKnow(toClient'[c], Known(c, d), d, u)
    BY <1>1 DEF Known, WillKnow
  <2>2. CASE c = e
    <3>1. CASE Up(c)
      <4>1. WillKnow(toClient[c], Known(c, d), d, u)
        BY <1>9, <1>10, <2>1, <2>2, <3>1, OtherNews
      <4>2. Agrees(d, u)
        BY <4>1 DEF RosterInv, OthersKnown
      <4> QED
        BY <1>5, <2>2, <4>2 DEF Agrees, Named
    <3>2. CASE ~Up(c)
      BY <1>9, <2>1, <3>2, EmptyTells DEF Known
    <3> QED
      BY <3>1, <3>2
  <2>3. CASE c # e
    <3>1. Agrees(e, Tells(m, e))'
      BY <1>4, <1>5, <1>6 DEF Agrees, Named
    <3> QED
      BY <1>1, <1>5, <1>6, <1>7, <1>8, <2>3, <3>1, ServerTells
  <2> QED
    BY <2>2, <2>3
<1>12. Unheard'
  BY <1>1, <1>4, <1>5, <1>9 DEF RosterInv, Unheard, Up
<1>13. ASSUME NEW c \in Client, Up(c)
      PROVE  (ToldOfItself(c) /\ AheadOfServer(c))'
  <2>1. ToldOfItself(c) /\ AheadOfServer(c)
    BY <1>13 DEF RosterInv, SelfKnown
  <2>2. CASE c # e
    <3>1. ToldOfItself(c)'
      BY <1>1, <1>5, <1>9, <1>10, <1>13, <2>1, <2>2, ToldOfOthers
    <3>2. ReadsNoEdit(c) /\ usersById'[c] = usersById[c]
      BY <1>5, <2>2 DEF ReadsNoEdit
    <3>3. synced' = synced /\ sessionUsers' = sessionUsers
      BY <1>1
    <3>4. AheadOfServer(c)'
      BY <2>1, <3>2, <3>3, SheetStands, Zenon
    <3> QED
      BY <3>1, <3>4
  <2>3. CASE c = e
    <3>1. synced[c]
      BY <1>2, <2>1, <2>3 DEF AheadOfServer, NoEdit
    <3>2. NoneAbout(toClient'[c], c)
      <4>1. /\ toClient'[c] = toClient[c] \o sent[c] /\ toClient[c] \in Seq(ToClientMessage)
            /\ sent[c] = <<>>
        BY <1>7, <1>9, <1>13, <2>3
      <4>2. toClient'[c] = toClient[c]
        BY <4>1
      <4> QED
        BY <2>1, <3>1, <4>2 DEF ToldOfItself, NoneAbout
    <3>3. ToldOfItself(c)'
      BY <3>2 DEF ToldOfItself, NoneAbout
    <3>4. ASSUME NEW v \in 0..MaxSheet, WillHave(toServer'[c], usersById'[c].sheet, v)
          PROVE  v = sessionUsers[c][c].sheet
      <4>1. WillHave(Tail(toServer[c]), sheet, v)
        BY <1>4, <1>5, <2>3, <3>4
      <4>2. WillHave(toServer[c], usersById[c].sheet, v)
        BY <1>0, <1>2, <2>3, <4>1, EditRead
      <4> QED
        BY <2>1, <3>1, <4>2 DEF AheadOfServer
    <3>5. Named(c)' /\ sessionUsers[c][c] = [usersById'[c] EXCEPT !.sheet = sessionUsers[c][c].sheet]
      BY <1>4, <1>5, <2>1, <2>3, <3>1 DEF AheadOfServer, Named
    <3>6. AheadOfServer(c)'
      BY <1>1, <3>1, <3>4, <3>5 DEF AheadOfServer, WillHave
    <3> QED
      BY <3>3, <3>6
  <2> QED
    BY <2>2, <2>3
<1> QED
  BY <1>1, <1>11, <1>12, <1>13 DEF RosterInv, SelfKnown, Up

\* Who is let in is told of everyone, and everyone is told of who is let in.
LEMMA acceptHandshakeRoster ==
  ASSUME TypeInv, RosterInv, NEW e \in Client, usersById[e] # NoUser, ~Named(e), toServer[e] # <<>>,
         Head(toServer[e]).method = "Handshake",
         toServer' = [toServer EXCEPT ![e] = Tail(@)],
         acceptHandshake(e, Head(toServer[e]).character), UNCHANGED <<link, clientVars>>
  PROVE  RosterInv'
<1>1. PICK character, user, users :
        /\ character = Head(toServer[e]).character
        /\ user = [NewUser EXCEPT !.role = attributedRole(e, character),
                                  !.character = character, !.named = TRUE]
        /\ users = [usersById EXCEPT ![e] = user]
  OBVIOUS
<1>2. PICK session : session = gameSession(e, users)
  OBVIOUS
<1> DEFINE m == [method |-> "UserIn", id |-> e, user |-> user]
           sent == [ToAll(Peers(e), m) EXCEPT ![e] = <<session>>]
<1>3. usersById' = users /\ ServerSends(sent) /\ UNCHANGED <<link, sessionUsers, synced>>
  BY <1>1, <1>2 DEF acceptHandshake, clientVars, rosterVars
<1>4. /\ toServer[e] \in Seq(ToServerMessage) /\ Head(toServer[e]) \in ToServerMessage
      /\ 1 \in DOMAIN toServer[e] /\ toServer[e][1] = Head(toServer[e])
      /\ \A n \in DOMAIN Tail(toServer[e]) :
           n + 1 \in DOMAIN toServer[e] /\ Tail(toServer[e])[n] = toServer[e][n + 1]
  BY TailElements DEF TypeInv, TypeOK, NetworkTypeOK
<1>5. user \in User /\ user # NoUser /\ user.named
  <2>1. character \in Character \cup {NoCharacter}
    BY <1>1, <1>4, ToServerFields
  <2>2. attributedRole(e, character) \in Role
    BY DEF attributedRole, Role
  <2> QED
    BY <1>1, <2>1, <2>2, NewUserType, NoUserIsNotAUser DEF User, NewUser
<1>6. /\ users[e] = user /\ users \in Users
      /\ \A d \in Client \ {e} : users[d] = usersById[d] /\ toServer'[d] = toServer[d]
      /\ toServer'[e] = Tail(toServer[e])
  BY <1>1, <1>5 DEF TypeInv, TypeOK, ServerTypeOK, NetworkTypeOK, Users
<1>7. m \in ToClientMessage /\ Tells(m, e) = user /\ \A d \in Client : About(m, d) <=> d = e
  BY <1>5 DEF ToClientMessage, Tells, About
<1>8. /\ session \in ToClientMessage /\ session.method = "GameSessionSync" /\ session.users = users
      /\ \A d : About(session, d) /\ Tells(session, d) = users[d]
  BY <1>2, <1>6, gameSessionType DEF About, Tells, TypeInv, TypeOK
<1> HIDE DEF m
<1>9. ToAll(Peers(e), m) \in [Client -> Seq(ToClientMessage)]
  BY <1>7, ToAllType
<1>10. \A c \in Client : sent[c] = IF c = e THEN <<session>>
                                   ELSE IF c \in Connected THEN <<m>> ELSE <<>>
  BY <1>9 DEF ToAll, Peers
<1>11. sent \in [Client -> Seq(ToClientMessage)]
  <2>1. <<session>> \in Seq(ToClientMessage)
    BY <1>8, SingletonElements
  <2> QED
    BY <1>9, <2>1
<1> HIDE DEF sent
<1>12. \A c \in Client :
        /\ toClient[c] \in Seq(ToClientMessage) /\ sent[c] \in Seq(ToClientMessage)
        /\ Up(c) => toClient'[c] = toClient[c] \o sent[c]
        /\ ~Up(c) \/ usersById[c] = NoUser => toClient'[c] = <<>> /\ ~synced[c]
  BY <1>3, <1>10, <1>11, Reaches DEF Connected
<1>13. OthersKnown'
  <2> SUFFICES ASSUME NEW c \in Client, NEW d \in Client \ {c}, NEW u \in User \cup {NoUser},
                      WillKnow(toClient[c], Known(c, d), d, u)'
               PROVE  Agrees(d, u)'
    BY DEF OthersKnown
  <2>1. WillKnow(toClient'[c], Known(c, d), d, u)
    BY <1>3 DEF Known, WillKnow
  <2>2. CASE c = e
    <3>1. CASE Up(c)
      <4>1. toClient'[c] = toClient[c] \o <<session>> /\ toClient[c] \in Seq(ToClientMessage)
        BY <1>10, <1>12, <2>2, <3>1
      <4>2. u = users[d]
        BY <1>8, <2>1, <4>1, News
      <4> QED
        BY <1>3, <4>2 DEF Agrees, Named
    <3>2. CASE ~Up(c)
      BY <1>12, <2>1, <3>2, EmptyTells DEF Known
    <3> QED
      BY <3>1, <3>2
  <2>3. CASE c # e
    <3>1. Agrees(e, Tells(m, e))'
      BY <1>3, <1>5, <1>6, <1>7 DEF Agrees, Named
    <3>2. \A x \in Client \ {e} : sent[x] = IF x \in Connected THEN <<m>> ELSE <<>>
      BY <1>10
    <3> QED
      BY <1>3, <1>6, <1>7, <1>11, <2>3, <3>1, <3>2, ServerTells
  <2> QED
    BY <2>2, <2>3
<1>14. Unheard'
  BY <1>3, <1>5, <1>6, <1>12 DEF RosterInv, Unheard, Up
<1>15. ASSUME NEW c \in Client, Up(c)
      PROVE  (ToldOfItself(c) /\ AheadOfServer(c))'
  <2>1. ToldOfItself(c) /\ AheadOfServer(c)
    BY <1>15 DEF RosterInv, SelfKnown
  <2>2. CASE c # e
    <3>1. NoneAbout(sent[c], c)
      BY <1>7, <1>10, <2>2, EmptyTells, SingletonElements DEF NoneAbout
    <3>2. usersById'[c] = usersById[c]
      BY <1>3, <1>6, <2>2
    <3>3. synced' = synced /\ sessionUsers' = sessionUsers
      BY <1>3
    <3>4. ToldOfItself(c)'
      BY <1>12, <1>15, <2>1, <3>1, <3>2, <3>3, ToldOfOthers
    <3>5. ReadsNoEdit(c)
      BY <1>6, <2>2 DEF ReadsNoEdit
    <3>6. AheadOfServer(c)'
      BY <2>1, <3>2, <3>3, <3>5, SheetStands, Zenon
    <3> QED
      BY <3>4, <3>6
  <2>3. CASE c = e
    <3>1. ~synced[c] /\ NoEdit(toServer[c]) /\ NoneAbout(toClient[c], c)
      BY <2>1, <2>3 DEF AheadOfServer, ToldOfItself, NoneAbout
    <3>2. /\ toClient'[c] = toClient[c] \o <<session>> /\ toClient[c] \in Seq(ToClientMessage)
          /\ <<session>> \in Seq(ToClientMessage)
          /\ DOMAIN <<session>> = {1} /\ <<session>>[1] = session
      BY <1>8, <1>10, <1>12, <1>15, <2>3, SingletonElements
    <3>3. \A n \in DOMAIN toClient'[c] : About(toClient'[c][n], c) =>
            n = Len(toClient[c]) + 1 /\ toClient'[c][n] = session
      <4>1. \A n \in DOMAIN (toClient[c] \o <<session>>) :
              \/ n \in DOMAIN toClient[c] /\ (toClient[c] \o <<session>>)[n] = toClient[c][n]
              \/ /\ n - Len(toClient[c]) \in DOMAIN <<session>>
                 /\ (toClient[c] \o <<session>>)[n] = <<session>>[n - Len(toClient[c])]
        BY <3>2, ConcatElements
      <4>2. DOMAIN (toClient[c] \o <<session>>) \subseteq Nat /\ Len(toClient[c]) \in Nat
        BY <3>2, ConcatKeeps
      <4>3. \A n \in DOMAIN (toClient[c] \o <<session>>) :
              n - Len(toClient[c]) = 1 => n = Len(toClient[c]) + 1
        BY <4>2
      <4> QED
        BY <3>1, <3>2, <4>1, <4>3 DEF NoneAbout
    <3>4. ToldOfItself(c)'
      BY <1>3, <1>5, <1>6, <1>8, <2>3, <3>1, <3>3 DEF ToldOfItself, Named
    <3>5. AheadOfServer(c)'
      BY <1>3, <1>4, <1>6, <2>3, <3>1 DEF AheadOfServer, NoEdit
    <3> QED
      BY <3>4, <3>5
  <2> QED
    BY <2>2, <2>3
<1> QED
  BY <1>3, <1>13, <1>14, <1>15 DEF RosterInv, SelfKnown, Up

\* Only users in the table of roles are relayed a change.
LEMMA RelayedToListed ==
  ASSUME RolesInv, NEW c \in Client, NEW method, NEW p, NEW d \in Client, usersById[d] = NoUser
  PROVE  Relayed(c, method, p)[d] = <<>>
<1>1. \A r \in Role : d \notin socketsByRole[r]
  BY DEF RolesInv, RolesListNamed, Named
<1>2. d \notin socketsByRole["Host"] /\ d \notin withheld
  BY <1>1 DEF Role, withheld
<1> QED
  BY <1>2 DEF Relayed, ToAll

LEMMA onClientPayloadReceivedRoster ==
  ASSUME TypeInv, RolesInv, RosterInv, NEW e \in Client, onClientPayloadReceived(e),
         UNCHANGED clientVars
  PROVE  RosterInv'
<1> DEFINE m == Head(toServer[e])
<1>1. /\ usersById[e] # NoUser /\ toServer[e] # <<>> /\ UNCHANGED link
      /\ toServer' = [toServer EXCEPT ![e] = Tail(@)]
  BY DEF onClientPayloadReceived, Connected
<1>2. m \in ToServerMessage /\ 1 \in DOMAIN toServer[e] /\ toServer[e][1] = m
  BY <1>1, TailElements DEF TypeInv, TypeOK, NetworkTypeOK
<1>3. CASE m.method = "Handshake" /\ rejectVersion(e)
  <2> DEFINE status == [method |-> "ServerStatus"]
             sent == ToAll({e}, status)
  <2>1. status \in ToClientMessage /\ status.method = "ServerStatus"
    BY DEF ToClientMessage
  <2>2. ServerSends(sent) /\ UNCHANGED usersById
    BY <1>3 DEF rejectVersion, serverVars
  <2>3. \A c \in Client : c # e => sent[c] = <<>>
    BY DEF ToAll
  <2> HIDE DEF status
  <2>4. sent \in [Client -> Seq(ToClientMessage)]
        /\ \A c \in Client : \A k \in DOMAIN sent[c] : sent[c][k] = status
    BY <2>1, ToAllType
  <2> HIDE DEF sent
  <2> QED
    BY <1>1, <1>3, <2>1, <2>2, <2>3, <2>4, SilentRoster
<1>4. CASE m.method = "Handshake" /\ acceptHandshake(e, m.character)
  <2>1. ~Named(e)
    BY <1>2, <1>4 DEF RolesInv, HandshakeFirst
  <2> QED
    BY <1>1, <1>4, <2>1, acceptHandshakeRoster
<1>5. CASE m.method = "CharacterChanged" /\ characterChanged(e, m.sheet)
  BY <1>1, <1>5, characterChangedRoster
<1>6. CASE m.method = "AskForAssets" /\ sendAssets(e, m.hashes)
  <2>1. m.hashes \in SUBSET AnyHash
    BY <1>2, <1>6, ToServerFields
  <2>2. PICK sent \in [Client -> Seq(ToClientMessage)] :
          /\ ServerSends(sent) /\ UNCHANGED serverVars
          /\ \A d \in Client \ {e} : sent[d] = <<>>
          /\ \A d \in Client : \A k \in DOMAIN sent[d] : sent[d][k].method = "RequestedAsset"
    BY <1>6, <2>1, sendAssetsSent
  <2>3. UNCHANGED usersById
    BY <2>2 DEF serverVars
  <2> QED
    BY <1>1, <1>6, <2>2, <2>3, SilentRoster
<1>7. CASE m.method \in MapChange /\ broadcastMapChanges(e, m.method, m.payload)
  <2> DEFINE sent == Relayed(e, m.method, m.payload)
  <2>1. ServerSends(sent) /\ UNCHANGED usersById
    BY <1>7 DEF broadcastMapChanges, Relayed
  <2>2. m.payload \in Payload
    BY <1>2, <1>7, ToServerFields
  <2>3. /\ sent \in [Client -> Seq(ToClientMessage)]
        /\ \A d \in Client : \A k \in DOMAIN sent[d] : sent[d][k].method = m.method
    BY <1>7, <2>2, RelayedElements DEF TypeInv, TypeOK
  <2>4. \A d \in Client : usersById[d] = NoUser => sent[d] = <<>>
    BY RelayedToListed
  <2>5. m.method \notin {"GameSessionSync", "UserIn", "UserDataChanged", "UserOut", "CharacterChanged"}
    BY <1>7 DEF MapChange
  <2> HIDE DEF sent
  <2> QED
    BY <1>1, <2>1, <2>3, <2>4, <2>5, SilentRoster
<1> QED
  BY <1>3, <1>4, <1>5, <1>6, <1>7 DEF onClientPayloadReceived

---------------------------------------------------------------------------
(* Steps of a client *)

\* c alone may send, and sends no edit.
SendsNoEdit(c) ==
  /\ \A d \in Client \ {c} : toServer'[d] = toServer[d]
  /\ \/ toServer'[c] = toServer[c]
     \/ \E t \in Seq(ToServerMessage) : NoEdit(t) /\ toServer'[c] = toServer[c] \o t

LEMMA NoEditSent ==
  ASSUME TypeInv, NEW c \in Client, SendsNoEdit(c), NEW d \in Client
  PROVE  /\ NoEdit(toServer[d]) => NoEdit(toServer'[d])
         /\ \A sheet, v : WillHave(toServer'[d], sheet, v) => WillHave(toServer[d], sheet, v)
<1>1. CASE toServer'[d] = toServer[d]
  BY <1>1
<1>2. CASE d = c /\ \E t \in Seq(ToServerMessage) : NoEdit(t) /\ toServer'[c] = toServer[c] \o t
  <2>1. PICK t \in Seq(ToServerMessage) : NoEdit(t) /\ toServer'[d] = toServer[d] \o t
    BY <1>2
  <2>2. toServer[d] \in Seq(ToServerMessage)
    BY DEF TypeInv, TypeOK, NetworkTypeOK
  <2>3. \A n \in DOMAIN (toServer[d] \o t) :
          \/ n \in DOMAIN toServer[d] /\ (toServer[d] \o t)[n] = toServer[d][n]
          \/ \E k \in DOMAIN t : (toServer[d] \o t)[n] = t[k]
    BY <2>2, ConcatElements
  <2>4. NoEdit(toServer[d]) => NoEdit(toServer'[d])
    BY <2>1, <2>3 DEF NoEdit
  <2>5. \A sheet, v : WillHave(toServer'[d], sheet, v) => WillHave(toServer[d], sheet, v)
    BY <2>1, <2>2, OtherSends
  <2> QED
    BY <2>4, <2>5
<1> QED
  BY <1>1, <1>2 DEF SendsNoEdit

\* Nothing is read and no sheet edited.
LEMMA QuietRoster ==
  ASSUME TypeInv, RosterInv, UNCHANGED <<link, toClient, usersById, sessionUsers, synced>>,
         NEW c \in Client, SendsNoEdit(c)
  PROVE  RosterInv'
<1>1. OthersKnown'
  BY DEF RosterInv, OthersKnown, Known, Agrees, Named
<1>2. Unheard'
  BY DEF RosterInv, Unheard, Up
<1>3. ASSUME NEW d \in Client, Up(d)
      PROVE  (ToldOfItself(d) /\ AheadOfServer(d))'
  <2>1. ToldOfItself(d) /\ AheadOfServer(d)
    BY <1>3 DEF RosterInv, SelfKnown
  <2>2. ToldOfItself(d)'
    BY <2>1 DEF ToldOfItself, Named
  <2>3. AheadOfServer(d)'
    BY <2>1, NoEditSent, SameEdits
  <2> QED
    BY <2>2, <2>3
<1> QED
  BY <1>1, <1>2, <1>3 DEF RosterInv, SelfKnown, Up

LEMMA connectRoster ==
  ASSUME TypeInv, RolesInv, RosterInv, NEW c \in Client, connect(c), UNCHANGED serverVars
  PROVE  RosterInv'
<1>1. PICK character \in Incarnates[c] :
        toServer' = [toServer EXCEPT ![c] = <<[method |-> "Handshake", character |-> character]>>]
  BY DEF connect
<1>2. /\ link[c] = "idle" /\ link' = [link EXCEPT ![c] = "up"]
      /\ UNCHANGED <<toClient, usersById, sessionUsers, synced>>
  BY DEF connect, clientVars, rosterVars, serverVars
<1>3. /\ toServer'[c] = <<[method |-> "Handshake", character |-> character]>>
      /\ \A d \in Client \ {c} : toServer'[d] = toServer[d] /\ link'[d] = link[d]
  BY <1>1, <1>2 DEF TypeInv, TypeOK, NetworkTypeOK
<1>4. OthersKnown'
  BY <1>2 DEF RosterInv, OthersKnown, Known, Agrees, Named
<1>5. toClient[c] = <<>> /\ ~synced[c]
  BY <1>2 DEF RosterInv, Unheard, Up
<1>6. Unheard'
  BY <1>2, <1>3, <1>5 DEF RosterInv, Unheard, Up
<1>7. ASSUME NEW d \in Client, Up(d)'
      PROVE  (ToldOfItself(d) /\ AheadOfServer(d))'
  <2>1. CASE d = c
    <3>1. NoEdit(toServer'[c])
      BY <1>3 DEF NoEdit
    <3> QED
      BY <1>2, <1>5, <2>1, <3>1, EmptyTells DEF ToldOfItself, AheadOfServer, NoEdit
  <2>2. CASE d # c
    <3>1. ToldOfItself(d) /\ AheadOfServer(d)
      BY <1>3, <1>7, <2>2 DEF RosterInv, SelfKnown, Up
    <3>2. ToldOfItself(d)'
      BY <1>2, <3>1 DEF ToldOfItself, Named
    <3>3. AheadOfServer(d)'
      BY <1>2, <1>3, <2>2, <3>1, SameEdits
    <3> QED
      BY <3>2, <3>3
  <2> QED
    BY <2>1, <2>2
<1> QED
  BY <1>4, <1>6, <1>7 DEF RosterInv, SelfKnown

LEMMA endedRoster ==
  ASSUME TypeInv, RosterInv, NEW c \in Client, ended(c), UNCHANGED serverVars
  PROVE  RosterInv'
<1>1. /\ link' = [link EXCEPT ![c] = "down"] /\ toClient' = [toClient EXCEPT ![c] = <<>>]
      /\ sessionUsers' = [sessionUsers EXCEPT ![c] = NoUsers] /\ synced' = [synced EXCEPT ![c] = FALSE]
      /\ UNCHANGED <<toServer, usersById>>
  BY DEF ended, serverVars
<1>2. /\ link'[c] # "up" /\ toClient'[c] = <<>> /\ ~synced'[c]
      /\ \A d \in Client \ {c} : /\ link'[d] = link[d] /\ toClient'[d] = toClient[d]
                                /\ sessionUsers'[d] = sessionUsers[d] /\ synced'[d] = synced[d]
  BY <1>1 DEF TypeInv, TypeOK, NetworkTypeOK, ClientTypeOK
<1>3. OthersKnown'
  <2> SUFFICES ASSUME NEW x \in Client, NEW d \in Client \ {x}, NEW u \in User \cup {NoUser},
                      WillKnow(toClient[x], Known(x, d), d, u)'
               PROVE  Agrees(d, u)'
    BY DEF OthersKnown
  <2>1. CASE x = c
    BY <1>2, <2>1, EmptyTells DEF Known, WillKnow
  <2>2. CASE x # c
    <3>1. WillKnow(toClient[x], Known(x, d), d, u)
      BY <1>2, <2>2 DEF Known, WillKnow
    <3>2. Agrees(d, u)
      BY <3>1 DEF RosterInv, OthersKnown
    <3> QED
      BY <1>1, <3>2 DEF Agrees, Named
  <2> QED
    BY <2>1, <2>2
<1>4. Unheard'
  BY <1>1, <1>2 DEF RosterInv, Unheard, Up
<1>5. ASSUME NEW d \in Client, Up(d)'
      PROVE  (ToldOfItself(d) /\ AheadOfServer(d))'
  <2>1. d # c /\ Up(d)
    BY <1>2, <1>5 DEF Up
  <2>2. ToldOfItself(d) /\ AheadOfServer(d)
    BY <2>1 DEF RosterInv, SelfKnown
  <2>3. ToldOfItself(d)'
    BY <1>1, <1>2, <2>1, <2>2 DEF ToldOfItself, Named
  <2>4. AheadOfServer(d)'
    BY <1>1, <1>2, <2>1, <2>2, SameEdits
  <2> QED
    BY <2>3, <2>4
<1> QED
  BY <1>3, <1>4, <1>5 DEF RosterInv, SelfKnown

\* A message is read, and changes what is known of whom it is about.
LEMMA ReadRoster ==
  ASSUME TypeInv, RosterInv, NEW c \in Client, Up(c), toClient[c] # <<>>,
         toClient' = [toClient EXCEPT ![c] = Tail(@)], UNCHANGED <<link, usersById>>, SendsNoEdit(c),
         \A d \in Client \ {c} : sessionUsers'[d] = sessionUsers[d] /\ synced'[d] = synced[d],
         Head(toClient[c]).method = "GameSessionSync" =>
           synced'[c] /\ sessionUsers'[c] = Head(toClient[c]).users,
         Head(toClient[c]).method # "GameSessionSync" =>
           /\ synced'[c] = synced[c]
           /\ \A d \in Client : sessionUsers'[c][d] = IF About(Head(toClient[c]), d)
                                                    THEN Tells(Head(toClient[c]), d)
                                                    ELSE sessionUsers[c][d]
  PROVE  RosterInv'
<1>1. PICK m : m = Head(toClient[c])
  OBVIOUS
<1>2. /\ toClient[c] \in Seq(ToClientMessage) /\ 1 \in DOMAIN toClient[c] /\ toClient[c][1] = m
      /\ \A n \in DOMAIN Tail(toClient[c]) : /\ n \in Nat \ {0} /\ n + 1 \in DOMAIN toClient[c]
                                             /\ Tail(toClient[c])[n] = toClient[c][n + 1]
  BY <1>1, TailElements DEF TypeInv, TypeOK, NetworkTypeOK
<1>3. /\ toClient'[c] = Tail(toClient[c])
      /\ \A d \in Client \ {c} : toClient'[d] = toClient[d]
  BY DEF TypeInv, TypeOK, NetworkTypeOK
<1>4. OthersKnown'
  <2> SUFFICES ASSUME NEW x \in Client, NEW d \in Client \ {x}, NEW u \in User \cup {NoUser},
                      WillKnow(toClient[x], Known(x, d), d, u)'
               PROVE  Agrees(d, u)
    BY DEF OthersKnown, Agrees, Named
  <2>1. CASE x = c
    <3>1. PICK after : after = Known(c, d)'
      OBVIOUS
    <3>2. WillKnow(Tail(toClient[c]), after, d, u)
      BY <1>3, <2>1, <3>1 DEF WillKnow
    <3>3. About(m, d) => after \subseteq {Tells(m, d)}
      BY <1>1, <3>1 DEF Known, Tells
    <3>4. ~About(m, d) => after \subseteq Known(c, d)
      BY <1>1, <3>1 DEF Known, About
    <3>5. WillKnow(toClient[c], Known(c, d), d, u)
      BY <1>1, <1>2, <3>2, <3>3, <3>4, NewsRead
    <3> QED
      BY <2>1, <3>5 DEF RosterInv, OthersKnown
  <2>2. CASE x # c
    <3>1. WillKnow(toClient[x], Known(x, d), d, u)
      BY <1>3, <2>2 DEF Known, WillKnow
    <3> QED
      BY <3>1 DEF RosterInv, OthersKnown
  <2> QED
    BY <2>1, <2>2
<1>5. Unheard'
  BY <1>3 DEF RosterInv, Unheard, Up
<1>6. ASSUME NEW d \in Client, Up(d)
      PROVE  (ToldOfItself(d) /\ AheadOfServer(d))'
  <2>1. ToldOfItself(d) /\ AheadOfServer(d)
    BY <1>6 DEF RosterInv, SelfKnown
  <2>2. CASE d # c
    <3>1. ToldOfItself(d)'
      BY <1>3, <2>1, <2>2 DEF ToldOfItself, Named
    <3>2. AheadOfServer(d)'
      BY <2>1, <2>2, NoEditSent, SameEdits
    <3> QED
      BY <3>1, <3>2
  <2>3. CASE d = c /\ ~About(m, c)
    <3>1. synced'[c] = synced[c] /\ sessionUsers'[c][c] = sessionUsers[c][c]
      BY <1>1, <2>3 DEF About
    <3>2. ToldOfItself(c)
      BY <2>1, <2>3
    <3>3. ASSUME NEW n \in DOMAIN toClient'[c], About(toClient'[c][n], c)
          PROVE  /\ ~synced[c] /\ Named(c)
                 /\ toClient'[c][n].method = "GameSessionSync"
                 /\ toClient'[c][n].users[c] = usersById[c]
                 /\ \A k \in DOMAIN toClient'[c] : About(toClient'[c][k], c) => k = n
      <4>1. n \in Nat /\ n + 1 \in DOMAIN toClient[c] /\ toClient'[c][n] = toClient[c][n + 1]
        BY <1>2, <1>3
      <4>2. ASSUME NEW k \in DOMAIN toClient'[c], About(toClient'[c][k], c)
            PROVE  k = n
        <5>1. k \in Nat /\ k + 1 \in DOMAIN toClient[c] /\ toClient'[c][k] = toClient[c][k + 1]
          BY <1>2, <1>3
        <5>2. k + 1 = n + 1
          BY <3>2, <3>3, <4>1, <4>2, <5>1 DEF ToldOfItself
        <5> QED
          BY <4>1, <5>1, <5>2
      <4> QED
        BY <3>2, <3>3, <4>1, <4>2 DEF ToldOfItself
    <3>4. ToldOfItself(c)'
      BY <3>1, <3>3 DEF ToldOfItself, Named
    <3>5. AheadOfServer(c)'
      <4>1. CASE synced[c]
        <5>1. \A v \in 0..MaxSheet : WillHave(toServer'[c], usersById'[c].sheet, v)
                                      => v = sessionUsers'[c][c].sheet
          BY <2>1, <2>3, <3>1, <4>1, NoEditSent DEF AheadOfServer
        <5>2. /\ Named(c)'
              /\ sessionUsers'[c][c] = [usersById'[c] EXCEPT !.sheet = sessionUsers'[c][c].sheet]
          BY <2>1, <2>3, <3>1, <4>1 DEF AheadOfServer, Named
        <5> QED
          BY <3>1, <4>1, <5>1, <5>2 DEF AheadOfServer, WillHave
      <4>2. CASE ~synced[c]
        BY <2>1, <2>3, <3>1, <4>2, NoEditSent DEF AheadOfServer, NoEdit
      <4> QED
        BY <4>1, <4>2
    <3> QED
      BY <2>3, <3>4, <3>5
  <2>4. CASE d = c /\ About(m, c)
    <3>1. /\ ~synced[c] /\ Named(c) /\ m.method = "GameSessionSync" /\ m.users[c] = usersById[c]
          /\ \A k \in DOMAIN toClient[c] : About(toClient[c][k], c) => k = 1
      BY <1>2, <2>1, <2>4 DEF ToldOfItself
    <3>2. synced'[c] /\ sessionUsers'[c][c] = usersById[c]
      BY <1>1, <3>1
    <3>3. ASSUME NEW n \in DOMAIN toClient'[c]
          PROVE  ~About(toClient'[c][n], c)
      <4>1. n \in Nat \ {0} /\ n + 1 \in DOMAIN toClient[c] /\ toClient'[c][n] = toClient[c][n + 1]
        BY <1>2, <1>3
      <4>2. n + 1 # 1
        BY <4>1
      <4> QED
        BY <3>1, <4>1, <4>2
    <3>4. ToldOfItself(c)'
      BY <3>3 DEF ToldOfItself
    <3>5. NoEdit(toServer'[c])
      BY <2>1, <2>4, <3>1, NoEditSent DEF AheadOfServer
    <3>6. usersById[c] \in User
      BY <3>1 DEF Named, TypeInv, TypeOK, ServerTypeOK, Users
    <3>7. usersById[c] = [usersById[c] EXCEPT !.sheet = usersById[c].sheet]
      BY <3>6 DEF User
    <3>8. \A v : WillHave(toServer'[c], usersById[c].sheet, v) => v = usersById[c].sheet
      BY <3>5 DEF WillHave, NoEdit, LastEdit
    <3>9. AheadOfServer(c)'
      BY <3>1, <3>2, <3>7, <3>8 DEF AheadOfServer, Named, WillHave
    <3> QED
      BY <2>4, <3>4, <3>9
  <2> QED
    BY <2>2, <2>3, <2>4
<1> QED
  BY <1>4, <1>5, <1>6 DEF RosterInv, SelfKnown, Up

LEMMA ClientSendsNoEdit ==
  ASSUME TypeInv, NEW c \in Client, NEW t \in Seq(ToServerMessage), NoEdit(t), ClientSends(c, t)
  PROVE  SendsNoEdit(c)
<1>1. \A d \in Client \ {c} : toServer'[d] = toServer[d]
  BY ClientSendsElements DEF TypeInv, TypeOK
<1>2. CASE link[c] = "up"
  BY <1>1, <1>2, ClientSendsElements DEF TypeInv, TypeOK, SendsNoEdit
<1>3. CASE link[c] # "up"
  BY <1>1, <1>3 DEF ClientSends, SendsNoEdit
<1> QED
  BY <1>2, <1>3

LEMMA onMapChangeReceivedSendsNoEdit ==
  ASSUME TypeInv, NEW c \in Client, NEW heavy, NEW p \in Payload, NEW before,
         onMapChangeReceived(c, heavy, p, before)
  PROVE  SendsNoEdit(c)
<1> DEFINE m == [method |-> "AskForAssets", hashes |-> missingAssets(c, p)]
<1>1. CASE missingAssets(c, p) = {}
  <2>1. ClientSends(c, <<>>)
    BY <1>1 DEF onMapChangeReceived
  <2>2. <<>> \in Seq(ToServerMessage)
    OBVIOUS
  <2> QED
    BY <2>1, <2>2, EmptyTells, ClientSendsNoEdit
<1>2. CASE missingAssets(c, p) # {}
  <2>1. ClientSends(c, <<m>>)
    BY <1>2 DEF onMapChangeReceived
  <2>2. missingAssets(c, p) \in SUBSET AnyHash
    BY PayloadFields DEF missingAssets
  <2>3. m \in ToServerMessage /\ m.method # "CharacterChanged"
    BY <2>2 DEF ToServerMessage
  <2> HIDE DEF m
  <2>4. <<m>> \in Seq(ToServerMessage) /\ NoEdit(<<m>>)
    BY <2>3, SingletonElements DEF NoEdit
  <2> QED
    BY <2>1, <2>4, ClientSendsNoEdit
<1> QED
  BY <1>1, <1>2

LEMMA onPayloadReceivedRoster ==
  ASSUME TypeInv, RosterInv, NEW c \in Client, onPayloadReceived(c), UNCHANGED serverVars
  PROVE  RosterInv'
<1>1. PICK m : m = Head(toClient[c])
  OBVIOUS
<1>2. Up(c) /\ toClient[c] # <<>> /\ m \in ToClientMessage /\ UNCHANGED usersById
  BY <1>1, TailElements DEF onPayloadReceived, TypeInv, TypeOK, NetworkTypeOK, serverVars
<1>3. sessionUsers \in [Client -> Users] /\ synced \in [Client -> BOOLEAN]
  BY DEF TypeInv, TypeOK, ClientTypeOK
<1>4. CASE ended(c)
  BY <1>4, endedRoster
<1>5. CASE toClient' = [toClient EXCEPT ![c] = Tail(@)] /\ UNCHANGED link
  <2>1. UNCHANGED toServer => SendsNoEdit(c)
    BY DEF SendsNoEdit
  <2>2. CASE UNCHANGED <<toServer, synced>> /\ m.method \in {"UserIn", "UserDataChanged"}
             /\ sessionUsers' = [sessionUsers EXCEPT ![c][m.id] = m.user]
    <3>1. /\ \A d \in Client : sessionUsers'[c][d] = IF d = m.id THEN m.user ELSE sessionUsers[c][d]
          /\ \A d \in Client \ {c} : sessionUsers'[d] = sessionUsers[d]
      BY <1>3, <2>2 DEF Users
    <3>2. \A d \in Client : (About(m, d) <=> d = m.id) /\ Tells(m, d) = m.user
      BY <2>2 DEF About, Tells
    <3> QED
      BY <1>1, <1>2, <1>5, <2>1, <2>2, <3>1, <3>2, ReadRoster
  <2>3. CASE UNCHANGED <<toServer, synced>> /\ m.method = "UserOut"
             /\ sessionUsers' = [sessionUsers EXCEPT ![c][m.id] = NoUser]
    <3>1. /\ \A d \in Client : sessionUsers'[c][d] = IF d = m.id THEN NoUser ELSE sessionUsers[c][d]
          /\ \A d \in Client \ {c} : sessionUsers'[d] = sessionUsers[d]
      BY <1>3, <2>3 DEF Users
    <3>2. \A d \in Client : (About(m, d) <=> d = m.id) /\ Tells(m, d) = NoUser
      BY <2>3 DEF About, Tells
    <3> QED
      BY <1>1, <1>2, <1>5, <2>1, <2>3, <3>1, <3>2, ReadRoster
  <2>4. CASE m.method = "GameSessionSync" /\ gameSessionSync(c, m)
    <3>1. m.map \in Payload
      BY <1>2, <2>4, ToClientFields
    <3>2. SendsNoEdit(c)
      BY <2>1, <2>4, <3>1, onMapChangeReceivedSendsNoEdit DEF gameSessionSync
    <3>3. /\ synced'[c] /\ sessionUsers'[c] = m.users
          /\ \A d \in Client \ {c} : sessionUsers'[d] = sessionUsers[d] /\ synced'[d] = synced[d]
      BY <1>3, <2>4 DEF gameSessionSync
    <3> QED
      BY <1>1, <1>2, <1>5, <2>4, <3>2, <3>3, ReadRoster
  <2>5. CASE UNCHANGED <<sessionUsers, synced>> /\ m.method \in MapChange \cup {"RequestedAsset"}
             /\ SendsNoEdit(c)
    <3>1. \A d \in Client : ~About(m, d) /\ m.method # "GameSessionSync"
      BY <2>5 DEF About, MapChange
    <3> QED
      BY <1>1, <1>2, <1>5, <2>5, <3>1, ReadRoster
  <2>6. CASE m.method \in MapChange /\ mapChanged(c, m)
    <3>1. m.payload \in Payload
      BY <1>2, <2>6, ToClientFields
    <3>2. SendsNoEdit(c)
      BY <2>6, <3>1, onMapChangeReceivedSendsNoEdit DEF mapChanged
    <3> QED
      BY <2>5, <2>6, <3>2 DEF mapChanged, rosterVars
  <2>7. CASE m.method = "RequestedAsset" /\ requestedAsset(c, m.hash)
    BY <2>1, <2>5, <2>7 DEF requestedAsset, rosterVars
  <2>8. CASE m.method = "UserIn" /\ userIn(c, m.id, m.user)
    BY <2>2, <2>8 DEF userIn
  <2>9. CASE m.method = "UserOut" /\ userOut(c, m.id)
    BY <2>3, <2>9 DEF userOut
  <2>10. CASE m.method = "UserDataChanged" /\ userDataChanged(c, m.id, m.user)
    BY <2>2, <2>10 DEF userDataChanged
  <2> QED
    BY <1>1, <1>4, <2>4, <2>6, <2>7, <2>8, <2>9, <2>10 DEF onPayloadReceived
<1> QED
  BY <1>4, <1>5 DEF onPayloadReceived

\* An edit is known to its author before it is to the server.
LEMMA notifyCharacterChangeRoster ==
  ASSUME TypeInv, RosterInv, NEW c \in Client, notifyCharacterChange(c), UNCHANGED serverVars
  PROVE  RosterInv'
<1>1. PICK self, m : self = sessionUsers[c][c] /\ m = [method |-> "CharacterChanged", sheet |-> self.sheet + 1]
  OBVIOUS
<1>2. synced[c] /\ self \in User /\ identity(c) = self /\ self.sheet + 1 \in 0..MaxSheet
  <2>1. synced[c] /\ self \in User
    BY <1>1, notifyCharacterChangeType
  <2>2. identity(c) = self
    BY <1>1, <2>1 DEF identity
  <2>3. self.sheet < MaxSheet
    BY <2>2 DEF notifyCharacterChange
  <2>4. self.sheet \in 0..MaxSheet
    BY <2>1 DEF User
  <2> QED
    BY <2>1, <2>2, <2>3, <2>4, MaxSheetAssumption
<1>3. m \in ToServerMessage /\ m.method = "CharacterChanged" /\ m.sheet = self.sheet + 1
  BY <1>1, <1>2 DEF ToServerMessage
<1>4. /\ Up(c) /\ UNCHANGED <<link, toClient, usersById, synced>> /\ ClientSends(c, <<m>>)
      /\ sessionUsers' = [sessionUsers EXCEPT ![c][c].sheet = @ + 1]
  BY <1>1, <1>2 DEF notifyCharacterChange, serverVars
<1>5. /\ sessionUsers'[c][c] = [self EXCEPT !.sheet = self.sheet + 1]
      /\ \A d \in Client : d # c => /\ sessionUsers'[c][d] = sessionUsers[c][d]
                                    /\ sessionUsers'[d] = sessionUsers[d]
  BY <1>1, <1>4 DEF TypeInv, TypeOK, ClientTypeOK, Users
<1>6. /\ toServer[c] \in Seq(ToServerMessage) /\ toServer'[c] = toServer[c] \o <<m>>
      /\ \A d \in Client \ {c} : toServer'[d] = toServer[d]
  <2>1. <<m>> \in Seq(ToServerMessage)
    BY <1>3, SingletonElements
  <2> QED
    BY <1>4, <2>1, ClientSendsElements DEF Up, TypeInv, TypeOK, NetworkTypeOK
<1>7. OthersKnown'
  <2> SUFFICES ASSUME NEW x \in Client, NEW d \in Client \ {x}, NEW u \in User \cup {NoUser},
                      WillKnow(toClient[x], Known(x, d), d, u)'
               PROVE  Agrees(d, u)
    BY <1>4 DEF OthersKnown, Agrees, Named
  <2>1. WillKnow(toClient[x], Known(x, d), d, u)
    BY <1>4, <1>5 DEF Known, WillKnow
  <2> QED
    BY <2>1 DEF RosterInv, OthersKnown
<1>8. Unheard'
  BY <1>4 DEF RosterInv, Unheard, Up
<1>9. ASSUME NEW d \in Client, Up(d)
      PROVE  (ToldOfItself(d) /\ AheadOfServer(d))'
  <2>1. ToldOfItself(d) /\ AheadOfServer(d)
    BY <1>9 DEF RosterInv, SelfKnown
  <2>2. ToldOfItself(d)'
    BY <1>4, <2>1 DEF ToldOfItself, Named
  <2>3. CASE d # c
    <3>1. AheadOfServer(d)'
      BY <1>4, <1>5, <1>6, <2>1, <2>3, SameEdits
    <3> QED
      BY <2>2, <3>1
  <2>4. CASE d = c
    <3>1. Named(c) /\ self = [usersById[c] EXCEPT !.sheet = self.sheet]
      BY <1>1, <1>2, <2>1, <2>4 DEF AheadOfServer
    <3>2. usersById[c] \in User
      BY <3>1 DEF Named, TypeInv, TypeOK, ServerTypeOK, Users
    <3>3. [self EXCEPT !.sheet = self.sheet + 1] = [usersById[c] EXCEPT !.sheet = self.sheet + 1]
          /\ [self EXCEPT !.sheet = self.sheet + 1].sheet = self.sheet + 1
      BY <1>2, <3>1, <3>2 DEF User
    <3>4. \A v : WillHave(toServer'[c], usersById[c].sheet, v) => v = self.sheet + 1
      BY <1>3, <1>6, EditSent
    <3>5. AheadOfServer(c)'
      <4>1. synced'[c] /\ usersById' = usersById
        BY <1>2, <1>4
      <4>2. Named(c)'
        BY <3>1, <4>1 DEF Named
      <4>3. sessionUsers'[c][c] = [usersById[c] EXCEPT !.sheet = self.sheet + 1]
            /\ sessionUsers'[c][c].sheet = self.sheet + 1
        BY <1>5, <3>3
      <4>4. sessionUsers'[c][c] = [usersById'[c] EXCEPT !.sheet = sessionUsers'[c][c].sheet]
        BY <4>1, <4>3
      <4>5. \A v \in 0..MaxSheet :
              WillHave(toServer'[c], usersById'[c].sheet, v) => v = sessionUsers'[c][c].sheet
        BY <3>4, <4>1, <4>3
      <4> QED
        BY <4>1, <4>2, <4>4, <4>5 DEF AheadOfServer
    <3> QED
      BY <2>2, <2>4, <3>5
  <2> QED
    BY <2>3, <2>4
<1> QED
  BY <1>4, <1>7, <1>8, <1>9 DEF RosterInv, SelfKnown, Up

LEMMA ClientStepRoster ==
  ASSUME TypeInv, RolesInv, RosterInv, NEW c \in Client, ClientStep(c), UNCHANGED serverVars
  PROVE  RosterInv'
<1>1. UNCHANGED toServer => SendsNoEdit(c)
  BY DEF SendsNoEdit
<1>2. CASE queueAlteration(c)
  BY <1>1, <1>2, QuietRoster DEF queueAlteration, networkVars, rosterVars, serverVars
<1>3. CASE handlePosted(c)
  <2> DEFINE e == Head(clientInbox[c])
             m == [method |-> MethodOf(e.payload), payload |-> e.payload]
  <2>1. e.payload \in Payload
    <3>1. /\ clientInbox[c] \in Seq([op : {"alter", "history"}, payload : Payload])
          /\ clientInbox[c] # <<>>
      BY <1>3 DEF TypeInv, TypeOK, ClientTypeOK, handlePosted
    <3>2. e \in [op : {"alter", "history"}, payload : Payload]
      BY <3>1, TailElements
    <3> QED
      BY <3>2
  <2>2. m \in ToServerMessage /\ m.method # "CharacterChanged"
    BY <2>1 DEF ToServerMessage, MethodOf, MapChange
  <2>3. UNCHANGED toServer \/ ClientSends(c, <<m>>)
    BY <1>3 DEF handlePosted
  <2>4. UNCHANGED <<link, toClient, sessionUsers, synced, usersById>>
    BY <1>3 DEF handlePosted, rosterVars, serverVars
  <2> HIDE DEF m
  <2>5. <<m>> \in Seq(ToServerMessage) /\ NoEdit(<<m>>)
    BY <2>2, SingletonElements DEF NoEdit
  <2>6. SendsNoEdit(c)
    BY <1>1, <2>3, <2>5, ClientSendsNoEdit
  <2> QED
    BY <2>4, <2>6, QuietRoster
<1>4. CASE handleMapEvent(c)
  BY <1>1, <1>4, QuietRoster DEF handleMapEvent, networkVars, rosterVars, serverVars
<1> QED
  BY <1>2, <1>3, <1>4, connectRoster, endedRoster, onPayloadReceivedRoster,
     notifyCharacterChangeRoster DEF ClientStep, close

LEMMA RosterStep == TypeInv /\ RolesInv /\ RosterInv /\ [Next]_vars => RosterInv'
<1> SUFFICES ASSUME TypeInv, RolesInv, RosterInv, [Next]_vars
             PROVE  RosterInv'
  OBVIOUS
<1>1. CASE UNCHANGED vars
  <2>1. UNCHANGED <<link, toClient, toServer, usersById, sessionUsers, synced>>
    BY <1>1 DEF vars, networkVars, serverVars, clientVars, rosterVars
  <2>2. CASE Client = {}
    BY <2>2 DEF RosterInv, OthersKnown, Unheard, SelfKnown
  <2>3. CASE Client # {}
    BY <2>1, <2>3, QuietRoster DEF SendsNoEdit
  <2> QED
    BY <2>2, <2>3
<1>2. ASSUME NEW c \in Client, ServerStep(c), UNCHANGED clientVars
      PROVE  RosterInv'
  BY <1>2, onNewConnectionRoster, onClientSocketDisconnectedRoster, onClientPayloadReceivedRoster
     DEF ServerStep
<1>3. ASSUME NEW c \in Client, ClientStep(c), UNCHANGED serverVars
      PROVE  RosterInv'
  BY <1>3, ClientStepRoster
<1> QED
  BY <1>1, <1>2, <1>3 DEF Next

\* Once it has read all it was sent, a client knows every user as the server
\* does, up to edits of its own sheet that the server has yet to read: whatever
\* the connections, the edits, and the order in which users come and go. At any
\* moment what the messages on their way will make of its table is right.
THEOREM RosterAlwaysConverges == Spec => []RosterConverges
<1>1. Init => TypeInv /\ RolesInv /\ RosterInv
  BY TypeInit, RolesInit, RosterInit
<1>2. TypeInv /\ RolesInv /\ RosterInv /\ [Next]_vars => (TypeInv /\ RolesInv /\ RosterInv)'
  BY TypeStep, RolesStep, RosterStep
<1>3. TypeInv /\ RolesInv /\ RosterInv => RosterConverges
  BY RosterRight
<1> QED
  BY <1>1, <1>2, <1>3, PTL DEF Spec


---------------------------------------------------------------------------
(* What a queue makes of a map *)

MapEvent == [op : {"alter"}, payload : Payload] \cup {sessionReceived}
PostedEvent == [op : {"alter", "history"}, payload : Payload]

\* e, a message or an event posted to a thread, changes the atoms of who handles it.
altering(e) ==
  IF "op" \in DOMAIN e THEN e.op # "session"
  ELSE e.method \in MapChange \/ (e.method = "GameSessionSync" /\ e.full)

carried(e) ==
  IF "op" \notin DOMAIN e /\ e.method = "GameSessionSync" THEN e.map ELSE e.payload

Then(m, e) == IF altering(e) THEN AtomsAfter(m, carried(e)) ELSE m

NoneAlters(q) == \A n \in DOMAIN q : ~altering(q[n])

\* Handling what is in q turns the atoms m into M: by way of path[n], the atoms
\* after n elements, which are the last ones as soon as none is left that alters.
PathOf(path, m, q, M) ==
  /\ path[0] = m /\ path[Len(q)] = M
  /\ \A n \in 1..Len(q) : path[n] = Then(path[n - 1], q[n])
  /\ \A n \in 0..Len(q) : (\A k \in n + 1..Len(q) : ~altering(q[k])) => path[n] = M

Leads(m, q, M) == \E path \in [0..Len(q) -> Maps] : PathOf(path, m, q, M)

LEMMA EmptyLeads ==
  ASSUME NEW m \in Maps
  PROVE  /\ Leads(m, <<>>, m)
         /\ \A M : Leads(m, <<>>, M) => M = m
<1> DEFINE path == [n \in 0..0 |-> m]
<1>1. path \in [0..Len(<<>>) -> Maps] /\ PathOf(path, m, <<>>, m)
  BY DEF PathOf
<1> HIDE DEF path
<1>2. \A M : Leads(m, <<>>, M) => M = m
  BY DEF Leads, PathOf
<1> QED
  BY <1>1, <1>2 DEF Leads

\* A queue that alters nothing leaves the atoms as they are.
LEMMA QuietLeads ==
  ASSUME NEW S, NEW q \in Seq(S), NoneAlters(q), NEW m \in Maps
  PROVE  /\ Leads(m, q, m)
         /\ \A M : Leads(m, q, M) => M = m
<1>1. Len(q) \in Nat /\ DOMAIN q = 1..Len(q)
  BY LenProperties
<1>2. Leads(m, q, m)
  <2> DEFINE path == [n \in 0..Len(q) |-> m]
  <2>1. path \in [0..Len(q) -> Maps]
    OBVIOUS
  <2>2. path[0] = m /\ path[Len(q)] = m /\ \A n \in 0..Len(q) : path[n] = m
    BY <1>1
  <2>3. \A n \in 1..Len(q) : path[n] = Then(path[n - 1], q[n])
    BY <1>1 DEF Then, NoneAlters
  <2> HIDE DEF path
  <2>4. PathOf(path, m, q, m)
    BY <2>2, <2>3 DEF PathOf
  <2> QED
    BY <2>1, <2>4 DEF Leads
<1>3. ASSUME NEW M, Leads(m, q, M)
      PROVE  M = m
  <2>1. PICK path \in [0..Len(q) -> Maps] : PathOf(path, m, q, M)
    BY <1>3 DEF Leads
  <2>2. \A k \in 0 + 1..Len(q) : ~altering(q[k])
    BY <1>1 DEF NoneAlters
  <2>3. path[0] = M
    BY <1>1, <2>1, <2>2 DEF PathOf
  <2> QED
    BY <2>1, <2>3 DEF PathOf
<1> QED
  BY <1>2, <1>3

LEMMA LeadsType ==
  ASSUME NEW S, NEW q \in Seq(S), NEW m, NEW M, Leads(m, q, M)
  PROVE  m \in Maps /\ M \in Maps
<1>1. PICK path \in [0..Len(q) -> Maps] : PathOf(path, m, q, M)
  BY DEF Leads
<1>2. Len(q) \in Nat
  BY LenProperties
<1> QED
  BY <1>1, <1>2 DEF PathOf

\* The last element comes after all the others.
LEMMA LeadsOn ==
  ASSUME NEW S, NEW s \in Seq(S), NEW e \in S, NEW q, q = s \o <<e>>,
         NEW m, NEW M, Leads(m, s, M), Then(M, e) \in Maps
  PROVE  Leads(m, q, Then(M, e))
<1>1. /\ Len(s) \in Nat /\ Len(q) = Len(s) + 1 /\ q[Len(s) + 1] = e
      /\ \A n \in 1..Len(s) : q[n] = s[n]
  <2>1. <<e>> \in Seq(S) /\ Len(<<e>>) = 1 /\ <<e>>[1] = e
    OBVIOUS
  <2> QED
    BY <2>1, ConcatProperties, LenProperties
<1>2. PICK path \in [0..Len(s) -> Maps] : PathOf(path, m, s, M)
  BY DEF Leads
<1> DEFINE last == Then(M, e)
           longer == [n \in 0..Len(q) |-> IF n = Len(q) THEN last ELSE path[n]]
<1> HIDE DEF last
<1>3. longer \in [0..Len(q) -> Maps]
  BY <1>1 DEF last
<1>4. longer[Len(q)] = last /\ \A n \in 0..Len(s) : longer[n] = path[n]
  BY <1>1
<1> HIDE DEF longer
<1>5. longer[0] = m
  BY <1>1, <1>2, <1>4 DEF PathOf
<1>6. ASSUME NEW n \in 1..Len(q)
      PROVE  longer[n] = Then(longer[n - 1], q[n])
  <2>1. CASE n = Len(q)
    <3>1. n - 1 = Len(s) /\ longer[n - 1] = M
      BY <1>1, <1>2, <1>4, <2>1 DEF PathOf
    <3> QED
      BY <1>1, <1>4, <2>1, <3>1 DEF last
  <2>2. CASE n # Len(q)
    <3>1. n \in 1..Len(s) /\ n - 1 \in 0..Len(s) /\ n \in 0..Len(s)
      BY <1>1, <2>2
    <3>2. path[n] = Then(path[n - 1], s[n])
      BY <1>2, <3>1 DEF PathOf
    <3> QED
      BY <1>1, <1>4, <3>1, <3>2
  <2> QED
    BY <2>1, <2>2
<1>7. ASSUME NEW n \in 0..Len(q), \A k \in n + 1..Len(q) : ~altering(q[k])
      PROVE  longer[n] = last
  <2>1. CASE n = Len(q)
    BY <1>4, <2>1
  <2>2. CASE n # Len(q)
    <3>1. n \in 0..Len(s) /\ Len(q) \in n + 1..Len(q)
      BY <1>1, <2>2
    <3>2. last = M
      <4>1. ~altering(e)
        BY <1>1, <1>7, <3>1
      <4> QED
        BY <4>1 DEF last, Then
    <3>3. \A k \in n + 1..Len(s) : k \in 1..Len(s) /\ k \in n + 1..Len(q)
      BY <1>1, <3>1
    <3>4. \A k \in n + 1..Len(s) : ~altering(s[k])
      BY <1>1, <1>7, <3>3
    <3>5. path[n] = M
      BY <1>2, <3>1, <3>4 DEF PathOf
    <3> QED
      BY <1>4, <3>1, <3>2, <3>5
  <2> QED
    BY <2>1, <2>2
<1>8. PathOf(longer, m, q, last)
  BY <1>4, <1>5, <1>6, <1>7 DEF PathOf
<1>9. Leads(m, q, last)
  BY <1>3, <1>8 DEF Leads
<1> QED
  BY <1>9 DEF last

\* What alters nothing may follow.
LEMMA LeadsQuietly ==
  ASSUME NEW S, NEW s \in Seq(S), NEW t \in Seq(S), NoneAlters(t), NEW q, q = s \o t,
         NEW m, NEW M, Leads(m, s, M)
  PROVE  Leads(m, q, M)
<1>1. /\ Len(s) \in Nat /\ Len(t) \in Nat /\ Len(q) = Len(s) + Len(t)
      /\ \A n \in 1..Len(s) : q[n] = s[n]
      /\ \A n \in 1..Len(q) : n \notin 1..Len(s) => ~altering(q[n])
  <2>1. Len(s) \in Nat /\ Len(t) \in Nat /\ DOMAIN s = 1..Len(s) /\ DOMAIN t = 1..Len(t)
    BY LenProperties
  <2>2. /\ Len(s \o t) = Len(s) + Len(t) /\ s \o t \in Seq(S)
        /\ DOMAIN (s \o t) = 1..Len(s \o t)
    BY ConcatProperties, LenProperties
  <2>3. \A n \in DOMAIN s : (s \o t)[n] = s[n]
    BY ConcatKeeps
  <2>4. \A n \in DOMAIN (s \o t) :
          \/ n \in DOMAIN s
          \/ n - Len(s) \in DOMAIN t /\ (s \o t)[n] = t[n - Len(s)]
    BY ConcatElements
  <2> QED
    BY <2>1, <2>2, <2>3, <2>4 DEF NoneAlters
<1>2. PICK path \in [0..Len(s) -> Maps] : PathOf(path, m, s, M)
  BY DEF Leads
<1> DEFINE longer == [n \in 0..Len(q) |-> IF n \in 0..Len(s) THEN path[n] ELSE M]
<1>3. longer \in [0..Len(q) -> Maps]
  BY <1>1, LeadsType
<1>4. /\ \A n \in 0..Len(s) : longer[n] = path[n]
      /\ \A n \in 0..Len(q) : n \notin 0..Len(s) => longer[n] = M
  BY <1>1
<1> HIDE DEF longer
<1>5. longer[0] = m /\ longer[Len(q)] = M
  <2>1. path[0] = m /\ path[Len(s)] = M
    BY <1>2 DEF PathOf
  <2>2. 0 \in 0..Len(s) /\ Len(s) \in 0..Len(s) /\ Len(q) \in 0..Len(q)
        /\ (Len(q) \in 0..Len(s) => Len(q) = Len(s))
    BY <1>1
  <2> QED
    BY <1>4, <2>1, <2>2
<1>6. ASSUME NEW n \in 1..Len(q)
      PROVE  longer[n] = Then(longer[n - 1], q[n])
  <2>1. CASE n \in 1..Len(s)
    <3>1. n - 1 \in 0..Len(s) /\ n \in 0..Len(s)
      BY <1>1, <2>1
    <3>2. path[n] = Then(path[n - 1], s[n])
      BY <1>2, <2>1 DEF PathOf
    <3> QED
      BY <1>1, <1>4, <2>1, <3>1, <3>2
  <2>2. CASE n \notin 1..Len(s)
    <3>1. n \notin 0..Len(s) /\ n \in 0..Len(q) /\ n - 1 \in 0..Len(q)
          /\ (n - 1 \in 0..Len(s) => n - 1 = Len(s))
      BY <1>1, <2>2
    <3>2. path[Len(s)] = M
      BY <1>2 DEF PathOf
    <3>3. longer[n] = M
      BY <1>4, <3>1
    <3>4. longer[n - 1] = M
      <4>1. CASE n - 1 \in 0..Len(s)
        BY <1>1, <1>4, <3>1, <3>2, <4>1
      <4>2. CASE n - 1 \notin 0..Len(s)
        BY <1>4, <3>1, <4>2
      <4> QED
        BY <4>1, <4>2
    <3> QED
      BY <1>1, <2>2, <3>3, <3>4 DEF Then
  <2> QED
    BY <2>1, <2>2
<1>7. ASSUME NEW n \in 0..Len(q), \A k \in n + 1..Len(q) : ~altering(q[k])
      PROVE  longer[n] = M
  <2>1. CASE n \notin 0..Len(s)
    BY <1>4, <2>1
  <2>2. CASE n \in 0..Len(s)
    <3>1. \A k \in n + 1..Len(s) : k \in 1..Len(s) /\ k \in n + 1..Len(q)
      BY <1>1, <2>2
    <3>2. \A k \in n + 1..Len(s) : ~altering(s[k])
      BY <1>1, <1>7, <3>1
    <3>3. path[n] = M
      BY <1>2, <2>2, <3>2 DEF PathOf
    <3> QED
      BY <1>4, <2>2, <3>3
  <2> QED
    BY <2>1, <2>2
<1>8. PathOf(longer, m, q, M)
  BY <1>5, <1>6, <1>7 DEF PathOf
<1> QED
  BY <1>3, <1>8 DEF Leads

\* The first element comes before all the others.
LEMMA LeadsAfterFirst ==
  ASSUME NEW S, NEW q \in Seq(S), q # <<>>, NEW m, NEW M, Leads(m, q, M)
  PROVE  Leads(Then(m, Head(q)), Tail(q), M)
<1>1. /\ Len(q) \in Nat /\ Len(q) # 0 /\ Len(Tail(q)) = Len(q) - 1 /\ q[1] = Head(q)
      /\ \A n \in 1..Len(Tail(q)) : Tail(q)[n] = q[n + 1]
  BY HeadTailProperties, LenProperties, EmptySeq
<1>2. PICK path \in [0..Len(q) -> Maps] : PathOf(path, m, q, M)
  BY DEF Leads
<1> DEFINE t == Tail(q)
           first == Then(m, Head(q))
           shorter == [n \in 0..Len(t) |-> path[n + 1]]
<1>3. shorter \in [0..Len(t) -> Maps]
  BY <1>1
<1>4. \A n \in 0..Len(t) : shorter[n] = path[n + 1]
  BY <1>1
<1> HIDE DEF shorter
<1>5. shorter[0] = first /\ shorter[Len(t)] = M
  <2>1. path[0] = m /\ path[Len(q)] = M /\ path[1] = Then(path[1 - 1], q[1])
    BY <1>1, <1>2 DEF PathOf
  <2> QED
    BY <1>1, <1>4, <2>1
<1>6. ASSUME NEW n \in 1..Len(t)
      PROVE  shorter[n] = Then(shorter[n - 1], t[n])
  <2>1. n + 1 \in 1..Len(q) /\ n - 1 \in 0..Len(t) /\ n \in 0..Len(t) /\ (n + 1) - 1 = n
        /\ (n - 1) + 1 = n
    BY <1>1
  <2>2. path[n + 1] = Then(path[n], q[n + 1])
    BY <1>2, <2>1 DEF PathOf
  <2> QED
    BY <1>1, <1>4, <2>1, <2>2
<1>7. ASSUME NEW n \in 0..Len(t), \A k \in n + 1..Len(t) : ~altering(t[k])
      PROVE  shorter[n] = M
  <2>1. ASSUME NEW k \in (n + 1) + 1..Len(q)
        PROVE  ~altering(q[k])
    <3>1. k - 1 \in n + 1..Len(t) /\ k - 1 \in 1..Len(t) /\ (k - 1) + 1 = k
      BY <1>1
    <3>2. t[k - 1] = q[k]
      BY <1>1, <3>1
    <3> QED
      BY <1>7, <3>1, <3>2
  <2>2. n + 1 \in 0..Len(q)
    BY <1>1
  <2>3. path[n + 1] = M
    BY <1>2, <2>1, <2>2 DEF PathOf
  <2> QED
    BY <1>4, <2>3
<1> HIDE DEF t, first
<1>8. PathOf(shorter, first, t, M)
  BY <1>5, <1>6, <1>7 DEF PathOf
<1>9. Leads(first, t, M)
  BY <1>3, <1>8 DEF Leads
<1> QED
  BY <1>9 DEF t, first

\* What alters, of each kind of messages and events.
LEMMA EventThen ==
  /\ \A e \in MapEvent : \A m : Then(m, e) = IF e.op = "alter" THEN AtomsAfter(m, e.payload) ELSE m
  /\ \A e \in PostedEvent : \A m : Then(m, e) = AtomsAfter(m, e.payload)
<1>1. \A e \in MapEvent : "op" \in DOMAIN e /\ e.op \in {"alter", "session"}
  BY DEF MapEvent, sessionReceived
<1>2. \A e \in PostedEvent : "op" \in DOMAIN e /\ e.op \in {"alter", "history"}
  BY DEF PostedEvent
<1> QED
  BY <1>1, <1>2 DEF Then, altering, carried

LEMMA MessageThen ==
  /\ \A e \in ToServerMessage : \A m :
       /\ altering(e) <=> e.method \in MapChange
       /\ Then(m, e) = IF e.method \in MapChange THEN AtomsAfter(m, e.payload) ELSE m
  /\ \A e \in ToClientMessage : \A m :
       /\ altering(e) <=> e.method \in MapChange \/ (e.method = "GameSessionSync" /\ e.full)
       /\ e.method \in MapChange => Then(m, e) = AtomsAfter(m, e.payload)
       /\ e.method = "GameSessionSync" /\ e.full => Then(m, e) = AtomsAfter(m, e.map)
       /\ ~altering(e) => Then(m, e) = m
<1>1. \A e \in ToServerMessage : "op" \notin DOMAIN e
  BY DEF ToServerMessage
<1>2. \A e \in ToClientMessage : "op" \notin DOMAIN e
  BY DEF ToClientMessage
<1>3. "GameSessionSync" \notin MapChange
  BY DEF MapChange
<1>4. \A e \in ToServerMessage : e.method # "GameSessionSync"
  BY DEF ToServerMessage, MapChange
<1> QED
  BY <1>1, <1>2, <1>3, <1>4 DEF Then, altering, carried

LEMMA EventTypes ==
  ASSUME TypeInv, NEW c \in Client
  PROVE  /\ toServer[c] \in Seq(ToServerMessage) /\ toClient[c] \in Seq(ToClientMessage)
         /\ clientInbox[c] \in Seq(PostedEvent) /\ mapInbox[c] \in Seq(MapEvent)
         /\ map[c] \in Storage /\ map[c].atoms \in Maps
         /\ hints \in Storage /\ hints.atoms \in Maps
BY DEF TypeInv, TypeOK, NetworkTypeOK, ServerTypeOK, ClientTypeOK, PostedEvent, MapEvent, Storage

---------------------------------------------------------------------------
(* The server and the map of the host *)

NoChange(q) == \A n \in DOMAIN q : q[n].method \notin MapChange

\* c has yet to receive the session, or its map thread has.
Awaits(c) == ~synced[c] \/ \E n \in DOMAIN mapInbox[c] : mapInbox[c][n].op = "session"

\* Alterations come from the host only, which knows that it is.
HostAlters(c) ==
  /\ c \notin Host => clientInbox[c] = <<>> /\ NoChange(toServer[c])
  /\ synced[c] => (hostAble[c] <=> c \in Host)

\* And from nobody whose map thread has yet to hear of the session: the
\* history of the map goes first.
HistoryFirst(c) ==
  /\ ~synced[c] => mapInbox[c] = <<>>
  /\ ~Up(c) => mapInbox[c] = <<>> /\ clientInbox[c] = <<>>
  /\ Up(c) /\ Awaits(c) => clientInbox[c] = <<>> /\ NoChange(toServer[c])
  /\ synced[c] /\ c \in Host /\ Awaits(c) => mapInbox[c] = <<sessionReceived>>

\* Who is let in is sent a session, with the map unless it hosts, and changes
\* of the map after it only, unless it hosts.
SessionFirst(c) ==
  /\ \A n \in DOMAIN toClient[c] : toClient[c][n].method \in MapChange =>
       /\ Named(c) /\ c \notin Host
       /\ synced[c] \/ \E k \in DOMAIN toClient[c] :
                         k < n /\ toClient[c][k].method = "GameSessionSync"
  /\ \A n \in DOMAIN toClient[c] :
       toClient[c][n].method = "GameSessionSync" => (toClient[c][n].full <=> c \notin Host)
  /\ Up(c) /\ Named(c) => synced[c] \/ \E n \in DOMAIN toClient[c] :
                                         toClient[c][n].method = "GameSessionSync"

\* What the server will have, once it read all that the host sent and will
\* send of what is posted, is what the host will have once its map thread
\* handled what is posted.
HostLeads(c) ==
  c \in Host /\ Up(c) /\ ~Awaits(c) =>
    \E sent, posted \in Maps :
      /\ Leads(hints.atoms, toServer[c], sent)
      /\ Leads(sent, clientInbox[c], posted)
      /\ Leads(map[c].atoms, mapInbox[c], posted)

MirrorOf(c) == HostAlters(c) /\ HistoryFirst(c) /\ SessionFirst(c) /\ HostLeads(c)

MirrorInv == \A c \in Client : MirrorOf(c)

LEMMA MirrorInit == Init => MirrorInv
<1> SUFFICES ASSUME Init, NEW c \in Client
             PROVE  MirrorOf(c)
  BY DEF MirrorInv
<1>1. /\ toServer[c] = <<>> /\ toClient[c] = <<>> /\ clientInbox[c] = <<>> /\ mapInbox[c] = <<>>
      /\ ~synced[c] /\ ~Named(c) /\ c \notin Host
  BY DEF Init, NetworkInit, ServerInit, ClientInit, NoUsers, Named, Host, Role
<1>2. \A n : n \notin DOMAIN <<>>
  OBVIOUS
<1> QED
  BY <1>1, <1>2 DEF MirrorOf, HostAlters, HistoryFirst, SessionFirst, HostLeads, Awaits, NoChange

LEMMA NoChangeAlters ==
  ASSUME NEW q \in Seq(ToServerMessage), NoChange(q)
  PROVE  NoneAlters(q)
<1>1. \A n \in DOMAIN q : q[n] \in ToServerMessage
  BY ElementOfSeq, LenProperties
<1> QED
  BY <1>1, MessageThen DEF NoneAlters, NoChange

LEMMA MirrorRight == TypeInv /\ MirrorInv => ServerMirrorsHost
<1> SUFFICES ASSUME TypeInv, MirrorInv, MapIsQuiet, NEW c \in Client, c \in Host, Up(c), synced[c]
             PROVE  hints.atoms = map[c].atoms
  BY DEF ServerMirrorsHost, Host, TypeInv, TypeOK, ServerTypeOK, Role
<1>1. clientInbox[c] = <<>> /\ mapInbox[c] = <<>> /\ NoneAlters(toServer[c])
  <2>1. clientInbox[c] = <<>> /\ mapInbox[c] = <<>> /\ NoChange(toServer[c])
    BY DEF MapIsQuiet, Pending, NoChange
  <2> QED
    BY <2>1, EventTypes, NoChangeAlters
<1>2. ~Awaits(c)
  BY <1>1 DEF Awaits
<1>3. PICK sent, posted \in Maps :
        /\ Leads(hints.atoms, toServer[c], sent)
        /\ Leads(sent, clientInbox[c], posted)
        /\ Leads(map[c].atoms, mapInbox[c], posted)
  BY <1>2 DEF MirrorInv, MirrorOf, HostLeads
<1>4. sent = hints.atoms
  BY <1>1, <1>3, QuietLeads, EventTypes
<1>5. posted = sent
  BY <1>1, <1>3, EmptyLeads
<1>6. posted = map[c].atoms
  BY <1>1, <1>3, EmptyLeads, EventTypes
<1> QED
  BY <1>4, <1>5, <1>6

\* The state of a client, at both ends.
SameFor(d) ==
  /\ link'[d] = link[d] /\ toServer'[d] = toServer[d] /\ toClient'[d] = toClient[d]
  /\ synced'[d] = synced[d] /\ hostAble'[d] = hostAble[d]
  /\ clientInbox'[d] = clientInbox[d] /\ mapInbox'[d] = mapInbox[d] /\ map'[d] = map[d]

LEMMA SameMirror ==
  ASSUME NEW d \in Client, MirrorOf(d), SameFor(d), UNCHANGED serverVars
  PROVE  MirrorOf(d)'
<1>1. UNCHANGED <<usersById, socketsByRole, hints>>
  BY DEF serverVars
<1> USE <1>1 DEF SameFor
<1>2. HostAlters(d)'
  BY DEF MirrorOf, HostAlters, Host, NoChange
<1>3. HistoryFirst(d)'
  BY DEF MirrorOf, HistoryFirst, Host, NoChange, Awaits, Up
<1>4. SessionFirst(d)'
  BY DEF MirrorOf, SessionFirst, Host, Named, Up
<1>5. HostLeads(d)'
  BY DEF MirrorOf, HostLeads, Host, Awaits, Up
<1> QED
  BY <1>2, <1>3, <1>4, <1>5 DEF MirrorOf

\* Nothing about the map is read from c or sent to it. What is lost of c is
\* of a connection that ended.
Undisturbed(c, sent) ==
  /\ link'[c] = link[c] \/ (link[c] # "up" /\ link'[c] # "up")
  /\ \A k \in DOMAIN sent[c] : sent[c][k].method \notin MapChange \cup {"GameSessionSync"}
  /\ \/ toServer'[c] = toServer[c]
     \/ /\ toServer[c] # <<>> /\ toServer'[c] = Tail(toServer[c])
        /\ Head(toServer[c]).method \notin MapChange
     \/ link[c] # "up" /\ toServer'[c] = <<>>
  /\ \/ (Named(c)' <=> Named(c)) /\ (c \in Host' <=> c \in Host)
     \/ link[c] # "up" /\ c \notin Host' /\ toServer'[c] = <<>>

\* A step of the server that leaves what it has of the map of c as it was.
QuietStep(c) ==
  \E sent \in [Client -> Seq(ToClientMessage)] :
    /\ ServerSends(sent) /\ Undisturbed(c, sent)
    /\ usersById[c] = NoUser => sent[c] = <<>>

LEMMA NoChangeLeft ==
  ASSUME NEW S, NEW q \in Seq(S), q # <<>>, NoChange(q)
  PROVE  NoChange(Tail(q))
BY TailElements DEF NoChange

\* Messages that are not about the map follow.
LEMMA UndisturbedSent ==
  ASSUME NEW s \in Seq(ToClientMessage), NEW t \in Seq(ToClientMessage), NEW q, q = s \o t,
         \A k \in DOMAIN t : t[k].method \notin MapChange \cup {"GameSessionSync"}
  PROVE  /\ \A n \in DOMAIN s : n \in DOMAIN q /\ q[n] = s[n]
         /\ \A n \in DOMAIN q : q[n].method \in MapChange \cup {"GameSessionSync"} =>
              n \in DOMAIN s /\ q[n] = s[n]
         /\ NoneAlters(t)
<1>1. \A n \in DOMAIN s : n \in DOMAIN (s \o t) /\ (s \o t)[n] = s[n]
  BY ConcatKeeps
<1>2. \A n \in DOMAIN (s \o t) : \/ n \in DOMAIN s /\ (s \o t)[n] = s[n]
                                 \/ \E k \in DOMAIN t : (s \o t)[n] = t[k]
  BY ConcatElements
<1>3. NoneAlters(t)
  <2>1. \A k \in DOMAIN t : t[k] \in ToClientMessage
    BY ElementOfSeq, LenProperties
  <2> QED
    BY <2>1, MessageThen DEF NoneAlters
<1> QED
  BY <1>1, <1>2, <1>3

LEMMA QuietStepMirror ==
  ASSUME TypeInv, RosterInv, UNCHANGED <<hints, clientVars>>, NEW c \in Client, MirrorOf(c),
         QuietStep(c)
  PROVE  MirrorOf(c)'
<1>0. PICK sent \in [Client -> Seq(ToClientMessage)] :
        /\ ServerSends(sent) /\ Undisturbed(c, sent)
        /\ usersById[c] = NoUser => sent[c] = <<>>
  BY DEF QuietStep
<1>1. UNCHANGED <<synced, hostAble, clientInbox, mapInbox, map>>
  BY DEF clientVars, rosterVars, mapVars
<1>2. /\ toClient[c] \in Seq(ToClientMessage) /\ sent[c] \in Seq(ToClientMessage)
      /\ Up(c) => toClient'[c] = toClient[c] \o sent[c]
      /\ ~Up(c) => toClient[c] = <<>> /\ toClient'[c] = <<>> /\ ~synced[c]
  BY <1>0, Reaches
<1>3. toServer[c] \in Seq(ToServerMessage)
  BY EventTypes
<1>4. NoChange(toServer[c]) => NoChange(toServer'[c])
  <2>1. NoChange(<<>>)
    BY DEF NoChange
  <2>2. toServer[c] # <<>> /\ NoChange(toServer[c]) => NoChange(Tail(toServer[c]))
    BY <1>3, NoChangeLeft
  <2> QED
    BY <1>0, <2>1, <2>2 DEF Undisturbed
<1>5. Up(c)' <=> Up(c)
  BY <1>0 DEF Undisturbed, Up
<1>6. HostAlters(c)'
  <2>1. NoChange(<<>>)
    BY DEF NoChange
  <2>2. CASE (Named(c)' <=> Named(c)) /\ (c \in Host' <=> c \in Host)
    BY <1>1, <1>4, <2>2 DEF MirrorOf, HostAlters, NoChange
  <2>3. CASE ~Up(c) /\ toServer'[c] = <<>>
    BY <1>1, <1>2, <2>1, <2>3 DEF MirrorOf, HostAlters, HistoryFirst, NoChange
  <2> QED
    BY <1>0, <2>2, <2>3 DEF Undisturbed, Up
<1>7. HistoryFirst(c)'
  BY <1>0, <1>1, <1>2, <1>4, <1>5 DEF MirrorOf, HistoryFirst, Awaits, NoChange, Undisturbed, Up
<1>8. SessionFirst(c)'
  <2>1. CASE ~Up(c)
    <3>1. \A n : n \notin DOMAIN <<>>
      OBVIOUS
    <3> QED
      BY <1>2, <1>5, <2>1, <3>1 DEF SessionFirst
  <2>2. CASE Up(c)
    <3>1. (Named(c)' <=> Named(c)) /\ (c \in Host' <=> c \in Host)
      BY <1>0, <2>2 DEF Undisturbed, Up
    <3>2. /\ \A n \in DOMAIN toClient[c] : n \in DOMAIN toClient'[c] /\ toClient'[c][n] = toClient[c][n]
          /\ \A n \in DOMAIN toClient'[c] :
               toClient'[c][n].method \in MapChange \cup {"GameSessionSync"} =>
                 n \in DOMAIN toClient[c] /\ toClient'[c][n] = toClient[c][n]
      <4>1. \A k \in DOMAIN sent[c] : sent[c][k].method \notin MapChange \cup {"GameSessionSync"}
        BY <1>0 DEF Undisturbed
      <4>2. toClient'[c] = toClient[c] \o sent[c]
        BY <1>2, <2>2
      <4> QED
        BY <1>2, <4>1, <4>2, UndisturbedSent
    <3>3. SessionFirst(c)
      BY DEF MirrorOf
    <3>4. \A n \in DOMAIN toClient'[c] : toClient'[c][n].method \in MapChange =>
            /\ Named(c) /\ c \notin Host
            /\ synced[c] \/ \E k \in DOMAIN toClient'[c] :
                              k < n /\ toClient'[c][k].method = "GameSessionSync"
      BY <3>2, <3>3 DEF SessionFirst
    <3>5. \A n \in DOMAIN toClient'[c] :
            toClient'[c][n].method = "GameSessionSync" => (toClient'[c][n].full <=> c \notin Host)
      BY <3>2, <3>3 DEF SessionFirst
    <3>6. Named(c) => synced[c] \/ \E n \in DOMAIN toClient'[c] :
                                     toClient'[c][n].method = "GameSessionSync"
      BY <2>2, <3>2, <3>3 DEF SessionFirst
    <3> QED
      BY <1>1, <3>1, <3>4, <3>5, <3>6 DEF SessionFirst
  <2> QED
    BY <2>1, <2>2
<1>9. HostLeads(c)'
  <2> SUFFICES ASSUME c \in Host', Up(c)', ~Awaits(c)'
               PROVE  \E s, posted \in Maps : /\ Leads(hints.atoms, toServer'[c], s)
                                              /\ Leads(s, clientInbox[c], posted)
                                              /\ Leads(map[c].atoms, mapInbox[c], posted)
    BY <1>1 DEF HostLeads
  <2>1. c \in Host /\ Up(c) /\ ~Awaits(c)
    BY <1>0, <1>1, <1>5 DEF Undisturbed, Up, Awaits
  <2>2. PICK s, posted \in Maps : /\ Leads(hints.atoms, toServer[c], s)
                                  /\ Leads(s, clientInbox[c], posted)
                                  /\ Leads(map[c].atoms, mapInbox[c], posted)
    BY <2>1 DEF MirrorOf, HostLeads
  <2>3. CASE toServer'[c] = toServer[c]
    BY <2>2, <2>3
  <2>4. CASE /\ toServer[c] # <<>> /\ toServer'[c] = Tail(toServer[c])
             /\ Head(toServer[c]).method \notin MapChange
    <3>1. Leads(Then(hints.atoms, Head(toServer[c])), toServer'[c], s)
      BY <1>3, <2>2, <2>4, LeadsAfterFirst
    <3>2. Then(hints.atoms, Head(toServer[c])) = hints.atoms
      BY <1>3, <2>4, TailElements, MessageThen
    <3> QED
      BY <2>2, <3>1, <3>2
  <2> QED
    BY <1>0, <2>1, <2>3, <2>4 DEF Undisturbed, Up
<1> QED
  BY <1>6, <1>7, <1>8, <1>9 DEF MirrorOf

LEMMA onNewConnectionQuiet ==
  ASSUME TypeInv, NEW e \in Client, onNewConnection(e)
  PROVE  UNCHANGED hints /\ \A c \in Client : QuietStep(c)
<1>1. /\ usersById[e] = NoUser /\ usersById' = [usersById EXCEPT ![e] = NewUser]
      /\ UNCHANGED <<link, toServer, toClient, socketsByRole, hints>>
  BY DEF onNewConnection, networkVars, Connected
<1>2. \A c \in Client : Named(c)' <=> Named(c)
  BY <1>1, NewUserType, NoUserIsNotAUser DEF TypeInv, TypeOK, ServerTypeOK, Users, Named, NewUser
<1> DEFINE sent == [c \in Client |-> <<>>]
<1>3. sent \in [Client -> Seq(ToClientMessage)]
  OBVIOUS
<1>4. ServerSends(sent)
  <2>1. toClient \in [Client -> Seq(ToClientMessage)]
    BY DEF TypeInv, TypeOK, NetworkTypeOK
  <2>2. \A c \in Client : toClient[c] \o sent[c] = toClient[c]
    BY <2>1
  <2>3. toClient = [c \in Client |-> toClient[c]]
    BY <2>1
  <2> HIDE DEF sent
  <2> QED
    BY <1>1, <2>2, <2>3 DEF ServerSends
<1> SUFFICES ASSUME NEW c \in Client
             PROVE  QuietStep(c)
  BY <1>1
<1>5. sent[c] = <<>>
  OBVIOUS
<1> HIDE DEF sent
<1>6. Undisturbed(c, sent)
  <2>1. \A k : k \notin DOMAIN <<>>
    OBVIOUS
  <2> QED
    BY <1>1, <1>2, <1>5, <2>1 DEF Undisturbed, Host
<1> QED
  BY <1>3, <1>4, <1>5, <1>6 DEF QuietStep

LEMMA onClientSocketDisconnectedQuiet ==
  ASSUME TypeInv, RolesInv, NEW e \in Client, onClientSocketDisconnected(e)
  PROVE  UNCHANGED hints /\ \A c \in Client : QuietStep(c)
<1> DEFINE m == [method |-> "UserOut", id |-> e]
           sent == ToAll(Peers(e), m)
           role == usersById[e].role
<1>1. /\ link[e] = "down" /\ link' = [link EXCEPT ![e] = "gone"] /\ usersById[e] # NoUser
      /\ toServer' = [toServer EXCEPT ![e] = <<>>]
      /\ usersById' = [usersById EXCEPT ![e] = NoUser]
      /\ socketsByRole' = [socketsByRole EXCEPT ![role] = @ \ {e}]
      /\ ServerSends(sent) /\ UNCHANGED hints
  BY DEF onClientSocketDisconnected, Connected
<1>2. /\ \A d \in Client \ {e} : usersById'[d] = usersById[d] /\ toServer'[d] = toServer[d]
                                /\ link'[d] = link[d]
      /\ link'[e] # "up" /\ toServer'[e] = <<>>
  BY <1>1 DEF TypeInv, TypeOK, ServerTypeOK, NetworkTypeOK, Users
<1>3. /\ e \notin Host'
      /\ \A d \in Client \ {e} : d \in Host' <=> d \in Host
  <2>1. socketsByRole \in [Role -> SUBSET Client] /\ "Host" \in Role
    BY DEF TypeInv, TypeOK, ServerTypeOK, Role
  <2>2. e \in socketsByRole["Host"] => role = "Host"
    BY <2>1 DEF RolesInv, RolesListNamed
  <2> QED
    BY <1>1, <2>1, <2>2 DEF Host
<1>4. m \in ToClientMessage /\ m.method \notin MapChange \cup {"GameSessionSync"}
  BY DEF ToClientMessage, MapChange
<1>5. \A c \in Client : usersById[c] = NoUser => sent[c] = <<>>
  BY DEF ToAll, Peers, Connected
<1> HIDE DEF m
<1>6. /\ sent \in [Client -> Seq(ToClientMessage)]
      /\ \A c \in Client : \A k \in DOMAIN sent[c] : sent[c][k] = m
  BY <1>4, ToAllType
<1> HIDE DEF sent
<1> SUFFICES ASSUME NEW c \in Client
             PROVE  QuietStep(c)
  BY <1>1
<1>7. Undisturbed(c, sent)
  <2>1. CASE c = e
    BY <1>1, <1>2, <1>3, <1>4, <1>6, <2>1 DEF Undisturbed
  <2>2. CASE c # e
    <3>1. Named(c)' <=> Named(c)
      BY <1>2, <2>2 DEF Named
    <3> QED
      BY <1>2, <1>3, <1>4, <1>6, <2>2, <3>1 DEF Undisturbed
  <2> QED
    BY <2>1, <2>2
<1> QED
  BY <1>1, <1>5, <1>6, <1>7 DEF QuietStep

\* What one message adds at the end of a queue.
LEMMA OneMore ==
  ASSUME NEW S, NEW s \in Seq(S), NEW e \in S, NEW q, q = s \o <<e>>
  PROVE  /\ Len(s) \in Nat /\ Len(s) + 1 \in DOMAIN q /\ q[Len(s) + 1] = e
         /\ \A n \in DOMAIN s : n \in DOMAIN q /\ q[n] = s[n] /\ n < Len(s) + 1
         /\ \A n \in DOMAIN q : \/ n \in DOMAIN s /\ q[n] = s[n]
                                \/ n = Len(s) + 1 /\ q[n] = e
<1>1. <<e>> \in Seq(S) /\ DOMAIN <<e>> = {1} /\ <<e>>[1] = e
  BY SingletonElements
<1>2. /\ \A n \in DOMAIN s : n \in DOMAIN (s \o <<e>>) /\ (s \o <<e>>)[n] = s[n] /\ n <= Len(s)
      /\ \A n \in DOMAIN <<e>> : Len(s) + n \in DOMAIN (s \o <<e>>)
                                 /\ (s \o <<e>>)[Len(s) + n] = <<e>>[n]
      /\ Len(s) \in Nat /\ DOMAIN s \subseteq Nat /\ DOMAIN (s \o <<e>>) \subseteq Nat
  BY <1>1, ConcatKeeps
<1>3. \A n \in DOMAIN (s \o <<e>>) :
        \/ n \in DOMAIN s /\ (s \o <<e>>)[n] = s[n]
        \/ n - Len(s) \in DOMAIN <<e>> /\ (s \o <<e>>)[n] = <<e>>[n - Len(s)]
  BY <1>1, ConcatElements
<1>4. Len(s) + 1 \in DOMAIN q /\ q[Len(s) + 1] = e
  BY <1>1, <1>2
<1>5. \A n \in DOMAIN s : n \in DOMAIN q /\ q[n] = s[n] /\ n < Len(s) + 1
  BY <1>2
<1>6. \A n \in DOMAIN q : n - Len(s) = 1 => n = Len(s) + 1
  BY <1>2
<1> QED
  BY <1>1, <1>2, <1>3, <1>4, <1>5, <1>6

\* The server lets e in.
LetsIn(e) ==
  /\ usersById[e] # NoUser /\ ~Named(e)
  /\ toServer[e] # <<>> /\ Head(toServer[e]).method = "Handshake"
  /\ toServer' = [toServer EXCEPT ![e] = Tail(@)]
  /\ acceptHandshake(e, Head(toServer[e]).character)
  /\ UNCHANGED link

\* Who is let in is given a session and nothing else about the map.
LEMMA LetsInSends ==
  ASSUME TypeInv, RolesInv, RosterInv, NEW e \in Client, LetsIn(e)
  PROVE  /\ UNCHANGED <<link, hints>> /\ \A c \in Client \ {e} : QuietStep(c)
         /\ toServer[e] # <<>> /\ toServer'[e] = Tail(toServer[e])
         /\ \E session \in ToClientMessage :
              /\ session.method = "GameSessionSync" /\ (session.full <=> e \notin Host')
              /\ session.full => session.map = restrictPayload(hints, generateResetPayload(hints))
              /\ Up(e) => toClient'[e] = toClient[e] \o <<session>>
              /\ ~Up(e) => toClient'[e] = <<>>
<1>1. PICK character, user, users :
        /\ character = Head(toServer[e]).character
        /\ user = [NewUser EXCEPT !.role = attributedRole(e, character),
                                  !.character = character, !.named = TRUE]
        /\ users = [usersById EXCEPT ![e] = user]
  OBVIOUS
<1>2. PICK session : session = gameSession(e, users)
  OBVIOUS
<1> DEFINE m == [method |-> "UserIn", id |-> e, user |-> user]
           sent == [ToAll(Peers(e), m) EXCEPT ![e] = <<session>>]
<1>3. /\ usersById' = users /\ ServerSends(sent) /\ UNCHANGED <<link, hints>>
      /\ socketsByRole' = [socketsByRole EXCEPT ![user.role] = @ \cup {e}]
  BY <1>1, <1>2 DEF acceptHandshake, LetsIn
<1>4. toServer[e] # <<>> /\ Head(toServer[e]).method = "Handshake"
  BY DEF LetsIn
<1>5. user \in User /\ user # NoUser /\ user.named
  <2>1. toServer[e] \in Seq(ToServerMessage)
    BY EventTypes
  <2>2. character \in Character \cup {NoCharacter}
    BY <1>1, <1>4, <2>1, TailElements, ToServerFields
  <2>3. attributedRole(e, character) \in Role
    BY DEF attributedRole, Role
  <2> QED
    BY <1>1, <2>2, <2>3, NewUserType, NoUserIsNotAUser DEF User, NewUser
<1>6. /\ users[e] = user /\ users \in Users
      /\ \A d \in Client \ {e} : users[d] = usersById[d] /\ toServer'[d] = toServer[d]
      /\ toServer'[e] = Tail(toServer[e])
  BY <1>1, <1>5 DEF LetsIn, TypeInv, TypeOK, ServerTypeOK, NetworkTypeOK, Users
<1>7. /\ e \in Host' <=> user.role = "Host"
      /\ \A d \in Client \ {e} : d \in Host' <=> d \in Host
  <2>1. socketsByRole \in [Role -> SUBSET Client] /\ "Host" \in Role /\ user.role \in Role
    BY <1>5 DEF TypeInv, TypeOK, ServerTypeOK, Role, User
  <2>2. e \notin socketsByRole["Host"]
    BY <2>1 DEF RolesInv, RolesListNamed, LetsIn
  <2> QED
    BY <1>3, <2>1, <2>2 DEF Host
<1>8. m \in ToClientMessage /\ m.method \notin MapChange \cup {"GameSessionSync"}
  BY <1>5 DEF ToClientMessage, MapChange
<1>9. /\ session \in ToClientMessage /\ session.method = "GameSessionSync"
      /\ session.full <=> user.role # "Host"
      /\ session.full => session.map = restrictPayload(hints, generateResetPayload(hints))
  BY <1>2, <1>6, gameSessionType DEF gameSession, TypeInv, TypeOK
<1> HIDE DEF m
<1>10. ToAll(Peers(e), m) \in [Client -> Seq(ToClientMessage)]
  BY <1>8, ToAllType
<1>11. \A c \in Client : sent[c] = IF c = e THEN <<session>>
                                   ELSE IF c \in Connected THEN <<m>> ELSE <<>>
  BY <1>10 DEF ToAll, Peers
<1>12. sent \in [Client -> Seq(ToClientMessage)]
  <2>1. <<session>> \in Seq(ToClientMessage)
    BY <1>9, SingletonElements
  <2> QED
    BY <1>10, <2>1
<1> HIDE DEF sent
<1>13. ASSUME NEW c \in Client \ {e}
       PROVE  QuietStep(c)
  <2>1. usersById[c] = NoUser => sent[c] = <<>>
    BY <1>11 DEF Connected
  <2>2. \A k \in DOMAIN sent[c] : sent[c][k].method \notin MapChange \cup {"GameSessionSync"}
    BY <1>8, <1>11, EmptyTells, SingletonElements
  <2>3. Named(c)' <=> Named(c)
    BY <1>3, <1>6 DEF Named
  <2>4. Undisturbed(c, sent)
    BY <1>3, <1>6, <1>7, <2>2, <2>3 DEF Undisturbed
  <2> QED
    BY <1>3, <1>12, <2>1, <2>4 DEF QuietStep
<1>14. /\ Up(e) => toClient'[e] = toClient[e] \o <<session>>
       /\ ~Up(e) => toClient'[e] = <<>>
  <2>1. usersById[e] # NoUser /\ sent[e] = <<session>>
    BY <1>11 DEF LetsIn
  <2> QED
    BY <1>3, <1>12, <2>1, Reaches
<1> QED
  BY <1>3, <1>4, <1>6, <1>7, <1>9, <1>13, <1>14

\* Who has yet to be let in was not told of the map, and does not host.
LEMMA NotLetIn ==
  ASSUME TypeInv, RolesInv, RosterInv, NEW e \in Client, MirrorOf(e), usersById[e] # NoUser, ~Named(e)
  PROVE  /\ ~synced[e] /\ e \notin Host
         /\ \A n \in DOMAIN toClient[e] : toClient[e][n].method \notin MapChange \cup {"GameSessionSync"}
<1>1. e \notin Host
  BY DEF RolesInv, RolesListNamed, Host, Role
<1>2. CASE ~Up(e)
  <2>1. \A n : n \notin DOMAIN <<>>
    OBVIOUS
  <2> QED
    BY <1>1, <1>2, <2>1 DEF RosterInv, Unheard
<1>3. CASE Up(e)
  <2>1. ToldOfItself(e) /\ AheadOfServer(e)
    BY <1>3 DEF RosterInv, SelfKnown
  <2>2. \A n \in DOMAIN toClient[e] : toClient[e][n].method # "GameSessionSync"
    BY <2>1 DEF ToldOfItself, About
  <2>3. \A n \in DOMAIN toClient[e] : toClient[e][n].method \notin MapChange
    BY DEF MirrorOf, SessionFirst
  <2> QED
    BY <1>1, <2>1, <2>2, <2>3 DEF AheadOfServer
<1> QED
  BY <1>2, <1>3

LEMMA LetsInMirror ==
  ASSUME TypeInv, RolesInv, RosterInv, MirrorInv, NEW e \in Client, LetsIn(e), UNCHANGED clientVars
  PROVE  MirrorInv'
<1>1. /\ UNCHANGED <<link, hints>> /\ \A c \in Client \ {e} : QuietStep(c)
      /\ toServer[e] # <<>> /\ toServer'[e] = Tail(toServer[e])
  BY LetsInSends
<1>2. PICK session \in ToClientMessage :
        /\ session.method = "GameSessionSync" /\ (session.full <=> e \notin Host')
        /\ Up(e) => toClient'[e] = toClient[e] \o <<session>>
        /\ ~Up(e) => toClient'[e] = <<>>
  BY LetsInSends
<1>3. UNCHANGED <<synced, hostAble, clientInbox, mapInbox, map>>
  BY DEF clientVars, rosterVars, mapVars
<1>4. /\ ~synced[e] /\ e \notin Host
      /\ \A n \in DOMAIN toClient[e] : toClient[e][n].method \notin MapChange \cup {"GameSessionSync"}
  BY NotLetIn DEF MirrorInv, LetsIn
<1>5. \A c \in Client \ {e} : MirrorOf(c)'
  BY <1>1, QuietStepMirror DEF MirrorInv
<1>6. HostAlters(e) /\ HistoryFirst(e) /\ toServer[e] \in Seq(ToServerMessage)
  BY EventTypes DEF MirrorInv, MirrorOf
<1>7. clientInbox[e] = <<>> /\ mapInbox[e] = <<>> /\ NoChange(toServer'[e])
  BY <1>1, <1>4, <1>6, NoChangeLeft DEF HostAlters, HistoryFirst
<1>8. HostAlters(e)'
  BY <1>3, <1>4, <1>7 DEF HostAlters, NoChange
<1>9. HistoryFirst(e)'
  BY <1>3, <1>4, <1>7 DEF HistoryFirst, NoChange
<1>10. SessionFirst(e)'
  <2>1. CASE ~Up(e)
    <3>1. toClient'[e] = <<>> /\ ~Up(e)'
      BY <1>1, <1>2, <2>1 DEF Up
    <3>2. \A n : n \notin DOMAIN <<>>
      OBVIOUS
    <3> QED
      BY <3>1, <3>2 DEF SessionFirst
  <2>2. CASE Up(e)
    <3>1. toClient'[e] = toClient[e] \o <<session>> /\ toClient[e] \in Seq(ToClientMessage)
      BY <1>2, <2>2, EventTypes
    <3>2. /\ Len(toClient[e]) + 1 \in DOMAIN toClient'[e]
          /\ toClient'[e][Len(toClient[e]) + 1] = session
          /\ \A n \in DOMAIN toClient'[e] :
               \/ n \in DOMAIN toClient[e] /\ toClient'[e][n] = toClient[e][n]
               \/ toClient'[e][n] = session
      BY <3>1, OneMore
    <3>3. "GameSessionSync" \notin MapChange
      BY DEF MapChange
    <3>4. \A n \in DOMAIN toClient'[e] : toClient'[e][n].method \notin MapChange
      BY <1>2, <1>4, <3>2, <3>3
    <3>5. \A n \in DOMAIN toClient'[e] : toClient'[e][n].method = "GameSessionSync" =>
            toClient'[e][n] = session
      BY <1>4, <3>2
    <3>6. \E n \in DOMAIN toClient'[e] : toClient'[e][n].method = "GameSessionSync"
      BY <1>2, <3>2
    <3> QED
      BY <1>2, <3>4, <3>5, <3>6 DEF SessionFirst
  <2> QED
    BY <2>1, <2>2
<1>11. HostLeads(e)'
  BY <1>3, <1>4 DEF HostLeads, Awaits
<1>12. MirrorOf(e)'
  BY <1>8, <1>9, <1>10, <1>11 DEF MirrorOf
<1> QED
  BY <1>5, <1>12 DEF MirrorInv

\* A change the host made is for the named users that do not host.
LEMMA RelayedToGuests ==
  ASSUME TypeInv, RolesInv, NEW e \in Host, NEW method \in MapChange, NEW p \in Payload,
         NEW d \in Client
  PROVE  /\ d \in withheld <=> Named(d) /\ d \notin Host
         /\ Relayed(e, method, p)[d] =
              IF worthSending(hintsAfter(p), p) /\ d \in withheld
              THEN <<[method |-> method, payload |-> restrictPayload(hintsAfter(p), p)]>>
              ELSE <<>>
<1>1. d \in withheld <=> Named(d) /\ d \notin Host
  <2>1. Named(d) => usersById[d].role \in Role
    BY DEF Named, TypeInv, TypeOK, ServerTypeOK, Users, User
  <2> QED
    BY <2>1 DEF RolesInv, RolesListNamed, withheld, Host, Role
<1>2. Host \ {e} = {} /\ e \notin withheld
  <2>1. e \in Client
    BY DEF Host, TypeInv, TypeOK, ServerTypeOK, Role
  <2>2. Host \subseteq Client
    BY DEF Host, TypeInv, TypeOK, ServerTypeOK, Role
  <2>3. e \in withheld => usersById[e].role # "Host"
    BY <2>1 DEF RolesInv, RolesListNamed, withheld, Role
  <2>4. usersById[e].role = "Host"
    BY <2>1 DEF RolesInv, RolesListNamed, Host, Role
  <2> QED
    BY <2>1, <2>2, <2>3, <2>4 DEF RolesInv, OneHost
<1> DEFINE rest == [method |-> method, payload |-> restrictPayload(hintsAfter(p), p)]
<1>3. rest \in ToClientMessage
  <2>1. hintsAfter(p) \in Storage
    BY StorageAfterType DEF hintsAfter, TypeInv, TypeOK, ServerTypeOK
  <2>2. restrictPayload(hintsAfter(p), p) \in Payload
    BY <2>1, restrictPayloadType
  <2> QED
    BY <2>2 DEF ToClientMessage
<1>4. Relayed(e, method, p)[d] =
        <<>> \o (IF d \in (IF worthSending(hintsAfter(p), p) THEN withheld \ {e} ELSE {})
                 THEN <<rest>> ELSE <<>>)
  BY <1>2 DEF Relayed, ToAll, Host
<1> HIDE DEF rest
<1>5. <<>> \o <<>> = <<>> /\ <<>> \o <<rest>> = <<rest>>
  OBVIOUS
<1>6. d \in withheld => d \in withheld \ {e}
  BY <1>2
<1> QED
  BY <1>1, <1>4, <1>5, <1>6 DEF rest

\* Only the host's changes are ever read.
LEMMA ChangesAreHosts ==
  ASSUME TypeInv, NEW e \in Client, HostAlters(e), toServer[e] # <<>>,
         Head(toServer[e]).method \in MapChange
  PROVE  e \in Host /\ Head(toServer[e]) \in ToServerMessage /\ Head(toServer[e]).payload \in Payload
<1>1. /\ Head(toServer[e]) \in ToServerMessage
      /\ 1 \in DOMAIN toServer[e] /\ toServer[e][1] = Head(toServer[e])
  BY EventTypes, TailElements
<1> QED
  BY <1>1, ToServerFields DEF HostAlters, NoChange

\* What was there keeps its place, before what follows.
LEMMA Followed ==
  ASSUME NEW s \in Seq(ToClientMessage), NEW t \in Seq(ToClientMessage), NEW q, q = s \o t
  PROVE  /\ \A n \in DOMAIN s : n \in DOMAIN q /\ q[n] = s[n]
         /\ \A n \in DOMAIN q :
              \/ n \in DOMAIN s /\ q[n] = s[n]
              \/ (\E k \in DOMAIN t : q[n] = t[k]) /\ \A k \in DOMAIN s : k < n
<1>1. /\ \A n \in DOMAIN s : n \in DOMAIN (s \o t) /\ (s \o t)[n] = s[n] /\ n <= Len(s)
      /\ Len(s) \in Nat /\ DOMAIN s \subseteq Nat /\ DOMAIN (s \o t) \subseteq Nat
  BY ConcatKeeps
<1>2. \A n \in DOMAIN (s \o t) :
        \/ n \in DOMAIN s /\ (s \o t)[n] = s[n]
        \/ n > Len(s) /\ n - Len(s) \in DOMAIN t /\ (s \o t)[n] = t[n - Len(s)]
  BY ConcatElements
<1>3. \A n \in DOMAIN (s \o t) : n > Len(s) => \A k \in DOMAIN s : k < n
  BY <1>1
<1> QED
  BY <1>1, <1>2, <1>3

\* The server handles and relays a change that e sent.
Relays(e) ==
  /\ toServer[e] # <<>> /\ Head(toServer[e]).method \in MapChange
  /\ toServer' = [toServer EXCEPT ![e] = Tail(@)]
  /\ broadcastMapChanges(e, Head(toServer[e]).method, Head(toServer[e]).payload)
  /\ UNCHANGED link

LEMMA RelaysMirror ==
  ASSUME TypeInv, RolesInv, RosterInv, MirrorInv, NEW e \in Client, Relays(e), UNCHANGED clientVars
  PROVE  MirrorInv'
<1>0. PICK m : m = Head(toServer[e])
  OBVIOUS
<1> DEFINE sent == Relayed(e, m.method, m.payload)
<1>1. /\ e \in Host /\ m \in ToServerMessage /\ m.payload \in Payload
      /\ m.method \in MapChange /\ toServer[e] # <<>>
  BY <1>0, ChangesAreHosts DEF MirrorInv, MirrorOf, Relays
<1>2. /\ ServerSends(sent) /\ hints' = StorageAfter(hints, m.payload)
      /\ UNCHANGED <<link, usersById, socketsByRole, synced, hostAble, clientInbox, mapInbox, map>>
  BY <1>0 DEF Relays, broadcastMapChanges, Relayed, clientVars, rosterVars, mapVars
<1>3. /\ sent \in [Client -> Seq(ToClientMessage)]
      /\ \A d \in Client : \A k \in DOMAIN sent[d] : sent[d][k].method = m.method
  BY <1>1, RelayedElements DEF TypeInv, TypeOK
<1>4. \A d \in Client : usersById[d] = NoUser => sent[d] = <<>>
  BY RelayedToListed
<1>5. \A d \in Client : (Named(d) /\ d \notin Host) \/ sent[d] = <<>>
  BY <1>1, RelayedToGuests
<1> HIDE DEF sent
<1>6. /\ toServer'[e] = Tail(toServer[e]) /\ toServer[e] \in Seq(ToServerMessage)
      /\ \A d \in Client \ {e} : toServer'[d] = toServer[d]
  BY EventTypes DEF Relays, TypeInv, TypeOK, NetworkTypeOK
<1> SUFFICES ASSUME NEW c \in Client
             PROVE  MirrorOf(c)'
  BY DEF MirrorInv
<1>7. MirrorOf(c)
  BY DEF MirrorInv
<1>8. NoChange(toServer[c]) => NoChange(toServer'[c])
  BY <1>1, <1>6, NoChangeLeft
<1>9. HostAlters(c)'
  BY <1>2, <1>7, <1>8 DEF MirrorOf, HostAlters, Host, NoChange
<1>10. HistoryFirst(c)'
  BY <1>2, <1>7, <1>8 DEF MirrorOf, HistoryFirst, Host, Awaits, Up, NoChange
<1>11. SessionFirst(c)'
  <2>1. SessionFirst(c)
    BY <1>7 DEF MirrorOf
  <2>2. CASE ~Up(c)
    <3>1. toClient'[c] = <<>> /\ ~Up(c)'
      BY <1>2, <1>3, <1>4, <2>2, Reaches DEF Up
    <3>2. \A n : n \notin DOMAIN <<>>
      OBVIOUS
    <3> QED
      BY <3>1, <3>2 DEF SessionFirst
  <2>3. CASE Up(c)
    <3>1. /\ toClient'[c] = toClient[c] \o sent[c]
          /\ toClient[c] \in Seq(ToClientMessage) /\ sent[c] \in Seq(ToClientMessage)
      BY <1>2, <1>3, <1>4, <2>3, Reaches
    <3>2. /\ \A n \in DOMAIN toClient[c] : n \in DOMAIN toClient'[c] /\ toClient'[c][n] = toClient[c][n]
          /\ \A n \in DOMAIN toClient'[c] :
               \/ n \in DOMAIN toClient[c] /\ toClient'[c][n] = toClient[c][n]
               \/ /\ \E k \in DOMAIN sent[c] : toClient'[c][n] = sent[c][k]
                  /\ \A k \in DOMAIN toClient[c] : k < n
      BY <3>1, Followed
    <3>3. ASSUME NEW n \in DOMAIN toClient'[c], toClient'[c][n].method \in MapChange
          PROVE  /\ Named(c) /\ c \notin Host
                 /\ synced[c] \/ \E k \in DOMAIN toClient'[c] :
                                   k < n /\ toClient'[c][k].method = "GameSessionSync"
      <4>1. CASE n \in DOMAIN toClient[c] /\ toClient'[c][n] = toClient[c][n]
        BY <2>1, <3>2, <3>3, <4>1 DEF SessionFirst
      <4>2. CASE (\E k \in DOMAIN sent[c] : TRUE) /\ \A k \in DOMAIN toClient[c] : k < n
        <5>1. Named(c) /\ c \notin Host
          <6>1. \A k : k \notin DOMAIN <<>>
            OBVIOUS
          <6> QED
            BY <1>5, <4>2, <6>1
        <5>2. synced[c] \/ \E k \in DOMAIN toClient[c] : toClient[c][k].method = "GameSessionSync"
          BY <2>1, <2>3, <5>1 DEF SessionFirst
        <5> QED
          BY <3>2, <4>2, <5>1, <5>2
      <4> QED
        BY <3>2, <4>1, <4>2
    <3>4. \A n \in DOMAIN toClient'[c] : toClient'[c][n].method = "GameSessionSync" =>
            n \in DOMAIN toClient[c] /\ toClient'[c][n] = toClient[c][n]
      <4>1. m.method # "GameSessionSync"
        BY <1>1 DEF MapChange
      <4> QED
        BY <1>3, <3>2, <4>1
    <3>5. Up(c) /\ Named(c) => synced[c] \/ \E n \in DOMAIN toClient'[c] :
                                              toClient'[c][n].method = "GameSessionSync"
      BY <2>1, <3>2 DEF SessionFirst
    <3> QED
      BY <1>2, <2>1, <3>3, <3>4, <3>5 DEF SessionFirst, Host, Named, Up
  <2> QED
    BY <2>2, <2>3
<1>12. HostLeads(c)'
  <2>1. CASE c # e
    <3>1. c \notin Host
      BY <1>1, <2>1 DEF RolesInv, OneHost
    <3> QED
      BY <1>2, <3>1 DEF HostLeads, Host
  <2>2. CASE c = e /\ Up(c) /\ ~Awaits(c)
    <3>1. PICK s, posted \in Maps : /\ Leads(hints.atoms, toServer[c], s)
                                    /\ Leads(s, clientInbox[c], posted)
                                    /\ Leads(map[c].atoms, mapInbox[c], posted)
      BY <1>1, <1>7, <2>2 DEF MirrorOf, HostLeads
    <3>2. Leads(Then(hints.atoms, m), toServer'[c], s)
      BY <1>0, <1>1, <1>6, <2>2, <3>1, LeadsAfterFirst
    <3>3. Then(hints.atoms, m) = hints'.atoms
      BY <1>1, <1>2, MessageThen DEF StorageAfter
    <3> QED
      BY <1>2, <3>1, <3>2, <3>3 DEF HostLeads
  <2>3. CASE ~Up(c) \/ Awaits(c)
    BY <1>2, <2>3 DEF HostLeads, Up, Awaits
  <2> QED
    BY <2>1, <2>2, <2>3
<1> QED
  BY <1>9, <1>10, <1>11, <1>12 DEF MirrorOf

LEMMA onClientPayloadReceivedCases ==
  ASSUME TypeInv, RolesInv, NEW e \in Client, onClientPayloadReceived(e)
  PROVE  \/ UNCHANGED hints /\ \A c \in Client : QuietStep(c)
         \/ LetsIn(e)
         \/ Relays(e)
<1>1. PICK m : m = Head(toServer[e])
  OBVIOUS
<1>2. /\ usersById[e] # NoUser /\ toServer[e] # <<>> /\ UNCHANGED link
      /\ toServer' = [toServer EXCEPT ![e] = Tail(@)]
  BY DEF onClientPayloadReceived, Connected
<1>3. m \in ToServerMessage /\ 1 \in DOMAIN toServer[e] /\ toServer[e][1] = m
  BY <1>1, <1>2, EventTypes, TailElements
<1>4. /\ toServer'[e] = Tail(toServer[e])
      /\ \A d \in Client \ {e} : toServer'[d] = toServer[d]
  BY <1>2 DEF TypeInv, TypeOK, NetworkTypeOK
<1>5. ASSUME NEW sent \in [Client -> Seq(ToClientMessage)], ServerSends(sent),
             UNCHANGED <<hints, socketsByRole>>, \A c \in Client : Named(c)' <=> Named(c),
             \A c \in Client : usersById[c] = NoUser => sent[c] = <<>>,
             \A c \in Client : \A k \in DOMAIN sent[c] :
               sent[c][k].method \notin MapChange \cup {"GameSessionSync"},
             m.method \notin MapChange
      PROVE  UNCHANGED hints /\ \A c \in Client : QuietStep(c)
  <2> SUFFICES ASSUME NEW c \in Client
               PROVE  QuietStep(c)
    BY <1>5
  <2>1. Undisturbed(c, sent)
    BY <1>1, <1>2, <1>4, <1>5 DEF Undisturbed, Host
  <2> QED
    BY <1>5, <2>1 DEF QuietStep
<1>6. CASE m.method = "Handshake" /\ rejectVersion(e)
  <2> DEFINE status == [method |-> "ServerStatus"]
             sent == ToAll({e}, status)
  <2>1. status \in ToClientMessage /\ status.method \notin MapChange \cup {"GameSessionSync"}
        /\ m.method \notin MapChange
    BY <1>6 DEF ToClientMessage, MapChange
  <2>2. ServerSends(sent) /\ UNCHANGED <<usersById, socketsByRole, hints>>
    BY <1>6 DEF rejectVersion, serverVars
  <2>3. \A c \in Client : c # e => sent[c] = <<>>
    BY DEF ToAll
  <2> HIDE DEF status
  <2>4. sent \in [Client -> Seq(ToClientMessage)]
        /\ \A c \in Client : \A k \in DOMAIN sent[c] : sent[c][k] = status
    BY <2>1, ToAllType
  <2>5. \A c \in Client : Named(c)' <=> Named(c)
    BY <2>2 DEF Named
  <2> HIDE DEF sent
  <2> QED
    BY <1>2, <1>5, <2>1, <2>2, <2>3, <2>4, <2>5
<1>7. CASE m.method = "Handshake" /\ acceptHandshake(e, m.character)
  <2>1. ~Named(e)
    BY <1>3, <1>7 DEF RolesInv, HandshakeFirst
  <2> QED
    BY <1>1, <1>2, <1>7, <2>1 DEF LetsIn
<1>8. CASE m.method = "CharacterChanged" /\ characterChanged(e, m.sheet)
  <2>1. PICK user : user = [usersById[e] EXCEPT !.sheet = m.sheet]
    OBVIOUS
  <2> DEFINE news == [method |-> "UserDataChanged", id |-> e, user |-> user]
             sent == ToAll(Peers(e), news)
  <2>2. /\ usersById' = [usersById EXCEPT ![e] = user] /\ ServerSends(sent)
        /\ UNCHANGED <<socketsByRole, hints>>
    BY <1>8, <2>1 DEF characterChanged
  <2>3. user \in User /\ user # NoUser /\ user.named = usersById[e].named
    <3>1. m.sheet \in 0..MaxSheet /\ usersById[e] \in User
      BY <1>2, <1>3, <1>8, ToServerFields DEF TypeInv, TypeOK, ServerTypeOK, Users
    <3> QED
      BY <2>1, <3>1, NoUserIsNotAUser DEF User
  <2>4. \A c \in Client : Named(c)' <=> Named(c)
    BY <1>2, <2>2, <2>3 DEF Named, TypeInv, TypeOK, ServerTypeOK, Users
  <2>5. news \in ToClientMessage /\ news.method \notin MapChange \cup {"GameSessionSync"}
        /\ m.method \notin MapChange
    BY <1>8, <2>3 DEF ToClientMessage, MapChange
  <2>6. \A c \in Client : usersById[c] = NoUser => sent[c] = <<>>
    BY DEF ToAll, Peers, Connected
  <2> HIDE DEF news
  <2>7. sent \in [Client -> Seq(ToClientMessage)]
        /\ \A c \in Client : \A k \in DOMAIN sent[c] : sent[c][k] = news
    BY <2>5, ToAllType
  <2> HIDE DEF sent
  <2> QED
    BY <1>5, <2>2, <2>4, <2>5, <2>6, <2>7
<1>9. CASE m.method = "AskForAssets" /\ sendAssets(e, m.hashes)
  <2>1. m.hashes \in SUBSET AnyHash /\ m.method \notin MapChange
    BY <1>3, <1>9, ToServerFields DEF MapChange
  <2>2. PICK sent \in [Client -> Seq(ToClientMessage)] :
          /\ ServerSends(sent) /\ UNCHANGED serverVars
          /\ \A d \in Client \ {e} : sent[d] = <<>>
          /\ \A d \in Client : \A k \in DOMAIN sent[d] : sent[d][k].method = "RequestedAsset"
    BY <1>9, <2>1, sendAssetsSent
  <2>3. UNCHANGED <<usersById, socketsByRole, hints>>
    BY <2>2 DEF serverVars
  <2>4. \A c \in Client : Named(c)' <=> Named(c)
    BY <2>3 DEF Named
  <2>5. "RequestedAsset" \notin MapChange \cup {"GameSessionSync"}
    BY DEF MapChange
  <2> QED
    BY <1>2, <1>5, <2>1, <2>2, <2>3, <2>4, <2>5
<1>10. CASE m.method \in MapChange /\ broadcastMapChanges(e, m.method, m.payload)
  BY <1>1, <1>2, <1>10 DEF Relays
<1> QED
  BY <1>1, <1>6, <1>7, <1>8, <1>9, <1>10 DEF onClientPayloadReceived

LEMMA ServerStepCases ==
  ASSUME TypeInv, RolesInv, NEW e \in Client, ServerStep(e)
  PROVE  \/ UNCHANGED hints /\ \A c \in Client : QuietStep(c)
         \/ LetsIn(e)
         \/ Relays(e)
BY onNewConnectionQuiet, onClientSocketDisconnectedQuiet, onClientPayloadReceivedCases DEF ServerStep

LEMMA ServerStepMirror ==
  ASSUME TypeInv, RolesInv, RosterInv, MirrorInv, NEW e \in Client, ServerStep(e),
         UNCHANGED clientVars
  PROVE  MirrorInv'
<1>1. CASE UNCHANGED hints /\ \A c \in Client : QuietStep(c)
  BY <1>1, QuietStepMirror DEF MirrorInv
<1> QED
  BY <1>1, ServerStepCases, LetsInMirror, RelaysMirror

\* c alone may send, and sends nothing about the map.
SendsNoChange(c) ==
  /\ \A d \in Client \ {c} : toServer'[d] = toServer[d]
  /\ \/ toServer'[c] = toServer[c]
     \/ \E t \in Seq(ToServerMessage) : NoChange(t) /\ toServer'[c] = toServer[c] \o t

LEMMA NoChangeSent ==
  ASSUME TypeInv, NEW c \in Client, SendsNoChange(c)
  PROVE  /\ NoChange(toServer[c]) => NoChange(toServer'[c])
         /\ \A m, M : Leads(m, toServer[c], M) => Leads(m, toServer'[c], M)
<1>1. toServer[c] \in Seq(ToServerMessage)
  BY EventTypes
<1>2. CASE toServer'[c] = toServer[c]
  BY <1>2
<1>3. CASE \E t \in Seq(ToServerMessage) : NoChange(t) /\ toServer'[c] = toServer[c] \o t
  <2>1. PICK t \in Seq(ToServerMessage) : NoChange(t) /\ toServer'[c] = toServer[c] \o t
    BY <1>3
  <2>2. \A n \in DOMAIN (toServer[c] \o t) :
          \/ n \in DOMAIN toServer[c] /\ (toServer[c] \o t)[n] = toServer[c][n]
          \/ \E k \in DOMAIN t : (toServer[c] \o t)[n] = t[k]
    BY <1>1, ConcatElements
  <2>3. NoChange(toServer[c]) => NoChange(toServer'[c])
    BY <2>1, <2>2 DEF NoChange
  <2>4. \A m, M : Leads(m, toServer[c], M) => Leads(m, toServer'[c], M)
    BY <1>1, <2>1, NoChangeAlters, LeadsQuietly
  <2> QED
    BY <2>3, <2>4
<1> QED
  BY <1>2, <1>3 DEF SendsNoChange

LEMMA ClientSendsNoChange ==
  ASSUME TypeInv, NEW c \in Client, NEW t \in Seq(ToServerMessage), NoChange(t), ClientSends(c, t)
  PROVE  SendsNoChange(c)
<1>1. \A d \in Client \ {c} : toServer'[d] = toServer[d]
  BY ClientSendsElements DEF TypeInv, TypeOK
<1>2. CASE link[c] = "up"
  BY <1>1, <1>2, ClientSendsElements DEF TypeInv, TypeOK, SendsNoChange
<1>3. CASE link[c] # "up"
  BY <1>1, <1>3 DEF ClientSends, SendsNoChange
<1> QED
  BY <1>2, <1>3

LEMMA onMapChangeReceivedSendsNoChange ==
  ASSUME TypeInv, NEW c \in Client, NEW heavy, NEW p \in Payload, NEW before,
         onMapChangeReceived(c, heavy, p, before)
  PROVE  SendsNoChange(c)
<1> DEFINE m == [method |-> "AskForAssets", hashes |-> missingAssets(c, p)]
<1>1. CASE missingAssets(c, p) = {}
  <2>1. ClientSends(c, <<>>)
    BY <1>1 DEF onMapChangeReceived
  <2>2. <<>> \in Seq(ToServerMessage) /\ NoChange(<<>>)
    BY DEF NoChange
  <2> QED
    BY <2>1, <2>2, ClientSendsNoChange
<1>2. CASE missingAssets(c, p) # {}
  <2>1. ClientSends(c, <<m>>)
    BY <1>2 DEF onMapChangeReceived
  <2>2. missingAssets(c, p) \in SUBSET AnyHash
    BY PayloadFields DEF missingAssets
  <2>3. m \in ToServerMessage /\ m.method \notin MapChange
    BY <2>2 DEF ToServerMessage, MapChange
  <2> HIDE DEF m
  <2>4. <<m>> \in Seq(ToServerMessage) /\ NoChange(<<m>>)
    BY <2>3, SingletonElements DEF NoChange
  <2> QED
    BY <2>1, <2>4, ClientSendsNoChange
<1> QED
  BY <1>1, <1>2

\* The rest of what c was sent, once it read the first message.
LEMMA SessionFirstRead ==
  ASSUME TypeInv, NEW c \in Client, SessionFirst(c), toClient[c] # <<>>,
         toClient'[c] = Tail(toClient[c]), UNCHANGED <<usersById, socketsByRole>>,
         link'[c] = link[c], synced[c] => synced'[c],
         Head(toClient[c]).method = "GameSessionSync" => synced'[c]
  PROVE  SessionFirst(c)'
<1>1. /\ 1 \in DOMAIN toClient[c] /\ toClient[c][1] = Head(toClient[c])
      /\ toClient[c] \in Seq(ToClientMessage)
      /\ \A n \in DOMAIN toClient'[c] : n \in Nat \ {0} /\ n + 1 \in DOMAIN toClient[c]
                                        /\ toClient'[c][n] = toClient[c][n + 1]
  BY EventTypes, TailElements
<1>2. \A k \in DOMAIN toClient[c] :
        k = 1 \/ (k - 1 \in DOMAIN toClient'[c] /\ toClient'[c][k - 1] = toClient[c][k])
  <2>1. Len(Tail(toClient[c])) = Len(toClient[c]) - 1 /\ Tail(toClient[c]) \in Seq(ToClientMessage)
    BY <1>1, HeadTailProperties
  <2>2. /\ DOMAIN Tail(toClient[c]) = 1..Len(Tail(toClient[c]))
        /\ DOMAIN toClient[c] = 1..Len(toClient[c]) /\ Len(toClient[c]) \in Nat
    BY <1>1, <2>1, LenProperties
  <2>3. \A k \in DOMAIN toClient[c] : k # 1 => k - 1 \in DOMAIN Tail(toClient[c]) /\ (k - 1) + 1 = k
    BY <2>1, <2>2
  <2> QED
    BY <1>1, <2>3
<1>3. ASSUME NEW n \in DOMAIN toClient'[c], toClient'[c][n].method \in MapChange
      PROVE  /\ Named(c) /\ c \notin Host
             /\ synced'[c] \/ \E k \in DOMAIN toClient'[c] :
                                k < n /\ toClient'[c][k].method = "GameSessionSync"
  <2>1. n \in Nat /\ n + 1 \in DOMAIN toClient[c] /\ toClient[c][n + 1].method \in MapChange
    BY <1>1, <1>3
  <2>2. /\ Named(c) /\ c \notin Host
        /\ synced[c] \/ \E k \in DOMAIN toClient[c] :
                          k < n + 1 /\ toClient[c][k].method = "GameSessionSync"
    BY <2>1 DEF SessionFirst
  <2>3. ASSUME NEW k \in DOMAIN toClient[c], k < n + 1, toClient[c][k].method = "GameSessionSync", k # 1
        PROVE  \E j \in DOMAIN toClient'[c] : j < n /\ toClient'[c][j].method = "GameSessionSync"
    <3>1. k - 1 \in DOMAIN toClient'[c] /\ toClient'[c][k - 1] = toClient[c][k]
      BY <1>2, <2>3
    <3>2. k - 1 < n
      <4>1. k \in Nat
        BY <1>1, LenProperties
      <4> QED
        BY <2>1, <2>3, <4>1
    <3> QED
      BY <2>3, <3>1, <3>2
  <2> QED
    BY <1>1, <2>2, <2>3
<1>4. \A n \in DOMAIN toClient'[c] :
        toClient'[c][n].method = "GameSessionSync" => (toClient'[c][n].full <=> c \notin Host)
  BY <1>1 DEF SessionFirst
<1>5. Up(c) /\ Named(c) => synced'[c] \/ \E n \in DOMAIN toClient'[c] :
                                           toClient'[c][n].method = "GameSessionSync"
  BY <1>1, <1>2 DEF SessionFirst
<1> QED
  BY <1>3, <1>4, <1>5 DEF SessionFirst, Host, Named, Up

LEMMA connectMirror ==
  ASSUME TypeInv, RolesInv, RosterInv, NEW c \in Client, MirrorOf(c), connect(c), UNCHANGED serverVars
  PROVE  MirrorOf(c)' /\ \A d \in Client \ {c} : SameFor(d)
<1>1. PICK character \in Incarnates[c] :
        toServer' = [toServer EXCEPT ![c] = <<[method |-> "Handshake", character |-> character]>>]
  BY DEF connect
<1>2. /\ link[c] = "idle" /\ link' = [link EXCEPT ![c] = "up"] /\ usersById[c] = NoUser
      /\ UNCHANGED <<toClient, usersById, socketsByRole, synced, hostAble, clientInbox, mapInbox, map>>
  BY DEF connect, clientVars, rosterVars, mapVars, serverVars, RolesInv, IdleIsUnknown
<1>3. /\ toServer'[c] = <<[method |-> "Handshake", character |-> character]>>
      /\ \A d \in Client \ {c} : toServer'[d] = toServer[d] /\ link'[d] = link[d]
  BY <1>1, <1>2 DEF TypeInv, TypeOK, NetworkTypeOK
<1>4. \A d \in Client \ {c} : SameFor(d)
  BY <1>2, <1>3 DEF SameFor
<1>5. /\ toClient[c] = <<>> /\ ~synced[c] /\ c \notin Host /\ ~Named(c)
      /\ clientInbox[c] = <<>> /\ mapInbox[c] = <<>>
  BY <1>2 DEF RosterInv, Unheard, Up, MirrorOf, HistoryFirst, RolesInv, RolesListNamed, Host, Role, Named
<1>6. NoChange(toServer'[c])
  BY <1>3 DEF NoChange, MapChange
<1>7. HostAlters(c)'
  BY <1>2, <1>5, <1>6 DEF HostAlters, NoChange
<1>8. HistoryFirst(c)'
  BY <1>2, <1>5, <1>6 DEF HistoryFirst, NoChange
<1>9. SessionFirst(c)'
  <2>1. \A n : n \notin DOMAIN <<>>
    OBVIOUS
  <2> QED
    BY <1>2, <1>5, <2>1 DEF SessionFirst, Named
<1>10. HostLeads(c)'
  BY <1>2, <1>5 DEF HostLeads, Host
<1> QED
  BY <1>4, <1>7, <1>8, <1>9, <1>10 DEF MirrorOf

LEMMA endedMirror ==
  ASSUME TypeInv, NEW c \in Client, MirrorOf(c), ended(c), UNCHANGED serverVars
  PROVE  MirrorOf(c)' /\ \A d \in Client \ {c} : SameFor(d)
<1>1. /\ link' = [link EXCEPT ![c] = "down"] /\ toClient' = [toClient EXCEPT ![c] = <<>>]
      /\ clientInbox' = [clientInbox EXCEPT ![c] = <<>>] /\ mapInbox' = [mapInbox EXCEPT ![c] = <<>>]
      /\ synced' = [synced EXCEPT ![c] = FALSE] /\ hostAble' = [hostAble EXCEPT ![c] = TRUE]
      /\ UNCHANGED <<toServer, map, socketsByRole>>
  BY DEF ended, serverVars
<1>2. /\ link'[c] # "up" /\ toClient'[c] = <<>> /\ ~synced'[c]
      /\ clientInbox'[c] = <<>> /\ mapInbox'[c] = <<>>
  BY <1>1 DEF TypeInv, TypeOK, NetworkTypeOK, ClientTypeOK
<1>3. \A d \in Client \ {c} : SameFor(d)
  BY <1>1 DEF SameFor, TypeInv, TypeOK, NetworkTypeOK, ClientTypeOK
<1>4. HostAlters(c)'
  BY <1>1, <1>2 DEF MirrorOf, HostAlters, Host, NoChange
<1>5. HistoryFirst(c)'
  BY <1>2 DEF HistoryFirst, Up
<1>6. SessionFirst(c)'
  <2>1. \A n : n \notin DOMAIN <<>>
    OBVIOUS
  <2> QED
    BY <1>2, <2>1 DEF SessionFirst, Up
<1>7. HostLeads(c)'
  BY <1>2 DEF HostLeads, Up
<1> QED
  BY <1>3, <1>4, <1>5, <1>6, <1>7 DEF MirrorOf

\* What c reads or sends is not about the map.
LEMMA QuietMirror ==
  ASSUME TypeInv, NEW c \in Client, MirrorOf(c), SendsNoChange(c), link'[c] = link[c],
         synced'[c] = synced[c], hostAble'[c] = hostAble[c], clientInbox'[c] = clientInbox[c],
         mapInbox'[c] = mapInbox[c], map'[c] = map[c], SessionFirst(c)', UNCHANGED serverVars
  PROVE  MirrorOf(c)'
<1>1. UNCHANGED <<usersById, socketsByRole, hints>>
  BY DEF serverVars
<1>2. NoChange(toServer[c]) => NoChange(toServer'[c])
  BY NoChangeSent
<1>3. HostAlters(c)'
  BY <1>1, <1>2 DEF MirrorOf, HostAlters, Host, NoChange
<1>4. HistoryFirst(c)'
  BY <1>1, <1>2 DEF MirrorOf, HistoryFirst, Host, Awaits, Up, NoChange
<1>5. HostLeads(c)'
  <2> SUFFICES ASSUME c \in Host', Up(c)', ~Awaits(c)'
               PROVE  \E sent, posted \in Maps : /\ Leads(hints.atoms, toServer'[c], sent)
                                                 /\ Leads(sent, clientInbox[c], posted)
                                                 /\ Leads(map[c].atoms, mapInbox[c], posted)
    BY <1>1 DEF HostLeads
  <2>1. PICK sent, posted \in Maps : /\ Leads(hints.atoms, toServer[c], sent)
                                     /\ Leads(sent, clientInbox[c], posted)
                                     /\ Leads(map[c].atoms, mapInbox[c], posted)
    BY <1>1 DEF MirrorOf, HostLeads, Host, Awaits, Up
  <2>2. Leads(hints.atoms, toServer'[c], sent)
    BY <2>1, NoChangeSent
  <2> QED
    BY <2>1, <2>2
<1> QED
  BY <1>3, <1>4, <1>5 DEF MirrorOf

\* The session tells c whether it hosts; it comes before anything is altered.
LEMMA gameSessionSyncMirror ==
  ASSUME TypeInv, RolesInv, RosterInv, NEW c \in Client, MirrorOf(c), Up(c), toClient[c] # <<>>,
         NEW m, m = Head(toClient[c]), m.method = "GameSessionSync", gameSessionSync(c, m),
         toClient' = [toClient EXCEPT ![c] = Tail(@)],
         UNCHANGED <<link, clientInbox, changes, serverVars>>
  PROVE  MirrorOf(c)' /\ \A d \in Client \ {c} : SameFor(d)
<1>1. /\ m \in ToClientMessage /\ 1 \in DOMAIN toClient[c] /\ toClient[c][1] = m
      /\ m.map \in Payload
  BY EventTypes, TailElements, ToClientFields
<1>2. ~synced[c] /\ Named(c) /\ m.users[c] = usersById[c]
  BY <1>1 DEF RosterInv, SelfKnown, ToldOfItself, About
<1>3. m.full <=> c \notin Host
  BY <1>1 DEF MirrorOf, SessionFirst
<1>4. clientInbox[c] = <<>> /\ mapInbox[c] = <<>> /\ NoChange(toServer[c])
  BY <1>2 DEF MirrorOf, HistoryFirst, Awaits
<1>5. /\ synced' = [synced EXCEPT ![c] = TRUE]
      /\ hostAble' = [hostAble EXCEPT ![c] = m.users[c].role = "Host"]
      /\ UNCHANGED <<map, usersById, socketsByRole>>
  BY DEF gameSessionSync, onMapChangeReceived, serverVars
<1>6. synced'[c] /\ (hostAble'[c] <=> c \in Host)
  <2>1. usersById[c].role = "Host" <=> c \in Host
    BY <1>2 DEF RolesInv, RolesListNamed, Host, Role
  <2>2. synced'[c] /\ hostAble'[c] = (usersById[c].role = "Host")
    BY <1>2, <1>5 DEF TypeInv, TypeOK, ClientTypeOK
  <2> QED
    BY <2>1, <2>2
<1>7. SendsNoChange(c)
  BY <1>1, onMapChangeReceivedSendsNoChange DEF gameSessionSync, SendsNoChange
<1>8. /\ ~m.full => mapInbox' = [mapInbox EXCEPT ![c] = Append(@, sessionReceived)]
      /\ m.full => mapInbox' = [mapInbox EXCEPT ![c] = @ \o <<sessionReceived>> \o <<alter(m.map)>>]
  BY DEF gameSessionSync, onMapChangeReceived
<1>9. /\ ~m.full => mapInbox'[c] = <<sessionReceived>>
      /\ \A d \in Client \ {c} : mapInbox'[d] = mapInbox[d]
  BY <1>4, <1>8 DEF TypeInv, TypeOK, ClientTypeOK
<1>10. \A d \in Client \ {c} : SameFor(d)
  BY <1>5, <1>7, <1>9 DEF SameFor, SendsNoChange, TypeInv, TypeOK, NetworkTypeOK, ClientTypeOK
<1>11. NoChange(toServer'[c])
  BY <1>4, <1>7, NoChangeSent
<1>12. HostAlters(c)'
  BY <1>4, <1>5, <1>6, <1>11 DEF HostAlters, Host, NoChange
<1>13. HistoryFirst(c)'
  BY <1>3, <1>4, <1>5, <1>6, <1>9, <1>11 DEF HistoryFirst, Host, NoChange, Up
<1>14. SessionFirst(c)'
  <2>1. toClient'[c] = Tail(toClient[c])
    BY DEF TypeInv, TypeOK, NetworkTypeOK
  <2> QED
    BY <1>5, <1>6, <2>1, SessionFirstRead DEF MirrorOf
<1>15. HostLeads(c)'
  <2>1. c \in Host => Awaits(c)'
    <3>1. 1 \in DOMAIN <<sessionReceived>> /\ <<sessionReceived>>[1].op = "session"
      BY DEF sessionReceived
    <3> QED
      BY <1>3, <1>9, <3>1 DEF Awaits
  <2> QED
    BY <1>5, <2>1 DEF HostLeads, Host
<1> QED
  BY <1>10, <1>12, <1>13, <1>14, <1>15 DEF MirrorOf

\* Changes are read by guests, after the session.
LEMMA mapChangedMirror ==
  ASSUME TypeInv, NEW c \in Client, MirrorOf(c), Up(c), toClient[c] # <<>>,
         NEW m, m = Head(toClient[c]), m.method \in MapChange, mapChanged(c, m),
         toClient' = [toClient EXCEPT ![c] = Tail(@)],
         UNCHANGED <<link, clientInbox, changes, serverVars>>
  PROVE  MirrorOf(c)' /\ \A d \in Client \ {c} : SameFor(d)
<1>1. /\ m \in ToClientMessage /\ 1 \in DOMAIN toClient[c] /\ toClient[c][1] = m
      /\ m.payload \in Payload
  BY EventTypes, TailElements, ToClientFields
<1>2. synced[c] /\ Named(c) /\ c \notin Host
  <2>1. \A k \in DOMAIN toClient[c] : ~(k < 1)
    BY EventTypes, LenProperties
  <2> QED
    BY <1>1, <2>1 DEF MirrorOf, SessionFirst
<1>3. UNCHANGED <<synced, hostAble, map, usersById, socketsByRole, hints>>
  BY DEF mapChanged, onMapChangeReceived, rosterVars, serverVars
<1>4. SendsNoChange(c)
  BY <1>1, onMapChangeReceivedSendsNoChange DEF mapChanged
<1>5. mapInbox' = [mapInbox EXCEPT ![c] = @ \o <<>> \o <<alter(m.payload)>>]
  BY DEF mapChanged, onMapChangeReceived
<1>6. /\ mapInbox'[c] = mapInbox[c] \o <<alter(m.payload)>>
      /\ \A d \in Client \ {c} : mapInbox'[d] = mapInbox[d]
  <2>1. mapInbox[c] \o <<>> = mapInbox[c]
    BY EventTypes
  <2> QED
    BY <1>5, <2>1 DEF TypeInv, TypeOK, ClientTypeOK
<1>7. \A d \in Client \ {c} : SameFor(d)
  BY <1>3, <1>4, <1>6 DEF SameFor, SendsNoChange, TypeInv, TypeOK, NetworkTypeOK
<1>8. Awaits(c)' => Awaits(c)
  <2>1. alter(m.payload) \in MapEvent /\ alter(m.payload).op # "session"
    BY <1>1 DEF MapEvent, alter
  <2>2. \A n \in DOMAIN mapInbox'[c] : \/ n \in DOMAIN mapInbox[c] /\ mapInbox'[c][n] = mapInbox[c][n]
                                       \/ mapInbox'[c][n] = alter(m.payload)
    BY <1>6, <2>1, EventTypes, OneMore
  <2> QED
    BY <1>3, <2>1, <2>2 DEF Awaits
<1>9. NoChange(toServer[c]) => NoChange(toServer'[c])
  BY <1>4, NoChangeSent
<1>10. HostAlters(c)'
  BY <1>3, <1>9 DEF MirrorOf, HostAlters, Host, NoChange
<1>11. HistoryFirst(c)'
  BY <1>2, <1>3, <1>8, <1>9 DEF MirrorOf, HistoryFirst, Host, Up, NoChange
<1>12. SessionFirst(c)'
  <2>1. toClient'[c] = Tail(toClient[c])
    BY DEF TypeInv, TypeOK, NetworkTypeOK
  <2> QED
    BY <1>2, <1>3, <2>1, SessionFirstRead DEF MirrorOf
<1>13. HostLeads(c)'
  BY <1>2, <1>3 DEF HostLeads, Host
<1> QED
  BY <1>7, <1>10, <1>11, <1>12, <1>13 DEF MirrorOf

LEMMA onPayloadReceivedMirror ==
  ASSUME TypeInv, RolesInv, RosterInv, NEW c \in Client, MirrorOf(c), onPayloadReceived(c),
         UNCHANGED serverVars
  PROVE  MirrorOf(c)' /\ \A d \in Client \ {c} : SameFor(d)
<1>1. PICK m : m = Head(toClient[c])
  OBVIOUS
<1>2. Up(c) /\ toClient[c] # <<>> /\ UNCHANGED <<usersById, socketsByRole>>
  BY DEF onPayloadReceived, serverVars
<1>3. CASE ended(c)
  BY <1>3, endedMirror
<1>4. CASE toClient' = [toClient EXCEPT ![c] = Tail(@)] /\ UNCHANGED <<link, clientInbox, changes>>
  <2>1. toClient'[c] = Tail(toClient[c]) /\ \A d \in Client \ {c} : toClient'[d] = toClient[d]
    BY <1>4 DEF TypeInv, TypeOK, NetworkTypeOK
  <2>2. CASE UNCHANGED <<toServer, synced, hostAble, mapInbox, map>> /\ m.method # "GameSessionSync"
    <3>1. SendsNoChange(c) /\ \A d \in Client \ {c} : SameFor(d)
      BY <1>4, <2>1, <2>2 DEF SendsNoChange, SameFor
    <3>2. SessionFirst(c)'
      BY <1>1, <1>2, <1>4, <2>1, <2>2, SessionFirstRead DEF MirrorOf
    <3> QED
      BY <1>4, <2>2, <3>1, <3>2, QuietMirror
  <2>3. CASE m.method = "GameSessionSync" /\ gameSessionSync(c, m)
    BY <1>1, <1>2, <1>4, <2>3, gameSessionSyncMirror
  <2>4. CASE m.method \in MapChange /\ mapChanged(c, m)
    BY <1>1, <1>2, <1>4, <2>4, mapChangedMirror
  <2>5. CASE m.method = "UserIn" /\ userIn(c, m.id, m.user)
    BY <2>2, <2>5 DEF userIn, mapVars
  <2>6. CASE m.method = "UserOut" /\ userOut(c, m.id)
    BY <2>2, <2>6 DEF userOut, mapVars
  <2>7. CASE m.method = "UserDataChanged" /\ userDataChanged(c, m.id, m.user)
    BY <2>2, <2>7 DEF userDataChanged, mapVars
  <2>8. CASE m.method = "RequestedAsset" /\ requestedAsset(c, m.hash)
    BY <2>2, <2>8 DEF requestedAsset, rosterVars
  <2> QED
    BY <1>1, <1>3, <2>3, <2>4, <2>5, <2>6, <2>7, <2>8 DEF onPayloadReceived
<1> QED
  BY <1>3, <1>4 DEF onPayloadReceived

LEMMA notifyCharacterChangeMirror ==
  ASSUME TypeInv, NEW c \in Client, MirrorOf(c), notifyCharacterChange(c), UNCHANGED serverVars
  PROVE  MirrorOf(c)' /\ \A d \in Client \ {c} : SameFor(d)
<1>1. PICK m : m = [method |-> "CharacterChanged", sheet |-> identity(c).sheet + 1]
  OBVIOUS
<1>2. /\ ClientSends(c, <<m>>)
      /\ UNCHANGED <<link, toClient, synced, hostAble, clientInbox, mapInbox, map, usersById,
                     socketsByRole>>
  BY <1>1 DEF notifyCharacterChange, mapVars, serverVars
<1>3. m \in ToServerMessage /\ m.method \notin MapChange
  <2>1. identity(c).sheet \in 0..MaxSheet /\ identity(c).sheet < MaxSheet
    BY notifyCharacterChangeType DEF notifyCharacterChange, identity, User
  <2>2. identity(c).sheet + 1 \in 0..MaxSheet
    BY <2>1, MaxSheetAssumption
  <2> QED
    BY <1>1, <2>2 DEF ToServerMessage, MapChange
<1>4. SendsNoChange(c)
  <2>1. <<m>> \in Seq(ToServerMessage) /\ NoChange(<<m>>)
    BY <1>3, SingletonElements DEF NoChange
  <2> QED
    BY <1>2, <2>1, ClientSendsNoChange
<1>5. \A d \in Client \ {c} : SameFor(d)
  BY <1>2, <1>4 DEF SameFor, SendsNoChange
<1>6. SessionFirst(c)'
  BY <1>2 DEF MirrorOf, SessionFirst, Host, Named, Up
<1> QED
  BY <1>2, <1>4, <1>5, <1>6, QuietMirror

\* With nobody altering a map before the history of the host's one is sent, and
\* no player moving a token, the host alone alters one.
LEMMA OnlyHostQueues ==
  ASSUME HostWaits, Moves = {}, TypeInv, NEW c \in Client, MirrorOf(c), queueAlteration(c)
  PROVE  /\ c \in Host /\ Up(c) /\ ~Awaits(c)
         /\ \E p \in Payload :
              /\ p \in Changes
              /\ clientInbox' = [clientInbox EXCEPT ![c] = Append(@, alter(p))]
              /\ mapInbox' = [mapInbox EXCEPT ![c] = Append(@, alter(p))]
<1>1. Up(c) /\ historySent(c)
  BY DEF queueAlteration
<1>2. synced[c] /\ ~Awaits(c)
  BY <1>1 DEF historySent, Awaits
<1>3. PICK p \in Alterations(c) :
        /\ clientInbox' = [clientInbox EXCEPT ![c] = Append(@, alter(p))]
        /\ mapInbox' = [mapInbox EXCEPT ![c] = Append(@, alter(p))]
  BY DEF queueAlteration
<1>4. MoveOwned(c) = {}
  BY DEF MoveOwned
<1>5. hostAble[c] /\ p \in Changes
  BY <1>3, <1>4 DEF Alterations
<1> QED
  BY <1>1, <1>2, <1>3, <1>5, ChangesAssumption DEF MirrorOf, HostAlters

LEMMA queueAlterationMirror ==
  ASSUME HostWaits, Moves = {}, TypeInv, NEW c \in Client, MirrorOf(c), queueAlteration(c),
         UNCHANGED serverVars
  PROVE  MirrorOf(c)' /\ \A d \in Client \ {c} : SameFor(d)
<1>1. c \in Host /\ Up(c) /\ ~Awaits(c)
  BY OnlyHostQueues
<1>2. PICK p \in Payload :
        /\ clientInbox' = [clientInbox EXCEPT ![c] = Append(@, alter(p))]
        /\ mapInbox' = [mapInbox EXCEPT ![c] = Append(@, alter(p))]
  BY OnlyHostQueues
<1>3. UNCHANGED <<link, toServer, toClient, synced, hostAble, map, usersById, socketsByRole, hints>>
  BY DEF queueAlteration, networkVars, rosterVars, serverVars
<1>4. alter(p) \in MapEvent /\ alter(p) \in PostedEvent /\ alter(p).op # "session"
      /\ alter(p).payload = p
  BY DEF MapEvent, PostedEvent, alter
<1>5. PICK e : e = alter(p)
  OBVIOUS
<1>6. /\ clientInbox'[c] = clientInbox[c] \o <<e>> /\ mapInbox'[c] = mapInbox[c] \o <<e>>
      /\ \A d \in Client \ {c} : clientInbox'[d] = clientInbox[d] /\ mapInbox'[d] = mapInbox[d]
  <2>1. /\ clientInbox'[c] = Append(clientInbox[c], e) /\ mapInbox'[c] = Append(mapInbox[c], e)
        /\ \A d \in Client \ {c} : clientInbox'[d] = clientInbox[d] /\ mapInbox'[d] = mapInbox[d]
    BY <1>2, <1>5 DEF TypeInv, TypeOK, ClientTypeOK
  <2>2. Append(clientInbox[c], e) = clientInbox[c] \o <<e>>
    BY <1>4, <1>5, EventTypes, AppendIsConcat
  <2>3. Append(mapInbox[c], e) = mapInbox[c] \o <<e>>
    BY <1>4, <1>5, EventTypes, AppendIsConcat
  <2> QED
    BY <2>1, <2>2, <2>3
<1>7. \A d \in Client \ {c} : SameFor(d)
  BY <1>3, <1>6 DEF SameFor
<1>8. ~Awaits(c)'
  <2>1. \A n \in DOMAIN mapInbox'[c] : \/ n \in DOMAIN mapInbox[c] /\ mapInbox'[c][n] = mapInbox[c][n]
                                       \/ mapInbox'[c][n] = e
    BY <1>4, <1>5, <1>6, EventTypes, OneMore
  <2> QED
    BY <1>1, <1>3, <1>4, <1>5, <2>1 DEF Awaits
<1>9. HostAlters(c)'
  BY <1>1, <1>3 DEF MirrorOf, HostAlters, Host
<1>10. HistoryFirst(c)'
  <2>1. synced[c]
    BY <1>1 DEF Awaits
  <2> QED
    BY <1>1, <1>3, <1>8, <2>1 DEF HistoryFirst, Up
<1>11. SessionFirst(c)'
  BY <1>3 DEF MirrorOf, SessionFirst, Host, Named, Up
<1>12. HostLeads(c)'
  <2>1. PICK sent, posted \in Maps : /\ Leads(hints.atoms, toServer[c], sent)
                                     /\ Leads(sent, clientInbox[c], posted)
                                     /\ Leads(map[c].atoms, mapInbox[c], posted)
    BY <1>1 DEF MirrorOf, HostLeads
  <2>2. Then(posted, e) \in Maps
    <3>1. Then(posted, e) = AtomsAfter(posted, p)
      BY <1>4, <1>5, EventThen
    <3> QED
      BY <3>1, AtomsAfterType
  <2>3. Leads(sent, clientInbox'[c], Then(posted, e))
    BY <1>4, <1>5, <1>6, <2>1, <2>2, EventTypes, LeadsOn
  <2>4. Leads(map[c].atoms, mapInbox'[c], Then(posted, e))
    BY <1>4, <1>5, <1>6, <2>1, <2>2, EventTypes, LeadsOn
  <2> QED
    BY <1>3, <2>1, <2>2, <2>3, <2>4 DEF HostLeads
<1> QED
  BY <1>7, <1>9, <1>10, <1>11, <1>12 DEF MirrorOf

\* What the host posted is sent.
LEMMA handlePostedMirror ==
  ASSUME TypeInv, RolesInv, RosterInv, NEW c \in Client, MirrorOf(c), handlePosted(c),
         UNCHANGED serverVars
  PROVE  MirrorOf(c)' /\ \A d \in Client \ {c} : SameFor(d)
<1>1. Up(c) /\ clientInbox[c] # <<>>
  BY DEF handlePosted
<1>2. c \in Host /\ ~Awaits(c) /\ synced[c]
  BY <1>1 DEF MirrorOf, HostAlters, HistoryFirst, Awaits
<1>3. identity(c).role = "Host"
  <2>1. Named(c) /\ sessionUsers[c][c] = [usersById[c] EXCEPT !.sheet = sessionUsers[c][c].sheet]
    BY <1>1, <1>2 DEF RosterInv, SelfKnown, AheadOfServer
  <2>2. usersById[c] \in User /\ usersById[c].role = "Host"
    BY <1>2, <2>1 DEF Named, RolesInv, RolesListNamed, Host, Role, TypeInv, TypeOK, ServerTypeOK, Users
  <2>3. sessionUsers[c][c].role = "Host"
    BY <2>1, <2>2 DEF User
  <2> QED
    BY <1>2, <2>3 DEF identity
<1>4. PICK e : e = Head(clientInbox[c])
  OBVIOUS
<1>5. e \in PostedEvent /\ e.payload \in Payload
  <2>1. e \in PostedEvent
    BY <1>1, <1>4, EventTypes, TailElements
  <2> QED
    BY <2>1 DEF PostedEvent
<1>6. PICK m : m = [method |-> MethodOf(e.payload), payload |-> e.payload]
  OBVIOUS
<1>7. m \in ToServerMessage /\ m.method \in MapChange /\ m.payload = e.payload
  BY <1>5, <1>6 DEF ToServerMessage, MethodOf, MapChange
<1>8. /\ ClientSends(c, <<m>>) /\ clientInbox' = [clientInbox EXCEPT ![c] = Tail(@)]
      /\ UNCHANGED <<link, toClient, synced, hostAble, mapInbox, map, usersById, socketsByRole, hints>>
  BY <1>3, <1>4, <1>6 DEF handlePosted, maySend, rosterVars, mapVars, serverVars
<1>9. /\ toServer'[c] = toServer[c] \o <<m>> /\ clientInbox'[c] = Tail(clientInbox[c])
      /\ \A d \in Client \ {c} : toServer'[d] = toServer[d] /\ clientInbox'[d] = clientInbox[d]
  <2>1. <<m>> \in Seq(ToServerMessage)
    BY <1>7, SingletonElements
  <2>2. /\ toServer'[c] = toServer[c] \o <<m>>
        /\ \A d \in Client \ {c} : toServer'[d] = toServer[d]
    BY <1>1, <1>8, <2>1, ClientSendsElements DEF Up, TypeInv, TypeOK
  <2> QED
    BY <1>8, <2>2 DEF TypeInv, TypeOK, ClientTypeOK
<1>10. \A d \in Client \ {c} : SameFor(d)
  BY <1>8, <1>9 DEF SameFor
<1>11. HostAlters(c)'
  BY <1>2, <1>8 DEF MirrorOf, HostAlters, Host
<1>12. HistoryFirst(c)'
  BY <1>1, <1>2, <1>8 DEF HistoryFirst, Up, Awaits
<1>13. SessionFirst(c)'
  BY <1>8 DEF MirrorOf, SessionFirst, Host, Named, Up
<1>14. HostLeads(c)'
  <2>1. PICK sent, posted \in Maps : /\ Leads(hints.atoms, toServer[c], sent)
                                     /\ Leads(sent, clientInbox[c], posted)
                                     /\ Leads(map[c].atoms, mapInbox[c], posted)
    BY <1>1, <1>2 DEF MirrorOf, HostLeads
  <2>2. Then(sent, m) = Then(sent, e) /\ Then(sent, m) \in Maps
    <3>1. Then(sent, m) = AtomsAfter(sent, e.payload) /\ Then(sent, e) = AtomsAfter(sent, e.payload)
      BY <1>5, <1>7, EventThen, MessageThen
    <3> QED
      BY <1>5, <3>1, AtomsAfterType
  <2>3. Leads(hints.atoms, toServer'[c], Then(sent, m))
    BY <1>7, <1>9, <2>1, <2>2, EventTypes, LeadsOn
  <2>4. Leads(Then(sent, m), clientInbox'[c], posted)
    BY <1>1, <1>4, <1>9, <2>1, <2>2, EventTypes, LeadsAfterFirst
  <2> QED
    BY <1>8, <2>1, <2>2, <2>3, <2>4 DEF HostLeads
<1> QED
  BY <1>10, <1>11, <1>12, <1>13, <1>14 DEF MirrorOf

\* The map thread of a client: on a session, the host posts the history of its
\* map, which replaces whatever the server had.
LEMMA handleMapEventMirror ==
  ASSUME TypeInv, NEW c \in Client, MirrorOf(c), handleMapEvent(c), UNCHANGED serverVars
  PROVE  MirrorOf(c)' /\ \A d \in Client \ {c} : SameFor(d)
<1>1. PICK e : e = Head(mapInbox[c])
  OBVIOUS
<1>2. /\ Up(c) /\ mapInbox[c] # <<>> /\ mapInbox' = [mapInbox EXCEPT ![c] = Tail(@)]
      /\ UNCHANGED <<link, toServer, toClient, synced, hostAble, usersById, socketsByRole, hints>>
  BY DEF handleMapEvent, networkVars, rosterVars, serverVars
<1>3. /\ e \in MapEvent /\ 1 \in DOMAIN mapInbox[c] /\ mapInbox[c][1] = e
      /\ \A n \in DOMAIN Tail(mapInbox[c]) : n + 1 \in DOMAIN mapInbox[c]
                                             /\ Tail(mapInbox[c])[n] = mapInbox[c][n + 1]
  BY <1>1, <1>2, EventTypes, TailElements
<1>4. /\ mapInbox'[c] = Tail(mapInbox[c])
      /\ \A d \in Client \ {c} : mapInbox'[d] = mapInbox[d]
  BY <1>2 DEF TypeInv, TypeOK, ClientTypeOK
<1>5. synced[c] /\ (hostAble[c] <=> c \in Host)
  BY <1>2 DEF MirrorOf, HistoryFirst, HostAlters
<1>6. Awaits(c)' => Awaits(c)
  BY <1>2, <1>3, <1>4 DEF Awaits
<1>7. SessionFirst(c)'
  BY <1>2 DEF MirrorOf, SessionFirst, Host, Named, Up
<1>8. CASE /\ e.op = "alter" /\ map' = [map EXCEPT ![c] = StorageAfter(@, e.payload)]
           /\ UNCHANGED clientInbox
  <2>1. /\ \A d \in Client \ {c} : SameFor(d)
        /\ map'[c] = StorageAfter(map[c], e.payload)
    BY <1>2, <1>4, <1>8 DEF SameFor, TypeInv, TypeOK, ClientTypeOK
  <2>2. c \in Host => ~Awaits(c)
    <3>1. Head(<<sessionReceived>>).op # "alter"
      BY DEF sessionReceived
    <3> QED
      BY <1>1, <1>5, <1>8, <3>1 DEF MirrorOf, HistoryFirst
  <2>3. HostAlters(c)'
    BY <1>2, <1>8 DEF MirrorOf, HostAlters, Host, NoChange
  <2>4. HistoryFirst(c)'
    BY <1>2, <1>5, <1>6, <1>8, <2>2 DEF MirrorOf, HistoryFirst, Host, NoChange, Up
  <2>5. HostLeads(c)'
    <3> SUFFICES ASSUME c \in Host
                 PROVE  \E sent, posted \in Maps : /\ Leads(hints.atoms, toServer[c], sent)
                                                   /\ Leads(sent, clientInbox[c], posted)
                                                   /\ Leads(map'[c].atoms, mapInbox'[c], posted)
      BY <1>2, <1>8 DEF HostLeads, Host
    <3>1. PICK sent, posted \in Maps : /\ Leads(hints.atoms, toServer[c], sent)
                                       /\ Leads(sent, clientInbox[c], posted)
                                       /\ Leads(map[c].atoms, mapInbox[c], posted)
      BY <1>2, <2>2 DEF MirrorOf, HostLeads
    <3>2. Leads(Then(map[c].atoms, e), mapInbox'[c], posted)
      BY <1>1, <1>2, <1>4, <3>1, EventTypes, LeadsAfterFirst
    <3>3. Then(map[c].atoms, e) = map'[c].atoms
      BY <1>3, <1>8, <2>1, EventThen DEF StorageAfter
    <3> QED
      BY <3>1, <3>2, <3>3
  <2> QED
    BY <1>7, <2>1, <2>3, <2>4, <2>5 DEF MirrorOf
<1>9. CASE /\ e.op = "session" /\ UNCHANGED map
           /\ clientInbox' = IF hostAble[c]
                THEN [clientInbox EXCEPT ![c] =
                        Append(@, sendMapHistory(generateResetPayload(map[c])))]
                ELSE clientInbox
  <2>1. /\ Awaits(c) /\ clientInbox[c] = <<>> /\ NoChange(toServer[c])
        /\ c \in Host => mapInbox[c] = <<sessionReceived>>
    BY <1>2, <1>3, <1>5, <1>9 DEF MirrorOf, HistoryFirst, Awaits
  <2>2. \A d \in Client \ {c} : SameFor(d)
    BY <1>2, <1>4, <1>9 DEF SameFor, TypeInv, TypeOK, ClientTypeOK
  <2>3. CASE c \notin Host
    <3>1. clientInbox' = clientInbox
      BY <1>5, <1>9, <2>3
    <3>2. HostAlters(c)'
      BY <1>2, <2>3, <3>1 DEF MirrorOf, HostAlters, Host, NoChange
    <3>3. HistoryFirst(c)'
      BY <1>2, <1>5, <1>6, <2>1, <2>3, <3>1 DEF HistoryFirst, Host, NoChange, Up
    <3>4. HostLeads(c)'
      BY <1>2, <2>3 DEF HostLeads, Host
    <3> QED
      BY <1>7, <2>2, <3>2, <3>3, <3>4 DEF MirrorOf
  <2>4. CASE c \in Host
    <3>1. PICK p, h : p = generateResetPayload(map[c]) /\ h = sendMapHistory(p)
      OBVIOUS
    <3>2. /\ p \in Payload /\ h \in PostedEvent /\ h.payload = p
          /\ \A m : AtomsAfter(m, p) = map[c].atoms
      <4>1. p \in Payload
        BY <3>1, EventTypes, generateResetPayloadType
      <4>2. \A m : AtomsAfter(m, p) = map[c].atoms
        BY <3>1 DEF generateResetPayload, ResetPayload, AtomsAfter
      <4> QED
        BY <3>1, <4>1, <4>2 DEF PostedEvent, sendMapHistory
    <3>3. clientInbox'[c] = <<>> \o <<h>>
      <4>1. clientInbox'[c] = Append(clientInbox[c], h)
        BY <1>5, <1>9, <2>4, <3>1 DEF TypeInv, TypeOK, ClientTypeOK
      <4>2. Append(<<>>, h) = <<>> \o <<h>>
        OBVIOUS
      <4> QED
        BY <2>1, <4>1, <4>2
    <3>4. mapInbox'[c] = <<>>
      <4>1. \A s : Tail(<<s>>) = <<>>
        OBVIOUS
      <4>2. mapInbox[c] = <<sessionReceived>>
        BY <2>1, <2>4
      <4>3. Tail(mapInbox[c]) = <<>>
        BY <4>1, <4>2
      <4>4. mapInbox'[c] = Tail(mapInbox[c])
        BY <1>4 DEF TypeInv, TypeOK, ClientTypeOK
      <4> QED
        BY <4>3, <4>4
    <3>5. ~Awaits(c)'
      <4>1. \A n : n \notin DOMAIN <<>>
        OBVIOUS
      <4> QED
        BY <1>2, <1>5, <3>4, <4>1 DEF Awaits
    <3>6. HostAlters(c)'
      BY <1>2, <1>5, <2>4 DEF HostAlters, Host
    <3>7. HistoryFirst(c)'
      BY <1>2, <1>5, <3>5 DEF HistoryFirst, Up
    <3>8. HostLeads(c)'
      <4>1. map[c].atoms \in Maps /\ hints.atoms \in Maps
        BY EventTypes
      <4>2. Leads(hints.atoms, toServer[c], hints.atoms)
        BY <2>1, <4>1, EventTypes, NoChangeAlters, QuietLeads
      <4>3. Leads(map[c].atoms, <<>>, map[c].atoms)
        BY <4>1, EmptyLeads
      <4>4. Leads(hints.atoms, <<>>, hints.atoms)
        BY <4>1, EmptyLeads
      <4>5. Then(hints.atoms, h) = map[c].atoms
        BY <3>2, EventThen
      <4>6. <<>> \in Seq(PostedEvent)
        OBVIOUS
      <4>7. Leads(hints.atoms, clientInbox'[c], map[c].atoms)
        BY <3>2, <3>3, <4>1, <4>4, <4>5, <4>6, LeadsOn
      <4> QED
        BY <1>2, <1>9, <3>4, <4>1, <4>2, <4>3, <4>7 DEF HostLeads
    <3> QED
      BY <1>7, <2>2, <3>6, <3>7, <3>8 DEF MirrorOf
  <2> QED
    BY <2>3, <2>4
<1> QED
  BY <1>1, <1>8, <1>9 DEF handleMapEvent

LEMMA ClientStepMirror ==
  ASSUME HostWaits, Moves = {}, TypeInv, RolesInv, RosterInv, NEW c \in Client, MirrorOf(c),
         ClientStep(c), UNCHANGED serverVars
  PROVE  MirrorOf(c)' /\ \A d \in Client \ {c} : SameFor(d)
BY connectMirror, endedMirror, onPayloadReceivedMirror, notifyCharacterChangeMirror,
   queueAlterationMirror, handlePostedMirror, handleMapEventMirror DEF ClientStep, close

LEMMA MirrorStep ==
  ASSUME HostWaits, Moves = {}
  PROVE  TypeInv /\ RolesInv /\ RosterInv /\ MirrorInv /\ [Next]_vars => MirrorInv'
<1> SUFFICES ASSUME TypeInv, RolesInv, RosterInv, MirrorInv, [Next]_vars
             PROVE  MirrorInv'
  OBVIOUS
<1>1. CASE UNCHANGED vars
  <2>1. UNCHANGED serverVars /\ \A d \in Client : SameFor(d)
    BY <1>1 DEF vars, networkVars, clientVars, rosterVars, mapVars, SameFor
  <2> QED
    BY <2>1, SameMirror DEF MirrorInv
<1>2. ASSUME NEW c \in Client, ServerStep(c), UNCHANGED clientVars
      PROVE  MirrorInv'
  BY <1>2, ServerStepMirror
<1>3. ASSUME NEW c \in Client, ClientStep(c), UNCHANGED serverVars
      PROVE  MirrorInv'
  <2>1. MirrorOf(c)' /\ \A d \in Client \ {c} : SameFor(d)
    BY <1>3, ClientStepMirror DEF MirrorInv
  <2>2. \A d \in Client \ {c} : MirrorOf(d)'
    BY <1>3, <2>1, SameMirror DEF MirrorInv
  <2> QED
    BY <2>1, <2>2 DEF MirrorInv
<1> QED
  BY <1>1, <1>2, <1>3 DEF Next

\* Once all is handled, the server has the map of the host, as long as nobody
\* alters a map before the history of the host's one is sent, and players move
\* no token: whoever comes and goes, and whatever the host alters meanwhile.
\* Without either condition it does not hold.
THEOREM ServerAlwaysMirrorsHost ==
  ASSUME HostWaits, Moves = {}
  PROVE  Spec => []ServerMirrorsHost
<1>1. Init => TypeInv /\ RolesInv /\ RosterInv /\ MirrorInv
  BY TypeInit, RolesInit, RosterInit, MirrorInit
<1>2. /\ TypeInv /\ RolesInv /\ RosterInv /\ MirrorInv /\ [Next]_vars
      => (TypeInv /\ RolesInv /\ RosterInv /\ MirrorInv)'
  BY TypeStep, RolesStep, RosterStep, MirrorStep
<1>3. TypeInv /\ MirrorInv => ServerMirrorsHost
  BY MirrorRight
<1> QED
  BY <1>1, <1>2, <1>3, PTL DEF Spec

---------------------------------------------------------------------------
(* The players and the map of the server, with nothing to hide *)

\* No atom is for the host only, in the maps that users bring and in what the
\* host draws.
NothingToHide ==
  /\ \A c \in Client : \A m \in StartMaps[c] : RestrictedIdsOf(m) = {}
  /\ \A p \in Changes : RestrictedIdsOf(p.atoms) = {}

\* Nothing in q brings an atom to hide.
Bare(q) == \A n \in DOMAIN q : altering(q[n]) => RestrictedIdsOf(carried(q[n]).atoms) = {}

HintsBare == hints.restricted = {} /\ RestrictedIdsOf(hints.atoms) = {}

BareOf(c) ==
  /\ RestrictedIdsOf(map[c].atoms) = {}
  /\ Bare(toServer[c]) /\ Bare(toClient[c]) /\ Bare(clientInbox[c]) /\ Bare(mapInbox[c])

\* What a user who does not host will have, once its map thread handled what is
\* posted and what is on the way, is what the server has.
GuestFollows(c) ==
  Up(c) /\ Named(c) /\ c \notin Host =>
    \E posted \in Maps : /\ Leads(map[c].atoms, mapInbox[c], posted)
                         /\ Leads(posted, toClient[c], hints.atoms)

GuestOf(c) == BareOf(c) /\ GuestFollows(c)

GuestInv == HintsBare /\ \A c \in Client : GuestOf(c)

LEMMA BareAfter ==
  ASSUME NEW m \in Maps, NEW p \in Payload, RestrictedIdsOf(m) = {}, RestrictedIdsOf(p.atoms) = {}
  PROVE  RestrictedIdsOf(AtomsAfter(m, p)) = {}
<1> SUFFICES ASSUME NEW i \in AtomId
             PROVE  ~isRestrictedAtom(AtomsAfter(m, p)[i])
  BY DEF RestrictedIdsOf
<1>1. ~isRestrictedAtom(m[i]) /\ ~isRestrictedAtom(p.atoms[i]) /\ m[i] \in Atom \cup {NoAtom}
  BY DEF RestrictedIdsOf, Maps
<1>2. ~isRestrictedAtom(NoAtom)
  BY DEF isRestrictedAtom
<1>3. CASE p.type = "Reset"
  BY <1>1, <1>3 DEF AtomsAfter
<1>4. CASE p.type = "Added"
  BY <1>1, <1>4 DEF AtomsAfter
<1>5. CASE p.type = "Removed"
  BY <1>1, <1>2, <1>5 DEF AtomsAfter
<1>6. CASE p.type \in {"MetadataChanged", "BulkMetadataChanged"}
  <2>1. AtomsAfter(m, p)[i] = IF m[i] = NoAtom THEN NoAtom ELSE setMetadata(m[i], p.updates[i])
    BY <1>6 DEF AtomsAfter
  <2>2. CASE m[i] = NoAtom
    BY <1>2, <2>1, <2>2
  <2>3. CASE m[i] # NoAtom
    <3>1. p.updates[i] \in Updates
      BY PayloadFields
    <3>2. setMetadata(m[i], p.updates[i]).type = m[i].type
      BY <1>1, <2>3, <3>1, setMetadataType
    <3> QED
      BY <1>1, <2>1, <2>3, <3>2 DEF isRestrictedAtom
  <2> QED
    BY <2>2, <2>3
<1> QED
  BY <1>3, <1>4, <1>5, <1>6, PayloadFields DEF Alteration

LEMMA BareStorage ==
  ASSUME NEW s \in Storage, NEW p \in Payload, s.restricted = {}, RestrictedIdsOf(s.atoms) = {},
         RestrictedIdsOf(p.atoms) = {}
  PROVE  /\ StorageAfter(s, p).restricted = {}
         /\ RestrictedIdsOf(StorageAfter(s, p).atoms) = {}
         /\ StorageAfter(s, p).atoms = AtomsAfter(s.atoms, p)
<1>1. StorageAfter(s, p).atoms = AtomsAfter(s.atoms, p) /\ s.atoms \in Maps
  BY DEF StorageAfter, Storage
<1>2. RestrictedIdsOf(AtomsAfter(s.atoms, p)) = {}
  BY <1>1, BareAfter
<1>3. RestrictedAfter({}, s.atoms, p) = {}
  BY DEF RestrictedAfter
<1> QED
  BY <1>1, <1>2, <1>3 DEF StorageAfter

LEMMA BareEmpty == Bare(<<>>)
BY DEF Bare

LEMMA BareMore ==
  ASSUME NEW S, NEW s \in Seq(S), NEW t \in Seq(S), NEW q, q = s \o t, Bare(s), Bare(t)
  PROVE  Bare(q)
<1>1. \A n \in DOMAIN (s \o t) :
        \/ n \in DOMAIN s /\ (s \o t)[n] = s[n]
        \/ \E k \in DOMAIN t : (s \o t)[n] = t[k]
  BY ConcatElements
<1> QED
  BY <1>1 DEF Bare

LEMMA BareOne ==
  ASSUME NEW e, altering(e) => RestrictedIdsOf(carried(e).atoms) = {}
  PROVE  Bare(<<e>>)
<1>1. DOMAIN <<e>> = {1} /\ <<e>>[1] = e
  OBVIOUS
<1> QED
  BY <1>1 DEF Bare

LEMMA BareLeft ==
  ASSUME NEW S, NEW q \in Seq(S), q # <<>>, Bare(q)
  PROVE  /\ Bare(Tail(q))
         /\ altering(Head(q)) => RestrictedIdsOf(carried(Head(q)).atoms) = {}
<1>1. /\ 1 \in DOMAIN q /\ q[1] = Head(q)
      /\ \A n \in DOMAIN Tail(q) : n + 1 \in DOMAIN q /\ Tail(q)[n] = q[n + 1]
  BY TailElements
<1> QED
  BY <1>1 DEF Bare

\* What is carried, of each kind of messages and events.
LEMMA Carries ==
  /\ \A e \in MapEvent : (altering(e) <=> e.op = "alter") /\ carried(e) = e.payload
  /\ \A e \in PostedEvent : altering(e) /\ carried(e) = e.payload
  /\ \A e \in ToServerMessage : e.method \in MapChange => altering(e) /\ carried(e) = e.payload
  /\ \A e \in ToClientMessage :
       /\ e.method \in MapChange => altering(e) /\ carried(e) = e.payload
       /\ e.method = "GameSessionSync" => carried(e) = e.map /\ (altering(e) <=> e.full)
<1>1. \A e \in MapEvent : "op" \in DOMAIN e /\ e.op \in {"alter", "session"}
  BY DEF MapEvent, sessionReceived
<1>2. \A e \in PostedEvent : "op" \in DOMAIN e /\ e.op \in {"alter", "history"}
  BY DEF PostedEvent
<1>3. \A e \in ToServerMessage : "op" \notin DOMAIN e
  BY DEF ToServerMessage
<1>4. \A e \in ToClientMessage : "op" \notin DOMAIN e
  BY DEF ToClientMessage
<1>5. "GameSessionSync" \notin MapChange
  BY DEF MapChange
<1> QED
  BY <1>1, <1>2, <1>3, <1>4, <1>5 DEF altering, carried

LEMMA NoneAltersBare ==
  ASSUME NEW q, NoneAlters(q)
  PROVE  Bare(q)
BY DEF Bare, NoneAlters

LEMMA GuestInit == NothingToHide /\ Init => GuestInv
<1> SUFFICES ASSUME NothingToHide, Init
             PROVE  GuestInv
  OBVIOUS
<1>1. HintsBare
  <2>1. hints = StorageOf(NoAtoms)
    BY DEF Init, ServerInit
  <2>2. RestrictedIdsOf(NoAtoms) = {}
    BY DEF RestrictedIdsOf, NoAtoms, isRestrictedAtom
  <2> QED
    BY <2>1, <2>2 DEF HintsBare, StorageOf
<1>2. ASSUME NEW c \in Client
      PROVE  GuestOf(c)
  <2>1. /\ toServer[c] = <<>> /\ toClient[c] = <<>> /\ clientInbox[c] = <<>> /\ mapInbox[c] = <<>>
        /\ ~Named(c)
    BY DEF Init, NetworkInit, ServerInit, ClientInit, NoUsers, Named
  <2>2. \E m \in StartMaps[c] : map[c] = StorageOf(m)
    BY DEF Init, ClientInit
  <2>3. RestrictedIdsOf(map[c].atoms) = {}
    BY <2>2 DEF StorageOf, NothingToHide
  <2> QED
    BY <2>1, <2>3, BareEmpty DEF GuestOf, BareOf, GuestFollows
<1> QED
  BY <1>1, <1>2 DEF GuestInv

LEMMA GuestsRight == TypeInv /\ RosterInv /\ GuestInv => UsersMirrorServer
<1> SUFFICES ASSUME TypeInv, RosterInv, GuestInv, MapIsQuiet, NEW c \in Connected \ Host, Up(c), synced[c],
                    NEW i \in AtomId
             PROVE  map[c].atoms[i] = IF i \in hints.restricted THEN NoAtom ELSE hints.atoms[i]
  BY DEF UsersMirrorServer
<1>1. c \in Client /\ Named(c)
  <2>1. c \in Client
    BY DEF Connected
  <2> QED
    BY <2>1 DEF RosterInv, SelfKnown, AheadOfServer
<1>2. PICK posted \in Maps : /\ Leads(map[c].atoms, mapInbox[c], posted)
                             /\ Leads(posted, toClient[c], hints.atoms)
  BY <1>1 DEF GuestInv, GuestOf, GuestFollows
<1>3. mapInbox[c] = <<>> /\ NoneAlters(toClient[c]) /\ toClient[c] \in Seq(ToClientMessage)
  <2>1. toClient[c] \in Seq(ToClientMessage)
    BY <1>1, EventTypes
  <2>2. \A n \in DOMAIN toClient[c] : toClient[c][n] \in ToClientMessage
    BY <2>1, ElementOfSeq, LenProperties
  <2>3. /\ mapInbox[c] = <<>>
        /\ \A n \in DOMAIN toClient[c] : toClient[c][n].method \notin MapChange \cup {"GameSessionSync"}
    BY <1>1 DEF MapIsQuiet, Pending
  <2> QED
    BY <2>1, <2>2, <2>3, MessageThen DEF NoneAlters
<1>4. posted = map[c].atoms
  BY <1>1, <1>2, <1>3, EmptyLeads, EventTypes
<1>5. hints.atoms = posted
  BY <1>2, <1>3, QuietLeads
<1> QED
  BY <1>4, <1>5 DEF GuestInv, HintsBare


LEMMA SameGuest ==
  ASSUME NEW d \in Client, GuestOf(d), SameFor(d), UNCHANGED serverVars
  PROVE  GuestOf(d)'
<1>1. UNCHANGED <<usersById, socketsByRole, hints>>
  BY DEF serverVars
<1>2. BareOf(d)'
  BY DEF GuestOf, BareOf, SameFor, Bare
<1>3. GuestFollows(d)'
  BY <1>1 DEF GuestOf, GuestFollows, SameFor, Up, Named, Host
<1> QED
  BY <1>2, <1>3 DEF GuestOf

LEMMA QuietStepGuest ==
  ASSUME TypeInv, RosterInv, UNCHANGED <<hints, clientVars>>, NEW c \in Client, GuestOf(c), QuietStep(c)
  PROVE  GuestOf(c)'
<1>1. PICK sent \in [Client -> Seq(ToClientMessage)] :
        /\ ServerSends(sent) /\ Undisturbed(c, sent)
        /\ usersById[c] = NoUser => sent[c] = <<>>
  BY DEF QuietStep
<1>2. UNCHANGED <<clientInbox, mapInbox, map>>
  BY DEF clientVars, mapVars
<1>3. /\ toClient[c] \in Seq(ToClientMessage) /\ sent[c] \in Seq(ToClientMessage)
      /\ Up(c) => toClient'[c] = toClient[c] \o sent[c]
      /\ ~Up(c) => toClient'[c] = <<>>
  BY <1>1, Reaches
<1>4. NoneAlters(sent[c])
  <2>1. \A k \in DOMAIN sent[c] : sent[c][k].method \notin MapChange \cup {"GameSessionSync"}
    BY <1>1 DEF Undisturbed
  <2>2. \A k \in DOMAIN sent[c] : sent[c][k] \in ToClientMessage
    BY <1>3, ElementOfSeq, LenProperties
  <2> QED
    BY <2>1, <2>2, MessageThen DEF NoneAlters
<1>5. BareOf(c)'
  <2>1. Bare(toServer'[c])
    <3>1. toServer[c] # <<>> => Bare(Tail(toServer[c]))
      BY EventTypes, BareLeft DEF GuestOf, BareOf
    <3> QED
      BY <1>1, <3>1, BareEmpty DEF Undisturbed, GuestOf, BareOf
  <2>2. Bare(toClient'[c])
    <3>1. Bare(toClient[c]) /\ Bare(sent[c])
      BY <1>4, NoneAltersBare DEF GuestOf, BareOf
    <3> QED
      BY <1>3, <3>1, BareEmpty, BareMore
  <2> QED
    BY <1>2, <2>1, <2>2 DEF GuestOf, BareOf, Bare
<1>6. GuestFollows(c)'
  <2> SUFFICES ASSUME Up(c)', Named(c)', c \notin Host'
               PROVE  \E posted \in Maps : /\ Leads(map'[c].atoms, mapInbox'[c], posted)
                                           /\ Leads(posted, toClient'[c], hints'.atoms)
    BY DEF GuestFollows
  <2>1. Up(c) /\ Named(c) /\ c \notin Host
    BY <1>1 DEF Undisturbed, Up
  <2>2. PICK posted \in Maps : /\ Leads(map[c].atoms, mapInbox[c], posted)
                               /\ Leads(posted, toClient[c], hints.atoms)
    BY <2>1 DEF GuestOf, GuestFollows
  <2>3. Leads(posted, toClient'[c], hints.atoms)
    BY <1>3, <1>4, <2>1, <2>2, LeadsQuietly
  <2> QED
    BY <1>2, <2>2, <2>3
<1> QED
  BY <1>5, <1>6 DEF GuestOf

\* Who is let in is given the map, as the server has it.
LEMMA LetsInGuest ==
  ASSUME TypeInv, RolesInv, RosterInv, MirrorInv, GuestInv, NEW e \in Client, LetsIn(e),
         UNCHANGED clientVars
  PROVE  GuestInv'
<1>1. /\ UNCHANGED <<link, hints>> /\ \A c \in Client \ {e} : QuietStep(c)
      /\ toServer[e] # <<>> /\ toServer'[e] = Tail(toServer[e])
  BY LetsInSends
<1>2. PICK session \in ToClientMessage :
        /\ session.method = "GameSessionSync" /\ (session.full <=> e \notin Host')
        /\ session.full => session.map = restrictPayload(hints, generateResetPayload(hints))
        /\ Up(e) => toClient'[e] = toClient[e] \o <<session>>
        /\ ~Up(e) => toClient'[e] = <<>>
  BY LetsInSends
<1>3. UNCHANGED <<synced, clientInbox, mapInbox, map>>
  BY DEF clientVars, rosterVars, mapVars
<1>4. \A c \in Client \ {e} : GuestOf(c)'
  BY <1>1, QuietStepGuest DEF GuestInv
<1>5. GuestOf(e) /\ HintsBare /\ MirrorOf(e)
  BY DEF GuestInv, MirrorInv
<1>6. HintsBare'
  BY <1>1, <1>5 DEF HintsBare
<1>7. toClient[e] \in Seq(ToClientMessage) /\ toServer[e] \in Seq(ToServerMessage)
  BY EventTypes
<1>8. /\ session.full => carried(session).atoms = hints.atoms /\ carried(session).type = "Reset"
      /\ altering(session) <=> session.full
  BY <1>2, <1>5, Carries DEF HintsBare, restrictPayload, generateResetPayload, ResetPayload
<1>9. BareOf(e)'
  <2>1. Bare(toServer'[e])
    BY <1>1, <1>5, <1>7, BareLeft DEF GuestOf, BareOf
  <2>2. Bare(<<session>>) /\ <<session>> \in Seq(ToClientMessage)
    BY <1>5, <1>8, BareOne, SingletonElements DEF HintsBare
  <2>3. Bare(toClient'[e])
    BY <1>2, <1>5, <1>7, <2>2, BareMore, BareEmpty DEF GuestOf, BareOf
  <2> QED
    BY <1>3, <1>5, <2>1, <2>3 DEF GuestOf, BareOf, Bare
<1>10. GuestFollows(e)'
  <2> SUFFICES ASSUME Up(e)', e \notin Host'
               PROVE  \E posted \in Maps : /\ Leads(map'[e].atoms, mapInbox'[e], posted)
                                           /\ Leads(posted, toClient'[e], hints'.atoms)
    BY DEF GuestFollows
  <2>1. Up(e) /\ toClient'[e] = toClient[e] \o <<session>>
    BY <1>1, <1>2 DEF Up
  <2>2. /\ ~synced[e]
        /\ \A n \in DOMAIN toClient[e] : toClient[e][n].method \notin MapChange \cup {"GameSessionSync"}
    BY <1>5, NotLetIn DEF LetsIn
  <2>3. NoneAlters(toClient[e])
    <3>1. \A n \in DOMAIN toClient[e] : toClient[e][n] \in ToClientMessage
      BY <1>7, ElementOfSeq, LenProperties
    <3> QED
      BY <2>2, <3>1, MessageThen DEF NoneAlters
  <2>4. map[e].atoms \in Maps /\ hints.atoms \in Maps /\ mapInbox[e] = <<>>
    BY <1>5, <2>2, EventTypes DEF MirrorOf, HistoryFirst
  <2>5. Leads(map[e].atoms, mapInbox[e], map[e].atoms)
    BY <2>4, EmptyLeads
  <2>6. Leads(map[e].atoms, toClient[e], map[e].atoms)
    BY <1>7, <2>3, <2>4, QuietLeads
  <2>7. Then(map[e].atoms, session) = hints.atoms
    BY <1>2, <1>8 DEF Then, AtomsAfter
  <2>8. Leads(map[e].atoms, toClient'[e], hints.atoms)
    BY <1>7, <2>1, <2>4, <2>6, <2>7, LeadsOn
  <2> QED
    BY <1>1, <1>3, <2>4, <2>5, <2>8
<1> QED
  BY <1>4, <1>6, <1>9, <1>10 DEF GuestInv, GuestOf

\* A change is relayed to the players as it is.
LEMMA RelaysGuest ==
  ASSUME TypeInv, RolesInv, RosterInv, MirrorInv, GuestInv, NEW e \in Client, Relays(e),
         UNCHANGED clientVars
  PROVE  GuestInv'
<1>0. PICK m : m = Head(toServer[e])
  OBVIOUS
<1>1. /\ e \in Host /\ m \in ToServerMessage /\ m.payload \in Payload
      /\ m.method \in MapChange /\ toServer[e] # <<>>
  BY <1>0, ChangesAreHosts DEF MirrorInv, MirrorOf, Relays
<1> DEFINE sent == Relayed(e, m.method, m.payload)
<1>2. /\ ServerSends(sent) /\ hints' = StorageAfter(hints, m.payload)
      /\ UNCHANGED <<link, usersById, socketsByRole, synced, clientInbox, mapInbox, map>>
  BY <1>0 DEF Relays, broadcastMapChanges, Relayed, clientVars, rosterVars, mapVars
<1>3. /\ toServer'[e] = Tail(toServer[e]) /\ toServer[e] \in Seq(ToServerMessage)
      /\ \A d \in Client \ {e} : toServer'[d] = toServer[d]
  BY EventTypes DEF Relays, TypeInv, TypeOK, NetworkTypeOK
<1>4. RestrictedIdsOf(m.payload.atoms) = {} /\ Bare(toServer'[e])
  <2>1. GuestOf(e)
    BY DEF GuestInv
  <2>2. altering(m) /\ carried(m) = m.payload
    BY <1>1, Carries
  <2> QED
    BY <1>0, <1>1, <1>3, <2>1, <2>2, BareLeft DEF GuestOf, BareOf
<1>5. /\ hints'.restricted = {} /\ RestrictedIdsOf(hints'.atoms) = {}
      /\ hints'.atoms = AtomsAfter(hints.atoms, m.payload)
      /\ hintsAfter(m.payload).restricted = {}
  <2>1. hints \in Storage /\ hints.restricted = {} /\ RestrictedIdsOf(hints.atoms) = {}
    BY <1>1, EventTypes DEF GuestInv, HintsBare, Host
  <2> QED
    BY <1>1, <1>2, <1>4, <2>1, BareStorage DEF hintsAfter
<1>6. PICK rest : rest = [method |-> m.method, payload |-> m.payload]
  OBVIOUS
<1>7. rest \in ToClientMessage /\ rest.method \in MapChange /\ rest.payload = m.payload
  BY <1>1, <1>6 DEF ToClientMessage
<1>8. \A d \in Client : sent[d] = IF Named(d) /\ d \notin Host THEN <<rest>> ELSE <<>>
  <2>1. worthSending(hintsAfter(m.payload), m.payload)
        /\ restrictPayload(hintsAfter(m.payload), m.payload) = m.payload
    BY <1>5 DEF worthSending, restrictPayload
  <2> QED
    BY <1>1, <1>6, <2>1, RelayedToGuests
<1>9. /\ sent \in [Client -> Seq(ToClientMessage)]
      /\ \A d \in Client : usersById[d] = NoUser => sent[d] = <<>>
  BY <1>1, RelayedElements, RelayedToListed DEF TypeInv, TypeOK
<1> HIDE DEF sent
<1>10. ASSUME NEW c \in Client
       PROVE  GuestOf(c)'
  <2>1. GuestOf(c)
    BY DEF GuestInv
  <2>2. /\ toClient[c] \in Seq(ToClientMessage) /\ sent[c] \in Seq(ToClientMessage)
        /\ Up(c) => toClient'[c] = toClient[c] \o sent[c]
        /\ ~Up(c) => toClient'[c] = <<>>
    BY <1>2, <1>9, Reaches
  <2>3. Bare(toClient'[c])
    <3>1. Bare(<<rest>>)
      BY <1>4, <1>7, BareOne, Carries
    <3>2. Bare(sent[c])
      BY <1>8, <3>1, BareEmpty
    <3> QED
      BY <2>1, <2>2, <3>2, BareMore, BareEmpty DEF GuestOf, BareOf
  <2>4. BareOf(c)'
    BY <1>2, <1>3, <1>4, <2>1, <2>3 DEF GuestOf, BareOf, Bare
  <2>5. GuestFollows(c)'
    <3> SUFFICES ASSUME Up(c), Named(c), c \notin Host
                 PROVE  \E posted \in Maps : /\ Leads(map[c].atoms, mapInbox[c], posted)
                                             /\ Leads(posted, toClient'[c], hints'.atoms)
      BY <1>2 DEF GuestFollows, Up, Named, Host
    <3>1. PICK posted \in Maps : /\ Leads(map[c].atoms, mapInbox[c], posted)
                                 /\ Leads(posted, toClient[c], hints.atoms)
      BY <2>1 DEF GuestOf, GuestFollows
    <3>2. toClient'[c] = toClient[c] \o <<rest>>
      BY <1>8, <2>2
    <3>3. Then(hints.atoms, rest) = hints'.atoms /\ hints'.atoms \in Maps
      <4>1. Then(hints.atoms, rest) = AtomsAfter(hints.atoms, m.payload)
        BY <1>7, MessageThen
      <4>2. hints.atoms \in Maps
        BY EventTypes
      <4> QED
        BY <1>1, <1>5, <4>1, <4>2, AtomsAfterType
    <3>4. Leads(posted, toClient'[c], Then(hints.atoms, rest))
      BY <1>7, <2>2, <3>1, <3>2, <3>3, LeadsOn
    <3> QED
      BY <3>1, <3>3, <3>4
  <2> QED
    BY <2>4, <2>5 DEF GuestOf
<1> QED
  BY <1>5, <1>10 DEF GuestInv, HintsBare

LEMMA ServerStepGuest ==
  ASSUME TypeInv, RolesInv, RosterInv, MirrorInv, GuestInv, NEW e \in Client, ServerStep(e),
         UNCHANGED clientVars
  PROVE  GuestInv'
<1>1. CASE UNCHANGED hints /\ \A c \in Client : QuietStep(c)
  BY <1>1, QuietStepGuest DEF GuestInv, HintsBare
<1> QED
  BY <1>1, ServerStepCases, LetsInGuest, RelaysGuest


\* c sends nothing about the map.
LEMMA BareSent ==
  ASSUME TypeInv, NEW c \in Client, SendsNoChange(c), Bare(toServer[c])
  PROVE  Bare(toServer'[c])
<1>1. CASE toServer'[c] = toServer[c]
  BY <1>1
<1>2. CASE \E t \in Seq(ToServerMessage) : NoChange(t) /\ toServer'[c] = toServer[c] \o t
  <2>1. PICK t \in Seq(ToServerMessage) : NoChange(t) /\ toServer'[c] = toServer[c] \o t
    BY <1>2
  <2>2. Bare(t)
    BY <2>1, NoChangeAlters, NoneAltersBare
  <2> QED
    BY <2>1, <2>2, EventTypes, BareMore
<1> QED
  BY <1>1, <1>2 DEF SendsNoChange

\* c reads a message and posts what it says of the map to its map thread.
LEMMA ReadGuest ==
  ASSUME TypeInv, NEW c \in Client, GuestOf(c), toClient[c] # <<>>,
         toClient'[c] = Tail(toClient[c]), SendsNoChange(c), link'[c] = link[c],
         clientInbox'[c] = clientInbox[c], map'[c] = map[c], Bare(mapInbox'[c]),
         \A M \in Maps : Leads(map[c].atoms, mapInbox[c], M) =>
           Leads(map[c].atoms, mapInbox'[c], Then(M, Head(toClient[c]))),
         UNCHANGED serverVars
  PROVE  GuestOf(c)'
<1>1. UNCHANGED <<usersById, socketsByRole, hints>>
  BY DEF serverVars
<1>2. toClient[c] \in Seq(ToClientMessage) /\ toClient'[c] \in Seq(ToClientMessage)
  BY EventTypes, TailElements
<1>3. BareOf(c)'
  <2>1. Bare(toServer'[c])
    BY BareSent DEF GuestOf, BareOf
  <2>2. Bare(toClient'[c])
    BY <1>2, BareLeft DEF GuestOf, BareOf
  <2> QED
    BY <2>1, <2>2 DEF GuestOf, BareOf, Bare
<1>4. GuestFollows(c)'
  <2> SUFFICES ASSUME Up(c), Named(c), c \notin Host
               PROVE  \E posted \in Maps : /\ Leads(map[c].atoms, mapInbox'[c], posted)
                                           /\ Leads(posted, toClient'[c], hints.atoms)
    BY <1>1 DEF GuestFollows, Up, Named, Host
  <2>1. PICK posted \in Maps : /\ Leads(map[c].atoms, mapInbox[c], posted)
                               /\ Leads(posted, toClient[c], hints.atoms)
    BY DEF GuestOf, GuestFollows
  <2>2. Leads(Then(posted, Head(toClient[c])), toClient'[c], hints.atoms)
    BY <1>2, <2>1, LeadsAfterFirst
  <2>3. Then(posted, Head(toClient[c])) \in Maps
    BY <1>2, <2>2, LeadsType
  <2> QED
    BY <2>1, <2>2, <2>3
<1> QED
  BY <1>3, <1>4 DEF GuestOf

LEMMA gameSessionSyncGuest ==
  ASSUME TypeInv, NEW c \in Client, GuestOf(c), toClient[c] # <<>>,
         NEW m, m = Head(toClient[c]), m.method = "GameSessionSync", gameSessionSync(c, m),
         toClient' = [toClient EXCEPT ![c] = Tail(@)],
         UNCHANGED <<link, clientInbox, changes, serverVars>>
  PROVE  GuestOf(c)'
<1>1. m \in ToClientMessage /\ m.map \in Payload
  BY EventTypes, TailElements, ToClientFields
<1>2. toClient'[c] = Tail(toClient[c]) /\ mapInbox[c] \in Seq(MapEvent)
  BY EventTypes DEF TypeInv, TypeOK, NetworkTypeOK
<1>3. SendsNoChange(c) /\ map' = map
  <2>1. SendsNoChange(c)
    BY <1>1, onMapChangeReceivedSendsNoChange DEF gameSessionSync, SendsNoChange
  <2>2. map' = map
    BY DEF gameSessionSync, onMapChangeReceived
  <2> QED
    BY <2>1, <2>2
<1>4. PICK s, e : s = sessionReceived /\ e = alter(m.map)
  OBVIOUS
<1>5. /\ s \in MapEvent /\ ~altering(s) /\ e \in MapEvent /\ altering(e) /\ carried(e) = m.map
      /\ altering(m) <=> m.full
      /\ carried(m) = m.map
  <2>1. s \in MapEvent /\ s.op = "session"
    BY <1>4 DEF MapEvent, sessionReceived
  <2>2. e \in MapEvent /\ e.op = "alter" /\ e.payload = m.map
    BY <1>1, <1>4 DEF MapEvent, alter
  <2> QED
    BY <1>1, <2>1, <2>2, Carries
<1>6. /\ ~m.full => mapInbox'[c] = mapInbox[c] \o <<s>>
      /\ m.full => mapInbox'[c] = (mapInbox[c] \o <<s>>) \o <<e>>
  <2>1. /\ ~m.full => mapInbox' = [mapInbox EXCEPT ![c] = Append(@, sessionReceived)]
        /\ m.full => mapInbox' = [mapInbox EXCEPT ![c] = @ \o <<sessionReceived>> \o <<alter(m.map)>>]
    BY DEF gameSessionSync, onMapChangeReceived
  <2>2. Append(mapInbox[c], s) = mapInbox[c] \o <<s>>
    BY <1>2, <1>5, AppendIsConcat
  <2> QED
    BY <1>4, <2>1, <2>2 DEF TypeInv, TypeOK, ClientTypeOK
<1>7. PICK q : q = mapInbox[c] \o <<s>>
  OBVIOUS
<1>8. q \in Seq(MapEvent) /\ Bare(q)
  <2>1. <<s>> \in Seq(MapEvent) /\ Bare(<<s>>)
    BY <1>5, SingletonElements, BareOne
  <2> QED
    BY <1>2, <1>7, <2>1, ConcatProperties, BareMore DEF GuestOf, BareOf
<1>9. Bare(mapInbox'[c])
  <2>1. CASE ~m.full
    BY <1>6, <1>7, <1>8, <2>1
  <2>2. CASE m.full
    <3>1. RestrictedIdsOf(m.map.atoms) = {}
      BY <1>5, <2>2, EventTypes, BareLeft DEF GuestOf, BareOf
    <3>2. Bare(<<e>>) /\ <<e>> \in Seq(MapEvent)
      BY <1>5, <3>1, SingletonElements, BareOne
    <3>3. mapInbox'[c] = q \o <<e>>
      BY <1>6, <1>7, <2>2
    <3> QED
      BY <1>8, <3>2, <3>3, BareMore
  <2> QED
    BY <2>1, <2>2
<1>10. ASSUME NEW M \in Maps, Leads(map[c].atoms, mapInbox[c], M)
       PROVE  Leads(map[c].atoms, mapInbox'[c], Then(M, m))
  <2>1. Then(M, s) = M
    BY <1>5 DEF Then
  <2>2. Leads(map[c].atoms, q, M)
    <3>1. Leads(map[c].atoms, q, Then(M, s))
      BY <1>2, <1>5, <1>7, <1>10, <2>1, LeadsOn
    <3> QED
      BY <2>1, <3>1
  <2>3. CASE ~m.full
    BY <1>5, <1>6, <1>7, <2>2, <2>3 DEF Then
  <2>4. CASE m.full
    <3>1. Then(M, m) = AtomsAfter(M, m.map) /\ Then(M, e) = AtomsAfter(M, m.map)
      BY <1>5, <2>4 DEF Then
    <3>2. Then(M, e) \in Maps
      BY <1>1, <3>1, AtomsAfterType
    <3>3. Leads(map[c].atoms, mapInbox'[c], Then(M, e))
      BY <1>5, <1>6, <1>7, <1>8, <2>2, <2>4, <3>2, LeadsOn
    <3> QED
      BY <3>1, <3>3
  <2> QED
    BY <2>3, <2>4
<1> QED
  BY <1>2, <1>3, <1>9, <1>10, ReadGuest

LEMMA mapChangedGuest ==
  ASSUME TypeInv, NEW c \in Client, GuestOf(c), toClient[c] # <<>>,
         NEW m, m = Head(toClient[c]), m.method \in MapChange, mapChanged(c, m),
         toClient' = [toClient EXCEPT ![c] = Tail(@)],
         UNCHANGED <<link, clientInbox, changes, serverVars>>
  PROVE  GuestOf(c)'
<1>1. m \in ToClientMessage /\ m.payload \in Payload
  BY EventTypes, TailElements, ToClientFields
<1>2. toClient'[c] = Tail(toClient[c]) /\ mapInbox[c] \in Seq(MapEvent)
  BY EventTypes DEF TypeInv, TypeOK, NetworkTypeOK
<1>3. SendsNoChange(c) /\ map' = map
  BY <1>1, onMapChangeReceivedSendsNoChange DEF mapChanged, onMapChangeReceived
<1>4. PICK e : e = alter(m.payload)
  OBVIOUS
<1>5. /\ e \in MapEvent /\ altering(e) /\ carried(e) = m.payload
      /\ altering(m) /\ carried(m) = m.payload
  <2>1. e \in MapEvent /\ e.op = "alter" /\ e.payload = m.payload
    BY <1>1, <1>4 DEF MapEvent, alter
  <2> QED
    BY <1>1, <2>1, Carries
<1>6. mapInbox'[c] = mapInbox[c] \o <<e>>
  <2>1. mapInbox' = [mapInbox EXCEPT ![c] = @ \o <<>> \o <<alter(m.payload)>>]
    BY DEF mapChanged, onMapChangeReceived
  <2>2. mapInbox[c] \o <<>> = mapInbox[c]
    BY <1>2
  <2> QED
    BY <1>4, <2>1, <2>2 DEF TypeInv, TypeOK, ClientTypeOK
<1>7. Bare(mapInbox'[c])
  <2>1. RestrictedIdsOf(m.payload.atoms) = {}
    BY <1>5, EventTypes, BareLeft DEF GuestOf, BareOf
  <2>2. Bare(<<e>>) /\ <<e>> \in Seq(MapEvent)
    BY <1>5, <2>1, SingletonElements, BareOne
  <2> QED
    BY <1>2, <1>6, <2>2, BareMore DEF GuestOf, BareOf
<1>8. ASSUME NEW M \in Maps, Leads(map[c].atoms, mapInbox[c], M)
      PROVE  Leads(map[c].atoms, mapInbox'[c], Then(M, m))
  <2>1. Then(M, m) = Then(M, e)
    BY <1>5 DEF Then
  <2>2. Then(M, e) \in Maps
    BY <1>1, <1>5, AtomsAfterType DEF Then
  <2>3. Leads(map[c].atoms, mapInbox'[c], Then(M, e))
    BY <1>2, <1>5, <1>6, <1>8, <2>2, LeadsOn
  <2> QED
    BY <2>1, <2>3
<1> QED
  BY <1>2, <1>3, <1>7, <1>8, ReadGuest

\* Who left follows nothing.
LEMMA endedGuest ==
  ASSUME TypeInv, NEW c \in Client, GuestOf(c), ended(c)
  PROVE  GuestOf(c)'
<1>1. /\ link'[c] # "up" /\ toClient'[c] = <<>> /\ clientInbox'[c] = <<>> /\ mapInbox'[c] = <<>>
      /\ UNCHANGED <<toServer, map>>
  BY DEF ended, TypeInv, TypeOK, NetworkTypeOK, ClientTypeOK
<1> QED
  BY <1>1, BareEmpty DEF GuestOf, BareOf, GuestFollows, Up, Bare

LEMMA onPayloadReceivedGuest ==
  ASSUME TypeInv, NEW c \in Client, GuestOf(c), onPayloadReceived(c), UNCHANGED serverVars
  PROVE  GuestOf(c)'
<1>1. PICK m : m = Head(toClient[c])
  OBVIOUS
<1>2. toClient[c] # <<>> /\ m \in ToClientMessage
  BY <1>1, EventTypes, TailElements DEF onPayloadReceived
<1>3. CASE ended(c)
  BY <1>3, endedGuest
<1>4. CASE toClient' = [toClient EXCEPT ![c] = Tail(@)] /\ UNCHANGED <<link, clientInbox, changes>>
  <2>1. toClient'[c] = Tail(toClient[c])
    BY <1>4 DEF TypeInv, TypeOK, NetworkTypeOK
  <2>2. CASE /\ UNCHANGED <<toServer, mapInbox, map>>
             /\ m.method \in {"UserIn", "UserOut", "UserDataChanged", "RequestedAsset"}
    <3>1. ~altering(m)
      BY <1>2, <2>2, MessageThen DEF MapChange
    <3>2. \A M : Then(M, m) = M
      BY <3>1 DEF Then
    <3>3. SendsNoChange(c) /\ Bare(mapInbox'[c])
      BY <2>2 DEF SendsNoChange, GuestOf, BareOf
    <3> QED
      BY <1>1, <1>2, <1>4, <2>1, <2>2, <3>2, <3>3, ReadGuest
  <2>3. CASE m.method = "GameSessionSync" /\ gameSessionSync(c, m)
    BY <1>1, <1>2, <1>4, <2>3, gameSessionSyncGuest
  <2>4. CASE m.method \in MapChange /\ mapChanged(c, m)
    BY <1>1, <1>2, <1>4, <2>4, mapChangedGuest
  <2>5. CASE m.method = "UserIn" /\ userIn(c, m.id, m.user)
    BY <2>2, <2>5 DEF userIn, mapVars
  <2>6. CASE m.method = "UserOut" /\ userOut(c, m.id)
    BY <2>2, <2>6 DEF userOut, mapVars
  <2>7. CASE m.method = "UserDataChanged" /\ userDataChanged(c, m.id, m.user)
    BY <2>2, <2>7 DEF userDataChanged, mapVars
  <2>8. CASE m.method = "RequestedAsset" /\ requestedAsset(c, m.hash)
    BY <2>2, <2>8 DEF requestedAsset
  <2> QED
    BY <1>1, <1>3, <2>3, <2>4, <2>5, <2>6, <2>7, <2>8 DEF onPayloadReceived
<1> QED
  BY <1>3, <1>4 DEF onPayloadReceived

LEMMA connectGuest ==
  ASSUME TypeInv, RolesInv, NEW c \in Client, GuestOf(c), connect(c), UNCHANGED serverVars
  PROVE  GuestOf(c)'
<1>1. PICK character \in Incarnates[c] :
        toServer' = [toServer EXCEPT ![c] = <<[method |-> "Handshake", character |-> character]>>]
  BY DEF connect
<1>2. /\ UNCHANGED <<toClient, clientInbox, mapInbox, map, usersById>>
      /\ usersById[c] = NoUser
  BY DEF connect, clientVars, mapVars, serverVars, RolesInv, IdleIsUnknown
<1>3. PICK m : m = [method |-> "Handshake", character |-> character]
  OBVIOUS
<1>4. toServer'[c] = <<m>> /\ ~altering(m)
  <2>1. "op" \notin DOMAIN m /\ m.method = "Handshake"
    BY <1>3
  <2>2. ~altering(m)
    BY <2>1 DEF altering, MapChange
  <2> QED
    BY <1>1, <1>3, <2>2 DEF TypeInv, TypeOK, NetworkTypeOK
<1>5. Bare(toServer'[c])
  BY <1>4, BareOne
<1>6. BareOf(c)'
  BY <1>2, <1>5 DEF GuestOf, BareOf, Bare
<1>7. GuestFollows(c)'
  BY <1>2 DEF GuestFollows, Named
<1> QED
  BY <1>6, <1>7 DEF GuestOf

LEMMA notifyCharacterChangeGuest ==
  ASSUME TypeInv, NEW c \in Client, MirrorOf(c), GuestOf(c), notifyCharacterChange(c),
         UNCHANGED serverVars
  PROVE  GuestOf(c)'
<1>1. PICK m : m = [method |-> "CharacterChanged", sheet |-> identity(c).sheet + 1]
  OBVIOUS
<1>2. /\ ClientSends(c, <<m>>)
      /\ UNCHANGED <<link, toClient, clientInbox, mapInbox, map, usersById, socketsByRole, hints>>
  BY <1>1 DEF notifyCharacterChange, mapVars, serverVars
<1>3. m \in ToServerMessage /\ m.method \notin MapChange
  <2>1. identity(c).sheet \in 0..MaxSheet /\ identity(c).sheet < MaxSheet
    BY notifyCharacterChangeType DEF notifyCharacterChange, identity, User
  <2>2. identity(c).sheet + 1 \in 0..MaxSheet
    BY <2>1, MaxSheetAssumption
  <2> QED
    BY <1>1, <2>2 DEF ToServerMessage, MapChange
<1>4. SendsNoChange(c)
  <2>1. <<m>> \in Seq(ToServerMessage) /\ NoChange(<<m>>)
    BY <1>3, SingletonElements DEF NoChange
  <2> QED
    BY <1>2, <2>1, ClientSendsNoChange
<1>5. Bare(toServer'[c])
  BY <1>4, BareSent DEF GuestOf, BareOf
<1> QED
  BY <1>2, <1>5 DEF GuestOf, BareOf, GuestFollows, Bare, Up, Named, Host

\* Only the host queues alterations, none of which it has to hide.
LEMMA queueAlterationGuest ==
  ASSUME HostWaits, Moves = {}, NothingToHide, TypeInv, NEW c \in Client, MirrorOf(c), GuestOf(c),
         queueAlteration(c), UNCHANGED serverVars
  PROVE  GuestOf(c)'
<1>1. c \in Host
  BY OnlyHostQueues
<1>2. PICK p \in Payload :
        /\ p \in Changes
        /\ clientInbox' = [clientInbox EXCEPT ![c] = Append(@, alter(p))]
        /\ mapInbox' = [mapInbox EXCEPT ![c] = Append(@, alter(p))]
  BY OnlyHostQueues
<1>3. UNCHANGED <<link, toServer, toClient, map, usersById, socketsByRole, hints>>
  BY DEF queueAlteration, networkVars, serverVars
<1>4. PICK e : e = alter(p)
  OBVIOUS
<1>5. /\ e \in MapEvent /\ e \in PostedEvent /\ e.payload = p
  BY <1>4 DEF MapEvent, PostedEvent, alter
<1>6. clientInbox'[c] = clientInbox[c] \o <<e>> /\ mapInbox'[c] = mapInbox[c] \o <<e>>
  <2>1. clientInbox'[c] = Append(clientInbox[c], e) /\ mapInbox'[c] = Append(mapInbox[c], e)
    BY <1>2, <1>4 DEF TypeInv, TypeOK, ClientTypeOK
  <2>2. Append(clientInbox[c], e) = clientInbox[c] \o <<e>>
    BY <1>5, EventTypes, AppendIsConcat
  <2>3. Append(mapInbox[c], e) = mapInbox[c] \o <<e>>
    BY <1>5, EventTypes, AppendIsConcat
  <2> QED
    BY <2>1, <2>2, <2>3
<1>7. Bare(<<e>>)
  <2>1. RestrictedIdsOf(p.atoms) = {}
    BY <1>2 DEF NothingToHide
  <2> QED
    BY <1>5, <2>1, BareOne, Carries
<1>8. Bare(clientInbox'[c])
  <2>1. <<e>> \in Seq(PostedEvent)
    BY <1>5, SingletonElements
  <2> QED
    BY <1>6, <1>7, <2>1, EventTypes, BareMore DEF GuestOf, BareOf
<1>9. Bare(mapInbox'[c])
  <2>1. <<e>> \in Seq(MapEvent)
    BY <1>5, SingletonElements
  <2> QED
    BY <1>6, <1>7, <2>1, EventTypes, BareMore DEF GuestOf, BareOf
<1>10. BareOf(c)'
  BY <1>3, <1>8, <1>9 DEF GuestOf, BareOf, Bare
<1>11. GuestFollows(c)'
  BY <1>1, <1>3 DEF GuestFollows, Host
<1> QED
  BY <1>10, <1>11 DEF GuestOf

LEMMA handlePostedGuest ==
  ASSUME TypeInv, NEW c \in Client, MirrorOf(c), GuestOf(c), handlePosted(c), UNCHANGED serverVars
  PROVE  GuestOf(c)'
<1>1. PICK e : e = Head(clientInbox[c])
  OBVIOUS
<1>2. Up(c) /\ clientInbox[c] # <<>>
  BY DEF handlePosted
<1>3. /\ clientInbox'[c] = Tail(clientInbox[c])
      /\ UNCHANGED <<link, toClient, mapInbox, map, usersById, socketsByRole, hints>>
  BY DEF handlePosted, rosterVars, mapVars, serverVars, TypeInv, TypeOK, ClientTypeOK
<1>4. e \in PostedEvent /\ e.payload \in Payload
  <2>1. e \in PostedEvent
    BY <1>1, <1>2, EventTypes, TailElements
  <2> QED
    BY <2>1 DEF PostedEvent
<1>5. Bare(clientInbox'[c]) /\ RestrictedIdsOf(e.payload.atoms) = {}
  <2>1. altering(e) /\ carried(e) = e.payload
    BY <1>4, Carries
  <2> QED
    BY <1>1, <1>2, <1>3, <2>1, EventTypes, BareLeft DEF GuestOf, BareOf
<1>6. Bare(toServer'[c])
  <2>1. CASE UNCHANGED toServer
    BY <2>1 DEF GuestOf, BareOf
  <2>2. CASE ClientSends(c, <<[method |-> MethodOf(e.payload), payload |-> e.payload]>>)
    <3>1. PICK m : m = [method |-> MethodOf(e.payload), payload |-> e.payload]
      OBVIOUS
    <3>2. m \in ToServerMessage /\ m.method \in MapChange /\ m.payload = e.payload
      BY <1>4, <3>1 DEF ToServerMessage, MethodOf, MapChange
    <3>3. <<m>> \in Seq(ToServerMessage) /\ Bare(<<m>>)
      BY <1>5, <3>2, SingletonElements, BareOne, Carries
    <3>4. toServer'[c] = toServer[c] \o <<m>>
      BY <1>2, <2>2, <3>1, <3>3, ClientSendsElements DEF Up, TypeInv, TypeOK
    <3> QED
      BY <3>3, <3>4, EventTypes, BareMore DEF GuestOf, BareOf
  <2> QED
    BY <1>1, <2>1, <2>2 DEF handlePosted
<1> QED
  BY <1>3, <1>5, <1>6 DEF GuestOf, BareOf, GuestFollows, Bare, Up, Named, Host

LEMMA handleMapEventGuest ==
  ASSUME TypeInv, NEW c \in Client, GuestOf(c), handleMapEvent(c), UNCHANGED serverVars
  PROVE  GuestOf(c)'
<1>1. PICK e : e = Head(mapInbox[c])
  OBVIOUS
<1>2. /\ mapInbox[c] # <<>> /\ mapInbox'[c] = Tail(mapInbox[c])
      /\ UNCHANGED <<link, toServer, toClient, usersById, socketsByRole, hints>>
  BY DEF handleMapEvent, networkVars, serverVars, TypeInv, TypeOK, ClientTypeOK
<1>3. e \in MapEvent /\ (e.op = "alter" => e.payload \in Payload)
  <2>1. e \in MapEvent
    BY <1>1, <1>2, EventTypes, TailElements
  <2> QED
    BY <2>1 DEF MapEvent, sessionReceived
<1>4. /\ Bare(mapInbox'[c])
      /\ e.op = "alter" => RestrictedIdsOf(e.payload.atoms) = {}
  <2>1. (altering(e) <=> e.op = "alter") /\ carried(e) = e.payload
    BY <1>3, Carries
  <2> QED
    BY <1>1, <1>2, <2>1, EventTypes, BareLeft DEF GuestOf, BareOf
<1>5. map[c] \in Storage /\ map[c].atoms \in Maps /\ RestrictedIdsOf(map[c].atoms) = {}
  BY EventTypes DEF GuestOf, BareOf
<1>6. map'[c].atoms = Then(map[c].atoms, e) /\ RestrictedIdsOf(map'[c].atoms) = {}
  <2>1. CASE e.op = "alter" /\ map' = [map EXCEPT ![c] = StorageAfter(@, e.payload)]
    <3>1. map'[c].atoms = AtomsAfter(map[c].atoms, e.payload)
      BY <2>1 DEF StorageAfter, TypeInv, TypeOK, ClientTypeOK
    <3> QED
      BY <1>3, <1>4, <1>5, <2>1, <3>1, BareAfter, EventThen
  <2>2. CASE e.op = "session" /\ UNCHANGED map
    BY <1>3, <1>5, <2>2, EventThen
  <2> QED
    BY <1>1, <2>1, <2>2 DEF handleMapEvent
<1>7. Bare(clientInbox'[c])
  <2>1. CASE UNCHANGED clientInbox
    BY <2>1 DEF GuestOf, BareOf
  <2>2. CASE clientInbox' = [clientInbox EXCEPT ![c] =
                              Append(@, sendMapHistory(generateResetPayload(map[c])))]
    <3>1. PICK p, h : p = generateResetPayload(map[c]) /\ h = sendMapHistory(p)
      OBVIOUS
    <3>2. p \in Payload /\ p.atoms = map[c].atoms
      <4>1. p \in Payload
        BY <1>5, <3>1, generateResetPayloadType
      <4> QED
        BY <3>1, <4>1 DEF generateResetPayload, ResetPayload
    <3>3. h \in PostedEvent /\ h.payload = p
      BY <3>1, <3>2 DEF PostedEvent, sendMapHistory
    <3>4. <<h>> \in Seq(PostedEvent) /\ Bare(<<h>>)
      BY <1>5, <3>2, <3>3, SingletonElements, BareOne, Carries
    <3>5. clientInbox'[c] = clientInbox[c] \o <<h>>
      <4>1. clientInbox'[c] = Append(clientInbox[c], h)
        BY <2>2, <3>1 DEF TypeInv, TypeOK, ClientTypeOK
      <4>2. Append(clientInbox[c], h) = clientInbox[c] \o <<h>>
        BY <3>3, EventTypes, AppendIsConcat
      <4> QED
        BY <4>1, <4>2
    <3> QED
      BY <3>4, <3>5, EventTypes, BareMore DEF GuestOf, BareOf
  <2> QED
    BY <2>1, <2>2 DEF handleMapEvent
<1>8. BareOf(c)'
  BY <1>2, <1>4, <1>6, <1>7 DEF GuestOf, BareOf, Bare
<1>9. GuestFollows(c)'
  <2> SUFFICES ASSUME Up(c), Named(c), c \notin Host
               PROVE  \E posted \in Maps : /\ Leads(map'[c].atoms, mapInbox'[c], posted)
                                           /\ Leads(posted, toClient[c], hints.atoms)
    BY <1>2 DEF GuestFollows, Up, Named, Host
  <2>1. PICK posted \in Maps : /\ Leads(map[c].atoms, mapInbox[c], posted)
                               /\ Leads(posted, toClient[c], hints.atoms)
    BY DEF GuestOf, GuestFollows
  <2>2. Leads(Then(map[c].atoms, e), mapInbox'[c], posted)
    BY <1>1, <1>2, <2>1, EventTypes, LeadsAfterFirst
  <2> QED
    BY <1>6, <2>1, <2>2
<1> QED
  BY <1>8, <1>9 DEF GuestOf

LEMMA ClientStepGuest ==
  ASSUME HostWaits, Moves = {}, NothingToHide, TypeInv, RolesInv, NEW c \in Client, MirrorOf(c),
         GuestOf(c), ClientStep(c), UNCHANGED serverVars
  PROVE  GuestOf(c)'
BY connectGuest, endedGuest, onPayloadReceivedGuest, notifyCharacterChangeGuest,
   queueAlterationGuest, handlePostedGuest, handleMapEventGuest DEF ClientStep, close

LEMMA GuestStep ==
  ASSUME HostWaits, Moves = {}, NothingToHide
  PROVE  TypeInv /\ RolesInv /\ RosterInv /\ MirrorInv /\ GuestInv /\ [Next]_vars => GuestInv'
<1> SUFFICES ASSUME TypeInv, RolesInv, RosterInv, MirrorInv, GuestInv, [Next]_vars
             PROVE  GuestInv'
  OBVIOUS
<1>1. ASSUME UNCHANGED serverVars, \A d \in Client : GuestOf(d)'
      PROVE  GuestInv'
  BY <1>1 DEF GuestInv, HintsBare, serverVars
<1>2. CASE UNCHANGED vars
  <2>1. UNCHANGED serverVars /\ \A d \in Client : SameFor(d)
    BY <1>2 DEF vars, networkVars, clientVars, rosterVars, mapVars, SameFor
  <2> QED
    BY <1>1, <2>1, SameGuest DEF GuestInv
<1>3. ASSUME NEW c \in Client, ServerStep(c), UNCHANGED clientVars
      PROVE  GuestInv'
  BY <1>3, ServerStepGuest
<1>4. ASSUME NEW c \in Client, ClientStep(c), UNCHANGED serverVars
      PROVE  GuestInv'
  <2>1. GuestOf(c)'
    BY <1>4, ClientStepGuest DEF MirrorInv, GuestInv
  <2>2. \A d \in Client \ {c} : SameFor(d)
    BY <1>4, ClientStepMirror DEF MirrorInv
  <2>3. \A d \in Client \ {c} : GuestOf(d)'
    BY <1>4, <2>2, SameGuest DEF GuestInv
  <2> QED
    BY <1>1, <1>4, <2>1, <2>3
<1> QED
  BY <1>2, <1>3, <1>4 DEF Next

\* Once all is handled, every user shows the map of the server, under the same
\* conditions and as long as no atom is for the host only: whoever joins and
\* whenever, while the host draws or hands over, each is sent a session first,
\* then every change made after it, in order. With atoms to hide it does not
\* hold: a removal or an update that names one among its targets is withheld
\* as a whole.
THEOREM UsersAlwaysMirrorServer ==
  ASSUME HostWaits, Moves = {}, NothingToHide
  PROVE  Spec => []UsersMirrorServer
<1>1. Init => TypeInv /\ RolesInv /\ RosterInv /\ MirrorInv /\ GuestInv
  BY TypeInit, RolesInit, RosterInit, MirrorInit, GuestInit
<1>2. /\ TypeInv /\ RolesInv /\ RosterInv /\ MirrorInv /\ GuestInv /\ [Next]_vars
      => (TypeInv /\ RolesInv /\ RosterInv /\ MirrorInv /\ GuestInv)'
  BY TypeStep, RolesStep, RosterStep, MirrorStep, GuestStep
<1>3. TypeInv /\ RosterInv /\ GuestInv => UsersMirrorServer
  BY GuestsRight
<1> QED
  BY <1>1, <1>2, <1>3, PTL DEF Spec

=============================================================================
