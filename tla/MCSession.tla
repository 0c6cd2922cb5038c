----------------------------- MODULE MCSession ------------------------------
(***************************************************************************)
(* Model checking of RPZSession: c1 and c2 are on the server's machine, c3 *)
(* is not. Character 1 is numbered as the token bound to it.               *)
(***************************************************************************)
EXTENDS RPZSession

CONSTANTS c1, c2, c3, i1, i2, i3, a1, a2

\* c1 comes to be the host, c2 to be the host or to play, c3 to play.
OwnCharacters ==
  [c \in Client |-> CASE c = c1 -> {NoCharacter}
                      [] c = c2 -> {NoCharacter, 1}
                      [] OTHER -> {2}]

AtomOf(type, asset) == [type |-> type, meta |-> [q \in Params |-> 0], asset |-> asset]

Event == AtomOf("Event", NoAsset)
Object == AtomOf("Object", a1)
PlainObject == AtomOf("Object", NoAsset)
Token == [AtomOf("Player", NoAsset) EXCEPT !.meta["CharacterId"] = 1]

With(i, a) == [NoAtoms EXCEPT ![i] = a]

\* c1 and c2 may host, c3 plays character 1.
TwoHostsOnePlayer ==
  [c \in Client |-> IF c = c3 THEN {1} ELSE {NoCharacter}]

NoMap == [c \in Client |-> {NoAtoms}]
HostHasObject == [c \in Client |-> IF c = c1 THEN {With(i1, Object)} ELSE {NoAtoms}]

NoChanges == {}
NoMoves == {}

\* Every kind of alteration, on a map without anything to hide.
OpenChanges ==
  {AddedPayload(With(i2, Token)), RemovedPayload({i1, i2}),
   ResetPayload(With(i1, Token), {}),
   MetadataChangedPayload({i1, i2}, [NoUpdate EXCEPT !["CharacterId"] = 0])}

\* Whatever brings atoms to hide, or updates them.
SecretChanges ==
  {AddedPayload([NoAtoms EXCEPT ![i2] = Event, ![i3] = PlainObject]),
   ResetPayload([NoAtoms EXCEPT ![i1] = Event, ![i2] = PlainObject], {}),
   BulkMetadataChangedPayload([i \in AtomId |-> [NoUpdate EXCEPT !["Position"] = 1]])}

\* Objects that share an asset come and go.
AssetChanges == {AddedPayload(With(i3, Object)), RemovedPayload({i1})}

\* An atom to hide is drawn, then another is removed.
RemovalAmongSecrets == {AddedPayload(With(i2, Event)), RemovedPayload({i1})}
=============================================================================
