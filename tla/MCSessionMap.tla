----------------------------- MODULE MCSessionMap -----------------------------
(***************************************************************************)
(* Model checking of the map in a session. The users follow one of four    *)
(* plans: in the open one c1 hosts a map without anything to hide and c3   *)
(* plays; in the shared one, atoms that have the same asset are added and  *)
(* removed beside one whose asset has lost its file; in the secret one c1  *)
(* or c2 hosts, and what is altered is meant for the host; in the last one *)
(* c3 moves the token it plays, while others come and look on.             *)
(***************************************************************************)
EXTENDS MCSession

VARIABLE plan

MapOfPlan ==
  [open   |-> With(i1, Object),
   shared |-> [With(i1, Object) EXCEPT ![i2] = AtomOf("Object", a2)],
   secret |-> With(i1, Event),
   moves  |-> With(i1, Token)]

PlannedMaps ==
  [c \in Client |-> IF c = c1 THEN {MapOfPlan[p] : p \in DOMAIN MapOfPlan} ELSE {NoAtoms}]

PlayerMovesToken == {[NoUpdate EXCEPT !["Position"] = 1]}

AllChanges == OpenChanges \cup AssetChanges \cup SecretChanges

Planned ==
  CASE plan = "open" -> OpenChanges
    [] plan = "shared" -> AssetChanges
    [] plan = "secret" -> SecretChanges
    [] OTHER -> {MetadataChangedPayload({i1}, u) : u \in PlayerMovesToken}

PlannedInit ==
  /\ Init
  /\ plan \in DOMAIN MapOfPlan /\ map[c1].atoms = MapOfPlan[plan]

PlannedNext ==
  /\ Next
  /\ UNCHANGED plan
  /\ plan \in {"open", "shared"} => link'[c2] = "idle"
  /\ plan \in {"secret", "moves"} => changes' <= 1
  /\ \A c \in Client : \A n \in DOMAIN clientInbox'[c] :
       clientInbox'[c][n].op = "alter" => clientInbox'[c][n].payload \in Planned

PlannedSpec == PlannedInit /\ [][PlannedNext]_<<vars, plan>>
=============================================================================
