---------------------------- MODULE MapPayloads ----------------------------
(***************************************************************************)
(* The alterations of a map and what applying one does: the payload        *)
(* classes of src/shared/payloads, the atoms of RPZAtom and the part of    *)
(* MapDatabase and AtomsStorage that computes a new map from an old one.   *)
(*                                                                         *)
(* A map is a total function from atom ids to atoms; NoAtom stands for the *)
(* empty RPZAtom that MapDatabase::atom returns for an unknown id.         *)
(* An atom keeps its type, the parameters an update may change (meta), and *)
(* the asset it is drawn with. A payload is one record for every class:    *)
(* the fields a class does not have hold their empty value.                *)
(***************************************************************************)
EXTENDS Naturals, FiniteSets

CONSTANTS
  AtomId,       \* RPZAtom::Id, a snowflake
  Values,       \* values of an atom's parameters, 0 being "unset"
  Assets,       \* RPZAsset::Hash
  NoAsset,      \* the empty hash
  NoAtom,       \* the empty atom
  Keep          \* a parameter that an update does not name

ASSUME ValuesAssumption == 0 \in Values /\ Keep \notin Values
ASSUME AssetsAssumption == NoAsset \notin Assets

\* RPZAtom::Type, by what the code tells apart: Event atoms are restricted to
\* the host, Player and NPC atoms are ownable, Player atoms are not copyable.
AtomType == {"Event", "Player", "NPC", "Object"}

\* RPZAtom::Parameter: the owner, the layer, and one for all the others.
Params == {"CharacterId", "Layer", "Position"}

\* The hash an atom names, the empty one when it has no asset.
AnyHash == Assets \cup {NoAsset}

Atom == [type : AtomType, meta : [Params -> Values], asset : AnyHash]

ASSUME NoAtomAssumption == NoAtom \notin Atom

Maps == [AtomId -> Atom \cup {NoAtom}]
Updates == [Params -> Values \cup {Keep}]

NoAtoms == [i \in AtomId |-> NoAtom]
NoUpdate == [q \in Params |-> Keep]
NoUpdates == [i \in AtomId |-> NoUpdate]

IdsOf(m) == {i \in AtomId : m[i] # NoAtom}

isRestrictedAtom(a) == a # NoAtom /\ a.type = "Event"
isAtomOwnable(a) == a # NoAtom /\ a.type \in {"Player", "NPC"}
isCopyable(a) == a # NoAtom /\ a.type # "Player"

RestrictedIdsOf(m) == {i \in AtomId : isRestrictedAtom(m[i])}

\* The hashes a payload announces for the atoms of m, the empty one of those
\* without an asset included; MapDatabase keeps the others only.
AnnouncedBy(m) == {m[i].asset : i \in IdsOf(m)}
HashesOf(m) == AnnouncedBy(m) \ {NoAsset}

---------------------------------------------------------------------------
(* Payloads *)

Alteration == {"Added", "Removed", "Reset", "MetadataChanged", "BulkMetadataChanged"}

\* Only these classes carry atoms and announce their assets.
carriesAtoms(p) == p.type \in {"Added", "Reset"}

Payload ==
  {p \in [type : Alteration, atoms : Maps, assets : SUBSET AnyHash,
          ids : SUBSET AtomId, updates : [AtomId -> Updates], timeline : BOOLEAN] :
     carriesAtoms(p) \/ (p.atoms = NoAtoms /\ p.assets = {})}

\* Every alteration modelled here but Reset is registered for undo.
undoRedoAllowed(p) == p.type # "Reset"

tagAsFromTimeline(p) == [p EXCEPT !.timeline = TRUE]

AddedPayload(atoms) ==
  [type |-> "Added", atoms |-> atoms, assets |-> AnnouncedBy(atoms),
   ids |-> {}, updates |-> NoUpdates, timeline |-> FALSE]

RemovedPayload(ids) ==
  [type |-> "Removed", atoms |-> NoAtoms, assets |-> {},
   ids |-> ids, updates |-> NoUpdates, timeline |-> FALSE]

\* The one change is spread over the targets, so that applying it and undoing
\* it read the same as for a bulk change.
MetadataChangedPayload(ids, u) ==
  [type |-> "MetadataChanged", atoms |-> NoAtoms, assets |-> {}, ids |-> ids,
   updates |-> [i \in AtomId |-> IF i \in ids THEN u ELSE NoUpdate],
   timeline |-> FALSE]

BulkMetadataChangedPayload(updates) ==
  [type |-> "BulkMetadataChanged", atoms |-> NoAtoms, assets |-> {},
   ids |-> {}, updates |-> updates, timeline |-> FALSE]

\* A reset announces the hashes MapDatabase keeps, not those of its atoms.
ResetPayload(atoms, usedAssetHashes) ==
  [type |-> "Reset", atoms |-> atoms, assets |-> usedAssetHashes,
   ids |-> {}, updates |-> NoUpdates, timeline |-> FALSE]

---------------------------------------------------------------------------
(* Applying a payload *)

setMetadata(a, u) ==
  [a EXCEPT !.meta = [q \in Params |-> IF u[q] = Keep THEN a.meta[q] ELSE u[q]]]

\* The atoms of a map once a payload is handled: unknown ids are skipped.
AtomsAfter(m, p) ==
  CASE p.type = "Reset" -> p.atoms
    [] p.type = "Added" ->
         [i \in AtomId |-> IF p.atoms[i] # NoAtom THEN p.atoms[i] ELSE m[i]]
    [] p.type = "Removed" ->
         [i \in AtomId |-> IF i \in p.ids THEN NoAtom ELSE m[i]]
    [] OTHER ->
         [i \in AtomId |-> IF m[i] = NoAtom THEN NoAtom
                           ELSE setMetadata(m[i], p.updates[i])]

\* Mutant: a reset keeps the restricted ids of the map before it.
RestrictedAfterMerging(restricted, m, p) ==
  CASE p.type \in {"Reset", "Added"} -> restricted \cup RestrictedIdsOf(p.atoms)
    [] p.type = "Removed" -> restricted \ (p.ids \cap IdsOf(m))
    [] OTHER -> restricted

\* The ids to withhold from players once p is handled on map m.
RestrictedAfter(restricted, m, p) ==
  CASE p.type = "Reset" -> RestrictedIdsOf(p.atoms)
    [] p.type = "Added" -> restricted \cup RestrictedIdsOf(p.atoms)
    [] p.type = "Removed" -> restricted \ (p.ids \cap IdsOf(m))
    [] OTHER -> restricted

\* The hashes MapDatabase keeps: one is dropped with any atom that uses it.
HashesAfter(hashes, m, p) ==
  CASE p.type = "Reset" -> HashesOf(p.atoms)
    [] p.type = "Added" -> hashes \cup HashesOf(p.atoms)
    [] p.type = "Removed" -> hashes \ {m[i].asset : i \in p.ids \cap IdsOf(m)}
    [] OTHER -> hashes

\* Mutant: undoing an update unsets the parameters it changed.
generateUndoPayloadUnsetting(m, p) ==
  CASE p.type = "Added" -> RemovedPayload(IdsOf(p.atoms))
    [] p.type = "Removed" ->
         AddedPayload([i \in AtomId |-> IF i \in p.ids THEN m[i] ELSE NoAtom])
    [] OTHER ->
         BulkMetadataChangedPayload(
           [i \in AtomId |->
              IF m[i] = NoAtom THEN NoUpdate
              ELSE [q \in Params |-> IF p.updates[i][q] = Keep THEN Keep ELSE 0]])

\* The payload that reverts p on map m.
generateUndoPayload(m, p) ==
  CASE p.type = "Added" -> RemovedPayload(IdsOf(p.atoms))
    [] p.type = "Removed" ->
         AddedPayload([i \in AtomId |-> IF i \in p.ids THEN m[i] ELSE NoAtom])
    [] OTHER ->
         BulkMetadataChangedPayload(
           [i \in AtomId |->
              IF m[i] = NoAtom THEN NoUpdate
              ELSE [q \in Params |-> IF p.updates[i][q] = Keep THEN Keep
                                     ELSE m[i].meta[q]]])

---------------------------------------------------------------------------
(* Withholding atoms from a payload *)

\* restrictTargetedAtoms: a payload that carries atoms, or an update per atom,
\* loses those of the hidden ids. One that names its targets loses all of them.
restrictTargetedAtoms(p, hidden) ==
  CASE p.type \in {"Added", "Reset"} ->
         LET left == [i \in AtomId |-> IF i \in hidden THEN NoAtom ELSE p.atoms[i]]
         IN [p EXCEPT !.atoms = left, !.assets = AnnouncedBy(left)]
    [] p.type = "BulkMetadataChanged" ->
         [p EXCEPT !.updates =
            [i \in AtomId |-> IF i \in hidden THEN NoUpdate ELSE p.updates[i]]]
    [] OTHER -> [p EXCEPT !.ids = {}, !.updates = NoUpdates]

\* Whether restrictTargetedAtoms left something.
atomsAreLeft(p) ==
  CASE p.type \in {"Added", "Reset"} -> p.atoms # NoAtoms
    [] p.type = "BulkMetadataChanged" -> p.updates # NoUpdates
    [] OTHER -> p.ids # {}
=============================================================================
