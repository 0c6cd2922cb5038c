-------------------------- MODULE MapPayloadsProofs -------------------------
(***************************************************************************)
(* Lemmas about the operators of MapPayloads: what each returns, and that  *)
(* the payload generated to undo another one does undo it.                 *)
(***************************************************************************)
EXTENDS MapPayloads, TLAPS

\* What a payload announces for the atoms of a map are hashes.
LEMMA AnnouncedByType ==
  ASSUME NEW m \in Maps
  PROVE  AnnouncedBy(m) \in SUBSET AnyHash
<1> SUFFICES ASSUME NEW i \in AtomId, m[i] # NoAtom
             PROVE  m[i].asset \in AnyHash
  BY DEF AnnouncedBy, IdsOf
<1>1. m[i] \in Atom
  BY DEF Maps
<1> QED
  BY <1>1 DEF Atom

\* The hashes of a map are assets: the empty hash is not kept.
LEMMA HashesOfType ==
  ASSUME NEW m \in Maps
  PROVE  HashesOf(m) \in SUBSET Assets
BY AnnouncedByType DEF HashesOf, AnyHash

\* The empty values of the fields of a payload.
LEMMA EmptyType == NoAtoms \in Maps /\ NoUpdate \in Updates /\ NoUpdates \in [AtomId -> Updates]
<1>1. NoUpdate \in Updates
  BY DEF NoUpdate, Updates
<1> QED
  BY <1>1 DEF NoAtoms, Maps, NoUpdates

\* Every constructor builds a payload.
LEMMA AddedPayloadType ==
  ASSUME NEW m \in Maps
  PROVE  AddedPayload(m) \in Payload
BY AnnouncedByType, EmptyType DEF AddedPayload, Payload, carriesAtoms, Alteration

LEMMA RemovedPayloadType ==
  ASSUME NEW ids \in SUBSET AtomId
  PROVE  RemovedPayload(ids) \in Payload
BY EmptyType DEF RemovedPayload, Payload, carriesAtoms, Alteration

LEMMA MetadataChangedPayloadType ==
  ASSUME NEW ids \in SUBSET AtomId, NEW u \in Updates
  PROVE  MetadataChangedPayload(ids, u) \in Payload
BY EmptyType DEF MetadataChangedPayload, Payload, carriesAtoms, Alteration

LEMMA BulkMetadataChangedPayloadType ==
  ASSUME NEW updates \in [AtomId -> Updates]
  PROVE  BulkMetadataChangedPayload(updates) \in Payload
BY EmptyType DEF BulkMetadataChangedPayload, Payload, carriesAtoms, Alteration

LEMMA ResetPayloadType ==
  ASSUME NEW m \in Maps, NEW hashes \in SUBSET Assets
  PROVE  ResetPayload(m, hashes) \in Payload
BY EmptyType DEF ResetPayload, Payload, AnyHash, carriesAtoms, Alteration

\* Where a payload comes from changes nothing else in it.
LEMMA tagAsFromTimelineType ==
  ASSUME NEW p \in Payload
  PROVE  /\ tagAsFromTimeline(p) \in Payload
         /\ tagAsFromTimeline(p).atoms = p.atoms
BY DEF tagAsFromTimeline, Payload, carriesAtoms

\* An update keeps the type of an atom and its asset, and sets what it names.
LEMMA setMetadataType ==
  ASSUME NEW a \in Atom, NEW u \in Updates
  PROVE  /\ setMetadata(a, u) \in Atom
         /\ setMetadata(a, u).type = a.type
         /\ setMetadata(a, u).asset = a.asset
         /\ \A q \in Params :
              setMetadata(a, u).meta[q] = IF u[q] = Keep THEN a.meta[q] ELSE u[q]
BY DEF setMetadata, Atom, Updates

\* The fields of a payload.
LEMMA PayloadFields ==
  ASSUME NEW p \in Payload
  PROVE  /\ p.type \in Alteration
         /\ p.atoms \in Maps
         /\ p.assets \in SUBSET AnyHash
         /\ p.ids \in SUBSET AtomId
         /\ p.updates \in [AtomId -> Updates]
         /\ p.type \notin {"Added", "Reset"} => p.atoms = NoAtoms /\ p.assets = {}
BY DEF Payload, carriesAtoms

\* Handling a payload gives a map.
LEMMA AtomsAfterType ==
  ASSUME NEW m \in Maps, NEW p \in Payload
  PROVE  AtomsAfter(m, p) \in Maps
<1>1. CASE p.type = "Reset"
  BY <1>1, PayloadFields DEF AtomsAfter
<1>2. CASE p.type = "Added"
  BY <1>2, PayloadFields DEF AtomsAfter, Maps
<1>3. CASE p.type = "Removed"
  BY <1>3, PayloadFields DEF AtomsAfter, Maps
<1>4. CASE p.type \in {"MetadataChanged", "BulkMetadataChanged"}
  <2>1. ASSUME NEW i \in AtomId, m[i] # NoAtom
        PROVE  setMetadata(m[i], p.updates[i]) \in Atom
    <3>1. m[i] \in Atom
      BY <2>1 DEF Maps
    <3>2. p.updates[i] \in Updates
      BY PayloadFields
    <3> QED
      BY <3>1, <3>2, setMetadataType
  <2>2. AtomsAfter(m, p) = [i \in AtomId |-> IF m[i] = NoAtom THEN NoAtom
                                             ELSE setMetadata(m[i], p.updates[i])]
    BY <1>4 DEF AtomsAfter
  <2> QED
    BY <2>1, <2>2 DEF Maps
<1> QED
  BY <1>1, <1>2, <1>3, <1>4, PayloadFields DEF Alteration

LEMMA RestrictedAfterType ==
  ASSUME NEW m \in Maps, NEW p \in Payload, NEW r \in SUBSET AtomId
  PROVE  RestrictedAfter(r, m, p) \in SUBSET AtomId
BY PayloadFields DEF RestrictedAfter, RestrictedIdsOf, Alteration

LEMMA HashesAfterType ==
  ASSUME NEW m \in Maps, NEW p \in Payload, NEW h \in SUBSET Assets
  PROVE  HashesAfter(h, m, p) \in SUBSET Assets
BY PayloadFields, HashesOfType DEF HashesAfter, Alteration

\* Undoing is a payload too.
LEMMA generateUndoPayloadType ==
  ASSUME NEW m \in Maps, NEW p \in Payload, p.type # "Reset"
  PROVE  generateUndoPayload(m, p) \in Payload
<1>1. CASE p.type = "Added"
  BY <1>1, RemovedPayloadType DEF generateUndoPayload, IdsOf
<1>2. CASE p.type = "Removed"
  <2>1. [i \in AtomId |-> IF i \in p.ids THEN m[i] ELSE NoAtom] \in Maps
    BY DEF Maps
  <2> QED
    BY <1>2, <2>1, AddedPayloadType DEF generateUndoPayload
<1>3. CASE p.type \in {"MetadataChanged", "BulkMetadataChanged"}
  <2> DEFINE back == [i \in AtomId |->
                        IF m[i] = NoAtom THEN NoUpdate
                        ELSE [q \in Params |-> IF p.updates[i][q] = Keep THEN Keep
                                               ELSE m[i].meta[q]]]
  <2>1. ASSUME NEW i \in AtomId, m[i] # NoAtom
        PROVE  m[i].meta \in [Params -> Values]
    BY <2>1 DEF Maps, Atom
  <2>2. ASSUME NEW i \in AtomId
        PROVE  back[i] \in Updates
    BY <2>1, EmptyType DEF Updates
  <2>3. back \in [AtomId -> Updates]
    BY <2>2
  <2>4. generateUndoPayload(m, p) = BulkMetadataChangedPayload(back)
    BY <1>3 DEF generateUndoPayload
  <2> QED
    BY <2>3, <2>4, BulkMetadataChangedPayloadType
<1> QED
  BY <1>1, <1>2, <1>3, PayloadFields DEF Alteration

---------------------------------------------------------------------------
(* Undo *)

\* Two maps that agree on every id are the same map.
LEMMA MapsEqual ==
  ASSUME NEW m \in Maps, NEW n \in Maps, \A i \in AtomId : n[i] = m[i]
  PROVE  n = m
BY DEF Maps

\* An update followed by the update that restores what it named gives back the
\* atom.
LEMMA setMetadataInverts ==
  ASSUME NEW a \in Atom, NEW u \in Updates
  PROVE  setMetadata(setMetadata(a, u),
                     [q \in Params |-> IF u[q] = Keep THEN Keep ELSE a.meta[q]]) = a
<1> DEFINE back == [q \in Params |-> IF u[q] = Keep THEN Keep ELSE a.meta[q]]
           b == setMetadata(a, u)
           c == setMetadata(b, back)
<1>1. a.meta \in [Params -> Values]
  BY DEF Atom
<1>2. back \in Updates
  BY <1>1 DEF Updates
<1>3. b \in Atom /\ b.type = a.type /\ b.asset = a.asset
      /\ \A q \in Params : b.meta[q] = IF u[q] = Keep THEN a.meta[q] ELSE u[q]
  BY setMetadataType
<1>4. c \in Atom /\ c.type = a.type /\ c.asset = a.asset
      /\ \A q \in Params : c.meta[q] = IF back[q] = Keep THEN b.meta[q] ELSE back[q]
  BY <1>2, <1>3, setMetadataType
<1>5. \A q \in Params : c.meta[q] = a.meta[q]
  <2> TAKE q \in Params
  <2>1. a.meta[q] \in Values
    BY <1>1
  <2>2. CASE u[q] = Keep
    BY <1>3, <1>4, <2>2
  <2>3. CASE u[q] # Keep
    BY <1>3, <1>4, <2>1, <2>3, ValuesAssumption
  <2> QED
    BY <2>2, <2>3
<1>6. c.meta = a.meta
  <2>1. c.meta \in [Params -> Values]
    BY <1>4 DEF Atom
  <2> QED
    BY <1>1, <1>5, <2>1
<1> QED
  BY <1>4, <1>6 DEF Atom

\* What generateUndoPayload makes of a payload, before the payload is handled,
\* brings the map back to what it was: for any map, any targets, stale ids and
\* parameters the atom did not have included, provided that atoms are only
\* added under ids that are not on the map.
THEOREM UndoInverts ==
  ASSUME NEW m \in Maps, NEW p \in Payload, p.type # "Reset",
         p.type = "Added" => \A i \in AtomId : p.atoms[i] = NoAtom \/ m[i] = NoAtom
  PROVE  AtomsAfter(AtomsAfter(m, p), generateUndoPayload(m, p)) = m
<1> DEFINE n == AtomsAfter(m, p)
           u == generateUndoPayload(m, p)
<1>1. n \in Maps /\ u \in Payload
  BY AtomsAfterType, generateUndoPayloadType
<1>2. AtomsAfter(n, u) \in Maps
  BY <1>1, AtomsAfterType
<1>3. SUFFICES ASSUME NEW i \in AtomId
               PROVE  AtomsAfter(n, u)[i] = m[i]
  BY <1>2, MapsEqual
<1>4. CASE p.type = "Added"
  <2>1. u = RemovedPayload(IdsOf(p.atoms))
    BY <1>4 DEF generateUndoPayload
  <2>2. AtomsAfter(n, u)[i] = IF i \in IdsOf(p.atoms) THEN NoAtom ELSE n[i]
    BY <2>1 DEF AtomsAfter, RemovedPayload
  <2>3. n[i] = IF p.atoms[i] # NoAtom THEN p.atoms[i] ELSE m[i]
    BY <1>4 DEF AtomsAfter
  <2> QED
    BY <1>4, <2>2, <2>3 DEF IdsOf
<1>5. CASE p.type = "Removed"
  <2> DEFINE lost == [j \in AtomId |-> IF j \in p.ids THEN m[j] ELSE NoAtom]
  <2>1. u = AddedPayload(lost)
    BY <1>5 DEF generateUndoPayload
  <2>2. AtomsAfter(n, u)[i] = IF lost[i] # NoAtom THEN lost[i] ELSE n[i]
    BY <2>1 DEF AtomsAfter, AddedPayload
  <2>3. n[i] = IF i \in p.ids THEN NoAtom ELSE m[i]
    BY <1>5 DEF AtomsAfter
  <2> QED
    BY <2>2, <2>3
<1>6. CASE p.type \in {"MetadataChanged", "BulkMetadataChanged"}
  <2> DEFINE back == [j \in AtomId |->
                        IF m[j] = NoAtom THEN NoUpdate
                        ELSE [q \in Params |-> IF p.updates[j][q] = Keep THEN Keep
                                               ELSE m[j].meta[q]]]
  <2>1. u = BulkMetadataChangedPayload(back)
    BY <1>6 DEF generateUndoPayload
  <2>2. n[i] = IF m[i] = NoAtom THEN NoAtom ELSE setMetadata(m[i], p.updates[i])
    BY <1>6 DEF AtomsAfter
  <2>3. AtomsAfter(n, u)[i] = IF n[i] = NoAtom THEN NoAtom ELSE setMetadata(n[i], back[i])
    BY <2>1 DEF AtomsAfter, BulkMetadataChangedPayload
  <2>4. CASE m[i] = NoAtom
    BY <2>2, <2>3, <2>4
  <2>5. CASE m[i] # NoAtom
    <3>1. m[i] \in Atom /\ p.updates[i] \in Updates
      BY <2>5, PayloadFields DEF Maps
    <3>2. n[i] = setMetadata(m[i], p.updates[i]) /\ n[i] \in Atom
      BY <2>2, <2>5, <3>1, setMetadataType
    <3>3. AtomsAfter(n, u)[i] = setMetadata(n[i], back[i])
      BY <2>3, <3>2, NoAtomAssumption
    <3>4. back[i] = [q \in Params |-> IF p.updates[i][q] = Keep THEN Keep ELSE m[i].meta[q]]
      BY <2>5
    <3> HIDE DEF back, n, u
    <3> QED
      BY <3>1, <3>2, <3>3, <3>4, setMetadataInverts
  <2> QED
    BY <2>4, <2>5
<1> QED
  BY <1>4, <1>5, <1>6, PayloadFields DEF Alteration
=============================================================================
