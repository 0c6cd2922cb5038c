--------------------------- MODULE MapDeskProofs ----------------------------
(***************************************************************************)
(* Theorems about AtomsStorage, then about the desk that MapDesk puts      *)
(* around it.                                                              *)
(*                                                                         *)
(* The storage: type correctness comes first; the history and the table of *)
(* ownable atoms are inductive on top of it. That the restricted ids are   *)
(* exact is not: an addition to the map would have to keep the type of an  *)
(* atom it replaces. The invariant that makes it inductive says that an id *)
(* has one type wherever it is found, on the map, in the queue or in the   *)
(* history.                                                                *)
(*                                                                         *)
(* The desk, for any atoms, assets and owners and whatever the user, the   *)
(* menu and the network post: a map told to have no changes is the one in  *)
(* its file, and what names a graphics item names one that is there.       *)
(***************************************************************************)
EXTENDS MapDesk, MapPayloadsProofs, SequenceTheorems

---------------------------------------------------------------------------
(* The storage *)

\* What the queue holds.
LEMMA EventFields ==
  ASSUME NEW e \in Event
  PROVE  /\ e.op \in {"alter", "load"} => e.payload \in Payload
         /\ e.op = "load" => e.payload.assets \in SUBSET Assets
         /\ e.op = "duplicate" => e.ids \in SUBSET AtomId
BY DEF Event, Loaded

LEMMA alterType ==
  ASSUME NEW p \in Payload
  PROVE  alter(p) \in Event /\ alter(p).op = "alter" /\ alter(p).payload = p
BY DEF alter, Event

\* What posts a map.
MapEvent(op, p) == [op |-> op, payload |-> p]

LEMMA MapEventType ==
  ASSUME NEW op \in {"alter", "load"}, NEW m \in Maps, NEW hashes \in SUBSET Assets,
         NEW p, p = ResetPayload(m, hashes)
  PROVE  MapEvent(op, p) \in Event /\ MapEvent(op, p).op = op /\ MapEvent(op, p).payload = p
<1>1. p \in Loaded
  BY ResetPayloadType DEF ResetPayload, Loaded
<1> QED
  BY <1>1 DEF MapEvent, Event, Loaded

\* A stack that is cut and gets one more entry.
LEMMA CutType ==
  ASSUME NEW S, NEW s \in Seq(S), NEW k \in Int, k <= Len(s), NEW e \in S
  PROVE  /\ Append(SubSeq(s, 1, k), e) \in Seq(S)
         /\ k >= 0 => Len(Append(SubSeq(s, 1, k), e)) = k + 1
         /\ k < 0 => Len(Append(SubSeq(s, 1, k), e)) = 1
<1>1. SubSeq(s, 1, k) \in Seq(S)
  BY SubSeqProperties
<1>2. Len(SubSeq(s, 1, k)) = IF 1 <= k THEN k ELSE 0
  BY SubSeqProperties
<1> QED
  BY <1>1, <1>2, AppendProperties

---------------------------------------------------------------------------
(* Types *)

LEMMA CopyType ==
  ASSUME NEW a \in Atom, NEW count \in Nat, a.meta["Position"] + count \in Values
  PROVE  Copy(a, count) \in Atom /\ Copy(a, count).type = a.type
<1>1. a.meta \in [Params -> Values]
  BY DEF Atom
<1>2. [a.meta EXCEPT !["Position"] = @ + count] \in [Params -> Values]
  BY <1>1 DEF Params
<1>3. Copy(a, count) = [a EXCEPT !.meta = [a.meta EXCEPT !["Position"] = @ + count]]
  BY DEF Copy, Atom
<1> QED
  BY <1>2, <1>3 DEF Atom

LEMMA OwnersAfterType ==
  ASSUME atoms \in Maps, NEW p \in Payload,
         ownableAtomIdsByOwner \in [AtomId -> Values \cup {NoEntry}]
  PROVE  OwnersAfter(p) \in [AtomId -> Values \cup {NoEntry}]
<1>1. \A i \in AtomId : isAtomOwnable(p.atoms[i]) => p.atoms[i].meta["CharacterId"] \in Values
  BY PayloadFields DEF isAtomOwnable, Maps, Atom, Params
<1>2. \A i \in AtomId : p.updates[i]["CharacterId"] # Keep => p.updates[i]["CharacterId"] \in Values
  BY PayloadFields DEF Updates, Params
<1>3. CASE p.type \in {"Reset", "Added"}
  BY <1>1, <1>3 DEF OwnersAfter, ownerUpdated
<1>4. CASE p.type = "Removed"
  BY <1>4 DEF OwnersAfter, ownerUpdated
<1>5. CASE p.type \in {"MetadataChanged", "BulkMetadataChanged"}
  BY <1>2, <1>5 DEF OwnersAfter, ownerUpdated
<1> QED
  BY <1>3, <1>4, <1>5, PayloadFields DEF Alteration

\* Posting an event of the right type keeps the types, as soon as the ids
\* issued with it are ids.
LEMMA PostType ==
  ASSUME TypeOK, NEW e \in Event, Post(e), issued' \in SUBSET AtomId
  PROVE  TypeOK'
<1>1. inbox' \in Seq(Event)
  BY AppendProperties DEF TypeOK, Post
<1>2. posted' \in 0..MaxPosted
  BY MaxPostedAssumption DEF TypeOK, Post
<1> QED
  BY <1>1, <1>2 DEF TypeOK, Post, mapVars, historyVars, duplicationVars

\* The indexes that undo and redo use are those of an entry.
LEMMA UndoEntry ==
  ASSUME TypeOK, canUndo
  PROVE  undoHistory[Len(undoHistory) - payloadHistoryIndex] \in Payload
BY LenProperties, ElementOfSeq DEF TypeOK, canUndo

LEMMA RedoEntry ==
  ASSUME TypeOK, canRedo
  PROVE  redoHistory[Len(redoHistory) - payloadHistoryIndex + 1] \in Payload
BY LenProperties, ElementOfSeq DEF TypeOK, canRedo

LEMMA TypeInit == Init => TypeOK
<1> SUFFICES ASSUME Init
             PROVE  TypeOK
  OBVIOUS
<1>1. replaced \in BOOLEAN
  BY Zenon DEF Init
<1> QED
  BY <1>1, EmptyType, EmptySeq, MaxPostedAssumption DEF Init, TypeOK

\* The entries that stay are entries of both stacks.
LEMMA RegisterType ==
  ASSUME TypeOK, NEW p \in Payload, p.type # "Reset", registerPayloadForHistory(p),
         versions' = versionsAfter(p), HistoryAligned
  PROVE  /\ redoHistory' \in Seq(Payload)
         /\ undoHistory' \in Seq(Payload)
         /\ versions' \in Seq(Maps)
         /\ payloadHistoryIndex' \in Nat
         /\ HistoryAligned'
<1>1. CASE p.timeline
  <2>1. versions' = versions /\ UNCHANGED historyVars
    BY <1>1 DEF registerPayloadForHistory, versionsAfter
  <2> QED
    BY <2>1 DEF historyVars, TypeOK, HistoryAligned
<1>2. CASE ~p.timeline
  <2>1. generateUndoPayload(atoms, p) \in Payload
    BY <1>2, generateUndoPayloadType DEF TypeOK
  <2>2. /\ KeptEntries \in Nat /\ KeptEntries <= Len(redoHistory)
        /\ KeptEntries <= Len(undoHistory) /\ KeptEntries + 1 <= Len(versions)
    BY LenProperties DEF KeptEntries, TypeOK, HistoryAligned
  <2>3. /\ redoHistory' \in Seq(Payload)
        /\ Len(redoHistory') = KeptEntries + 1
    <3>1. redoHistory \in Seq(Payload) /\ redoHistory' = Append(SubSeq(redoHistory, 1, KeptEntries), p)
      BY <1>2 DEF registerPayloadForHistory, undoRedoAllowed, TypeOK
    <3> QED
      BY <2>2, <3>1, CutType
  <2>4. /\ undoHistory' \in Seq(Payload)
        /\ Len(undoHistory') = KeptEntries + 1
    <3>1. /\ undoHistory \in Seq(Payload)
          /\ undoHistory' = Append(SubSeq(undoHistory, 1, KeptEntries),
                                   generateUndoPayload(atoms, p))
      BY <1>2 DEF registerPayloadForHistory, undoRedoAllowed, TypeOK
    <3> QED
      BY <2>1, <2>2, <3>1, CutType
  <2>5. payloadHistoryIndex' = 0
    BY <1>2 DEF registerPayloadForHistory, undoRedoAllowed
  <2>6. /\ versions' \in Seq(Maps)
        /\ Len(versions') = KeptEntries + 2
    <3>1. /\ versions \in Seq(Maps) /\ AtomsAfter(atoms, p) \in Maps
          /\ versions' = Append(SubSeq(versions, 1, KeptEntries + 1), AtomsAfter(atoms, p))
      BY <1>2, AtomsAfterType DEF versionsAfter, TypeOK
    <3> QED
      BY <2>2, <3>1, CutType
  <2> QED
    BY <2>2, <2>3, <2>4, <2>5, <2>6 DEF HistoryAligned
<1> QED
  BY <1>1, <1>2

---------------------------------------------------------------------------
(* Each action keeps the types and the alignment of the history *)

Aligned == TypeOK /\ HistoryAligned

\* Posting leaves the history alone.
LEMMA PostAligned ==
  ASSUME Aligned, NEW e \in Event, Post(e), issued' \in SUBSET AtomId
  PROVE  Aligned'
BY PostType DEF Aligned, Post, historyVars, mapVars, HistoryAligned

\* A map that is posted has atoms of ids issued before, or just then.
LEMMA PostedMap ==
  ASSUME TypeOK, NEW op \in {"alter", "load"}, PostMap(op)
  PROVE  \E m \in Maps, hashes \in SUBSET Assets :
           /\ Post(MapEvent(op, ResetPayload(m, hashes)))
           /\ issued \subseteq issued' /\ issued' \in SUBSET AtomId
           /\ \/ m = atoms
              \/ \A i \in AtomId : m[i] # NoAtom => i \in issued' \ issued
<1>1. CASE Post(MapEvent(op, ResetPayload(NoAtoms, {}))) /\ UNCHANGED issued
  BY <1>1, EmptyType DEF NoAtoms, TypeOK
<1>2. CASE Post(MapEvent(op, ResetPayload(atoms, assetHashes))) /\ UNCHANGED issued
  BY <1>2 DEF TypeOK
<1>3. ASSUME NEW i \in AtomId \ issued, NEW a \in Templates,
             NEW m, m = [NoAtoms EXCEPT ![i] = a],
             Post(MapEvent(op, ResetPayload(m, HashesOf(m)))), issued' = issued \cup {i}
      PROVE  /\ m \in Maps /\ HashesOf(m) \in SUBSET Assets
             /\ \A j \in AtomId : m[j] # NoAtom => j \in issued' \ issued
             /\ issued \subseteq issued' /\ issued' \in SUBSET AtomId
  <2>1. m \in Maps /\ \A j \in AtomId : m[j] # NoAtom => j = i
    BY <1>3, TemplatesAssumption DEF NoAtoms, Maps
  <2> QED
    BY <1>3, <2>1, HashesOfType DEF TypeOK
<1>4. CASE \E i \in AtomId \ issued, a \in Templates :
             LET m == [NoAtoms EXCEPT ![i] = a] IN
               /\ Post(MapEvent(op, ResetPayload(m, HashesOf(m))))
               /\ issued' = issued \cup {i}
  <2>1. PICK i \in AtomId \ issued, a \in Templates :
          /\ Post(MapEvent(op, ResetPayload([NoAtoms EXCEPT ![i] = a],
                                            HashesOf([NoAtoms EXCEPT ![i] = a]))))
          /\ issued' = issued \cup {i}
    BY <1>4
  <2> DEFINE m == [NoAtoms EXCEPT ![i] = a]
  <2>2. Post(MapEvent(op, ResetPayload(m, HashesOf(m))))
    BY <2>1
  <2> HIDE DEF m
  <2>3. /\ m \in Maps /\ HashesOf(m) \in SUBSET Assets
        /\ \A j \in AtomId : m[j] # NoAtom => j \in issued' \ issued
        /\ issued \subseteq issued' /\ issued' \in SUBSET AtomId
    BY <1>3, <2>1, <2>2 DEF m
  <2> QED
    BY <2>2, <2>3
<1> QED
  BY <1>1, <1>2, <1>4, Zenon DEF PostMap, MapEvent

LEMMA PostedAligned ==
  ASSUME Aligned,
         PostAdded \/ PostRemoved \/ PostMetadataChanged \/ PostReset \/ PostLoad
           \/ PostUndo \/ PostRedo \/ PostDuplicate
  PROVE  Aligned'
<1> USE DEF Aligned
<1>1. ASSUME NEW i \in AtomId, NEW a \in Templates
      PROVE  [NoAtoms EXCEPT ![i] = a] \in Maps
  BY TemplatesAssumption DEF NoAtoms, Maps
<1>2. CASE PostAdded
  BY <1>1, <1>2, AddedPayloadType, alterType, PostAligned DEF PostAdded, TypeOK
<1>3. CASE PostRemoved
  BY <1>3, RemovedPayloadType, alterType, PostAligned DEF PostRemoved, TypeOK
<1>4. CASE PostMetadataChanged
  BY <1>4, MetadataChangedPayloadType, alterType, PostAligned, UpdateChoicesAssumption
    DEF PostMetadataChanged, TypeOK
<1>5. CASE PostReset \/ PostLoad
  BY <1>5, PostedMap, ResetPayloadType, MapEventType, PostAligned DEF PostReset, PostLoad
<1>6. CASE PostUndo \/ PostRedo
  BY <1>6, PostAligned DEF PostUndo, PostRedo, TypeOK, Event
<1>7. CASE PostDuplicate
  BY <1>7, PostAligned DEF PostDuplicate, TypeOK, Event
<1> QED
  BY <1>2, <1>3, <1>4, <1>5, <1>6, <1>7

LEMMA HandleAligned ==
  ASSUME Aligned, HandleAlteration
  PROVE  Aligned'
<1> DEFINE p == Head(inbox).payload
<1> USE DEF Aligned
<1>1. /\ inbox # <<>>
      /\ Head(inbox) \in Event
      /\ Tail(inbox) \in Seq(Event)
      /\ handleAlterationRequest(p)
  BY HeadTailProperties DEF HandleAlteration, TypeOK
<1>2. p \in Payload
  BY <1>1, EventFields DEF HandleAlteration
<1> HIDE DEF p
<1>3. /\ redoHistory' \in Seq(Payload)
      /\ undoHistory' \in Seq(Payload)
      /\ versions' \in Seq(Maps)
      /\ payloadHistoryIndex' \in Nat
      /\ HistoryAligned'
  <2>1. CASE p.type = "Reset"
    <3>1. versions' = <<p.atoms>> /\ p.atoms \in Maps
      BY <1>1, <1>2, <2>1, PayloadFields DEF handleAlterationRequest, versionsAfter
    <3>2. versions' \in Seq(Maps) /\ Len(versions') = 1
      BY <3>1
    <3> QED
      BY <1>1, <2>1, <3>2, EmptySeq DEF handleAlterationRequest, clearHistory, HistoryAligned
  <2>2. CASE p.type # "Reset"
    BY <1>1, <1>2, <2>2, RegisterType DEF handleAlterationRequest
  <2> QED
    BY <2>1, <2>2
<1>4. /\ atoms' \in Maps
      /\ assetHashes' \in SUBSET Assets
      /\ restrictedAtomIds' \in SUBSET AtomId
      /\ ownableAtomIdsByOwner' \in [AtomId -> Values \cup {NoEntry}]
      /\ replaced' \in BOOLEAN
  BY <1>1, <1>2, AtomsAfterType, HashesAfterType, RestrictedAfterType, OwnersAfterType,
     PayloadFields DEF handleAlterationRequest, TypeOK
<1> QED
  BY <1>1, <1>3, <1>4 DEF handleAlterationRequest, TypeOK, duplicationVars

LEMMA LoadAligned ==
  ASSUME Aligned, loadRPZMap
  PROVE  Aligned'
<1> USE DEF Aligned
<1>1. /\ Tail(inbox) \in Seq(Event)
      /\ Head(inbox).payload \in Payload /\ Head(inbox).payload.assets \in SUBSET Assets
  BY HeadTailProperties, EventFields DEF loadRPZMap, TypeOK
<1>2. inbox' \in Seq(Event)
  BY <1>1, alterType, AppendProperties DEF loadRPZMap
<1>3. atoms' \in Maps /\ assetHashes' \in SUBSET Assets /\ replaced' \in BOOLEAN
  BY <1>1, PayloadFields DEF loadRPZMap
<1> QED
  BY <1>2, <1>3 DEF loadRPZMap, TypeOK, HistoryAligned, historyVars, duplicationVars

LEMMA UndoAligned ==
  ASSUME Aligned, undo
  PROVE  Aligned'
<1> USE DEF Aligned
<1>1. Tail(inbox) \in Seq(Event)
  BY HeadTailProperties DEF undo, TypeOK
<1>2. CASE canUndo
  <2> DEFINE e == alter(tagAsFromTimeline(undoHistory[Len(undoHistory) - payloadHistoryIndex]))
  <2>1. e \in Event
    BY <1>2, UndoEntry, tagAsFromTimelineType, alterType
  <2>2. inbox' \in Seq(Event)
    BY <1>1, <1>2, <2>1, AppendProperties DEF undo
  <2>3. /\ payloadHistoryIndex' \in Nat
        /\ payloadHistoryIndex' <= Len(redoHistory)
    BY <1>2, LenProperties DEF undo, canUndo, TypeOK, HistoryAligned
  <2> QED
    BY <2>2, <2>3 DEF undo, TypeOK, HistoryAligned, mapVars, duplicationVars
<1>3. CASE ~canUndo
  BY <1>1, <1>3 DEF undo, TypeOK, HistoryAligned, mapVars, duplicationVars
<1> QED
  BY <1>2, <1>3

LEMMA RedoAligned ==
  ASSUME Aligned, redo
  PROVE  Aligned'
<1> USE DEF Aligned
<1>1. Tail(inbox) \in Seq(Event)
  BY HeadTailProperties DEF redo, TypeOK
<1>2. CASE canRedo
  <2> DEFINE e == alter(tagAsFromTimeline(redoHistory[Len(redoHistory) - payloadHistoryIndex + 1]))
  <2>1. e \in Event
    BY <1>2, RedoEntry, tagAsFromTimelineType, alterType
  <2>2. inbox' \in Seq(Event)
    BY <1>1, <1>2, <2>1, AppendProperties DEF redo
  <2>3. /\ payloadHistoryIndex' \in Nat
        /\ payloadHistoryIndex' <= Len(redoHistory)
    BY <1>2, LenProperties DEF redo, canRedo, TypeOK, HistoryAligned
  <2> QED
    BY <2>2, <2>3 DEF redo, TypeOK, HistoryAligned, mapVars, duplicationVars
<1>3. CASE ~canRedo
  BY <1>1, <1>3 DEF redo, TypeOK, HistoryAligned, mapVars, duplicationVars
<1> QED
  BY <1>2, <1>3

\* Duplicating atoms issues fresh ids, and queues at most one addition: the
\* copies, under these ids.
LEMMA DuplicateIssues ==
  ASSUME TypeOK, duplicateAtoms
  PROVE  \E m \in Maps, ids2 \in SUBSET AtomId :
           /\ issued' = issued \cup ids2
           /\ ids2 \cap issued = {}
           /\ \A i \in AtomId : m[i] # NoAtom => i \in ids2
           /\ inbox' = Tail(inbox) \/ inbox' = Append(Tail(inbox), alter(AddedPayload(m)))
<1> DEFINE ids == Head(inbox).ids
           count == IF latestDuplication = ids THEN duplicationCount + 1 ELSE 1
           copied == {i \in ids : isCopyable(atoms[i])}
           copies(fresh) == [n \in AtomId |->
                               IF \E i \in copied : fresh[i] = n
                               THEN Copy(atoms[CHOOSE i \in copied : fresh[i] = n], count)
                               ELSE NoAtom]
<1>1. ids \in SUBSET AtomId /\ count \in Nat
  BY HeadTailProperties, EventFields DEF duplicateAtoms, TypeOK
<1>2. PICK fresh \in [copied -> AtomId \ issued] :
        /\ issued' = issued \cup {fresh[i] : i \in copied}
        /\ inbox' = IF copied = {} THEN Tail(inbox)
                    ELSE Append(Tail(inbox), alter(AddedPayload(copies(fresh))))
  BY DEF duplicateAtoms
<1>3. \A i \in copied : atoms[i].meta["Position"] + count \in Values
  BY DEF duplicateAtoms
<1>4. copies(fresh) \in Maps
  <2>1. ASSUME NEW n \in AtomId, \E i \in copied : fresh[i] = n
        PROVE  Copy(atoms[CHOOSE i \in copied : fresh[i] = n], count) \in Atom
    <3> DEFINE j == CHOOSE i \in copied : fresh[i] = n
    <3>1. j \in copied
      BY <2>1
    <3>2. atoms[j] \in Atom
      BY <1>1, <3>1 DEF TypeOK, Maps, isCopyable
    <3>3. atoms[j].meta["Position"] + count \in Values
      BY <1>3, <3>1
    <3> HIDE DEF j, count
    <3>4. Copy(atoms[j], count) \in Atom
      BY <1>1, <3>2, <3>3, CopyType
    <3> QED
      BY <3>4 DEF j
  <2> QED
    BY <2>1 DEF Maps
<1> DEFINE ids2 == {fresh[i] : i \in copied}
<1>5. ids2 \in SUBSET AtomId /\ ids2 \cap issued = {}
  BY <1>2
<1>6. \A n \in AtomId : copies(fresh)[n] # NoAtom => n \in ids2
  OBVIOUS
<1>7. issued' = issued \cup ids2
  BY <1>2
<1>8. inbox' = Tail(inbox) \/ inbox' = Append(Tail(inbox), alter(AddedPayload(copies(fresh))))
  BY <1>2
<1> HIDE DEF ids2, copies
<1> QED
  BY <1>4, <1>5, <1>6, <1>7, <1>8

LEMMA DuplicateAligned ==
  ASSUME Aligned, duplicateAtoms
  PROVE  Aligned'
<1> USE DEF Aligned
<1>1. PICK m \in Maps, ids2 \in SUBSET AtomId :
        /\ issued' = issued \cup ids2
        /\ inbox' = Tail(inbox) \/ inbox' = Append(Tail(inbox), alter(AddedPayload(m)))
  BY DuplicateIssues
<1>2. Tail(inbox) \in Seq(Event) /\ Head(inbox).ids \in SUBSET AtomId
  BY HeadTailProperties, EventFields DEF duplicateAtoms, TypeOK
<1>3. alter(AddedPayload(m)) \in Event
  BY AddedPayloadType, alterType
<1>4. inbox' \in Seq(Event) /\ issued' \in SUBSET AtomId
  <2>1. issued' \in SUBSET AtomId
    BY <1>1 DEF TypeOK
  <2>2. Append(Tail(inbox), alter(AddedPayload(m))) \in Seq(Event)
    BY <1>2, <1>3, AppendProperties
  <2> QED
    BY <1>1, <1>2, <2>1, <2>2
<1>5. /\ latestDuplication' \in SUBSET AtomId
      /\ duplicationCount' \in Nat
      /\ UNCHANGED <<mapVars, historyVars, posted>>
  BY <1>2 DEF duplicateAtoms, TypeOK
<1> QED
  BY <1>4, <1>5 DEF TypeOK, HistoryAligned, mapVars, historyVars

LEMMA AlignedStep == Aligned /\ [Next]_vars => Aligned'
<1> SUFFICES ASSUME Aligned, [Next]_vars
             PROVE  Aligned'
  OBVIOUS
<1>1. CASE Next
  BY <1>1, PostedAligned, HandleAligned, LoadAligned, UndoAligned, RedoAligned, DuplicateAligned DEF Next
<1>2. CASE UNCHANGED vars
  BY <1>2 DEF vars, mapVars, historyVars, duplicationVars, Aligned, TypeOK, HistoryAligned
<1> QED
  BY <1>1, <1>2

LEMMA AlwaysAligned == Spec => []Aligned
<1>1. Init => Aligned
  BY TypeInit, EmptySeq DEF Init, Aligned, HistoryAligned
<1> QED
  BY <1>1, AlignedStep, PTL DEF Spec

\* Every variable of the storage keeps its type, for every set of ids, values
\* and updates.
THEOREM TypeCorrect == Spec => []TypeOK
<1>1. Aligned => TypeOK
  BY DEF Aligned
<1> QED
  BY <1>1, AlwaysAligned, PTL

\* The stacks of the history stay in step and the index points into them,
\* whatever is posted and however long the history grows.
THEOREM HistoryStaysAligned == Spec => []HistoryAligned
<1>1. Aligned => HistoryAligned
  BY DEF Aligned
<1> QED
  BY <1>1, AlwaysAligned, PTL

---------------------------------------------------------------------------
(* The table of ownable atoms *)

\* What the table says of one atom.
OwnerExact(i) ==
  /\ isAtomOwnable(atoms[i]) => ownableAtomIdsByOwner[i] = atoms[i].meta["CharacterId"]
  /\ atoms[i] = NoAtom => ownableAtomIdsByOwner[i] = NoEntry

\* Handling any payload keeps the table exact, and a reset makes it so.
LEMMA OwnersFollow ==
  ASSUME TypeOK, NEW p \in Payload, NEW i \in AtomId, p.type # "Reset" => OwnerExact(i)
  PROVE  /\ isAtomOwnable(AtomsAfter(atoms, p)[i]) =>
              OwnersAfter(p)[i] = AtomsAfter(atoms, p)[i].meta["CharacterId"]
         /\ AtomsAfter(atoms, p)[i] = NoAtom => OwnersAfter(p)[i] = NoEntry
<1>1. CASE p.type \in {"Reset", "Added"}
  BY <1>1 DEF AtomsAfter, OwnersAfter, ownerUpdated, OwnerExact, isAtomOwnable
<1>2. CASE p.type = "Removed"
  BY <1>2 DEF AtomsAfter, OwnersAfter, ownerUpdated, OwnerExact, isAtomOwnable
<1>3. CASE p.type \in {"MetadataChanged", "BulkMetadataChanged"}
  <2>1. AtomsAfter(atoms, p)[i] = IF atoms[i] = NoAtom THEN NoAtom
                                  ELSE setMetadata(atoms[i], p.updates[i])
    BY <1>3 DEF AtomsAfter
  <2>2. OwnersAfter(p)[i] = IF atoms[i] # NoAtom /\ p.updates[i]["CharacterId"] # Keep
                            THEN p.updates[i]["CharacterId"] ELSE ownableAtomIdsByOwner[i]
    BY <1>3 DEF OwnersAfter, ownerUpdated
  <2>3. CASE atoms[i] = NoAtom
    BY <1>3, <2>1, <2>2, <2>3 DEF OwnerExact, isAtomOwnable
  <2>4. CASE atoms[i] # NoAtom
    <3>1. atoms[i] \in Atom /\ p.updates[i] \in Updates
      BY <2>4, PayloadFields DEF TypeOK, Maps
    <3>2. LET b == setMetadata(atoms[i], p.updates[i]) IN
            /\ b \in Atom
            /\ b.type = atoms[i].type
            /\ b.meta["CharacterId"] = IF p.updates[i]["CharacterId"] = Keep
                                       THEN atoms[i].meta["CharacterId"]
                                       ELSE p.updates[i]["CharacterId"]
      BY <3>1, setMetadataType DEF Params
    <3> QED
      BY <1>3, <2>1, <2>2, <2>4, <3>2, NoAtomAssumption DEF OwnerExact, isAtomOwnable
  <2> QED
    BY <2>3, <2>4
<1> QED
  BY <1>1, <1>2, <1>3, PayloadFields DEF Alteration

\* Only the handling of an alteration and the loading of a map touch the map
\* and what is kept with it.
LEMMA OthersLeaveTheMap ==
  ASSUME [Next]_vars, ~HandleAlteration, ~loadRPZMap
  PROVE  UNCHANGED mapVars
BY DEF Next, vars, Post, PostAdded, PostRemoved, PostMetadataChanged, PostMap, PostReset,
       PostLoad, PostUndo, PostRedo, PostDuplicate, undo, redo, duplicateAtoms

\* The payload that is handled, and what becomes of the map.
LEMMA HandledPayload ==
  ASSUME TypeOK, HandleAlteration
  PROVE  \E p \in Payload :
           /\ inbox # <<>> /\ Head(inbox).op = "alter" /\ Head(inbox).payload = p
           /\ handleAlterationRequest(p)
           /\ atoms' = AtomsAfter(atoms, p)
           /\ restrictedAtomIds' = RestrictedAfter(restrictedAtomIds, atoms, p)
           /\ ownableAtomIdsByOwner' = OwnersAfter(p)
           /\ replaced' = (replaced /\ p.type # "Reset")
<1>1. Head(inbox) \in Event
  BY HeadTailProperties DEF HandleAlteration, TypeOK
<1>2. Head(inbox).payload \in Payload
  BY <1>1, EventFields DEF HandleAlteration
<1> QED
  BY <1>2 DEF HandleAlteration, handleAlterationRequest

LEMMA OwnersStep ==
  ASSUME TypeOK, OwnerTableExact, [Next]_vars
  PROVE  OwnerTableExact'
<1>1. CASE HandleAlteration
  <2>1. PICK p \in Payload : /\ atoms' = AtomsAfter(atoms, p)
                             /\ ownableAtomIdsByOwner' = OwnersAfter(p)
                             /\ replaced' = (replaced /\ p.type # "Reset")
    BY <1>1, HandledPayload
  <2>2. ASSUME NEW i \in AtomId, ~replaced'
        PROVE  /\ isAtomOwnable(atoms'[i]) =>
                    ownableAtomIdsByOwner'[i] = atoms'[i].meta["CharacterId"]
               /\ atoms'[i] = NoAtom => ownableAtomIdsByOwner'[i] = NoEntry
    <3>1. p.type # "Reset" => ~replaced
      BY <2>1, <2>2, Zenon
    <3>2. p.type # "Reset" => OwnerExact(i)
      BY <3>1 DEF OwnerTableExact, OwnerExact
    <3> QED
      BY <2>1, <3>2, OwnersFollow
  <2> QED
    BY <2>2 DEF OwnerTableExact
<1>2. CASE loadRPZMap
  BY <1>2 DEF loadRPZMap, OwnerTableExact
<1>3. CASE ~HandleAlteration /\ ~loadRPZMap
  BY <1>3, OthersLeaveTheMap DEF mapVars, OwnerTableExact
<1> QED
  BY <1>1, <1>2, <1>3

\* The owner that the table gives an atom is the one the atom carries, and
\* atoms that are gone are not in it, after any history of additions, removals,
\* changes of owner, undos, copies and resets.
THEOREM OwnerTableStaysExact == Spec => []OwnerTableExact
<1>1. Init => OwnerTableExact
  BY DEF Init, OwnerTableExact, NoAtoms, isAtomOwnable
<1> QED
  BY <1>1, OwnersStep, TypeCorrect, PTL DEF Spec

---------------------------------------------------------------------------
(* One type per id *)

\* The atoms of a map have ids that were issued, and the type of their id.
Fits(m, ids, kind) == \A i \in AtomId : m[i] # NoAtom => i \in ids /\ m[i].type = kind[i]

QueueFits(q, ids, kind) ==
  \A n \in 1..Len(q) :
    q[n].op \in {"alter", "load"} => Fits(q[n].payload.atoms, ids, kind)

StackFits(s, ids, kind) == \A n \in 1..Len(s) : Fits(s[n].atoms, ids, kind)

OneType(kind) ==
  /\ Fits(atoms, issued, kind)
  /\ QueueFits(inbox, issued, kind)
  /\ StackFits(redoHistory, issued, kind)
  /\ StackFits(undoHistory, issued, kind)

Kinds == [AtomId -> AtomType]

\* The types that extend others to ids issued since.
Extends(kind2, kind) == \A i \in issued : kind2[i] = kind[i]

LEMMA FitsMore ==
  ASSUME NEW m, NEW ids2, issued \subseteq ids2, NEW kind, NEW kind2, Extends(kind2, kind),
         Fits(m, issued, kind)
  PROVE  Fits(m, ids2, kind2)
BY DEF Fits, Extends

LEMMA QueueFitsMore ==
  ASSUME NEW q, NEW ids2, issued \subseteq ids2, NEW kind, NEW kind2, Extends(kind2, kind),
         QueueFits(q, issued, kind)
  PROVE  QueueFits(q, ids2, kind2)
BY FitsMore DEF QueueFits

LEMMA StackFitsMore ==
  ASSUME NEW s, NEW ids2, issued \subseteq ids2, NEW kind, NEW kind2, Extends(kind2, kind),
         StackFits(s, issued, kind)
  PROVE  StackFits(s, ids2, kind2)
BY FitsMore DEF StackFits

\* One more event at the end of the queue, one less at its head.
LEMMA QueueFitsAppend ==
  ASSUME NEW q \in Seq(Event), NEW e \in Event, NEW ids, NEW kind, QueueFits(q, ids, kind),
         e.op \in {"alter", "load"} => Fits(e.payload.atoms, ids, kind)
  PROVE  QueueFits(Append(q, e), ids, kind)
<1>1. ASSUME NEW n \in 1..Len(Append(q, e)), Append(q, e)[n].op \in {"alter", "load"}
      PROVE  Fits(Append(q, e)[n].payload.atoms, ids, kind)
  <2>1. CASE n = Len(q) + 1
    BY <1>1, <2>1, AppendProperties
  <2>2. CASE n # Len(q) + 1
    <3>1. n \in 1..Len(q)
      BY <2>2, AppendProperties, LenProperties
    <3>2. Append(q, e)[n] = q[n]
      BY <3>1, AppendProperties
    <3> QED
      BY <1>1, <3>1, <3>2 DEF QueueFits
  <2> QED
    BY <2>1, <2>2
<1> QED
  BY <1>1 DEF QueueFits

LEMMA QueueFitsTail ==
  ASSUME NEW q \in Seq(Event), q # <<>>, NEW ids, NEW kind, QueueFits(q, ids, kind)
  PROVE  QueueFits(Tail(q), ids, kind)
<1>1. \A n \in 1..Len(Tail(q)) : n + 1 \in 1..Len(q) /\ Tail(q)[n] = q[n + 1]
  BY HeadTailProperties, LenProperties
<1> QED
  BY <1>1 DEF QueueFits

\* A stack that is cut and gets one more entry.
LEMMA StackFitsCut ==
  ASSUME NEW s \in Seq(Payload), NEW k \in Nat, k <= Len(s), NEW p \in Payload,
         NEW ids, NEW kind, StackFits(s, ids, kind), Fits(p.atoms, ids, kind)
  PROVE  StackFits(Append(SubSeq(s, 1, k), p), ids, kind)
<1> DEFINE cut == SubSeq(s, 1, k)
<1>1. cut \in Seq(Payload) /\ Len(cut) = k /\ \A n \in 1..k : cut[n] = s[n]
  BY SubSeqProperties
<1>2. ASSUME NEW n \in 1..Len(Append(cut, p))
      PROVE  Fits(Append(cut, p)[n].atoms, ids, kind)
  <2>1. CASE n = k + 1
    BY <1>1, <2>1, AppendProperties
  <2>2. CASE n # k + 1
    <3>1. n \in 1..k
      BY <1>1, <2>2, AppendProperties
    <3>2. Append(cut, p)[n] = s[n]
      BY <1>1, <3>1, AppendProperties
    <3> QED
      BY <3>1, <3>2, LenProperties DEF StackFits
  <2> QED
    BY <2>1, <2>2
<1> QED
  BY <1>2 DEF StackFits

\* New ids take the type of the atom that brings them.
LEMMA Issue ==
  ASSUME issued \subseteq AtomId,
         NEW kind \in Kinds, NEW m \in Maps, \A i \in AtomId : m[i] # NoAtom => i \notin issued,
         NEW ids2, \A i \in AtomId : m[i] # NoAtom => i \in ids2
  PROVE  \E kind2 \in Kinds : Extends(kind2, kind) /\ Fits(m, ids2, kind2)
<1> DEFINE kind2 == [i \in AtomId |-> IF m[i] # NoAtom THEN m[i].type ELSE kind[i]]
<1>1. kind2 \in Kinds
  BY DEF Kinds, Maps, Atom
<1>2. Extends(kind2, kind)
  BY DEF Extends
<1>3. Fits(m, ids2, kind2)
  BY DEF Fits
<1> QED
  BY <1>1, <1>2, <1>3

\* Posting an event whose atoms, if any, are new.
LEMMA PostKinds ==
  ASSUME TypeOK, NEW kind \in Kinds, OneType(kind), NEW e \in Event, Post(e),
         issued' \in SUBSET AtomId, issued \subseteq issued',
         e.op \in {"alter", "load"} =>
           \/ e.payload.atoms = atoms
           \/ \A i \in AtomId : e.payload.atoms[i] # NoAtom => i \in issued' \ issued
  PROVE  \E kind2 \in Kinds : OneType(kind2)'
<1>1. PICK kind2 \in Kinds :
        /\ Extends(kind2, kind)
        /\ e.op \in {"alter", "load"} => Fits(e.payload.atoms, issued', kind2)
  <2>1. CASE /\ e.op \in {"alter", "load"}
             /\ \A i \in AtomId : e.payload.atoms[i] # NoAtom => i \in issued' \ issued
    BY <2>1, EventFields, PayloadFields, Issue DEF TypeOK
  <2>2. CASE e.op \in {"alter", "load"} /\ e.payload.atoms = atoms
    BY <2>2 DEF Extends, OneType, Fits
  <2>3. CASE e.op \notin {"alter", "load"}
    BY <2>3 DEF Extends
  <2> QED
    BY <2>1, <2>2, <2>3
<1>2. QueueFits(inbox', issued', kind2)
  <2>1. QueueFits(inbox, issued', kind2)
    BY <1>1, QueueFitsMore DEF OneType
  <2> QED
    BY <1>1, <2>1, QueueFitsAppend DEF Post, TypeOK
<1>3. /\ Fits(atoms', issued', kind2)
      /\ StackFits(redoHistory', issued', kind2)
      /\ StackFits(undoHistory', issued', kind2)
  BY <1>1, FitsMore, StackFitsMore DEF OneType, Post, mapVars, historyVars
<1> QED
  BY <1>1, <1>2, <1>3 DEF OneType

LEMMA PostedKinds ==
  ASSUME TypeOK, NEW kind \in Kinds, OneType(kind),
         PostAdded \/ PostRemoved \/ PostMetadataChanged \/ PostReset \/ PostLoad
           \/ PostUndo \/ PostRedo \/ PostDuplicate
  PROVE  \E kind2 \in Kinds : OneType(kind2)'
<1>1. ASSUME NEW i \in AtomId, NEW a \in Templates
      PROVE  /\ [NoAtoms EXCEPT ![i] = a] \in Maps
             /\ \A j \in AtomId : [NoAtoms EXCEPT ![i] = a][j] # NoAtom => j = i
  BY TemplatesAssumption DEF NoAtoms, Maps
<1>2. CASE PostAdded
  <2>1. PICK i \in AtomId \ issued, a \in Templates :
          /\ Post(alter(AddedPayload([NoAtoms EXCEPT ![i] = a])))
          /\ issued' = issued \cup {i}
    BY <1>2 DEF PostAdded
  <2> DEFINE m == [NoAtoms EXCEPT ![i] = a]
  <2>2. m \in Maps /\ \A j \in AtomId : m[j] # NoAtom => j = i
    BY <1>1
  <2> HIDE DEF m
  <2>3. AddedPayload(m) \in Payload /\ AddedPayload(m).atoms = m
    BY <2>2, AddedPayloadType DEF AddedPayload
  <2> QED
    BY <2>1, <2>2, <2>3, alterType, PostKinds DEF TypeOK, m
<1>3. CASE PostRemoved
  <2>1. PICK ids \in SUBSET issued : Post(alter(RemovedPayload(ids))) /\ UNCHANGED issued
    BY <1>3 DEF PostRemoved
  <2>2. RemovedPayload(ids) \in Payload /\ RemovedPayload(ids).atoms = NoAtoms
    BY RemovedPayloadType DEF RemovedPayload, TypeOK
  <2> QED
    BY <2>1, <2>2, alterType, PostKinds DEF TypeOK, NoAtoms
<1>4. CASE PostMetadataChanged
  <2>1. PICK ids \in SUBSET issued, u \in UpdateChoices :
          Post(alter(MetadataChangedPayload(ids, u))) /\ UNCHANGED issued
    BY <1>4 DEF PostMetadataChanged
  <2>2. /\ MetadataChangedPayload(ids, u) \in Payload
        /\ MetadataChangedPayload(ids, u).atoms = NoAtoms
    BY MetadataChangedPayloadType, UpdateChoicesAssumption DEF MetadataChangedPayload, TypeOK
  <2> QED
    BY <2>1, <2>2, alterType, PostKinds DEF TypeOK, NoAtoms
<1>5. CASE PostReset \/ PostLoad
  <2>1. PICK op \in {"alter", "load"} : PostMap(op)
    BY <1>5 DEF PostReset, PostLoad
  <2>2. PICK m \in Maps, hashes \in SUBSET Assets :
          /\ Post(MapEvent(op, ResetPayload(m, hashes)))
          /\ issued \subseteq issued' /\ issued' \in SUBSET AtomId
          /\ \/ m = atoms
             \/ \A i \in AtomId : m[i] # NoAtom => i \in issued' \ issued
    BY <2>1, PostedMap
  <2>3. ResetPayload(m, hashes) \in Payload /\ ResetPayload(m, hashes).atoms = m
    BY ResetPayloadType DEF ResetPayload
  <2> QED
    BY <2>2, <2>3, MapEventType, PostKinds
<1>6. CASE PostUndo \/ PostRedo
  BY <1>6, PostKinds DEF PostUndo, PostRedo, Event, TypeOK
<1>7. CASE PostDuplicate
  BY <1>7, PostKinds DEF PostDuplicate, Event, TypeOK
<1> QED
  BY <1>2, <1>3, <1>4, <1>5, <1>6, <1>7

\* Handling a payload keeps the types of the ids it wields.
LEMMA AtomsAfterFits ==
  ASSUME NEW m \in Maps, NEW p \in Payload, NEW ids, NEW kind,
         Fits(m, ids, kind), Fits(p.atoms, ids, kind)
  PROVE  Fits(AtomsAfter(m, p), ids, kind)
<1>1. CASE p.type \in {"Reset", "Added"}
  BY <1>1 DEF AtomsAfter, Fits
<1>2. CASE p.type = "Removed"
  BY <1>2 DEF AtomsAfter, Fits
<1>3. CASE p.type \in {"MetadataChanged", "BulkMetadataChanged"}
  <2>1. ASSUME NEW i \in AtomId, m[i] # NoAtom
        PROVE  setMetadata(m[i], p.updates[i]).type = m[i].type
    BY <2>1, PayloadFields, setMetadataType DEF Maps
  <2> QED
    BY <1>3, <2>1 DEF AtomsAfter, Fits
<1> QED
  BY <1>1, <1>2, <1>3, PayloadFields DEF Alteration

LEMMA UndoFits ==
  ASSUME NEW m \in Maps, NEW p \in Payload, NEW ids, NEW kind, Fits(m, ids, kind)
  PROVE  Fits(generateUndoPayload(m, p).atoms, ids, kind)
<1>1. CASE p.type = "Removed"
  BY <1>1 DEF generateUndoPayload, AddedPayload, Fits
<1>2. CASE p.type = "Added"
  BY <1>2 DEF generateUndoPayload, RemovedPayload, NoAtoms, Fits
<1>3. CASE p.type \notin {"Added", "Removed"}
  BY <1>3 DEF generateUndoPayload, BulkMetadataChangedPayload, NoAtoms, Fits
<1> QED
  BY <1>1, <1>2, <1>3

\* What is at the head of the queue fits, and so does the queue without it.
LEMMA HeadFits ==
  ASSUME TypeOK, inbox # <<>>, NEW kind, OneType(kind)
  PROVE  /\ Head(inbox).op \in {"alter", "load"} =>
              Fits(Head(inbox).payload.atoms, issued, kind)
         /\ QueueFits(Tail(inbox), issued, kind)
         /\ Tail(inbox) \in Seq(Event)
<1>1. 1 \in 1..Len(inbox) /\ Head(inbox) = inbox[1]
  BY EmptySeq DEF TypeOK
<1>2. Head(inbox).op \in {"alter", "load"} => Fits(Head(inbox).payload.atoms, issued, kind)
  BY <1>1 DEF OneType, QueueFits
<1>3. QueueFits(Tail(inbox), issued, kind) /\ Tail(inbox) \in Seq(Event)
  BY QueueFitsTail, HeadTailProperties DEF OneType, TypeOK
<1> QED
  BY <1>2, <1>3

LEMMA HandleKinds ==
  ASSUME Aligned, NEW kind, OneType(kind), HandleAlteration
  PROVE  OneType(kind)'
<1> USE DEF Aligned
<1>1. PICK p \in Payload :
        /\ inbox # <<>> /\ Head(inbox).op = "alter" /\ Head(inbox).payload = p
        /\ handleAlterationRequest(p)
        /\ atoms' = AtomsAfter(atoms, p)
  BY HandledPayload
<1>2. /\ Fits(p.atoms, issued, kind)
      /\ QueueFits(inbox', issued, kind)
      /\ issued' = issued
  BY <1>1, HeadFits DEF handleAlterationRequest
<1>3. Fits(atoms', issued, kind)
  BY <1>1, <1>2, AtomsAfterFits DEF OneType, TypeOK
<1>4. StackFits(redoHistory', issued, kind) /\ StackFits(undoHistory', issued, kind)
  <2>1. CASE p.type = "Reset"
    BY <1>1, <2>1, EmptySeq DEF handleAlterationRequest, clearHistory, StackFits
  <2>2. CASE p.type # "Reset" /\ p.timeline
    BY <1>1, <2>2 DEF handleAlterationRequest, registerPayloadForHistory, historyVars, OneType
  <2>3. CASE p.type # "Reset" /\ ~p.timeline
    <3> DEFINE u == generateUndoPayload(atoms, p)
    <3>1. /\ redoHistory' = Append(SubSeq(redoHistory, 1, KeptEntries), p)
          /\ undoHistory' = Append(SubSeq(undoHistory, 1, KeptEntries), u)
      BY <1>1, <2>3 DEF handleAlterationRequest, registerPayloadForHistory, undoRedoAllowed
    <3>2. KeptEntries \in Nat /\ KeptEntries <= Len(redoHistory) /\ KeptEntries <= Len(undoHistory)
      BY LenProperties DEF KeptEntries, TypeOK, HistoryAligned
    <3>3. u \in Payload /\ Fits(u.atoms, issued, kind)
      BY <2>3, generateUndoPayloadType, UndoFits DEF OneType, TypeOK
    <3> HIDE DEF u
    <3>4. StackFits(redoHistory', issued, kind)
      BY <1>2, <3>1, <3>2, StackFitsCut DEF OneType, TypeOK
    <3>5. StackFits(undoHistory', issued, kind)
      BY <3>1, <3>2, <3>3, StackFitsCut DEF OneType, TypeOK
    <3> QED
      BY <3>4, <3>5
  <2> QED
    BY <2>1, <2>2, <2>3
<1> QED
  BY <1>2, <1>3, <1>4 DEF OneType

LEMMA LoadKinds ==
  ASSUME Aligned, NEW kind, OneType(kind), loadRPZMap
  PROVE  OneType(kind)'
<1> USE DEF Aligned
<1> DEFINE p == Head(inbox).payload
<1>1. p \in Payload /\ Fits(p.atoms, issued, kind)
  BY HeadTailProperties, EventFields, HeadFits DEF loadRPZMap, TypeOK
<1>2. /\ inbox' = Append(Tail(inbox), alter(p))
      /\ atoms' = p.atoms
      /\ UNCHANGED <<issued, redoHistory, undoHistory>>
  BY DEF loadRPZMap, historyVars
<1> HIDE DEF p
<1>3. QueueFits(inbox', issued, kind)
  BY <1>1, <1>2, HeadFits, alterType, QueueFitsAppend DEF loadRPZMap
<1> QED
  BY <1>1, <1>2, <1>3 DEF OneType

\* An entry of a stack, posted as an alteration, fits.
LEMMA EntryPosted ==
  ASSUME TypeOK, inbox # <<>>, NEW kind, OneType(kind), NEW p \in Payload,
         Fits(p.atoms, issued, kind)
  PROVE  QueueFits(Append(Tail(inbox), alter(tagAsFromTimeline(p))), issued, kind)
<1> DEFINE e == alter(tagAsFromTimeline(p))
<1>1. e \in Event /\ e.payload.atoms = p.atoms
  BY tagAsFromTimelineType, alterType
<1> HIDE DEF e
<1>2. QueueFits(Append(Tail(inbox), e), issued, kind)
  BY <1>1, HeadFits, QueueFitsAppend
<1> QED
  BY <1>2 DEF e

LEMMA UndoKinds ==
  ASSUME Aligned, NEW kind, OneType(kind), undo
  PROVE  OneType(kind)'
<1> USE DEF Aligned
<1>1. QueueFits(inbox', issued, kind)
  <2>1. CASE canUndo
    <3> DEFINE k == Len(undoHistory) - payloadHistoryIndex
    <3>1. k \in 1..Len(undoHistory)
      BY <2>1, LenProperties DEF canUndo, TypeOK
    <3>2. undoHistory[k] \in Payload /\ Fits(undoHistory[k].atoms, issued, kind)
      BY <2>1, <3>1, UndoEntry DEF OneType, StackFits
    <3>3. inbox # <<>> /\ inbox' = Append(Tail(inbox), alter(tagAsFromTimeline(undoHistory[k])))
      BY <2>1 DEF undo
    <3> HIDE DEF k
    <3> QED
      BY <3>2, <3>3, EntryPosted
  <2>2. CASE ~canUndo
    BY <2>2, HeadFits DEF undo
  <2> QED
    BY <2>1, <2>2
<1> QED
  BY <1>1 DEF undo, OneType, mapVars

LEMMA RedoKinds ==
  ASSUME Aligned, NEW kind, OneType(kind), redo
  PROVE  OneType(kind)'
<1> USE DEF Aligned
<1>1. QueueFits(inbox', issued, kind)
  <2>1. CASE canRedo
    <3> DEFINE k == Len(redoHistory) - payloadHistoryIndex + 1
    <3>1. k \in 1..Len(redoHistory)
      BY <2>1, LenProperties DEF canRedo, TypeOK
    <3>2. redoHistory[k] \in Payload /\ Fits(redoHistory[k].atoms, issued, kind)
      BY <2>1, <3>1, RedoEntry DEF OneType, StackFits
    <3>3. inbox # <<>> /\ inbox' = Append(Tail(inbox), alter(tagAsFromTimeline(redoHistory[k])))
      BY <2>1 DEF redo
    <3> HIDE DEF k
    <3> QED
      BY <3>2, <3>3, EntryPosted
  <2>2. CASE ~canRedo
    BY <2>2, HeadFits DEF redo
  <2> QED
    BY <2>1, <2>2
<1> QED
  BY <1>1 DEF redo, OneType, mapVars

LEMMA DuplicateKinds ==
  ASSUME Aligned, NEW kind \in Kinds, OneType(kind), duplicateAtoms
  PROVE  \E kind2 \in Kinds : OneType(kind2)'
<1> USE DEF Aligned
<1>1. PICK m \in Maps, ids2 \in SUBSET AtomId :
        /\ issued' = issued \cup ids2
        /\ \A i \in AtomId : m[i] # NoAtom => i \notin issued /\ i \in ids2
        /\ inbox' = Tail(inbox) \/ inbox' = Append(Tail(inbox), alter(AddedPayload(m)))
  BY DuplicateIssues
<1>2. PICK kind2 \in Kinds : Extends(kind2, kind) /\ Fits(m, issued', kind2)
  BY <1>1, Issue DEF TypeOK
<1>3. QueueFits(inbox', issued', kind2)
  <2>1. QueueFits(Tail(inbox), issued', kind2) /\ Tail(inbox) \in Seq(Event)
    BY <1>1, <1>2, HeadFits, QueueFitsMore DEF duplicateAtoms
  <2>2. /\ alter(AddedPayload(m)) \in Event
        /\ alter(AddedPayload(m)).payload.atoms = m
    BY AddedPayloadType, alterType DEF AddedPayload
  <2> QED
    BY <1>1, <1>2, <2>1, <2>2, QueueFitsAppend
<1>4. /\ Fits(atoms', issued', kind2)
      /\ StackFits(redoHistory', issued', kind2)
      /\ StackFits(undoHistory', issued', kind2)
  <2>1. UNCHANGED <<mapVars, historyVars>> /\ issued \subseteq issued'
    BY <1>1 DEF duplicateAtoms
  <2> QED
    BY <1>2, <2>1, FitsMore, StackFitsMore DEF OneType, mapVars, historyVars
<1> QED
  BY <1>2, <1>3, <1>4 DEF OneType

\* Some assignment of a type to each id explains the map, the queue and the
\* history, at every state.
TypesKept == Aligned /\ \E kind \in Kinds : OneType(kind)

LEMMA TypesKeptStep == TypesKept /\ [Next]_vars => TypesKept'
<1> SUFFICES ASSUME TypesKept, [Next]_vars
             PROVE  TypesKept'
  OBVIOUS
<1>1. Aligned'
  BY AlignedStep DEF TypesKept
<1>2. PICK kind \in Kinds : OneType(kind)
  BY DEF TypesKept
<1>3. TypeOK
  BY DEF TypesKept, Aligned
<1>4. \E kind2 \in Kinds : OneType(kind2)'
  <2>1. CASE PostAdded \/ PostRemoved \/ PostMetadataChanged \/ PostReset \/ PostLoad
               \/ PostUndo \/ PostRedo \/ PostDuplicate
    BY <1>2, <1>3, <2>1, PostedKinds
  <2>2. CASE HandleAlteration \/ loadRPZMap \/ undo \/ redo
    BY <1>2, <2>2, HandleKinds, LoadKinds, UndoKinds, RedoKinds DEF TypesKept
  <2>3. CASE duplicateAtoms
    BY <1>2, <2>3, DuplicateKinds DEF TypesKept
  <2>4. CASE UNCHANGED vars
    BY <1>2, <2>4 DEF vars, mapVars, historyVars, OneType
  <2> QED
    BY <2>1, <2>2, <2>3, <2>4 DEF Next
<1> QED
  BY <1>1, <1>4 DEF TypesKept

LEMMA AlwaysTypesKept == Spec => []TypesKept
<1>1. Init => Aligned
  BY TypeInit, EmptySeq DEF Init, Aligned, HistoryAligned
<1>2. Init => \E kind \in Kinds : OneType(kind)
  <2>1. [i \in AtomId |-> "Event"] \in Kinds
    BY DEF Kinds, AtomType
  <2>2. ASSUME Init, NEW kind
        PROVE  OneType(kind)
    BY <2>2, EmptySeq DEF Init, OneType, Fits, QueueFits, StackFits, NoAtoms
  <2> QED
    BY <2>1, <2>2
<1> QED
  BY <1>1, <1>2, TypesKeptStep, PTL DEF Spec, TypesKept

---------------------------------------------------------------------------
(* The ids withheld from players *)

\* Handling a payload that fits the map keeps the withheld ids exact.
LEMMA RestrictedFollows ==
  ASSUME NEW m \in Maps, NEW p \in Payload, NEW ids, NEW kind,
         Fits(m, ids, kind), Fits(p.atoms, ids, kind)
  PROVE  RestrictedAfter(RestrictedIdsOf(m), m, p) = RestrictedIdsOf(AtomsAfter(m, p))
<1>1. CASE p.type = "Reset"
  BY <1>1 DEF RestrictedAfter, AtomsAfter
<1>2. CASE p.type = "Added"
  BY <1>2 DEF RestrictedAfter, AtomsAfter, RestrictedIdsOf, isRestrictedAtom, Fits
<1>3. CASE p.type = "Removed"
  BY <1>3 DEF RestrictedAfter, AtomsAfter, RestrictedIdsOf, isRestrictedAtom, IdsOf
<1>4. CASE p.type \in {"MetadataChanged", "BulkMetadataChanged"}
  <2>1. ASSUME NEW i \in AtomId
        PROVE  isRestrictedAtom(AtomsAfter(m, p)[i]) <=> isRestrictedAtom(m[i])
    <3>1. AtomsAfter(m, p)[i] = IF m[i] = NoAtom THEN NoAtom ELSE setMetadata(m[i], p.updates[i])
      BY <1>4 DEF AtomsAfter
    <3>2. m[i] # NoAtom => /\ setMetadata(m[i], p.updates[i]).type = m[i].type
                           /\ setMetadata(m[i], p.updates[i]) # NoAtom
      BY PayloadFields, setMetadataType, NoAtomAssumption DEF Maps
    <3> QED
      BY <3>1, <3>2 DEF isRestrictedAtom
  <2> QED
    BY <1>4, <2>1 DEF RestrictedAfter, RestrictedIdsOf
<1> QED
  BY <1>1, <1>2, <1>3, <1>4, PayloadFields DEF Alteration

LEMMA RestrictedStep ==
  ASSUME TypesKept, RestrictedExact, [Next]_vars
  PROVE  RestrictedExact'
<1>1. CASE HandleAlteration
  <2>1. PICK kind \in Kinds : OneType(kind)
    BY DEF TypesKept
  <2>2. TypeOK
    BY DEF TypesKept, Aligned
  <2>3. PICK p \in Payload :
          /\ inbox # <<>> /\ Head(inbox).op = "alter" /\ Head(inbox).payload = p
          /\ atoms' = AtomsAfter(atoms, p)
          /\ restrictedAtomIds' = RestrictedAfter(restrictedAtomIds, atoms, p)
          /\ replaced' = (replaced /\ p.type # "Reset")
    BY <1>1, <2>2, HandledPayload
  <2>4. Fits(atoms, issued, kind) /\ Fits(p.atoms, issued, kind)
    BY <2>1, <2>2, <2>3, HeadFits DEF OneType
  <2>5. atoms \in Maps
    BY <2>2 DEF TypeOK
  <2>6. CASE p.type = "Reset"
    BY <2>3, <2>6 DEF RestrictedAfter, AtomsAfter, RestrictedExact
  <2>7. CASE p.type # "Reset"
    <3>1. replaced' = replaced
      BY <2>2, <2>3, <2>7, Zenon DEF TypeOK
    <3> QED
      BY <2>3, <2>4, <2>5, <3>1, RestrictedFollows DEF RestrictedExact
  <2> QED
    BY <2>6, <2>7
<1>2. CASE loadRPZMap
  BY <1>2 DEF loadRPZMap, RestrictedExact
<1>3. CASE ~HandleAlteration /\ ~loadRPZMap
  BY <1>3, OthersLeaveTheMap DEF mapVars, RestrictedExact
<1> QED
  BY <1>1, <1>2, <1>3

\* The ids withheld from players are those of the event atoms on the map: ids
\* are issued once, so that one whose atom is removed can only come back, from
\* the history, as an atom of the same type.
THEOREM RestrictedStaysExact == Spec => []RestrictedExact
<1>1. Init => RestrictedExact
  BY DEF Init, RestrictedExact, RestrictedIdsOf, NoAtoms, isRestrictedAtom
<1> QED
  BY <1>1, RestrictedStep, AlwaysTypesKept, PTL DEF Spec

---------------------------------------------------------------------------
(* The history is a timeline, when users wait *)

\* An addition that would replace no atom, so that it is undone by a removal.
NewAtoms(p) ==
  p.type = "Added" => \A i \in AtomId : p.atoms[i] = NoAtom \/ atoms[i] = NoAtom

resets(e) == e.op = "alter" /\ e.payload.type = "Reset"
comesFromHistory(e) == e.op = "alter" /\ e.payload.type # "Reset" /\ e.payload.timeline

\* The one event that is waited for: a reset, an entry of the history that leads
\* to the version the index is already at, or one that the map is calm before.
Settles(e) ==
  /\ resets(e) => replaced \/ atoms = currentVersion
  /\ comesFromHistory(e) => ~replaced /\ AtomsAfter(atoms, e.payload) = currentVersion
  /\ ~resets(e) /\ ~comesFromHistory(e) =>
       ~replaced /\ atoms = currentVersion /\ (e.op = "alter" => NewAtoms(e.payload))
  /\ e.op = "load" => e.payload.type = "Reset"

OneAtATime ==
  /\ inbox = <<>> => ~replaced /\ atoms = currentVersion
  /\ inbox # <<>> => Tail(inbox) = <<>> /\ Settles(Head(inbox))

\* An entry leads from a version to the next one and back.
Entry(k) ==
  /\ redoHistory[k].type # "Reset" /\ undoHistory[k].type # "Reset"
  /\ AtomsAfter(versions[k + 1], undoHistory[k]) = versions[k]
  /\ AtomsAfter(versions[k], redoHistory[k]) = versions[k + 1]

EntriesLead == \A k \in 1..Len(redoHistory) : Entry(k)

HistoryInv == TypesKept /\ OneAtATime /\ EntriesLead

ShownVersion == IF replaced THEN currentVersion ELSE atoms

\* What a step of the timeline is.
TimelineNext == History!Next \/ UNCHANGED <<versions, KeptEntries, ShownVersion>>

\* The lengths that everything is counted from.
LEMMA Counted ==
  ASSUME Aligned
  PROVE  /\ redoHistory \in Seq(Payload) /\ undoHistory \in Seq(Payload)
         /\ versions \in Seq(Maps) /\ atoms \in Maps
         /\ Len(redoHistory) \in Nat /\ Len(undoHistory) = Len(redoHistory)
         /\ Len(versions) = Len(redoHistory) + 1
         /\ payloadHistoryIndex \in 0..Len(redoHistory)
         /\ KeptEntries = Len(redoHistory) - payloadHistoryIndex
         /\ KeptEntries \in 0..Len(redoHistory)
         /\ currentVersion \in Maps
<1>1. /\ redoHistory \in Seq(Payload) /\ undoHistory \in Seq(Payload)
      /\ versions \in Seq(Maps) /\ atoms \in Maps
      /\ payloadHistoryIndex \in Nat /\ payloadHistoryIndex <= Len(redoHistory)
      /\ Len(undoHistory) = Len(redoHistory) /\ Len(versions) = Len(redoHistory) + 1
  BY DEF Aligned, TypeOK, HistoryAligned
<1>2. Len(redoHistory) \in Nat
  BY <1>1, LenProperties
<1>3. KeptEntries \in 0..Len(redoHistory)
  BY <1>1, <1>2 DEF KeptEntries
<1>4. KeptEntries + 1 \in 1..Len(versions)
  BY <1>1, <1>2, <1>3
<1>5. currentVersion \in Maps
  BY <1>1, <1>4, ElementOfSeq DEF currentVersion
<1> QED
  BY <1>1, <1>2, <1>3, <1>5 DEF KeptEntries

\* Where a payload comes from does not change what it does.
LEMMA TaggedDoesTheSame ==
  ASSUME NEW p \in Payload, NEW m \in Maps
  PROVE  /\ tagAsFromTimeline(p).timeline /\ tagAsFromTimeline(p).type = p.type
         /\ AtomsAfter(m, tagAsFromTimeline(p)) = AtomsAfter(m, p)
<1>1. /\ tagAsFromTimeline(p).timeline /\ tagAsFromTimeline(p).type = p.type
      /\ tagAsFromTimeline(p).atoms = p.atoms /\ tagAsFromTimeline(p).ids = p.ids
      /\ tagAsFromTimeline(p).updates = p.updates
  BY DEF tagAsFromTimeline, Payload
<1> QED
  BY <1>1 DEF AtomsAfter

\* What is posted to an empty queue is the one event in it.
LEMMA OneEvent ==
  ASSUME NEW s, s = <<>>, NEW e
  PROVE  /\ Append(s, e) # <<>>
         /\ Head(Append(s, e)) = e
         /\ Tail(Append(s, e)) = <<>>
<1>1. Append(s, e) = <<e>>
  OBVIOUS
<1> QED
  BY <1>1

\* Users post to a storage that is calm.
LEMMA PostTimeline ==
  ASSUME HistoryInv, UserWaits, NEW e \in Event, Post(e),
         e.op = "alter" =>
           /\ ~e.payload.timeline
           /\ e.payload.type = "Added" =>
                \A i \in AtomId : e.payload.atoms[i] # NoAtom => i \notin issued,
         e.op = "load" => e.payload.type = "Reset"
  PROVE  OneAtATime' /\ EntriesLead' /\ UNCHANGED <<versions, KeptEntries, ShownVersion>>
<1>1. inbox = <<>> /\ ~replaced /\ atoms = currentVersion
  BY DEF Post, HistoryInv, OneAtATime
<1>2. UNCHANGED <<atoms, replaced, versions, redoHistory, undoHistory, payloadHistoryIndex>>
  BY DEF Post, mapVars, historyVars
<1>3. inbox' = <<e>>
  BY <1>1 DEF Post
<1>4. inbox' # <<>> /\ Head(inbox') = e /\ Tail(inbox') = <<>>
  BY <1>3
<1>5. UNCHANGED <<KeptEntries, currentVersion, ShownVersion>>
  BY <1>2 DEF KeptEntries, currentVersion, ShownVersion
<1>6. \A i \in AtomId : atoms[i] # NoAtom => i \in issued
  BY DEF HistoryInv, TypesKept, OneType, Fits
<1>7. Settles(e)'
  BY <1>1, <1>2, <1>5, <1>6 DEF Settles, resets, comesFromHistory, NewAtoms
<1>8. EntriesLead'
  BY <1>2 DEF HistoryInv, EntriesLead, Entry
<1> QED
  BY <1>2, <1>4, <1>5, <1>7, <1>8 DEF OneAtATime

LEMMA PostedTimeline ==
  ASSUME HistoryInv, UserWaits,
         PostAdded \/ PostRemoved \/ PostMetadataChanged \/ PostReset \/ PostLoad
           \/ PostUndo \/ PostRedo \/ PostDuplicate
  PROVE  OneAtATime' /\ EntriesLead' /\ UNCHANGED <<versions, KeptEntries, ShownVersion>>
<1>1. TypeOK
  BY DEF HistoryInv, TypesKept, Aligned
<1>2. CASE PostAdded
  <2>1. PICK i \in AtomId \ issued, a \in Templates :
          Post(alter(AddedPayload([NoAtoms EXCEPT ![i] = a])))
    BY <1>2 DEF PostAdded
  <2> DEFINE m == [NoAtoms EXCEPT ![i] = a]
  <2>2. m \in Maps /\ \A j \in AtomId : m[j] # NoAtom => j \notin issued
    BY <2>1, TemplatesAssumption DEF NoAtoms, Maps
  <2>3. Post(alter(AddedPayload(m)))
    BY <2>1
  <2> HIDE DEF m
  <2>4. /\ AddedPayload(m) \in Payload /\ AddedPayload(m).atoms = m
        /\ ~AddedPayload(m).timeline
    BY <2>2, AddedPayloadType DEF AddedPayload
  <2> QED
    BY <2>2, <2>3, <2>4, alterType, PostTimeline
<1>3. CASE PostRemoved
  <2>1. PICK ids \in SUBSET issued : Post(alter(RemovedPayload(ids)))
    BY <1>3 DEF PostRemoved
  <2>2. /\ RemovedPayload(ids) \in Payload
        /\ ~RemovedPayload(ids).timeline /\ RemovedPayload(ids).type = "Removed"
    BY <1>1, RemovedPayloadType DEF RemovedPayload, TypeOK
  <2> QED
    BY <2>1, <2>2, alterType, PostTimeline
<1>4. CASE PostMetadataChanged
  <2>1. PICK ids \in SUBSET issued, u \in UpdateChoices : Post(alter(MetadataChangedPayload(ids, u)))
    BY <1>4 DEF PostMetadataChanged
  <2>2. /\ MetadataChangedPayload(ids, u) \in Payload
        /\ ~MetadataChangedPayload(ids, u).timeline
        /\ MetadataChangedPayload(ids, u).type = "MetadataChanged"
    BY <1>1, MetadataChangedPayloadType, UpdateChoicesAssumption DEF MetadataChangedPayload, TypeOK
  <2> QED
    BY <2>1, <2>2, alterType, PostTimeline
<1>5. CASE PostReset \/ PostLoad
  <2>1. PICK op \in {"alter", "load"} : PostMap(op)
    BY <1>5 DEF PostReset, PostLoad
  <2>2. PICK m \in Maps, hashes \in SUBSET Assets : Post(MapEvent(op, ResetPayload(m, hashes)))
    BY <1>1, <2>1, PostedMap
  <2>3. /\ ResetPayload(m, hashes) \in Payload
        /\ ~ResetPayload(m, hashes).timeline /\ ResetPayload(m, hashes).type = "Reset"
    BY ResetPayloadType DEF ResetPayload
  <2> QED
    BY <2>2, <2>3, MapEventType, PostTimeline
<1>6. CASE PostUndo \/ PostRedo
  BY <1>6, PostTimeline DEF PostUndo, PostRedo, Event
<1>7. CASE PostDuplicate
  <2>1. PICK ids \in SUBSET issued : Post([op |-> "duplicate", ids |-> ids])
    BY <1>7 DEF PostDuplicate
  <2>2. [op |-> "duplicate", ids |-> ids] \in Event
    BY <1>1 DEF Event, TypeOK
  <2> QED
    BY <2>1, <2>2, PostTimeline
<1> QED
  BY <1>2, <1>3, <1>4, <1>5, <1>6, <1>7

\* A sequence that is cut and gets one more element.
LEMMA CutElements ==
  ASSUME NEW S, NEW s \in Seq(S), NEW k \in 0..Len(s), NEW e \in S,
         NEW t, t = Append(SubSeq(s, 1, k), e)
  PROVE  /\ t \in Seq(S) /\ Len(t) = k + 1 /\ t[k + 1] = e
         /\ \A i \in 1..k : t[i] = s[i]
         /\ SubSeq(t, 1, k) = SubSeq(s, 1, k)
<1>1. Len(s) \in Nat /\ k \in Nat /\ k <= Len(s)
  BY LenProperties
<1>2. /\ SubSeq(s, 1, k) \in Seq(S) /\ Len(SubSeq(s, 1, k)) = k
      /\ \A i \in 1..k : SubSeq(s, 1, k)[i] = s[i]
  BY <1>1, SubSeqProperties
<1>3. /\ t \in Seq(S) /\ Len(t) = k + 1 /\ t[k + 1] = e
      /\ \A i \in 1..k : t[i] = SubSeq(s, 1, k)[i]
  BY <1>1, <1>2, AppendProperties
<1>4. /\ SubSeq(t, 1, k) \in Seq(S) /\ Len(SubSeq(t, 1, k)) = k
      /\ \A i \in 1..k : SubSeq(t, 1, k)[i] = t[i]
  BY <1>1, <1>3, SubSeqProperties
<1>5. SubSeq(t, 1, k) = SubSeq(s, 1, k)
  BY <1>2, <1>3, <1>4, SeqEqual
<1> QED
  BY <1>2, <1>3, <1>5

\* A new entry is made of the current version and of what becomes of the map.
LEMMA RegisterTimeline ==
  ASSUME HistoryInv, NEW p \in Payload, inbox # <<>>, Head(inbox).op = "alter",
         Head(inbox).payload = p, p.type # "Reset", ~p.timeline, handleAlterationRequest(p)
  PROVE  OneAtATime' /\ EntriesLead' /\ TimelineNext
<1> DEFINE K == KeptEntries
           u == generateUndoPayload(atoms, p)
           m == AtomsAfter(atoms, p)
<1>1. /\ Aligned /\ ~replaced /\ atoms = versions[K + 1] /\ NewAtoms(p) /\ Tail(inbox) = <<>>
      /\ EntriesLead
  BY DEF HistoryInv, TypesKept, OneAtATime, Settles, resets, comesFromHistory, currentVersion
<1>2. /\ redoHistory \in Seq(Payload) /\ undoHistory \in Seq(Payload)
      /\ versions \in Seq(Maps) /\ atoms \in Maps
      /\ K \in 0..Len(redoHistory) /\ K \in 0..Len(undoHistory) /\ K + 1 \in 0..Len(versions)
      /\ K \in Nat
  BY <1>1, Counted
<1>3. u \in Payload /\ m \in Maps
  BY <1>2, generateUndoPayloadType, AtomsAfterType
<1>4. AtomsAfter(m, u) = atoms
  BY <1>1, <1>2, UndoInverts DEF NewAtoms
<1>5. u.type # "Reset"
  BY DEF generateUndoPayload, RemovedPayload, AddedPayload, BulkMetadataChangedPayload
<1>6. /\ redoHistory' = Append(SubSeq(redoHistory, 1, K), p)
      /\ undoHistory' = Append(SubSeq(undoHistory, 1, K), u)
      /\ versions' = Append(SubSeq(versions, 1, K + 1), m)
      /\ payloadHistoryIndex' = 0 /\ atoms' = m /\ inbox' = <<>>
  BY <1>1 DEF handleAlterationRequest, registerPayloadForHistory, undoRedoAllowed, versionsAfter
<1>7. replaced' = FALSE
  BY <1>1, Zenon DEF handleAlterationRequest
<1> HIDE DEF K, u, m
<1>8. /\ Len(redoHistory') = K + 1 /\ redoHistory'[K + 1] = p
      /\ \A k \in 1..K : redoHistory'[k] = redoHistory[k]
  BY <1>2, <1>6, CutElements
<1>9. /\ undoHistory'[K + 1] = u
      /\ \A k \in 1..K : undoHistory'[k] = undoHistory[k]
  BY <1>2, <1>3, <1>6, CutElements
<1>10. /\ Len(versions') = K + 2 /\ versions'[K + 2] = m
       /\ \A k \in 1..K + 1 : versions'[k] = versions[k]
       /\ SubSeq(versions', 1, K + 1) = SubSeq(versions, 1, K + 1)
  <2>1. /\ Len(versions') = (K + 1) + 1 /\ versions'[(K + 1) + 1] = m
        /\ \A k \in 1..K + 1 : versions'[k] = versions[k]
        /\ SubSeq(versions', 1, K + 1) = SubSeq(versions, 1, K + 1)
    BY <1>2, <1>3, <1>6, CutElements
  <2>2. (K + 1) + 1 = K + 2
    BY <1>2
  <2> QED
    BY <2>1, <2>2
<1>11. KeptEntries' = K + 1 /\ currentVersion' = m
  BY <1>2, <1>6, <1>8, <1>10 DEF KeptEntries, currentVersion
<1>12. OneAtATime'
  BY <1>6, <1>7, <1>11 DEF OneAtATime
<1>13. EntriesLead'
  <2> SUFFICES ASSUME NEW k \in 1..K + 1
               PROVE  Entry(k)'
    BY <1>8 DEF EntriesLead
  <2>1. CASE k = K + 1
    <3>1. redoHistory'[k] = p /\ undoHistory'[k] = u /\ versions'[k] = atoms /\ versions'[k + 1] = m
      BY <1>1, <1>2, <1>8, <1>9, <1>10, <2>1 DEF K
    <3> QED
      BY <1>4, <1>5, <3>1 DEF Entry, m
  <2>2. CASE k # K + 1
    <3>1. k \in 1..K /\ k \in 1..K + 1 /\ k + 1 \in 1..K + 1 /\ k \in 1..Len(redoHistory)
      BY <1>2, <2>2
    <3>2. /\ redoHistory'[k] = redoHistory[k] /\ undoHistory'[k] = undoHistory[k]
          /\ versions'[k] = versions[k] /\ versions'[k + 1] = versions[k + 1]
      BY <1>8, <1>9, <1>10, <3>1
    <3> QED
      BY <1>1, <3>1, <3>2 DEF EntriesLead, Entry
  <2> QED
    BY <2>1, <2>2
<1>14. History!Change
  <2>1. ShownVersion = versions[K + 1] /\ ShownVersion' = versions'[K + 2]
    BY <1>1, <1>6, <1>7, <1>10 DEF ShownVersion
  <2> QED
    BY <1>2, <1>10, <1>11, <2>1 DEF History!Change, ShownVersion, K
<1> QED
  BY <1>12, <1>13, <1>14 DEF TimelineNext, History!Next

\* An alteration that comes from the history brings the map to the version that
\* the index is at; a reset makes of its map the one version.
LEMMA HandleTimeline ==
  ASSUME HistoryInv, HandleAlteration
  PROVE  OneAtATime' /\ EntriesLead' /\ TimelineNext
<1>1. Aligned /\ TypeOK /\ OneAtATime /\ EntriesLead
  BY DEF HistoryInv, TypesKept, Aligned
<1>2. PICK p \in Payload :
        /\ inbox # <<>> /\ Head(inbox).op = "alter" /\ Head(inbox).payload = p
        /\ handleAlterationRequest(p)
        /\ atoms' = AtomsAfter(atoms, p)
        /\ replaced' = (replaced /\ p.type # "Reset")
  BY <1>1, HandledPayload
<1>3. inbox' = <<>> /\ Settles(Head(inbox))
  BY <1>1, <1>2 DEF OneAtATime, handleAlterationRequest
<1>4. CASE p.type = "Reset"
  <2>1. /\ redoHistory' = <<>> /\ undoHistory' = <<>> /\ payloadHistoryIndex' = 0
        /\ versions' = <<p.atoms>> /\ atoms' = p.atoms
    BY <1>2, <1>4 DEF handleAlterationRequest, clearHistory, versionsAfter, AtomsAfter
  <2>2. replaced' = FALSE
    BY <1>2, <1>4, Zenon
  <2>3. KeptEntries' = 0 /\ Len(redoHistory') = 0 /\ Len(versions') = 1 /\ versions'[1] = p.atoms
    BY <2>1 DEF KeptEntries
  <2>4. currentVersion' = p.atoms
    BY <2>3 DEF currentVersion
  <2>5. OneAtATime'
    BY <1>3, <2>1, <2>2, <2>4 DEF OneAtATime
  <2>6. EntriesLead'
    BY <2>3 DEF EntriesLead
  <2>7. History!Load
    BY <2>1, <2>2, <2>3 DEF History!Load
  <2> QED
    BY <2>5, <2>6, <2>7 DEF TimelineNext, History!Next
<1>5. CASE p.type # "Reset" /\ p.timeline
  <2>1. UNCHANGED <<redoHistory, undoHistory, payloadHistoryIndex, versions>>
    BY <1>2, <1>5 DEF handleAlterationRequest, registerPayloadForHistory, versionsAfter, historyVars
  <2>2. ~replaced /\ atoms' = currentVersion
    BY <1>2, <1>3, <1>5 DEF Settles, comesFromHistory
  <2>3. replaced' = FALSE
    BY <1>2, <2>2, Zenon
  <2>4. UNCHANGED <<KeptEntries, currentVersion>>
    BY <2>1 DEF KeptEntries, currentVersion
  <2>5. OneAtATime'
    BY <1>3, <2>2, <2>3, <2>4 DEF OneAtATime
  <2>6. EntriesLead'
    BY <1>1, <2>1 DEF EntriesLead, Entry
  <2>7. History!Show
    BY <2>1, <2>2, <2>3, <2>4 DEF History!Show, currentVersion
  <2> QED
    BY <2>5, <2>6, <2>7 DEF TimelineNext, History!Next
<1>6. CASE p.type # "Reset" /\ ~p.timeline
  BY <1>2, <1>6, RegisterTimeline
<1> QED
  BY <1>4, <1>5, <1>6

\* The map of a file is on show once its reset is handled.
LEMMA LoadTimeline ==
  ASSUME HistoryInv, loadRPZMap
  PROVE  OneAtATime' /\ EntriesLead' /\ TimelineNext
<1> DEFINE e == Head(inbox)
<1>1. /\ inbox # <<>> /\ e.op = "load" /\ Tail(inbox) = <<>> /\ Settles(e)
      /\ inbox' = Append(Tail(inbox), alter(e.payload))
      /\ replaced' = TRUE
      /\ UNCHANGED <<versions, redoHistory, undoHistory, payloadHistoryIndex>>
  BY DEF HistoryInv, OneAtATime, loadRPZMap, historyVars
<1>2. ~replaced /\ atoms = currentVersion
  BY <1>1 DEF Settles, resets, comesFromHistory
<1>3. UNCHANGED <<KeptEntries, currentVersion>>
  BY <1>1 DEF KeptEntries, currentVersion
<1>4. UNCHANGED ShownVersion
  BY <1>1, <1>2, <1>3 DEF ShownVersion
<1>5. e.payload.type = "Reset"
  BY <1>1 DEF Settles
<1>6. PICK f : f = alter(e.payload) /\ f.op = "alter" /\ f.payload.type = "Reset"
  <2>1. alter(e.payload).op = "alter" /\ alter(e.payload).payload.type = "Reset"
    BY <1>5 DEF alter
  <2> QED
    BY <2>1, Zenon
<1> HIDE DEF e
<1>7. inbox' # <<>> /\ Head(inbox') = f /\ Tail(inbox') = <<>>
  BY <1>1, <1>6, OneEvent
<1>8. Settles(f)'
  BY <1>1, <1>6 DEF Settles, resets, comesFromHistory
<1>9. EntriesLead'
  BY <1>1 DEF HistoryInv, EntriesLead, Entry
<1>10. OneAtATime'
  BY <1>7, <1>8 DEF OneAtATime
<1> QED
  BY <1>1, <1>3, <1>4, <1>9, <1>10 DEF TimelineNext

\* An entry that undo or redo posts leads to the version that the index moves to.
LEMMA PostsEntry ==
  ASSUME HistoryInv, NEW p \in Payload, p.type # "Reset",
         Tail(inbox) = <<>>, inbox' = Append(Tail(inbox), alter(tagAsFromTimeline(p))),
         ~replaced, UNCHANGED <<mapVars, redoHistory, undoHistory>>,
         AtomsAfter(atoms, p) = currentVersion'
  PROVE  OneAtATime' /\ EntriesLead'
<1> DEFINE e == alter(tagAsFromTimeline(p))
<1>1. atoms \in Maps
  BY Counted DEF HistoryInv, TypesKept
<1>2. /\ e.op = "alter" /\ e.payload.timeline /\ e.payload.type # "Reset"
      /\ AtomsAfter(atoms, e.payload) = AtomsAfter(atoms, p)
  BY <1>1, TaggedDoesTheSame DEF alter
<1> HIDE DEF e
<1>3. inbox' # <<>> /\ Head(inbox') = e /\ Tail(inbox') = <<>>
  BY OneEvent DEF e
<1>5. atoms' = atoms /\ replaced' = replaced /\ versions' = versions
  BY DEF mapVars
<1>6. Settles(e)'
  BY <1>2, <1>5 DEF Settles, resets, comesFromHistory
<1>7. EntriesLead'
  BY <1>5 DEF HistoryInv, EntriesLead, Entry
<1> QED
  BY <1>3, <1>6, <1>7 DEF OneAtATime

\* An undo or a redo that has nowhere to go leaves a calm storage.
LEMMA LeavesCalm ==
  ASSUME HistoryInv, inbox # <<>>, Head(inbox).op \notin {"alter", "load"},
         inbox' = Tail(inbox), UNCHANGED <<mapVars, historyVars>>
  PROVE  OneAtATime' /\ EntriesLead' /\ UNCHANGED <<versions, KeptEntries, ShownVersion>>
<1>1. ~replaced /\ atoms = currentVersion /\ inbox' = <<>>
  BY DEF HistoryInv, OneAtATime, Settles, resets, comesFromHistory
<1>2. UNCHANGED <<atoms, replaced, versions, redoHistory, undoHistory, payloadHistoryIndex>>
  BY DEF mapVars, historyVars
<1>3. UNCHANGED <<KeptEntries, currentVersion>>
  BY <1>2 DEF KeptEntries, currentVersion
<1>4. UNCHANGED ShownVersion
  BY <1>2, <1>3 DEF ShownVersion
<1>5. EntriesLead'
  BY <1>2 DEF HistoryInv, EntriesLead, Entry
<1>6. OneAtATime'
  BY <1>1, <1>2, <1>3 DEF OneAtATime
<1> QED
  BY <1>2, <1>3, <1>4, <1>5, <1>6

LEMMA UndoTimeline ==
  ASSUME HistoryInv, undo
  PROVE  OneAtATime' /\ EntriesLead' /\ TimelineNext
<1> DEFINE K == KeptEntries
<1>1. /\ inbox # <<>> /\ Head(inbox).op = "undo" /\ Aligned /\ TypeOK /\ EntriesLead
      /\ UNCHANGED <<mapVars, redoHistory, undoHistory>>
  BY DEF HistoryInv, TypesKept, Aligned, undo
<1>2. Tail(inbox) = <<>> /\ ~replaced /\ atoms = versions[K + 1]
  BY <1>1 DEF HistoryInv, OneAtATime, Settles, resets, comesFromHistory, currentVersion
<1>3. /\ Len(redoHistory) \in Nat /\ Len(undoHistory) = Len(redoHistory)
      /\ K = Len(redoHistory) - payloadHistoryIndex /\ K \in 0..Len(redoHistory)
      /\ payloadHistoryIndex \in 0..Len(redoHistory) /\ Len(versions) = Len(redoHistory) + 1
  BY <1>1, Counted
<1>4. UNCHANGED <<versions, atoms, replaced>>
  BY <1>1 DEF mapVars
<1>5. CASE canUndo
  <2> DEFINE p == undoHistory[K]
  <2>1. K \in 1..Len(redoHistory) /\ K = Len(undoHistory) - payloadHistoryIndex
    BY <1>3, <1>5 DEF canUndo
  <2>2. p \in Payload
    BY <1>1, <1>5, <2>1, UndoEntry
  <2>3. /\ payloadHistoryIndex' = payloadHistoryIndex + 1
        /\ inbox' = Append(Tail(inbox), alter(tagAsFromTimeline(p)))
    BY <1>5, <2>1 DEF undo
  <2>4. KeptEntries' = K - 1
    BY <1>1, <1>3, <2>3 DEF KeptEntries
  <2>5. currentVersion' = versions[K]
    BY <1>3, <1>4, <2>1, <2>4 DEF currentVersion
  <2>6. p.type # "Reset" /\ AtomsAfter(atoms, p) = currentVersion'
    BY <1>1, <1>2, <2>1, <2>5 DEF EntriesLead, Entry
  <2>7. OneAtATime' /\ EntriesLead'
    <3> HIDE DEF p
    <3> QED
      BY <1>1, <1>2, <2>2, <2>3, <2>6, PostsEntry
  <2>8. History!Undo
    <3>1. ShownVersion' = ShownVersion
      BY <1>2, <1>4 DEF ShownVersion
    <3>2. KeptEntries + 1 > 1 /\ KeptEntries' + 1 = (KeptEntries + 1) - 1
      BY <1>3, <2>1, <2>4
    <3> QED
      BY <1>4, <3>1, <3>2 DEF History!Undo, ShownVersion
  <2> QED
    BY <2>7, <2>8 DEF TimelineNext, History!Next
<1>6. CASE ~canUndo
  <2>1. inbox' = Tail(inbox) /\ UNCHANGED <<mapVars, historyVars>>
    BY <1>6 DEF undo, historyVars
  <2> QED
    BY <1>1, <2>1, LeavesCalm DEF TimelineNext
<1> QED
  BY <1>5, <1>6

LEMMA RedoTimeline ==
  ASSUME HistoryInv, redo
  PROVE  OneAtATime' /\ EntriesLead' /\ TimelineNext
<1> DEFINE K == KeptEntries
<1>1. /\ inbox # <<>> /\ Head(inbox).op = "redo" /\ Aligned /\ TypeOK /\ EntriesLead
      /\ UNCHANGED <<mapVars, redoHistory, undoHistory>>
  BY DEF HistoryInv, TypesKept, Aligned, redo
<1>2. Tail(inbox) = <<>> /\ ~replaced /\ atoms = versions[K + 1]
  BY <1>1 DEF HistoryInv, OneAtATime, Settles, resets, comesFromHistory, currentVersion
<1>3. /\ Len(redoHistory) \in Nat
      /\ K = Len(redoHistory) - payloadHistoryIndex /\ K \in 0..Len(redoHistory)
      /\ payloadHistoryIndex \in 0..Len(redoHistory) /\ Len(versions) = Len(redoHistory) + 1
  BY <1>1, Counted
<1>4. UNCHANGED <<versions, atoms, replaced>>
  BY <1>1 DEF mapVars
<1>5. CASE canRedo
  <2> DEFINE p == redoHistory[K + 1]
  <2>1. K + 1 \in 1..Len(redoHistory) /\ K + 1 = Len(redoHistory) - payloadHistoryIndex + 1
    BY <1>3, <1>5 DEF canRedo
  <2>2. p \in Payload
    BY <1>1, <1>5, <2>1, RedoEntry
  <2>3. /\ payloadHistoryIndex' = payloadHistoryIndex - 1
        /\ inbox' = Append(Tail(inbox), alter(tagAsFromTimeline(p)))
    BY <1>5, <2>1 DEF redo
  <2>4. KeptEntries' = K + 1
    BY <1>1, <1>3, <2>3 DEF KeptEntries
  <2>5. currentVersion' = versions[(K + 1) + 1]
    BY <1>4, <2>4 DEF currentVersion
  <2>6. p.type # "Reset" /\ AtomsAfter(atoms, p) = currentVersion'
    BY <1>1, <1>2, <2>1, <2>5 DEF EntriesLead, Entry
  <2>7. OneAtATime' /\ EntriesLead'
    <3> HIDE DEF p
    <3> QED
      BY <1>1, <1>2, <2>2, <2>3, <2>6, PostsEntry
  <2>8. History!Redo
    <3>1. ShownVersion' = ShownVersion
      BY <1>2, <1>4 DEF ShownVersion
    <3>2. KeptEntries + 1 < Len(versions) /\ KeptEntries' + 1 = (KeptEntries + 1) + 1
      BY <1>3, <2>1, <2>4
    <3> QED
      BY <1>4, <3>1, <3>2 DEF History!Redo, ShownVersion
  <2> QED
    BY <2>7, <2>8 DEF TimelineNext, History!Next
<1>6. CASE ~canRedo
  <2>1. inbox' = Tail(inbox) /\ UNCHANGED <<mapVars, historyVars>>
    BY <1>6 DEF redo, historyVars
  <2> QED
    BY <1>1, <2>1, LeavesCalm DEF TimelineNext
<1> QED
  BY <1>5, <1>6

\* Copies have ids of their own.
LEMMA DuplicateTimeline ==
  ASSUME HistoryInv, duplicateAtoms
  PROVE  OneAtATime' /\ EntriesLead' /\ UNCHANGED <<versions, KeptEntries, ShownVersion>>
<1>1. inbox # <<>> /\ Head(inbox).op = "duplicate" /\ TypeOK /\ UNCHANGED <<mapVars, historyVars>>
  BY DEF HistoryInv, TypesKept, Aligned, duplicateAtoms
<1>2. Tail(inbox) = <<>> /\ ~replaced /\ atoms = currentVersion
  BY <1>1 DEF HistoryInv, OneAtATime, Settles, resets, comesFromHistory
<1>3. PICK m \in Maps, ids2 \in SUBSET AtomId :
        /\ ids2 \cap issued = {}
        /\ \A i \in AtomId : m[i] # NoAtom => i \in ids2
        /\ inbox' = Tail(inbox) \/ inbox' = Append(Tail(inbox), alter(AddedPayload(m)))
  BY <1>1, DuplicateIssues
<1>4. CASE inbox' = Tail(inbox)
  BY <1>1, <1>4, LeavesCalm
<1>5. CASE inbox' = Append(Tail(inbox), alter(AddedPayload(m)))
  <2> DEFINE e == alter(AddedPayload(m))
  <2>1. /\ e.op = "alter" /\ e.payload.type = "Added" /\ e.payload.atoms = m
        /\ ~e.payload.timeline
    BY DEF alter, AddedPayload
  <2> HIDE DEF e
  <2>3. inbox' # <<>> /\ Head(inbox') = e /\ Tail(inbox') = <<>>
    BY <1>2, <1>5, OneEvent DEF e
  <2>4. UNCHANGED <<atoms, replaced, versions, redoHistory, undoHistory, payloadHistoryIndex>>
    BY <1>1 DEF mapVars, historyVars
  <2>5. UNCHANGED <<KeptEntries, currentVersion>>
    BY <2>4 DEF KeptEntries, currentVersion
  <2>6. UNCHANGED ShownVersion
    BY <2>4, <2>5 DEF ShownVersion
  <2>7. \A i \in AtomId : atoms[i] # NoAtom => i \in issued
    BY DEF HistoryInv, TypesKept, OneType, Fits
  <2>8. Settles(e)'
    BY <1>2, <1>3, <2>1, <2>4, <2>5, <2>7 DEF Settles, resets, comesFromHistory, NewAtoms
  <2>9. EntriesLead'
    BY <2>4 DEF HistoryInv, EntriesLead, Entry
  <2> QED
    BY <2>3, <2>4, <2>5, <2>6, <2>8, <2>9 DEF OneAtATime
<1> QED
  BY <1>3, <1>4, <1>5

LEMMA HistoryStep ==
  ASSUME UserWaits, HistoryInv, [Next]_vars
  PROVE  HistoryInv' /\ TimelineNext
<1>1. TypesKept'
  BY TypesKeptStep DEF HistoryInv
<1>2. CASE PostAdded \/ PostRemoved \/ PostMetadataChanged \/ PostReset \/ PostLoad
             \/ PostUndo \/ PostRedo \/ PostDuplicate
  BY <1>1, <1>2, PostedTimeline DEF HistoryInv, TimelineNext
<1>3. CASE HandleAlteration \/ loadRPZMap \/ undo \/ redo
  BY <1>1, <1>3, HandleTimeline, LoadTimeline, UndoTimeline, RedoTimeline DEF HistoryInv
<1>4. CASE duplicateAtoms
  BY <1>1, <1>4, DuplicateTimeline DEF HistoryInv, TimelineNext
<1>5. CASE UNCHANGED vars
  <2>1. UNCHANGED <<atoms, replaced, versions, redoHistory, undoHistory, payloadHistoryIndex, inbox>>
    BY <1>5 DEF vars, mapVars, historyVars
  <2>2. UNCHANGED <<KeptEntries, currentVersion>>
    BY <2>1 DEF KeptEntries, currentVersion
  <2>3. UNCHANGED ShownVersion
    BY <2>1, <2>2 DEF ShownVersion
  <2>4. OneAtATime' /\ EntriesLead'
    BY <2>1, <2>2 DEF HistoryInv, OneAtATime, Settles, resets, comesFromHistory, NewAtoms,
                      EntriesLead, Entry
  <2> QED
    BY <1>1, <2>1, <2>2, <2>3, <2>4 DEF HistoryInv, TimelineNext
<1> QED
  BY <1>2, <1>3, <1>4, <1>5 DEF Next

LEMMA HistoryInit == Init => OneAtATime /\ EntriesLead /\ History!Init
<1> SUFFICES ASSUME Init
             PROVE  OneAtATime /\ EntriesLead /\ History!Init
  OBVIOUS
<1>1. /\ redoHistory = <<>> /\ payloadHistoryIndex = 0 /\ inbox = <<>>
      /\ atoms = NoAtoms /\ versions = <<NoAtoms>>
  BY DEF Init
<1>2. replaced = FALSE
  BY Zenon DEF Init
<1>3. /\ Len(redoHistory) = 0 /\ KeptEntries = 0
      /\ Len(versions) = 1 /\ versions[1] = NoAtoms /\ currentVersion = NoAtoms
  BY <1>1 DEF KeptEntries, currentVersion
<1> QED
  BY <1>1, <1>2, <1>3 DEF OneAtATime, EntriesLead, History!Init

\* The undo stack leads all the way back to the last reset, and the redo stack
\* forth again, for maps and histories of any size: an entry that is registered
\* is inverted on the very map that it is applied to, and the queue has nothing
\* else in it while users wait. That they wait is needed (TimelineReplays).
THEOREM UndoAlwaysLeadsBack ==
  ASSUME UserWaits
  PROVE  Spec => []UndoLeadsBack
<1>1. HistoryInv => UndoLeadsBack
  BY DEF HistoryInv, OneAtATime, EntriesLead, Entry, UndoLeadsBack
<1>2. HistoryInv /\ TypesKept /\ [Next]_vars => HistoryInv'
  BY HistoryStep
<1>3. Init /\ TypesKept => HistoryInv
  BY HistoryInit DEF HistoryInv
<1> QED
  BY <1>1, <1>2, <1>3, AlwaysTypesKept, PTL DEF Spec

\* The storage implements the timeline: when users wait, undo and redo walk
\* through the versions of the map, changes cut what was undone, loads begin anew,
\* and the map on show follows.
THEOREM StorageIsATimeline ==
  ASSUME UserWaits
  PROVE  Spec => HistoryIsATimeline
<1>1. Init => History!Init
  BY HistoryInit
<1>2. Init /\ TypesKept => HistoryInv
  BY HistoryInit DEF HistoryInv
<1>3. HistoryInv /\ [Next]_vars => HistoryInv'
  BY HistoryStep
<1>4. HistoryInv /\ [Next]_vars => [History!Next]_(History!vars)
  <2> SUFFICES ASSUME HistoryInv, [Next]_vars
               PROVE  [History!Next]_(History!vars)
    OBVIOUS
  <2>1. TimelineNext
    BY HistoryStep
  <2>2. CASE History!Next
    BY <2>2
  <2>3. CASE UNCHANGED <<versions, KeptEntries, ShownVersion>>
    BY <2>3 DEF History!vars, ShownVersion
  <2> QED
    BY <2>1, <2>2, <2>3 DEF TimelineNext
<1> QED
  BY <1>1, <1>2, <1>3, <1>4, AlwaysTypesKept, PTL DEF Spec, HistoryIsATimeline, History!Spec

---------------------------------------------------------------------------
(* What the queue and the history of the map thread hold *)

\* What the history keeps, and undo and redo post again.
Change == {p \in Payload : p.type # "Reset"}

DeskEvent ==
  [op : {"undo", "redo", "save", "session"}]
    \cup [op : {"alter"}, payload : Payload]
    \cup [op : {"load"}, payload : Loaded]
    \cup [op : {"select"}, ids : SUBSET AtomId]
    \cup [op : {"asset"}, hash : Assets]

IsReset(e) == e.op = "alter" /\ e.payload.type = "Reset"

Stored ==
  /\ atoms \in Maps
  /\ saved \in Maps
  /\ assetHashes \in SUBSET Assets
  /\ issued \in SUBSET AtomId
  /\ inbox \in Seq(DeskEvent)
  /\ redoHistory \in Seq(Change)
  /\ undoHistory \in Seq(Change)
  /\ Len(undoHistory) = Len(redoHistory)
  /\ payloadHistoryIndex \in 0..Len(redoHistory)
  /\ dirty \in BOOLEAN
  /\ hostAble \in BOOLEAN

\* What the tree, the editor and the menu hold.
Arranged ==
  /\ \A c \in DOMAIN tree : tree[c] \subseteq AtomId
  /\ edited \subseteq AtomId
  /\ menu.ids \subseteq AtomId
  /\ menu.layers \subseteq Values

GItem == [atom : AtomId, made : Nat, token : BOOLEAN, asset : Assets \cup {NoAsset}]
Token == {x \in GItem : x.token}

\* What the view names is there, but for the items that a walk could have let go.
Shows ==
  /\ view \in [shown : SUBSET GItem, selected : SUBSET GItem, owned : SUBSET Token,
                tool : MapTool, helper : SUBSET Token]
  /\ view.selected \subseteq view.shown
  /\ view.owned \subseteq view.shown
  /\ view.tool = "Walking" => view.helper # {}
  /\ "letting go" \notin slips => view.helper \subseteq view.shown

\* The event e is posted to the map thread, and nothing else changes for it.
Posts(e) ==
  /\ inbox' = Append(inbox, e)
  /\ IsReset(e) => ~hostAble
  /\ issued' \in SUBSET AtomId
  /\ UNCHANGED <<mapVars, historyVars, hostAble, itemVars, fileVars>>
  /\ slips \subseteq slips'

\* The tree and the editor handle an event, or the editor may be told of none.
TreeMoves ==
  \/ tree' = tree /\ (edited' = edited \/ edited' = {})
  \/ \E e \in DeskEvent : handleInInterface(e)

PostedOrNot ==
  /\ TreeMoves
  /\ \/ \E e \in DeskEvent : Posts(e)
     \/ /\ inbox' = inbox /\ issued' = issued
        /\ UNCHANGED <<mapVars, historyVars, hostAble, itemVars, fileVars>>
        /\ slips \subseteq slips'

\* What the user and the network make of the view and of the interface's queue.
ViewMoves ==
  /\ \/ deskInbox' = deskInbox
     \/ \E p \in Payload : deskInbox' = Append(deskInbox, alter(p))
  /\ \/ view' = view
     \/ \E items \in SUBSET view.shown : view' = [view EXCEPT !.selected = items]
     \/ mayWalk(view) /\ view' = changeTool(view, "Walking")
     \/ view' = changeTool(view, "Default")

UserMoves == PostedOrNot /\ ViewMoves

LEMMA DeskEvents ==
  /\ \A p \in Payload : alter(p) \in DeskEvent /\ alter(p).op = "alter" /\ alter(p).payload = p
  /\ \A ids \in SUBSET AtomId : select(ids) \in DeskEvent /\ select(ids).op = "select"
  /\ \A op \in {"undo", "redo", "save", "session"} : [op |-> op] \in DeskEvent
  /\ \A h \in Assets : [op |-> "asset", hash |-> h] \in DeskEvent
  /\ \A p \in Loaded : [op |-> "load", payload |-> p] \in DeskEvent
BY DEF DeskEvent, alter, select

LEMMA DeskEventFields ==
  ASSUME NEW e \in DeskEvent
  PROVE  /\ e.op \in {"alter", "load"} => e.payload \in Payload
         /\ e.op = "load" => e.payload.type = "Reset" /\ e.payload.assets \in SUBSET Assets
         /\ e.op = "select" => e.ids \in SUBSET AtomId
         /\ e.op = "asset" => e.hash \in Assets
BY DEF DeskEvent, Loaded

LEMMA AdditionsType ==
  ASSUME NEW m \in additions
  PROVE  m \in Maps /\ IdsOf(m) \subseteq AtomId
BY TemplatesAssumption DEF additions, NoAtoms, Maps, IdsOf

LEMMA MovesType ==
  ASSUME NEW ids
  PROVE  moves(ids) \in Payload /\ moves(ids).type = "BulkMetadataChanged"
<1>1. [i \in AtomId |-> IF i \in ids THEN [NoUpdate EXCEPT !["Position"] = 1] ELSE NoUpdate]
        \in [AtomId -> Updates]
  BY MovedAssumption DEF NoUpdate, Updates
<1> QED
  BY <1>1, BulkMetadataChangedPayloadType DEF moves, BulkMetadataChangedPayload

LEMMA LayerChangeType ==
  ASSUME NEW ids \in SUBSET AtomId, NEW layer \in Values
  PROVE  MetadataChangedPayload(ids, [NoUpdate EXCEPT !["Layer"] = layer]) \in Payload
<1>1. [NoUpdate EXCEPT !["Layer"] = layer] \in Updates
  BY DEF NoUpdate, Updates
<1> QED
  BY <1>1, MetadataChangedPayloadType

LEMMA PayloadTypes ==
  /\ \A ids, u : MetadataChangedPayload(ids, u).type = "MetadataChanged"
  /\ \A ids : RemovedPayload(ids).type = "Removed"
  /\ \A m : AddedPayload(m).type = "Added"
  /\ \A m, hashes : ResetPayload(m, hashes).type = "Reset"
BY DEF MetadataChangedPayload, RemovedPayload, AddedPayload, ResetPayload

LEMMA PropagatePosts ==
  ASSUME NEW e \in DeskEvent, propagate(e), issued' \in SUBSET AtomId, IsReset(e) => ~hostAble
  PROVE  UserMoves
BY DEF propagate, Post, Posts, PostedOrNot, TreeMoves, ViewMoves, UserMoves, mayCross

LEMMA PropagatedChange ==
  ASSUME Stored, NEW p \in Payload, p.type # "Reset", propagate(alter(p)), issued' = issued
  PROVE  UserMoves
BY DeskEvents, PropagatePosts DEF Stored, IsReset

LEMMA ReceivePosts ==
  ASSUME NEW p \in Payload, receive(p), issued' \in SUBSET AtomId, p.type = "Reset" => ~hostAble
  PROVE  UserMoves
BY DeskEvents DEF receive, Post, Posts, PostedOrNot, TreeMoves, ViewMoves, UserMoves, mayCross, IsReset

LEMMA InvokePosts ==
  ASSUME NEW op \in {"undo", "redo", "save", "session"}, invoke([op |-> op]), Stored
  PROVE  UserMoves
BY DeskEvents DEF invoke, Post, Posts, PostedOrNot, TreeMoves, ViewMoves, UserMoves, interfaceVars,
                  mayCross, IsReset, Stored

LEMMA OpenFilePosts ==
  ASSUME openFile, Stored
  PROVE  UserMoves
<1>1. PICK m \in Maps, hashes \in SUBSET Assets :
        /\ Post([op |-> "load", payload |-> ResetPayload(m, hashes)])
        /\ issued' \in SUBSET AtomId
  <2>1. CASE \E i \in AtomId \ issued, a \in Templates :
               /\ Post([op |-> "load", payload |-> ResetPayload([NoAtoms EXCEPT ![i] = a],
                                                    HashesOf([NoAtoms EXCEPT ![i] = a]))])
               /\ issued' = issued \cup {i}
    <3>1. PICK i \in AtomId \ issued, a \in Templates :
               /\ Post([op |-> "load", payload |-> ResetPayload([NoAtoms EXCEPT ![i] = a],
                                                    HashesOf([NoAtoms EXCEPT ![i] = a]))])
               /\ issued' = issued \cup {i}
      BY <2>1
    <3>2. [NoAtoms EXCEPT ![i] = a] \in Maps
      BY TemplatesAssumption DEF NoAtoms, Maps
    <3> QED
      BY <3>1, <3>2, HashesOfType DEF Stored
  <2>2. NoAtoms \in Maps /\ {} \in SUBSET Assets
    BY EmptyType
  <2> QED
    BY <2>1, <2>2 DEF openFile, PostLoad, PostMap, Stored
<1>2. [op |-> "load", payload |-> ResetPayload(m, hashes)] \in DeskEvent
  <2>1. ResetPayload(m, hashes) \in Loaded
    BY ResetPayloadType DEF ResetPayload, Loaded
  <2> QED
    BY <2>1, DeskEvents
<1> QED
  BY <1>1, <1>2 DEF openFile, Post, Posts, PostedOrNot, TreeMoves, ViewMoves, UserMoves, interfaceVars,
                    mayCross, IsReset

LEMMA AtomsInTree ==
  ASSUME Arranged
  PROVE  atomsOf(tree) \subseteq AtomId
BY DEF Arranged, atomsOf

LEMMA SelectableAtoms ==
  ASSUME Arranged, Shows, NEW ids \in Selectable
  PROVE  ids \in SUBSET AtomId
<1> DEFINE shown == {x.atom : x \in view.shown}
<1>1. shown \subseteq AtomId
  BY DEF Shows, GItem
<1>2. Selectable = ((SUBSET atomsOf(tree)) \cup (SUBSET shown)) \ {{}}
  BY DEF Selectable
<1> HIDE DEF shown
<1> QED
  BY <1>1, <1>2, AtomsInTree

LEMMA GesturesPost ==
  ASSUME Stored, Arranged, Shows, gesturesNext
  PROVE  UserMoves
<1>1. CASE draw
  <2>1. PICK m \in additions : propagate(alter(AddedPayload(m))) /\ issued' = issued \cup IdsOf(m)
    BY <1>1 DEF draw
  <2> QED
    BY <2>1, AdditionsType, AddedPayloadType, DeskEvents, PayloadTypes, PropagatePosts DEF Stored, IsReset
<1>2. CASE removeAtoms
  <2>1. PICK ids \in Selectable : propagate(alter(RemovedPayload(ids))) /\ issued' = issued
    BY <1>2 DEF removeAtoms
  <2>2. ids \in SUBSET AtomId
    BY SelectableAtoms
  <2> QED
    BY <2>1, <2>2, RemovedPayloadType, DeskEvents, PayloadTypes, PropagatePosts DEF Stored, IsReset
<1>3. CASE edit
  <2>1. PICK u \in UpdateChoices :
          propagate(alter(MetadataChangedPayload(edited, u))) /\ issued' = issued
    BY <1>3 DEF edit
  <2>2. edited \in SUBSET AtomId /\ u \in Updates
    BY UpdateChoicesAssumption DEF Arranged
  <2> QED
    BY <2>1, <2>2, MetadataChangedPayloadType, DeskEvents, PayloadTypes, PropagatePosts DEF Stored, IsReset
<1>4. CASE invokeUndo \/ invokeRedo \/ invokeSave
  BY <1>4, InvokePosts DEF invokeUndo, invokeRedo, invokeSave
<1>5. CASE openFile
  BY <1>5, OpenFilePosts
<1>6. CASE selectInTree
  <2>1. PICK ids \in SUBSET atomsOf(tree) : propagate(select(ids)) /\ issued' = issued
    BY <1>6 DEF selectInTree
  <2> QED
    BY <2>1, AtomsInTree, DeskEvents, PropagatePosts DEF Stored, IsReset
<1>7. CASE selectInView
  <2>1. PICK items \in SUBSET view.shown : /\ Post(select({x.atom : x \in items}))
                                           /\ mayCross(select({x.atom : x \in items}))
                                           /\ handleInInterface(select({x.atom : x \in items}))
                                           /\ view' = [view EXCEPT !.selected = items]
    BY <1>7 DEF selectInView
  <2>2. {x.atom : x \in items} \in SUBSET AtomId
    <3>1. items \subseteq GItem
      BY DEF Shows
    <3> QED
      BY <3>1 DEF GItem
  <2>3. select({x.atom : x \in items}) \in DeskEvent /\ ~IsReset(select({x.atom : x \in items}))
    BY <2>2, DeskEvents DEF IsReset
  <2> QED
    BY <1>7, <2>1, <2>3 DEF selectInView, Post, mayCross, Posts, PostedOrNot, TreeMoves, ViewMoves,
                           UserMoves, Stored
<1>8. CASE startWalking
  BY <1>8 DEF startWalking, viewChanges, vars, PostedOrNot, TreeMoves, ViewMoves, UserMoves
<1>9. CASE resetTool
  <2>1. select({}) \in DeskEvent /\ ~IsReset(select({}))
    BY DeskEvents DEF IsReset
  <2> QED
    BY <1>9, <2>1 DEF resetTool, toolChanges, Posts, PostedOrNot, TreeMoves, ViewMoves, UserMoves, Stored
<1>10. CASE walk
  <2>1. CASE /\ propagate(alter(moves({x.atom : x \in view.helper}))) /\ UNCHANGED issued
    BY <2>1, MovesType, DeskEvents, PropagatePosts DEF Stored, IsReset
  <2>2. CASE viewChanges(view) /\ slips' = slips
    BY <2>2 DEF viewChanges, vars, PostedOrNot, TreeMoves, ViewMoves, UserMoves
  <2> QED
    BY <1>10, <2>1, <2>2 DEF walk
<1>11. CASE drag
  BY <1>11, MovesType, DeskEvents, PropagatePosts DEF Stored, IsReset, drag
<1> QED
  BY <1>1, <1>2, <1>3, <1>4, <1>5, <1>6, <1>7, <1>8, <1>9, <1>10, <1>11 DEF gesturesNext

LEMMA MenuPosts ==
  ASSUME Stored, Arranged, menuNext
  PROVE  UserMoves
<1>1. CASE invokeMenu \/ closeMenu
  BY <1>1 DEF invokeMenu, closeMenu, vars, interfaceVars, PostedOrNot, TreeMoves, ViewMoves, UserMoves
<1>2. CASE moveAtomsToLayer
  <2>1. PICK layer \in menu.layers :
          /\ propagate(alter(MetadataChangedPayload(menu.ids, [NoUpdate EXCEPT !["Layer"] = layer])))
          /\ issued' = issued
    BY <1>2 DEF moveAtomsToLayer
  <2>2. menu.ids \in SUBSET AtomId /\ layer \in Values
    BY DEF Arranged
  <2> DEFINE p == MetadataChangedPayload(menu.ids, [NoUpdate EXCEPT !["Layer"] = layer])
  <2>3. p \in Payload /\ p.type = "MetadataChanged"
    BY <2>2, LayerChangeType, PayloadTypes
  <2> HIDE DEF p
  <2> QED
    BY <2>1, <2>3, PropagatedChange DEF p
<1>3. CASE alterAtoms
  <2>1. NoUpdate \in Updates /\ menu.ids \in SUBSET AtomId
    BY EmptyType DEF Arranged
  <2> DEFINE p == MetadataChangedPayload(menu.ids, NoUpdate)
  <2>2. p \in Payload /\ p.type = "MetadataChanged"
    BY <2>1, MetadataChangedPayloadType, PayloadTypes
  <2>3. propagate(alter(p)) /\ issued' = issued
    BY <1>3 DEF alterAtoms
  <2> HIDE DEF p
  <2> QED
    BY <2>2, <2>3, PropagatedChange
<1>4. CASE removeInvoked
  BY <1>4, RemovedPayloadType, DeskEvents, PayloadTypes, PropagatePosts
  DEF Stored, Arranged, IsReset, removeInvoked
<1>5. CASE chooseTimeline
  BY <1>5, InvokePosts DEF chooseTimeline
<1> QED
  BY <1>1, <1>2, <1>3, <1>4, <1>5 DEF menuNext

LEMMA InterfacePosts ==
  ASSUME Stored, interfaceQueueNext,
         deskInbox # <<>> /\ Head(deskInbox).op = "alter" => Head(deskInbox) \in DeskEvent
  PROVE  PostedOrNot
<1>1. CASE handlePropagated
  BY <1>1 DEF handlePropagated, dequeue, vars, PostedOrNot, TreeMoves
<1>2. CASE onUIAlterationRequest \/ onUIUpdateRequest
  BY <1>2 DEF onUIAlterationRequest, onUIUpdateRequest, vars, PostedOrNot, TreeMoves
<1>3. CASE handleOwnership
  <2>1. select({}) \in DeskEvent /\ ~IsReset(select({}))
    BY DeskEvents DEF IsReset
  <2> QED
    BY <1>3, <2>1 DEF handleOwnership, toolChanges, Posts, PostedOrNot, TreeMoves, Stored
<1>4. CASE storeAsset
  BY <1>4, DeskEvents DEF storeAsset, Post, Posts, PostedOrNot, TreeMoves, Stored, IsReset
<1> QED
  BY <1>1, <1>2, <1>3, <1>4 DEF interfaceQueueNext

LEMMA NetworkPosts ==
  ASSUME Stored, receiveMove \/ receiveFromHost \/ receiveSession
  PROVE  UserMoves
<1>1. CASE receiveMove
  BY <1>1, MovesType, ReceivePosts DEF receiveMove, Stored
<1>2. CASE receiveSession
  BY <1>2, InvokePosts DEF receiveSession
<1>3. CASE receiveFromHost
  <2>1. CASE \E m \in additions : receive(AddedPayload(m)) /\ issued' = issued \cup IdsOf(m)
    <3>1. PICK m \in additions : receive(AddedPayload(m)) /\ issued' = issued \cup IdsOf(m)
      BY <2>1
    <3> QED
      BY <3>1, AdditionsType, AddedPayloadType, PayloadTypes, ReceivePosts DEF Stored
  <2>2. CASE (\E i \in issued : receive(RemovedPayload({i}))) /\ issued' = issued
    <3>1. PICK i \in issued : receive(RemovedPayload({i}))
      BY <2>2
    <3> QED
      BY <2>2, <3>1, RemovedPayloadType, PayloadTypes, ReceivePosts DEF Stored
  <2>3. CASE /\ \E i \in issued, u \in UpdateChoices : receive(MetadataChangedPayload({i}, u))
             /\ issued' = issued
    <3>1. PICK i \in issued, u \in UpdateChoices : receive(MetadataChangedPayload({i}, u))
      BY <2>3
    <3> QED
      BY <2>3, <3>1, MetadataChangedPayloadType, PayloadTypes, ReceivePosts, UpdateChoicesAssumption
      DEF Stored
  <2>4. CASE receive(ResetPayload(InitialMap, HashesOf(InitialMap))) /\ issued' = issued
    BY <1>3, <2>4, ResetPayloadType, HashesOfType, InitialMapAssumption, ReceivePosts
    DEF Stored, receiveFromHost
  <2> QED
    BY <1>3, <2>1, <2>2, <2>3, <2>4 DEF receiveFromHost
<1> QED
  BY <1>1, <1>2, <1>3

LEMMA EventAppended ==
  \A s \in Seq(DeskEvent) : \A e \in DeskEvent : Append(s, e) \in Seq(DeskEvent)
BY AppendProperties

LEMMA StoredPosted == Stored /\ PostedOrNot => Stored'
<1> SUFFICES ASSUME Stored, PostedOrNot
             PROVE  Stored'
  OBVIOUS
<1>1. inbox' \in Seq(DeskEvent) /\ issued' \in SUBSET AtomId
  BY EventAppended DEF PostedOrNot, Posts, Stored
<1>2. UNCHANGED <<mapVars, historyVars, hostAble, itemVars, fileVars>>
  BY DEF PostedOrNot, Posts
<1> QED
  BY <1>1, <1>2 DEF Stored, mapVars, historyVars, fileVars

\* A history that is cut and gets one more entry.
LEMMA CutHistory ==
  ASSUME NEW s \in Seq(Change), NEW k \in 0..Len(s), NEW p \in Change
  PROVE  /\ Append(SubSeq(s, 1, k), p) \in Seq(Change)
         /\ Len(Append(SubSeq(s, 1, k), p)) = k + 1
<1>1. /\ SubSeq(s, 1, k) \in Seq(Change)
      /\ Len(SubSeq(s, 1, k)) = k
  <2>1. Len(s) \in Nat /\ \A i \in 1..k : s[i] \in Change
    BY LenProperties, ElementOfSeq
  <2>2. 1 \in Int /\ k \in Int
    BY <2>1
  <2> QED
    BY <2>1, <2>2, SubSeqProperties
<1> QED
  BY <1>1, AppendProperties

LEMMA InboxHead ==
  ASSUME Stored, inbox # <<>>
  PROVE  /\ Head(inbox) \in DeskEvent
         /\ Tail(inbox) \in Seq(DeskEvent)
         /\ Head(inbox).op \in {"alter", "load"} => Head(inbox).payload \in Payload
         /\ Head(inbox).op = "load" =>
              Head(inbox).payload.type = "Reset" /\ Head(inbox).payload.assets \in SUBSET Assets
BY HeadTailProperties, DeskEventFields DEF Stored

LEMMA HistoryTyped ==
  ASSUME Stored, NEW p \in Change, registerPayloadForHistory(p)
  PROVE  /\ redoHistory' \in Seq(Change) /\ undoHistory' \in Seq(Change)
         /\ Len(undoHistory') = Len(redoHistory')
         /\ payloadHistoryIndex' \in 0..Len(redoHistory')
<1>1. CASE p.timeline \/ ~undoRedoAllowed(p)
  BY <1>1 DEF registerPayloadForHistory, historyVars, Stored
<1>2. CASE ~(p.timeline \/ ~undoRedoAllowed(p))
  <2>1. KeptEntries \in 0..Len(redoHistory) /\ Len(redoHistory) \in Nat
    BY LenProperties DEF Stored, KeptEntries
  <2>2. generateUndoPayload(atoms, p) \in Change
    <3>1. generateUndoPayload(atoms, p) \in Payload
      BY generateUndoPayloadType DEF Stored, Change
    <3>2. generateUndoPayload(atoms, p).type # "Reset"
      BY DEF generateUndoPayload, RemovedPayload, AddedPayload, BulkMetadataChangedPayload
    <3> QED
      BY <3>1, <3>2 DEF Change
  <2>3. /\ redoHistory' = Append(SubSeq(redoHistory, 1, KeptEntries), p)
        /\ undoHistory' = Append(SubSeq(undoHistory, 1, KeptEntries), generateUndoPayload(atoms, p))
        /\ payloadHistoryIndex' = 0
    BY <1>2 DEF registerPayloadForHistory
  <2>4. redoHistory' \in Seq(Change) /\ Len(redoHistory') = KeptEntries + 1
    BY <2>1, <2>3, CutHistory DEF Stored
  <2>5. undoHistory' \in Seq(Change) /\ Len(undoHistory') = KeptEntries + 1
    BY <2>1, <2>2, <2>3, CutHistory DEF Stored
  <2> QED
    BY <2>1, <2>3, <2>4, <2>5
<1> QED
  BY <1>1, <1>2

LEMMA StoredAlteration == Stored /\ handleAlteration => Stored'
<1> SUFFICES ASSUME Stored, handleAlteration
             PROVE  Stored'
  OBVIOUS
<1>1. PICK p \in Payload : /\ inbox # <<>> /\ Head(inbox).op = "alter"
                           /\ p = Head(inbox).payload /\ handleAlterationRequest(p)
  BY InboxHead DEF handleAlteration, HandleAlteration
<1>2. /\ inbox' = Tail(inbox) /\ inbox' \in Seq(DeskEvent) /\ issued' = issued
      /\ atoms' \in Maps /\ assetHashes' \in SUBSET Assets
  BY <1>1, InboxHead, AtomsAfterType, HashesAfterType DEF handleAlterationRequest, Stored
<1>3. /\ redoHistory' \in Seq(Change) /\ undoHistory' \in Seq(Change)
      /\ Len(undoHistory') = Len(redoHistory')
      /\ payloadHistoryIndex' \in 0..Len(redoHistory')
  <2>1. CASE p.type = "Reset"
    <3>1. redoHistory' = <<>> /\ undoHistory' = <<>> /\ payloadHistoryIndex' = 0
      BY <1>1, <2>1 DEF handleAlterationRequest, clearHistory
    <3> QED
      BY <3>1, EmptySeq
  <2>2. CASE p.type # "Reset"
    BY <1>1, <2>2, HistoryTyped DEF handleAlterationRequest, Change
  <2> QED
    BY <2>1, <2>2
<1>4. dirty' \in BOOLEAN /\ saved' = saved /\ hostAble' = hostAble
  BY Zenon DEF handleAlteration, shouldMakeMapDirty, Stored
<1> QED
  BY <1>2, <1>3, <1>4 DEF Stored

LEMMA TimelineTyped ==
  ASSUME NEW p \in Change
  PROVE  /\ alter(tagAsFromTimeline(p)) \in DeskEvent /\ alter(tagAsFromTimeline(p)).op = "alter"
         /\ alter(tagAsFromTimeline(p)).payload \in Change
<1>1. tagAsFromTimeline(p) \in Change
  BY tagAsFromTimelineType DEF Change, tagAsFromTimeline, Payload
<1> QED
  BY <1>1, DeskEvents DEF Change

\* Undo and redo move the index and may post a change.
Walks ==
  /\ inbox # <<>>
  /\ \/ inbox' = Tail(inbox) /\ payloadHistoryIndex' = payloadHistoryIndex
     \/ \E e \in DeskEvent : /\ inbox' = Append(Tail(inbox), e)
                             /\ e.op = "alter" /\ e.payload \in Change
  /\ Head(inbox).op \in {"undo", "redo"}
  /\ payloadHistoryIndex' \in 0..Len(redoHistory)
  /\ UNCHANGED <<mapVars, redoHistory, undoHistory, issued, posted>>

LEMMA UndoWalks == Stored /\ (undo \/ redo) => Walks
<1> SUFFICES ASSUME Stored, undo \/ redo
             PROVE  Walks
  OBVIOUS
<1>1. /\ Len(redoHistory) \in Nat /\ Len(undoHistory) = Len(redoHistory)
      /\ payloadHistoryIndex \in 0..Len(redoHistory)
  BY LenProperties DEF Stored
<1>2. CASE undo /\ canUndo
  <2> DEFINE k == Len(undoHistory) - payloadHistoryIndex
  <2>1. k \in 1..Len(undoHistory) /\ payloadHistoryIndex + 1 \in 0..Len(redoHistory)
    BY <1>1, <1>2 DEF canUndo
  <2>2. undoHistory[k] \in Change
    BY <2>1, ElementOfSeq DEF Stored
  <2>3. inbox' = Append(Tail(inbox), alter(tagAsFromTimeline(undoHistory[k])))
    BY <1>2 DEF undo
  <2> QED
    BY <1>2, <2>1, <2>2, <2>3, TimelineTyped DEF undo, Walks
<1>3. CASE redo /\ canRedo
  <2> DEFINE k == Len(redoHistory) - payloadHistoryIndex + 1
  <2>1. k \in 1..Len(redoHistory) /\ payloadHistoryIndex - 1 \in 0..Len(redoHistory)
    BY <1>1, <1>3 DEF canRedo
  <2>2. redoHistory[k] \in Change
    BY <2>1, ElementOfSeq DEF Stored
  <2>3. inbox' = Append(Tail(inbox), alter(tagAsFromTimeline(redoHistory[k])))
    BY <1>3 DEF redo
  <2> QED
    BY <1>3, <2>1, <2>2, <2>3, TimelineTyped DEF redo, Walks
<1>4. CASE (undo /\ ~canUndo) \/ (redo /\ ~canRedo)
  BY <1>1, <1>4 DEF undo, redo, Walks
<1> QED
  BY <1>2, <1>3, <1>4

LEMMA StoredHandled == Stored /\ mapThreadNext => Stored'
<1> SUFFICES ASSUME Stored, mapThreadNext
             PROVE  Stored'
  OBVIOUS
<1>1. CASE handleUndo \/ handleRedo
  <2>1. Walks
    BY <1>1, UndoWalks DEF handleUndo, handleRedo
  <2>2. inbox' \in Seq(DeskEvent)
    BY <2>1, InboxHead, EventAppended DEF Walks
  <2>3. UNCHANGED <<hostAble, dirty, saved>>
    BY <1>1 DEF handleUndo, handleRedo, emitted, fileVars
  <2> QED
    BY <2>1, <2>2, <2>3 DEF Walks, Stored, mapVars
<1>2. CASE handleLoad
  <2>1. PICK p \in Payload : /\ p = Head(inbox).payload
                             /\ atoms' = p.atoms /\ assetHashes' = p.assets
                             /\ inbox' = Append(Tail(inbox), alter(p)) /\ saved' = p.atoms
    BY <1>2, InboxHead DEF handleLoad, loadRPZMap
  <2>2. inbox' \in Seq(DeskEvent) /\ atoms' \in Maps /\ assetHashes' \in SUBSET Assets
    BY <1>2, <2>1, InboxHead, AppendProperties, DeskEvents, PayloadFields DEF handleLoad, loadRPZMap
  <2>3. UNCHANGED <<historyVars, issued, hostAble>> /\ dirty' = FALSE
    BY <1>2 DEF handleLoad, loadRPZMap, emitted
  <2> QED
    BY <2>1, <2>2, <2>3 DEF Stored, historyVars
<1>3. CASE handleSave \/ ackRemoteness \/ handleSelect \/ handleAsset
  <2>1. PICK op : handleHead(op)
    BY <1>3 DEF handleSave, ackRemoteness, handleSelect, handleAsset
  <2>2. inbox' \in Seq(DeskEvent) /\ UNCHANGED <<mapVars, historyVars, issued>>
    BY <2>1, InboxHead DEF handleHead
  <2>3. dirty' \in BOOLEAN /\ saved' \in Maps /\ hostAble' = hostAble
    BY <1>3 DEF handleSave, ackRemoteness, handleSelect, handleAsset, fileVars, Stored
  <2> QED
    BY <2>2, <2>3 DEF Stored, mapVars, historyVars
<1> QED
  BY <1>1, <1>2, <1>3, StoredAlteration DEF mapThreadNext

LEMMA StoredInit == DeskInit => Stored
<1> SUFFICES ASSUME DeskInit
             PROVE  Stored
  OBVIOUS
<1>1. atoms \in Maps /\ saved \in Maps /\ assetHashes \in SUBSET Assets /\ issued \in SUBSET AtomId
  BY InitialMapAssumption, HashesOfType DEF DeskInit, IdsOf
<1>2. /\ inbox \in Seq(DeskEvent) /\ redoHistory \in Seq(Change) /\ undoHistory \in Seq(Change)
      /\ Len(undoHistory) = Len(redoHistory) /\ payloadHistoryIndex \in 0..Len(redoHistory)
  BY EmptySeq DEF DeskInit
<1> QED
  BY <1>1, <1>2 DEF Stored, DeskInit

---------------------------------------------------------------------------
(* The file of the map *)

NoReset(s) == \A n \in DOMAIN s : ~IsReset(s[n])

\* The last reset that the queue s holds is that of the map m.
LastReset(s, m) ==
  \E n \in DOMAIN s : /\ IsReset(s[n]) /\ s[n].payload.atoms = m
                      /\ \A k \in DOMAIN s : IsReset(s[k]) => k <= n

\* The file follows the last reset while there is one on its way.
SavedFollows ==
  hostAble /\ slips \cap {"saving", "session"} = {} =>
    IF NoReset(inbox) THEN dirty \/ saved = atoms ELSE LastReset(inbox, saved)

LEMMA AppendedEvent ==
  ASSUME NEW s \in Seq(DeskEvent), NEW e \in DeskEvent
  PROVE  /\ DOMAIN s = 1..Len(s) /\ Len(s) \in Nat
         /\ DOMAIN Append(s, e) = 1..(Len(s) + 1)
         /\ \A n \in 1..Len(s) : Append(s, e)[n] = s[n]
         /\ Append(s, e)[Len(s) + 1] = e
<1>1. Append(s, e) \in Seq(DeskEvent)
  BY EventAppended
<1> QED
  BY <1>1, LenProperties, AppendProperties

LEMMA AppendNoReset ==
  ASSUME NEW s \in Seq(DeskEvent), NEW e \in DeskEvent, ~IsReset(e), NEW m
  PROVE  /\ NoReset(Append(s, e)) <=> NoReset(s)
         /\ LastReset(s, m) => LastReset(Append(s, e), m)
<1> DEFINE t == Append(s, e)
<1>1. /\ DOMAIN s = 1..Len(s) /\ Len(s) \in Nat /\ DOMAIN t = 1..(Len(s) + 1)
      /\ \A n \in 1..Len(s) : t[n] = s[n]
      /\ t[Len(s) + 1] = e
  BY AppendedEvent
<1> HIDE DEF t
<1>2. \A n \in DOMAIN t : n \in DOMAIN s \/ n = Len(s) + 1
  BY <1>1
<1>3. NoReset(t) <=> NoReset(s)
  BY <1>1, <1>2 DEF NoReset
<1>4. ASSUME LastReset(s, m)
      PROVE  LastReset(t, m)
  <2>1. PICK n \in DOMAIN s : /\ IsReset(s[n]) /\ s[n].payload.atoms = m
                              /\ \A k \in DOMAIN s : IsReset(s[k]) => k <= n
    BY <1>4 DEF LastReset
  <2>2. n \in DOMAIN t /\ t[n] = s[n]
    BY <1>1
  <2>3. \A k \in DOMAIN t : IsReset(t[k]) => k <= n
    BY <1>1, <1>2, <2>1
  <2> QED
    BY <2>1, <2>2, <2>3 DEF LastReset
<1> QED
  BY <1>3, <1>4 DEF t

LEMMA AppendReset ==
  ASSUME NEW s \in Seq(DeskEvent), NEW e \in DeskEvent, IsReset(e)
  PROVE  LastReset(Append(s, e), e.payload.atoms) /\ ~NoReset(Append(s, e))
<1> DEFINE t == Append(s, e)
<1>1. /\ Len(s) \in Nat /\ DOMAIN t = 1..(Len(s) + 1) /\ t[Len(s) + 1] = e
  BY AppendedEvent
<1> HIDE DEF t
<1>2. Len(s) + 1 \in DOMAIN t /\ \A k \in DOMAIN t : k <= Len(s) + 1
  BY <1>1
<1>3. LastReset(t, e.payload.atoms)
  BY <1>1, <1>2 DEF LastReset
<1>4. ~NoReset(t)
  BY <1>1, <1>2 DEF NoReset
<1> QED
  BY <1>3, <1>4 DEF t

LEMMA TailedEvents ==
  ASSUME NEW s \in Seq(DeskEvent), s # <<>>
  PROVE  /\ DOMAIN s = 1..Len(s) /\ Len(s) \in Nat \ {0} /\ s[1] = Head(s)
         /\ DOMAIN Tail(s) = 1..(Len(s) - 1)
         /\ \A n \in 1..(Len(s) - 1) : Tail(s)[n] = s[n + 1]
<1>1. Tail(s) \in Seq(DeskEvent) /\ Len(Tail(s)) = Len(s) - 1
  BY HeadTailProperties
<1> QED
  BY <1>1, LenProperties, HeadTailProperties, EmptySeq

LEMMA TailResets ==
  ASSUME NEW s \in Seq(DeskEvent), s # <<>>, NEW m
  PROVE  /\ ~IsReset(Head(s)) => (NoReset(Tail(s)) <=> NoReset(s))
         /\ LastReset(s, m) /\ ~NoReset(Tail(s)) => LastReset(Tail(s), m)
         /\ LastReset(s, m) /\ NoReset(Tail(s)) =>
              IsReset(Head(s)) /\ Head(s).payload.atoms = m
<1> DEFINE t == Tail(s)
<1>1. /\ DOMAIN s = 1..Len(s) /\ Len(s) \in Nat \ {0} /\ s[1] = Head(s)
      /\ DOMAIN t = 1..(Len(s) - 1)
      /\ \A n \in 1..(Len(s) - 1) : t[n] = s[n + 1]
  BY TailedEvents
<1> HIDE DEF t
<1>2. /\ \A n \in DOMAIN t : n + 1 \in DOMAIN s /\ s[n + 1] = t[n] /\ n \in Nat
      /\ \A n \in DOMAIN s : n = 1 \/ (n - 1 \in DOMAIN t /\ t[n - 1] = s[n] /\ n \in Nat)
  BY <1>1
<1>3. ~IsReset(Head(s)) => (NoReset(t) <=> NoReset(s))
  BY <1>1, <1>2 DEF NoReset
<1>4. ASSUME LastReset(s, m)
      PROVE  /\ ~NoReset(t) => LastReset(t, m)
             /\ NoReset(t) => IsReset(Head(s)) /\ Head(s).payload.atoms = m
  <2>1. PICK n \in DOMAIN s : /\ IsReset(s[n]) /\ s[n].payload.atoms = m
                              /\ \A k \in DOMAIN s : IsReset(s[k]) => k <= n
    BY <1>4 DEF LastReset
  <2>2. CASE n = 1
    <3>1. NoReset(t)
      BY <1>1, <1>2, <2>1, <2>2 DEF NoReset
    <3> QED
      BY <1>1, <2>1, <2>2, <3>1
  <2>3. CASE n # 1
    <3>1. n - 1 \in DOMAIN t /\ t[n - 1] = s[n] /\ n \in Nat
      BY <1>2, <2>3
    <3>2. \A k \in DOMAIN t : IsReset(t[k]) => k <= n - 1
      BY <1>1, <1>2, <2>1, <3>1
    <3>3. LastReset(t, m) /\ ~NoReset(t)
      BY <2>1, <3>1, <3>2 DEF LastReset, NoReset
    <3> QED
      BY <3>3
  <2> QED
    BY <2>2, <2>3
<1> QED
  BY <1>3, <1>4 DEF t

LEMMA SavedPosted == Stored /\ SavedFollows /\ PostedOrNot => SavedFollows'
<1> SUFFICES ASSUME Stored, SavedFollows, PostedOrNot, hostAble', slips' \cap {"saving", "session"} = {}
             PROVE  IF NoReset(inbox') THEN dirty' \/ saved' = atoms' ELSE LastReset(inbox', saved')
  BY DEF SavedFollows
<1>1. /\ UNCHANGED <<atoms, dirty, saved>> /\ hostAble
      /\ slips \cap {"saving", "session"} = {}
  BY DEF PostedOrNot, Posts, mapVars, fileVars
<1>2. IF NoReset(inbox) THEN dirty \/ saved = atoms ELSE LastReset(inbox, saved)
  BY <1>1 DEF SavedFollows
<1>3. CASE inbox' = inbox
  BY <1>1, <1>2, <1>3
<1>4. CASE \E e \in DeskEvent : Posts(e)
  <2>1. PICK e \in DeskEvent : inbox' = Append(inbox, e) /\ ~IsReset(e)
    BY <1>1, <1>4 DEF Posts
  <2> QED
    BY <1>1, <1>2, <2>1, AppendNoReset DEF Stored
<1> QED
  BY <1>3, <1>4 DEF PostedOrNot

LEMMA SavedHandled == Stored /\ SavedFollows /\ mapThreadNext => SavedFollows'
<1> SUFFICES ASSUME Stored, SavedFollows, mapThreadNext,
                    hostAble', slips' \cap {"saving", "session"} = {}
             PROVE  IF NoReset(inbox') THEN dirty' \/ saved' = atoms' ELSE LastReset(inbox', saved')
  BY DEF SavedFollows
<1>1. hostAble /\ slips \cap {"saving", "session"} = {}
  BY DEF mapThreadNext, handleAlteration, sceneFollows, resetItems, addItems, removeItems, updateItems,
         handleUndo, handleRedo, handleLoad, emitted, handleSave, ackRemoteness, handleSelect, handleAsset
<1>2. IF NoReset(inbox) THEN dirty \/ saved = atoms ELSE LastReset(inbox, saved)
  BY <1>1 DEF SavedFollows
<1>3. CASE handleAlteration
  <2>1. PICK p \in Payload : /\ inbox # <<>> /\ Head(inbox).op = "alter"
                             /\ p = Head(inbox).payload /\ handleAlterationRequest(p)
    BY <1>3, InboxHead DEF handleAlteration, HandleAlteration
  <2>2. /\ inbox' = Tail(inbox) /\ atoms' = AtomsAfter(atoms, p) /\ saved' = saved
        /\ dirty' = (dirty \/ shouldMakeMapDirty(p))
    BY <1>3, <2>1 DEF handleAlterationRequest, handleAlteration
  <2>3. CASE p.type = "Reset"
    <3>1. dirty' = dirty /\ atoms' = p.atoms /\ IsReset(Head(inbox))
      BY <2>1, <2>2, <2>3 DEF shouldMakeMapDirty, AtomsAfter, IsReset, Stored
    <3>2. ~NoReset(inbox)
      BY <2>1, <3>1, TailedEvents DEF NoReset, Stored
    <3> QED
      BY <1>2, <2>1, <2>2, <3>1, <3>2, TailResets DEF Stored
  <2>4. CASE p.type # "Reset"
    <3>1. dirty' /\ ~IsReset(Head(inbox))
      BY <1>1, <2>1, <2>2, <2>4 DEF shouldMakeMapDirty, IsReset
    <3> QED
      BY <1>2, <2>1, <2>2, <3>1, TailResets DEF Stored
  <2> QED
    BY <2>3, <2>4
<1>4. CASE handleUndo \/ handleRedo
  <2>1. Walks /\ UNCHANGED <<dirty, saved>>
    BY <1>4, UndoWalks DEF handleUndo, handleRedo, emitted, fileVars
  <2>2. atoms' = atoms /\ inbox # <<>> /\ ~IsReset(Head(inbox)) /\ Tail(inbox) \in Seq(DeskEvent)
    BY <2>1, InboxHead DEF Walks, mapVars, IsReset
  <2>3. IF NoReset(Tail(inbox)) THEN dirty \/ saved = atoms ELSE LastReset(Tail(inbox), saved)
    BY <1>2, <2>2, TailResets DEF Stored
  <2>4. CASE inbox' = Tail(inbox)
    BY <2>1, <2>2, <2>3, <2>4
  <2>5. CASE inbox' # Tail(inbox)
    <3>1. PICK e \in DeskEvent : inbox' = Append(Tail(inbox), e) /\ ~IsReset(e)
      BY <2>1, <2>5 DEF Walks, IsReset, Change
    <3> QED
      BY <2>1, <2>2, <2>3, <3>1, AppendNoReset
  <2> QED
    BY <2>4, <2>5
<1>5. CASE handleLoad
  <2>1. PICK p \in Payload : /\ inbox # <<>> /\ p = Head(inbox).payload
                             /\ inbox' = Append(Tail(inbox), alter(p)) /\ saved' = p.atoms
                             /\ p.type = "Reset"
    BY <1>5, InboxHead DEF handleLoad, loadRPZMap
  <2> QED
    BY <2>1, InboxHead, DeskEvents, AppendReset DEF IsReset
<1>6. CASE handleSave
  <2>1. /\ inbox # <<>> /\ inbox' = Tail(inbox) /\ ~IsReset(Head(inbox))
        /\ saved' = atoms /\ atoms' = atoms /\ ~ResetUnderway
    BY <1>6 DEF handleSave, handleHead, mapVars, IsReset
  <2>2. NoReset(inbox)
    BY <2>1 DEF ResetUnderway, NoReset, IsReset
  <2> QED
    BY <2>1, <2>2, TailResets DEF Stored
<1>7. CASE ackRemoteness \/ handleSelect \/ handleAsset
  <2>1. PICK op \in {"session", "select", "asset"} : handleHead(op)
    BY <1>7 DEF ackRemoteness, handleSelect, handleAsset
  <2>2. /\ inbox # <<>> /\ inbox' = Tail(inbox) /\ ~IsReset(Head(inbox)) /\ atoms' = atoms
    BY <2>1 DEF handleHead, mapVars, IsReset
  <2>3. saved' = saved /\ (dirty' \/ ~dirty)
    <3>1. CASE ackRemoteness
      <4>1. dirty => "session" \in slips'
        BY <3>1 DEF ackRemoteness
      <4> QED
        BY <3>1, <4>1 DEF ackRemoteness
    <3>2. CASE handleSelect \/ handleAsset
      <4>1. saved' = saved /\ dirty' = dirty
        BY <3>2 DEF handleSelect, handleAsset, fileVars
      <4> QED
        BY <4>1, Zenon
    <3> QED
      BY <1>7, <3>1, <3>2
  <2> QED
    BY <1>2, <2>2, <2>3, TailResets DEF Stored
<1> QED
  BY <1>3, <1>4, <1>5, <1>6, <1>7 DEF mapThreadNext

---------------------------------------------------------------------------
(* What the tree, the editor and the menu name *)

TypedTree(t) == \A c \in DOMAIN t : t[c] \subseteq AtomId

LEMMA TreeAfterTyped ==
  ASSUME NEW t, TypedTree(t), NEW p \in Payload
  PROVE  TypedTree(treeAfter(t, p))
<1>1. ASSUME NEW u, TypedTree(u), NEW m \in Maps
      PROVE  TypedTree(createAtoms(u, m))
  BY <1>1 DEF TypedTree, createAtoms, rowsOf, IdsOf
<1>2. ASSUME NEW u, TypedTree(u), NEW altered
      PROVE  TypedTree(maybeRemoveCategories(u, altered))
  BY <1>2 DEF TypedTree, maybeRemoveCategories
<1>3. CASE p.type = "Reset"
  <2>1. TypedTree(EmptyTree)
    BY DEF TypedTree, EmptyTree
  <2> QED
    BY <1>1, <1>3, <2>1, PayloadFields DEF treeAfter, treeOf
<1>4. CASE p.type = "Added"
  BY <1>1, <1>4, PayloadFields DEF treeAfter
<1>5. CASE p.type = "Removed"
  <2> DEFINE left == [c \in DOMAIN t |-> t[c] \ p.ids]
  <2>1. TypedTree(left)
    BY DEF TypedTree
  <2>2. treeAfter(t, p) = maybeRemoveCategories(left, {c \in DOMAIN t : t[c] \cap p.ids # {}})
    BY <1>5 DEF treeAfter, removeRows
  <2> HIDE DEF left
  <2> QED
    BY <1>2, <2>1, <2>2
<1>6. CASE p.type \notin {"Reset", "Added", "Removed"}
  <2> DEFINE moved == {i \in atomsOf(t) : p.updates[i]["Layer"] # Keep}
             newLayer(i) == <<"Layout", p.updates[i]["Layer"]>>
             altered == {newLayer(i) : i \in moved} \cup {c \in DOMAIN t : t[c] \cap moved # {}}
             left == [c \in DOMAIN t \cup altered |->
                        (rowsOf(t, c) \ moved) \cup {i \in moved : newLayer(i) = c}]
  <2>1. moved \subseteq AtomId
    BY DEF TypedTree, atomsOf
  <2>2. TypedTree(left)
    <3> HIDE DEF moved, newLayer, altered
    <3>1. \A c : rowsOf(t, c) \subseteq AtomId
      BY DEF TypedTree, rowsOf
    <3> QED
      BY <2>1, <3>1 DEF TypedTree
  <2>3. treeAfter(t, p) = maybeRemoveCategories(left, altered)
    BY <1>6 DEF treeAfter, handleLayerMoves
  <2> HIDE DEF left, altered
  <2> QED
    BY <1>2, <2>2, <2>3
<1> QED
  BY <1>3, <1>4, <1>5, <1>6

LEMMA ArrangedMoves ==
  ASSUME Arranged, TreeMoves
  PROVE  (\A c \in DOMAIN tree' : tree'[c] \subseteq AtomId) /\ edited' \subseteq AtomId
<1>1. CASE tree' = tree /\ (edited' = edited \/ edited' = {})
  BY <1>1 DEF Arranged
<1>2. CASE \E e \in DeskEvent : handleInInterface(e)
  <2>1. PICK e \in DeskEvent : handleInInterface(e)
    BY <1>2
  <2>2. CASE ~(named(e) \subseteq atomsOf(tree))
    BY <2>1, <2>2 DEF handleInInterface, Arranged
  <2>3. CASE named(e) \subseteq atomsOf(tree)
    <3>1. /\ tree' = IF e.op = "alter" THEN treeAfter(tree, e.payload) ELSE tree
          /\ edited' = CASE e.op = "select" -> e.ids
                         [] e.op = "alter" /\ e.payload.type = "Removed" -> edited \ e.payload.ids
                         [] OTHER -> edited
      BY <2>1, <2>3 DEF handleInInterface
    <3>2. TypedTree(tree')
      BY <3>1, TreeAfterTyped, DeskEventFields DEF Arranged, TypedTree
    <3>3. edited' \subseteq AtomId
      BY <3>1, DeskEventFields DEF Arranged
    <3> QED
      BY <3>2, <3>3 DEF TypedTree
  <2> QED
    BY <2>2, <2>3
<1> QED
  BY <1>1, <1>2 DEF TreeMoves

LEMMA MenuTyped ==
  ASSUME Arranged, Shows, menuNext
  PROVE  menu'.ids \subseteq AtomId /\ menu'.layers \subseteq Values
<1>1. CASE menu' = NoMenu
  BY <1>1 DEF NoMenu
<1>2. CASE menu' = menu
  BY <1>2 DEF Arranged
<1>3. CASE invokeMenu /\ menu' # menu
  <2>1. PICK ids \in invoked : menu' = possibleActions(ids) /\ ids \subseteq IdsOf(atoms)
    BY <1>3 DEF invokeMenu
  <2>2. ids \subseteq AtomId
    BY <2>1 DEF IdsOf
  <2>3. menu'.ids = ids /\ menu'.layers \subseteq Values
    BY <2>1 DEF possibleActions, minMaxLayer
  <2> QED
    BY <2>2, <2>3
<1> QED
  BY <1>1, <1>2, <1>3 DEF menuNext, closeMenu, moveAtomsToLayer, alterAtoms, removeInvoked, chooseTimeline,
                          choose

LEMMA ArrangedStep ==
  ASSUME Arranged, TreeMoves, menu' = menu \/ (Shows /\ menuNext)
  PROVE  Arranged'
BY ArrangedMoves, MenuTyped DEF Arranged

LEMMA ArrangedInit == DeskInit => Arranged
<1> SUFFICES ASSUME DeskInit
             PROVE  Arranged
  OBVIOUS
<1>1. TypedTree(treeOf(InitialMap))
  BY InitialMapAssumption DEF TypedTree, treeOf, createAtoms, EmptyTree, rowsOf, IdsOf
<1> QED
  BY <1>1 DEF DeskInit, Arranged, TypedTree, NoMenu

---------------------------------------------------------------------------
(* What the interface's queue holds, and what the map thread knows of the items *)

Item == GItem \cup {NoGI}

SceneRequest ==
  {e \in [op : {"scene"}, type : {"Added", "Reset", "Replaced", "Removed", "Selected"},
          items : SUBSET Item, owned : SUBSET Token, toReplace : SUBSET (GItem \ Token)] :
     /\ e.type # "Selected" => NoGI \notin e.items
     /\ e.type \in {"Added", "Reset", "Replaced"} => e.owned \subseteq e.items
     /\ e.type # "Replaced" => e.toReplace = {}
     /\ e.toReplace \cap e.items = {}}

DeskRequest ==
  SceneRequest
    \cup [op : {"update"}, items : SUBSET Item, moved : SUBSET Item]
    \cup [op : {"ownership"}, items : SUBSET GItem, owned : BOOLEAN]
    \cup [op : {"alter"}, payload : Payload]

\* The items made so far, each of an atom of its own.
Itemised ==
  /\ deskInbox \in Seq(DeskRequest)
  /\ built \in Nat
  /\ GItemsById \in [AtomId -> Item]
  /\ \A i \in AtomId : GItemsById[i] # NoGI => GItemsById[i].atom = i
  /\ missingAssets \subseteq GItem \ Token
  /\ \A x \in missingAssets : x.made <= built
  /\ ownedTokenIds \subseteq {i \in AtomId : GItemsById[i] # NoGI}

LEMMA NoGIIsNoItem == NoGI \notin GItem
BY NoGIAssumption DEF GItem

LEMMA SceneTyped ==
  ASSUME NEW e \in SceneRequest
  PROVE  /\ e \in DeskRequest /\ e.op = "scene"
         /\ e.items \subseteq Item /\ e.owned \subseteq Token /\ e.toReplace \subseteq GItem \ Token
         /\ e.type \in {"Added", "Reset", "Replaced", "Removed", "Selected"}
         /\ e.type # "Selected" => e.items \subseteq GItem
         /\ e.type \in {"Added", "Reset", "Replaced"} => e.owned \subseteq e.items
         /\ e.type # "Replaced" => e.toReplace = {}
         /\ e.toReplace \cap e.items = {}
BY DEF SceneRequest, DeskRequest, Item

LEMMA RequestFields ==
  ASSUME NEW e \in DeskRequest
  PROVE  /\ e.op \in {"scene", "update", "ownership", "alter"}
         /\ e.op = "scene" => e \in SceneRequest
         /\ e.op = "update" => e.items \subseteq Item /\ e.moved \subseteq Item
         /\ e.op = "ownership" => e.items \subseteq GItem /\ e.owned \in BOOLEAN
         /\ e.op = "alter" => e \in DeskEvent
BY DEF DeskRequest, SceneRequest, DeskEvent

LEMMA GraphicsItemTyped ==
  ASSUME NEW i \in AtomId, NEW a \in Atom, NEW k \in Nat
  PROVE  /\ graphicsItem(i, a, k) \in GItem /\ graphicsItem(i, a, k).atom = i
         /\ graphicsItem(i, a, k).made = k
         /\ isPlaceholder(graphicsItem(i, a, k)) => graphicsItem(i, a, k) \notin Token
<1>1. a.asset \in Assets \cup {NoAsset}
  BY DEF Atom, AnyHash
<1>2. isMissing(a) \in BOOLEAN /\ (isAtomOwnable(a) /\ ~isMissing(a)) \in BOOLEAN
  BY Zenon DEF isMissing
<1>3. IF isMissing(a) THEN a.asset \in Assets \cup {NoAsset} ELSE TRUE
  BY <1>1
<1>4. graphicsItem(i, a, k) \in GItem
  BY <1>1, <1>2 DEF graphicsItem, GItem
<1> QED
  BY <1>4 DEF graphicsItem, isPlaceholder, Token

---------------------------------------------------------------------------
(* Items that are shown when an event of the queue is handled *)

Brings(e, x) == e.op = "scene" /\ e.type \in {"Added", "Reset", "Replaced"} /\ x \in e.items

TakesAway(e, x) ==
  /\ e.op = "scene"
  /\ \/ e.type = "Reset" /\ x \notin e.items
     \/ e.type = "Removed" /\ x \in e.items
     \/ e.type = "Replaced" /\ x \in e.toReplace

\* The item x is in the scene S, or brought by the queue q, and left there by what is
\* before the event at n.
Live(S, q, x, n) ==
  \/ x \in S /\ \A k \in DOMAIN q : k < n => ~TakesAway(q[k], x)
  \/ \E b \in DOMAIN q :
       /\ b < n /\ Brings(q[b], x)
       /\ \A k \in DOMAIN q : b < k /\ k < n => ~TakesAway(q[k], x)

\* The items that an event names; those it replaces unless some were forgotten.
Names(e, forgot) ==
  CASE e.op = "scene" /\ e.type \in {"Removed", "Selected"} -> e.items \ {NoGI}
    [] e.op = "scene" /\ e.type = "Replaced" /\ ~forgot -> e.toReplace
    [] e.op \in {"update", "ownership"} -> e.items \ {NoGI}
    [] OTHER -> {}

QueueLive(S, q, forgot) == \A n \in DOMAIN q : \A x \in Names(q[n], forgot) : Live(S, q, x, n)

Held(S, q, X) == \A x \in X : Live(S, q, x, Len(q) + 1)

LEMMA AppendedRequest ==
  ASSUME NEW q \in Seq(DeskRequest), NEW e \in DeskRequest
  PROVE  /\ Append(q, e) \in Seq(DeskRequest)
         /\ DOMAIN q = 1..Len(q) /\ Len(q) \in Nat /\ Len(Append(q, e)) = Len(q) + 1
         /\ DOMAIN Append(q, e) = 1..(Len(q) + 1)
         /\ \A n \in 1..Len(q) : Append(q, e)[n] = q[n]
         /\ Append(q, e)[Len(q) + 1] = e
BY LenProperties, AppendProperties

LEMMA LiveAppended ==
  ASSUME NEW S, NEW q \in Seq(DeskRequest), NEW e \in DeskRequest, NEW x
  PROVE  /\ \A n \in 1..(Len(q) + 1) : Live(S, q, x, n) => Live(S, Append(q, e), x, n)
         /\ Live(S, q, x, Len(q) + 1) /\ ~TakesAway(e, x) => Live(S, Append(q, e), x, Len(q) + 2)
         /\ Brings(e, x) => Live(S, Append(q, e), x, Len(q) + 2)
<1> DEFINE r == Append(q, e)
<1>1. /\ DOMAIN q = 1..Len(q) /\ Len(q) \in Nat /\ DOMAIN r = 1..(Len(q) + 1)
      /\ \A n \in 1..Len(q) : r[n] = q[n]
      /\ r[Len(q) + 1] = e
  BY AppendedRequest
<1> HIDE DEF r
<1>2. ASSUME NEW n \in 1..(Len(q) + 1), Live(S, q, x, n)
      PROVE  Live(S, r, x, n)
  <2>1. \A k \in DOMAIN r : k < n => k \in DOMAIN q /\ r[k] = q[k]
    BY <1>1
  <2>2. \A k \in DOMAIN q : k \in DOMAIN r /\ r[k] = q[k]
    BY <1>1
  <2> QED
    BY <1>2, <2>1, <2>2 DEF Live
<1>3. ASSUME Live(S, q, x, Len(q) + 1), ~TakesAway(e, x)
      PROVE  Live(S, r, x, Len(q) + 2)
  <2>1. \A k \in DOMAIN r : r[k] = e \/ (k \in DOMAIN q /\ r[k] = q[k] /\ k < Len(q) + 1)
    BY <1>1
  <2>2. \A k \in DOMAIN q : k \in DOMAIN r /\ r[k] = q[k] /\ k < Len(q) + 2
    BY <1>1
  <2> QED
    BY <1>3, <2>1, <2>2 DEF Live
<1>4. ASSUME Brings(e, x)
      PROVE  Live(S, r, x, Len(q) + 2)
  <2>1. /\ Len(q) + 1 \in DOMAIN r /\ Len(q) + 1 < Len(q) + 2 /\ Brings(r[Len(q) + 1], x)
        /\ \A k \in DOMAIN r : ~(Len(q) + 1 < k /\ k < Len(q) + 2)
    BY <1>1, <1>4
  <2> QED
    BY <2>1 DEF Live
<1> QED
  BY <1>2, <1>3, <1>4 DEF r

\* An event is queued that names what is held.
LEMMA QueueGrows ==
  ASSUME NEW S, NEW q \in Seq(DeskRequest), NEW e \in DeskRequest, NEW f \in BOOLEAN, NEW X, NEW Y,
         QueueLive(S, q, f), Held(S, q, X), Names(e, f) \subseteq X,
         \A x \in Y : Brings(e, x) \/ (x \in X /\ ~TakesAway(e, x))
  PROVE  QueueLive(S, Append(q, e), f) /\ Held(S, Append(q, e), Y)
<1> DEFINE r == Append(q, e)
<1>1. /\ DOMAIN q = 1..Len(q) /\ Len(q) \in Nat /\ Len(r) = Len(q) + 1 /\ DOMAIN r = 1..(Len(q) + 1)
      /\ \A n \in 1..Len(q) : r[n] = q[n]
      /\ r[Len(q) + 1] = e
  BY AppendedRequest
<1>2. ASSUME NEW n \in DOMAIN r, NEW x \in Names(r[n], f)
      PROVE  Live(S, r, x, n)
  <2>1. CASE n \in 1..Len(q)
    <3>1. Live(S, q, x, n)
      BY <1>1, <1>2, <2>1 DEF QueueLive
    <3> QED
      BY <1>1, <2>1, <3>1, LiveAppended
  <2>2. CASE n = Len(q) + 1
    <3>1. Live(S, q, x, Len(q) + 1)
      BY <1>1, <1>2, <2>2 DEF Held
    <3> QED
      BY <1>1, <2>2, <3>1, LiveAppended
  <2> QED
    BY <1>1, <2>1, <2>2
<1>3. ASSUME NEW x \in Y
      PROVE  Live(S, r, x, Len(r) + 1)
  <2>1. Len(r) + 1 = Len(q) + 2
    BY <1>1
  <2>2. Live(S, r, x, Len(q) + 2)
    BY <1>3, LiveAppended DEF Held
  <2> QED
    BY <2>1, <2>2
<1> QED
  BY <1>2, <1>3 DEF QueueLive, Held

\* The head of the queue is handled, by a scene that it makes T.
LEMMA QueueAdvances ==
  ASSUME NEW S, NEW T, NEW q \in Seq(DeskRequest), q # <<>>, NEW f \in BOOLEAN, NEW X,
         QueueLive(S, q, f), Held(S, q, X),
         \A x : Brings(Head(q), x) \/ (x \in S /\ ~TakesAway(Head(q), x)) => x \in T
  PROVE  /\ QueueLive(T, Tail(q), f) /\ Held(T, Tail(q), X)
         /\ Names(Head(q), f) \subseteq S
<1> DEFINE r == Tail(q)
<1>1. /\ DOMAIN q = 1..Len(q) /\ Len(q) \in Nat \ {0} /\ q[1] = Head(q)
      /\ Len(r) = Len(q) - 1 /\ DOMAIN r = 1..(Len(q) - 1)
      /\ \A n \in 1..(Len(q) - 1) : r[n] = q[n + 1]
  <2>1. Tail(q) \in Seq(DeskRequest) /\ Len(Tail(q)) = Len(q) - 1
    BY HeadTailProperties
  <2> QED
    BY <2>1, LenProperties, HeadTailProperties, EmptySeq
<1> HIDE DEF r
<1>2. ASSUME NEW n \in 1..Len(q), NEW x, Live(S, q, x, n + 1)
      PROVE  Live(T, r, x, n)
  <2>1. \A k \in DOMAIN r : k + 1 \in DOMAIN q /\ q[k + 1] = r[k] /\ k \in Nat
    BY <1>1
  <2>2. \A k \in DOMAIN q : k = 1 \/ (k - 1 \in DOMAIN r /\ r[k - 1] = q[k] /\ k \in Nat)
    BY <1>1
  <2>3. 1 \in DOMAIN q /\ 1 < n + 1 /\ n \in Nat
    BY <1>1
  <2>4. CASE x \in S /\ \A k \in DOMAIN q : k < n + 1 => ~TakesAway(q[k], x)
    <3>1. x \in T
      BY <1>1, <2>3, <2>4
    <3>2. \A k \in DOMAIN r : k < n => ~TakesAway(r[k], x)
      BY <2>1, <2>3, <2>4
    <3> QED
      BY <3>1, <3>2 DEF Live
  <2>5. ASSUME NEW b \in DOMAIN q, b < n + 1, Brings(q[b], x),
               \A k \in DOMAIN q : b < k /\ k < n + 1 => ~TakesAway(q[k], x)
        PROVE  Live(T, r, x, n)
    <3>1. CASE b = 1
      <4>1. x \in T
        BY <1>1, <2>5, <3>1
      <4>2. \A k \in DOMAIN r : k < n => ~TakesAway(r[k], x)
        BY <1>1, <2>1, <2>3, <2>5, <3>1
      <4> QED
        BY <4>1, <4>2 DEF Live
    <3>2. CASE b # 1
      <4>1. b - 1 \in DOMAIN r /\ r[b - 1] = q[b] /\ b \in Nat
        BY <2>2, <2>5, <3>2
      <4>2. b - 1 < n
        BY <2>3, <2>5, <4>1
      <4>3. ASSUME NEW k \in DOMAIN r, b - 1 < k, k < n
            PROVE  ~TakesAway(r[k], x)
        <5>1. k + 1 \in DOMAIN q /\ q[k + 1] = r[k] /\ k \in Nat
          BY <2>1
        <5>2. b < k + 1 /\ k + 1 < n + 1
          BY <2>3, <4>1, <4>3, <5>1
        <5>3. ~TakesAway(q[k + 1], x)
          BY <2>5, <5>1, <5>2
        <5> QED
          BY <5>1, <5>3
      <4> QED
        BY <2>5, <4>1, <4>2, <4>3 DEF Live
    <3> QED
      BY <3>1, <3>2
  <2> QED
    BY <1>2, <2>4, <2>5 DEF Live
<1>3. ASSUME NEW n \in DOMAIN r, NEW x \in Names(r[n], f)
      PROVE  Live(T, r, x, n)
  <2>1. n + 1 \in DOMAIN q /\ q[n + 1] = r[n] /\ n \in 1..Len(q)
    BY <1>1
  <2>2. Live(S, q, x, n + 1)
    BY <1>3, <2>1 DEF QueueLive
  <2> QED
    BY <1>2, <2>1, <2>2
<1>4. ASSUME NEW x \in X
      PROVE  Live(T, r, x, Len(r) + 1)
  <2>1. Len(r) + 1 = Len(q) /\ Len(q) \in 1..Len(q)
    BY <1>1
  <2>2. Live(S, q, x, Len(q) + 1)
    BY <1>4 DEF Held
  <2> QED
    BY <1>2, <2>1, <2>2
<1>5. ASSUME NEW x \in Names(Head(q), f)
      PROVE  x \in S
  <2>1. 1 \in DOMAIN q /\ q[1] = Head(q) /\ \A b \in DOMAIN q : ~(b < 1)
    BY <1>1
  <2>2. Live(S, q, x, 1)
    BY <1>5, <2>1 DEF QueueLive
  <2> QED
    BY <2>1, <2>2 DEF Live
<1> QED
  BY <1>3, <1>4, <1>5 DEF QueueLive, Held, r

\* Fewer items are named once some were forgotten.
LEMMA QueueForgets ==
  ASSUME NEW S, NEW q, NEW f \in BOOLEAN, NEW g \in BOOLEAN, QueueLive(S, q, f), f => g
  PROVE  QueueLive(S, q, g)
<1>1. \A e : Names(e, g) \subseteq Names(e, f)
  BY DEF Names
<1> QED
  BY <1>1 DEF QueueLive

LEMMA HeldSubset ==
  ASSUME NEW S, NEW q, NEW X, NEW Y, Held(S, q, X), Y \subseteq X
  PROVE  Held(S, q, Y)
BY DEF Held

Forgot == "forgetting" \in slips

\* The items of the atoms and, unless some were forgotten, the placeholders.
Known == ({GItemsById[i] : i \in AtomId} \ {NoGI}) \cup IF Forgot THEN {} ELSE missingAssets

\* Before a crash, what the queue names is shown when its turn comes, and what the map
\* thread knows once the queue is handled.
Lively ==
  crashed = "no" =>
    QueueLive(view.shown, deskInbox, Forgot) /\ Held(view.shown, deskInbox, Known)

LEMMA AlterNamesNothing ==
  ASSUME NEW p, NEW f, NEW x
  PROVE  Names(alter(p), f) = {} /\ ~TakesAway(alter(p), x) /\ ~Brings(alter(p), x)
BY DEF alter, Names, TakesAway, Brings

\* An alteration is queued for the interface, or nothing; the items stay as they are.
LEMMA QueuedAlteration ==
  ASSUME Itemised, Lively, crashed = "no", itemVars' = itemVars, slips \subseteq slips',
         view'.shown = view.shown,
         deskInbox' = deskInbox \/ \E p \in Payload : deskInbox' = Append(deskInbox, alter(p))
  PROVE  Itemised' /\ Lively'
<1>1. /\ deskInbox \in Seq(DeskRequest)
      /\ QueueLive(view.shown, deskInbox, Forgot) /\ Held(view.shown, deskInbox, Known)
      /\ Forgot \in BOOLEAN /\ Forgot' \in BOOLEAN /\ (Forgot => Forgot')
  BY DEF Itemised, Lively, Forgot
<1>2. /\ deskInbox' \in Seq(DeskRequest)
      /\ QueueLive(view.shown, deskInbox', Forgot) /\ Held(view.shown, deskInbox', Known)
  <2>1. CASE deskInbox' = deskInbox
    BY <1>1, <2>1
  <2>2. ASSUME NEW p \in Payload, deskInbox' = Append(deskInbox, alter(p))
        PROVE  /\ deskInbox' \in Seq(DeskRequest)
               /\ QueueLive(view.shown, deskInbox', Forgot) /\ Held(view.shown, deskInbox', Known)
    <3>1. alter(p) \in DeskRequest
      BY DEF alter, DeskRequest
    <3>2. /\ QueueLive(view.shown, Append(deskInbox, alter(p)), Forgot)
          /\ Held(view.shown, Append(deskInbox, alter(p)), Known)
      BY <1>1, <3>1, AlterNamesNothing, QueueGrows
    <3> QED
      BY <1>1, <2>2, <3>1, <3>2, AppendedRequest
  <2> QED
    BY <2>1, <2>2
<1>3. Known' \subseteq Known
  BY <1>1 DEF Known, itemVars
<1>4. QueueLive(view.shown, deskInbox', Forgot') /\ Held(view.shown, deskInbox', Known')
  BY <1>1, <1>2, <1>3, QueueForgets, HeldSubset
<1>5. Lively'
  BY <1>4 DEF Lively
<1>6. Itemised'
  BY <1>2 DEF Itemised, itemVars
<1> QED
  BY <1>5, <1>6

LEMMA ViewKept ==
  ASSUME Shows, ViewMoves, slips \subseteq slips'
  PROVE  Shows' /\ view'.shown = view.shown
<1>1. CASE view' = view
  BY <1>1 DEF Shows
<1>2. ASSUME NEW items \in SUBSET view.shown, view' = [view EXCEPT !.selected = items]
      PROVE  Shows' /\ view'.shown = view.shown
  BY <1>2 DEF Shows
<1>3. CASE mayWalk(view) /\ view' = changeTool(view, "Walking")
  BY <1>3 DEF Shows, mayWalk, changeTool, MapTool
<1>4. CASE view' = changeTool(view, "Default")
  BY <1>4 DEF Shows, changeTool, MapTool
<1> QED
  BY <1>1, <1>2, <1>3, <1>4 DEF ViewMoves

LEMMA UserKeepsItems ==
  ASSUME Itemised, Shows, Lively, crashed = "no", UserMoves
  PROVE  Itemised' /\ Shows' /\ Lively'
<1>1. itemVars' = itemVars /\ slips \subseteq slips' /\ ViewMoves
  BY DEF UserMoves, PostedOrNot, Posts
<1>2. Shows' /\ view'.shown = view.shown
  BY <1>1, ViewKept
<1> QED
  BY <1>1, <1>2, QueuedAlteration DEF ViewMoves

---------------------------------------------------------------------------
(* The interface handles its queue *)

\* The head of the queue is handled, and the scene is then T.
LEMMA QueueHandled ==
  ASSUME Itemised, Lively, crashed = "no", deskInbox # <<>>, deskInbox' = Tail(deskInbox),
         itemVars' = itemVars, slips \subseteq slips', NEW T, view'.shown = T,
         \A x : Brings(Head(deskInbox), x)
                  \/ (x \in view.shown /\ ~TakesAway(Head(deskInbox), x)) => x \in T
  PROVE  Itemised' /\ Lively'
<1>1. /\ deskInbox \in Seq(DeskRequest)
      /\ QueueLive(view.shown, deskInbox, Forgot) /\ Held(view.shown, deskInbox, Known)
      /\ Forgot \in BOOLEAN /\ Forgot' \in BOOLEAN /\ (Forgot => Forgot')
  BY DEF Itemised, Lively, Forgot
<1>2. QueueLive(T, deskInbox', Forgot) /\ Held(T, deskInbox', Known)
  BY <1>1, QueueAdvances
<1>3. Known' \subseteq Known
  BY <1>1 DEF Known, itemVars
<1>4. QueueLive(T, deskInbox', Forgot') /\ Held(T, deskInbox', Known')
  BY <1>1, <1>2, <1>3, QueueForgets, HeldSubset
<1>5. deskInbox' \in Seq(DeskRequest)
  BY <1>1, HeadTailProperties
<1> QED
  BY <1>4, <1>5 DEF Lively, Itemised, itemVars

\* The head of the queue names what is in the scene.
LEMMA HeadNames ==
  ASSUME Itemised, Lively, crashed = "no", deskInbox # <<>>
  PROVE  Head(deskInbox) \in DeskRequest /\ Names(Head(deskInbox), Forgot) \subseteq view.shown
<1>1. /\ deskInbox \in Seq(DeskRequest)
      /\ QueueLive(view.shown, deskInbox, Forgot) /\ Held(view.shown, deskInbox, Known)
      /\ Forgot \in BOOLEAN
  BY DEF Itemised, Lively, Forgot
<1>2. Names(Head(deskInbox), Forgot) \subseteq view.shown
  <2>1. \A x : Brings(Head(deskInbox), x)
                 \/ (x \in view.shown /\ ~TakesAway(Head(deskInbox), x))
               => x \in view.shown \cup {y \in UNION {Head(deskInbox).items} : TRUE}
    BY DEF Brings
  <2> QED
    BY <1>1, <2>1, QueueAdvances
<1> QED
  BY <1>1, <1>2, HeadTailProperties

\* The view, with the requests that the code hands to it.
LEMMA RequestedShows ==
  ASSUME Shows, NEW e \in SceneRequest, misses(e) = "no", view' = requested(e),
         slips' = IF e.type = "Removed" /\ letsGo(e.items) THEN slips \cup {"letting go"} ELSE slips
  PROVE  /\ Shows'
         /\ \A x : Brings(e, x) \/ (x \in view.shown /\ ~TakesAway(e, x)) => x \in view'.shown
<1> DEFINE View == [shown : SUBSET GItem, selected : SUBSET GItem, owned : SUBSET Token,
                    tool : MapTool, helper : SUBSET Token]
           Kept(T) == \A x : Brings(e, x) \/ (x \in view.shown /\ ~TakesAway(e, x)) => x \in T
<1>1. /\ e.op = "scene"
      /\ e.items \subseteq Item /\ e.owned \subseteq Token /\ e.toReplace \subseteq GItem \ Token
      /\ e.type \in {"Added", "Reset", "Replaced", "Removed", "Selected"}
      /\ e.type # "Selected" => e.items \subseteq GItem
      /\ e.type \in {"Added", "Reset", "Replaced"} => e.owned \subseteq e.items
      /\ e.type # "Replaced" => e.toReplace = {}
      /\ e.toReplace \cap e.items = {}
  BY SceneTyped
<1>2. /\ e.type \in {"Selected", "Removed"} => e.items \subseteq view.shown
      /\ e.toReplace \subseteq view.shown
  BY <1>1 DEF misses
<1>3. Token \subseteq GItem
  BY DEF Token
<1>0. /\ view \in View
      /\ view.selected \subseteq view.shown /\ view.owned \subseteq view.shown
      /\ view.tool = "Walking" => view.helper # {}
      /\ "letting go" \notin slips => view.helper \subseteq view.shown
  BY DEF Shows
<1>4. CASE e.type = "Reset"
  <2>1. view' = EmptyView(e.items, e.owned) /\ slips' = slips
    BY <1>4 DEF requested, onReset
  <2>2. view' \in View
    BY <1>1, <1>4, <2>1 DEF EmptyView, MapTool
  <2>3. Kept(e.items)
    BY <1>1, <1>4 DEF Brings, TakesAway
  <2>4. /\ view'.shown = e.items /\ view'.owned = e.owned /\ view'.selected = {}
        /\ view'.tool = "Default" /\ view'.helper = {} /\ e.owned \subseteq e.items
    BY <1>1, <1>4, <2>1 DEF EmptyView
  <2> QED
    BY <2>2, <2>3, <2>4 DEF Shows
<1>5. CASE e.type = "Added"
  <2>1. /\ view' = [view EXCEPT !.shown = @ \cup e.items, !.owned = @ \cup e.owned]
        /\ slips' = slips
    BY <1>5 DEF requested, onAdded
  <2>2. view' \in View
    BY <1>0, <1>1, <1>5, <2>1
  <2>3. Kept(view.shown \cup e.items)
    BY <1>1, <1>5 DEF Brings, TakesAway
  <2>4. /\ view'.shown = view.shown \cup e.items /\ view'.owned = view.owned \cup e.owned
        /\ view'.selected = view.selected /\ view'.tool = view.tool /\ view'.helper = view.helper
        /\ slips' = slips /\ e.owned \subseteq e.items
    BY <1>0, <1>1, <1>5, <2>1
  <2> QED
    BY <1>0, <2>2, <2>3, <2>4 DEF Shows
<1>6. CASE e.type = "Replaced"
  <2>1. /\ view' = [view EXCEPT !.shown = (@ \cup e.items) \ e.toReplace,
                                !.selected = @ \ e.toReplace,
                                !.owned = (@ \cup e.owned) \ e.toReplace]
        /\ slips' = slips
    BY <1>0, <1>6 DEF requested, onReplaced, onAdded, deleted
  <2>2. view' \in View
    <3>1. /\ (view.shown \cup e.items) \ e.toReplace \in SUBSET GItem
          /\ view.selected \ e.toReplace \in SUBSET GItem
          /\ (view.owned \cup e.owned) \ e.toReplace \in SUBSET Token
      BY <1>0, <1>1, <1>6
    <3> QED
      BY <1>0, <2>1, <3>1
  <2>3. Kept((view.shown \cup e.items) \ e.toReplace)
    BY <1>1, <1>6 DEF Brings, TakesAway
  <2>4. "letting go" \notin slips => view.helper \subseteq (view.shown \cup e.items) \ e.toReplace
    BY <1>0, <1>1
  <2>5. /\ view'.shown = (view.shown \cup e.items) \ e.toReplace /\ view'.helper = view.helper
        /\ view'.selected = view.selected \ e.toReplace /\ view'.tool = view.tool
        /\ view'.owned = (view.owned \cup e.owned) \ e.toReplace
    BY <1>0, <2>1
  <2> QED
    BY <1>0, <1>1, <1>6, <2>1, <2>2, <2>3, <2>4, <2>5 DEF Shows
<1>7. CASE e.type = "Removed"
  <2>0. Kept(view.shown \ e.items)
    BY <1>1, <1>7 DEF Brings, TakesAway
  <2>1. CASE view.helper \cap e.items # {} /\ view.tool = "Walking"
    <3>1. /\ view' = [view EXCEPT !.tool = "Default", !.selected = {}, !.helper = {},
                                  !.shown = @ \ e.items, !.owned = @ \ e.items]
          /\ slips' = slips
      BY <1>0, <1>7, <2>1 DEF requested, onRemoved, changeTool, deleted, letsGo
    <3>2. view' \in View
      <4>1. /\ view.shown \ e.items \in SUBSET GItem /\ view.owned \ e.items \in SUBSET Token
            /\ {} \in SUBSET GItem /\ {} \in SUBSET Token /\ "Default" \in MapTool
        BY <1>0 DEF MapTool
      <4> QED
        BY <1>0, <3>1, <4>1
    <3>3. /\ view'.shown = view.shown \ e.items /\ view'.owned = view.owned \ e.items
          /\ view'.selected = {} /\ view'.tool = "Default" /\ view'.helper = {}
      BY <1>0, <3>1
    <3> QED
      BY <1>0, <2>0, <3>2, <3>3 DEF Shows
  <2>2. CASE ~(view.helper \cap e.items # {} /\ view.tool = "Walking")
    <3>1. /\ view' = [view EXCEPT !.shown = @ \ e.items, !.selected = @ \ e.items,
                                  !.owned = @ \ e.items]
          /\ slips \subseteq slips'
          /\ "letting go" \notin slips' => view.helper \cap e.items = {}
      BY <1>7, <2>2 DEF requested, onRemoved, deleted, letsGo
    <3>2. view' \in View
      BY <1>0, <3>1
    <3>3. "letting go" \notin slips' => view.helper \subseteq view.shown \ e.items
      BY <1>0, <3>1
    <3>4. /\ view'.shown = view.shown \ e.items /\ view'.helper = view.helper
          /\ view'.selected = view.selected \ e.items /\ view'.tool = view.tool
          /\ view'.owned = view.owned \ e.items
      BY <1>0, <3>1
    <3> QED
      BY <1>0, <2>0, <3>2, <3>3, <3>4 DEF Shows
  <2> QED
    BY <2>1, <2>2
<1>8. CASE e.type = "Selected"
  <2>0. Kept(view.shown)
    BY <1>1, <1>8 DEF Brings, TakesAway
  <2>1. view' = onSelected(view, e.items) /\ slips' = slips
    BY <1>8 DEF requested
  <2>2. CASE isWalkable(view, e.items)
    <3>1. view' = [view EXCEPT !.selected = e.items, !.helper = e.items]
      BY <2>1, <2>2 DEF onSelected
    <3> QED
      BY <1>0, <1>1, <1>2, <1>8, <2>0, <2>1, <2>2, <3>1 DEF Shows, isWalkable
  <2>3. CASE ~isWalkable(view, e.items) /\ view.tool = "Walking"
    <3>1. view' = [view EXCEPT !.selected = {}, !.tool = "Default", !.helper = {}]
      BY <1>0, <2>1, <2>3 DEF onSelected, changeTool
    <3> QED
      BY <1>0, <2>0, <2>1, <3>1 DEF Shows, MapTool
  <2>4. CASE ~isWalkable(view, e.items) /\ view.tool # "Walking"
    <3>1. view' = [view EXCEPT !.selected = e.items]
      BY <2>1, <2>4 DEF onSelected
    <3> QED
      BY <1>0, <1>1, <1>2, <1>8, <2>0, <2>1, <3>1 DEF Shows
  <2> QED
    BY <2>2, <2>3, <2>4
<1> QED
  BY <1>1, <1>4, <1>5, <1>6, <1>7, <1>8

\* Tokens are told who owns them: those owned are shown.
LEMMA OwnershipShows ==
  ASSUME Shows, NEW tokens \in SUBSET Token, tokens \subseteq view.shown, NEW owned \in BOOLEAN,
         view' = onOwnershipChanged(view, tokens, owned), slips' = slips
  PROVE  Shows' /\ view'.shown = view.shown
<1> DEFINE View == [shown : SUBSET GItem, selected : SUBSET GItem, owned : SUBSET Token,
                    tool : MapTool, helper : SUBSET Token]
           mine == IF owned THEN view.owned \cup tokens ELSE view.owned \ tokens
<1>0. /\ view \in View
      /\ view.selected \subseteq view.shown /\ view.owned \subseteq view.shown
      /\ view.tool = "Walking" => view.helper # {}
      /\ "letting go" \notin slips => view.helper \subseteq view.shown
  BY DEF Shows
<1>1. mine \in SUBSET Token /\ mine \subseteq view.shown
  BY <1>0
<1>2. [view EXCEPT !.owned = IF owned THEN @ \cup tokens ELSE @ \ tokens]
        = [view EXCEPT !.owned = mine]
  BY <1>0
<1> HIDE DEF mine
<1>3. CASE ~owned /\ view.helper \cap tokens # {}
  <2>1. view' = [view EXCEPT !.owned = mine, !.tool = "Default", !.selected = {}, !.helper = {}]
    BY <1>0, <1>2, <1>3 DEF onOwnershipChanged, changeTool
  <2>2. /\ view'.shown = view.shown /\ view'.owned = mine /\ view'.selected = {}
        /\ view'.tool = "Default" /\ view'.helper = {} /\ view' \in View
    BY <1>0, <1>1, <2>1 DEF MapTool
  <2> QED
    BY <1>1, <2>2 DEF Shows
<1>4. CASE ~(~owned /\ view.helper \cap tokens # {})
  <2>1. view' = [view EXCEPT !.owned = mine]
    BY <1>2, <1>4 DEF onOwnershipChanged
  <2>2. /\ view'.shown = view.shown /\ view'.owned = mine /\ view'.selected = view.selected
        /\ view'.tool = view.tool /\ view'.helper = view.helper /\ view' \in View
    BY <1>0, <1>1, <2>1
  <2> QED
    BY <1>0, <1>1, <2>2 DEF Shows
<1> QED
  BY <1>3, <1>4

LEMMA InterfaceKeepsItems ==
  ASSUME Itemised, Shows, Lively, crashed = "no", interfaceQueueNext
  PROVE  Itemised' /\ Shows' /\ Lively'
<1>1. CASE handlePropagated
  <2>1. /\ deskInbox # <<>> /\ deskInbox' = Tail(deskInbox) /\ Head(deskInbox).op = "alter"
        /\ view' = view /\ itemVars' = itemVars /\ slips' = slips
    BY <1>1 DEF handlePropagated, dequeue
  <2>2. \A x : ~Brings(Head(deskInbox), x)
    BY <2>1 DEF Brings
  <2>3. Itemised' /\ Lively'
    BY <2>1, <2>2, QueueHandled
  <2> QED
    BY <2>1, <2>3 DEF Shows
<1>2. CASE onUIAlterationRequest
  <2>1. /\ deskInbox # <<>> /\ deskInbox' = Tail(deskInbox) /\ Head(deskInbox).op = "scene"
        /\ itemVars' = itemVars /\ slips \subseteq slips'
        /\ crashed' = misses(Head(deskInbox))
    BY <1>2 DEF onUIAlterationRequest, dequeue
  <2>2. PICK e \in SceneRequest : e = Head(deskInbox)
    BY <2>1, HeadNames, RequestFields
  <2>3. CASE misses(e) = "no"
    <3>1. /\ view' = requested(e)
          /\ slips' = IF e.type = "Removed" /\ letsGo(e.items) THEN slips \cup {"letting go"} ELSE slips
      BY <1>2, <2>2, <2>3 DEF onUIAlterationRequest
    <3>2. /\ Shows'
          /\ \A x : Brings(e, x) \/ (x \in view.shown /\ ~TakesAway(e, x)) => x \in view'.shown
      BY <2>3, <3>1, RequestedShows
    <3> QED
      BY <2>1, <2>2, <3>2, QueueHandled
  <2>4. CASE misses(e) # "no"
    <3>1. view' = view
      BY <1>2, <2>2, <2>4 DEF onUIAlterationRequest
    <3>2. Lively'
      BY <2>1, <2>2, <2>4 DEF Lively
    <3>3. Itemised'
      BY <2>1, HeadTailProperties DEF Itemised, itemVars
    <3>4. "letting go" \notin slips' => "letting go" \notin slips
      BY <2>1
    <3> QED
      BY <3>1, <3>2, <3>3, <3>4 DEF Shows
  <2> QED
    BY <2>3, <2>4
<1>3. CASE onUIUpdateRequest
  <2>1. /\ deskInbox # <<>> /\ deskInbox' = Tail(deskInbox) /\ Head(deskInbox).op = "update"
        /\ view' = view /\ itemVars' = itemVars /\ slips' = slips
    BY <1>3 DEF onUIUpdateRequest, dequeue
  <2>2. \A x : ~Brings(Head(deskInbox), x)
    BY <2>1 DEF Brings
  <2>3. Itemised' /\ Lively'
    BY <2>1, <2>2, QueueHandled
  <2> QED
    BY <2>1, <2>3 DEF Shows
<1>4. CASE handleOwnership
  <2>1. /\ deskInbox # <<>> /\ deskInbox' = Tail(deskInbox) /\ Head(deskInbox).op = "ownership"
        /\ itemVars' = itemVars /\ slips' = slips
        /\ view' = onOwnershipChanged(view, tokensOf(Head(deskInbox).items), Head(deskInbox).owned)
    BY <1>4 DEF handleOwnership, dequeue, toolChanges
  <2>2. PICK e \in DeskRequest : /\ e = Head(deskInbox) /\ e.items \subseteq GItem
                                 /\ e.owned \in BOOLEAN /\ e.items \ {NoGI} \subseteq view.shown
    BY <2>1, HeadNames, RequestFields DEF Names
  <2>3. tokensOf(e.items) \in SUBSET Token /\ tokensOf(e.items) \subseteq view.shown
    BY <2>2, NoGIIsNoItem DEF tokensOf, Token
  <2>4. Shows' /\ view'.shown = view.shown
    BY <2>1, <2>2, <2>3, OwnershipShows
  <2>5. \A x : ~Brings(Head(deskInbox), x)
    BY <2>1 DEF Brings
  <2> QED
    BY <2>1, <2>4, <2>5, QueueHandled
<1>5. CASE storeAsset
  <2>1. /\ deskInbox' = deskInbox /\ view' = view /\ itemVars' = itemVars /\ slips' = slips
    BY <1>5 DEF storeAsset
  <2>2. Itemised' /\ Lively'
    BY <2>1, QueuedAlteration
  <2> QED
    BY <2>1, <2>2 DEF Shows
<1> QED
  BY <1>1, <1>2, <1>3, <1>4, <1>5 DEF interfaceQueueNext

---------------------------------------------------------------------------
(* The map thread queues requests for the view *)

LEMMA RequestQueued ==
  ASSUME Itemised, Lively, crashed = "no", NEW e \in DeskRequest,
         deskInbox' = Append(deskInbox, e), view' = view, Forgot => Forgot',
         Names(e, Forgot) \subseteq Known,
         \A x \in Known' : Brings(e, x) \/ (x \in Known /\ ~TakesAway(e, x))
  PROVE  deskInbox' \in Seq(DeskRequest) /\ Lively'
<1>1. /\ deskInbox \in Seq(DeskRequest)
      /\ QueueLive(view.shown, deskInbox, Forgot) /\ Held(view.shown, deskInbox, Known)
      /\ Forgot \in BOOLEAN /\ Forgot' \in BOOLEAN
  BY DEF Itemised, Lively, Forgot
<1> DEFINE Y == Known'
<1>2. \A x \in Y : Brings(e, x) \/ (x \in Known /\ ~TakesAway(e, x))
  OBVIOUS
<1> HIDE DEF Y
<1>3. QueueLive(view.shown, deskInbox', Forgot) /\ Held(view.shown, deskInbox', Y)
  BY <1>1, <1>2, QueueGrows
<1>4. QueueLive(view.shown, deskInbox', Forgot')
  BY <1>1, <1>3, QueueForgets
<1>5. deskInbox' \in Seq(DeskRequest)
  BY <1>1, AppendedRequest
<1> QED
  BY <1>3, <1>4, <1>5 DEF Lively, Y

LEMMA SceneIsRequest ==
  ASSUME NEW type \in {"Added", "Reset", "Replaced", "Removed", "Selected"}, NEW items \in SUBSET Item,
         NEW owned \in SUBSET Token, NEW toReplace \in SUBSET (GItem \ Token),
         type # "Selected" => NoGI \notin items,
         type \in {"Added", "Reset", "Replaced"} => owned \subseteq items,
         type # "Replaced" => toReplace = {}, toReplace \cap items = {}
  PROVE  /\ scene(type, items, owned, toReplace) \in DeskRequest
         /\ scene(type, items, owned, toReplace).op = "scene"
         /\ scene(type, items, owned, toReplace).type = type
         /\ scene(type, items, owned, toReplace).items = items
         /\ scene(type, items, owned, toReplace).toReplace = toReplace
<1>1. scene(type, items, owned, toReplace) \in SceneRequest
  BY DEF scene, SceneRequest
<1> QED
  BY <1>1, SceneTyped DEF scene

\* What the map thread knows is an item of its own.
LEMMA KnownItems ==
  ASSUME Itemised
  PROVE  Known \subseteq GItem
BY DEF Itemised, Known, Item

BuiltFrom(items, m, ids, k) == \A x \in items : \E i \in ids : x = graphicsItem(i, m[i], k)

LEMMA ItemsBuilt ==
  ASSUME NEW m \in Maps, NEW ids \in SUBSET IdsOf(m), NEW k \in Nat, NEW ownedIds,
         NEW items, BuiltFrom(items, m, ids, k)
  PROVE  /\ items \subseteq GItem /\ \A x \in items : x.made = k
         /\ ownedOf(items, ownedIds) \subseteq items \cap Token
         /\ \A x \in items : isPlaceholder(x) => x \in GItem \ Token
<1>1. \A i \in ids : i \in AtomId /\ m[i] \in Atom
  BY DEF IdsOf, Maps
<1>2. /\ items \subseteq GItem /\ \A x \in items : x.made = k
      /\ \A x \in items : isPlaceholder(x) => x \in GItem \ Token
  BY <1>1, GraphicsItemTyped DEF BuiltFrom
<1>3. ownedOf(items, ownedIds) \subseteq items \cap Token
  BY <1>2 DEF ownedOf, tokensOf, Token
<1> QED
  BY <1>2, <1>3

\* Atoms are added, to the items of before or to none.
LEMMA ItemsAdded ==
  ASSUME Itemised, Lively, crashed = "no", NEW p \in Payload, view' = view,
         NEW byId \in [AtomId -> Item], \A i \in AtomId : byId[i] # NoGI => byId[i].atom = i,
         NEW missing \in SUBSET missingAssets, NEW ownedIds, ownedIds \subseteq {i \in AtomId : byId[i] # NoGI},
         \/ p.type = "Added" /\ byId = GItemsById
         \/ p.type = "Reset" /\ missing = {} /\ \A i \in AtomId : byId[i] = NoGI,
         addItems(p, byId, missing, ownedIds)
  PROVE  Itemised' /\ Lively'
<1> DEFINE added == IdsOf(p.atoms)
           item(i) == graphicsItem(i, p.atoms[i], built + 1)
           items == {item(i) : i \in added}
           ownable == {i \in added : isAtomOwnable(p.atoms[i])}
           mine == {i \in ownable : owns(p.atoms[i].meta["CharacterId"])}
           e == scene(p.type, items, ownedOf(items, mine), {})
<1>1. /\ GItemsById' = [i \in AtomId |-> IF i \in added THEN item(i) ELSE byId[i]]
      /\ missingAssets' = missing \cup {x \in items : isPlaceholder(x)}
      /\ ownedTokenIds' = (ownedIds \ ownable) \cup mine
      /\ built' = built + 1
      /\ deskInbox' = Append(deskInbox, e)
      /\ slips' = slips
  BY DEF addItems
<1>2. /\ p.atoms \in Maps /\ added \subseteq AtomId /\ built \in Nat /\ built + 1 \in Nat
      /\ missingAssets \subseteq GItem \ Token /\ \A x \in missingAssets : x.made <= built
  BY PayloadFields DEF IdsOf, Itemised
<1>3. \A i \in added : item(i) \in GItem /\ item(i).atom = i
  BY <1>2, GraphicsItemTyped DEF IdsOf, Maps
<1>4. /\ items \subseteq GItem /\ \A x \in items : x.made = built + 1
      /\ ownedOf(items, mine) \subseteq items \cap Token
      /\ \A x \in items : isPlaceholder(x) => x \in GItem \ Token
  <2>1. added \in SUBSET IdsOf(p.atoms) /\ built + 1 \in Nat
        /\ BuiltFrom(items, p.atoms, added, built + 1)
    BY <1>2 DEF BuiltFrom
  <2> HIDE DEF added, mine, items
  <2> QED
    BY <1>2, <2>1, ItemsBuilt
<1>5. /\ e \in DeskRequest /\ e.op = "scene" /\ e.type = p.type /\ e.items = items
  <2>1. /\ items \in SUBSET Item /\ ownedOf(items, mine) \in SUBSET Token
        /\ ownedOf(items, mine) \subseteq items /\ NoGI \notin items
        /\ {} \in SUBSET (GItem \ Token) /\ {} \cap items = {}
        /\ p.type \in {"Added", "Reset", "Replaced", "Removed", "Selected"}
    BY <1>4, NoGIIsNoItem DEF Item
  <2> HIDE DEF items, mine
  <2> QED
    BY <2>1, SceneIsRequest
<1>6. \A i \in added : item(i) \in items
  OBVIOUS
<1>7. mine \subseteq added /\ ownable \subseteq added /\ mine \subseteq ownable
  OBVIOUS
<1> HIDE DEF items, item, e, mine, ownable
<1>8. GItemsById' \in [AtomId -> Item]
  BY <1>1, <1>3 DEF Item
<1>9. \A i \in AtomId : GItemsById'[i] # NoGI => GItemsById'[i].atom = i
  BY <1>1, <1>3
<1>10. missingAssets' \subseteq GItem \ Token /\ \A x \in missingAssets' : x.made <= built'
  <2>1. \A x \in missingAssets' : x \in missingAssets \/ (x \in items /\ isPlaceholder(x))
    BY <1>1
  <2>2. \A x \in missingAssets : x.made <= built + 1
    <3>1. missingAssets \subseteq GItem /\ \A x \in GItem : x.made \in Nat
      BY <1>2 DEF GItem
    <3> QED
      BY <1>2, <3>1
  <2>3. \A x \in items : x.made <= built + 1
    BY <1>2, <1>4
  <2> QED
    BY <1>1, <1>2, <1>4, <2>1, <2>2, <2>3
<1>11. ownedTokenIds' \subseteq {i \in AtomId : GItemsById'[i] # NoGI}
  BY <1>1, <1>2, <1>3, <1>7, NoGIIsNoItem
<1>12. Forgot' = Forgot
  BY <1>1 DEF Forgot
<1>13. ASSUME NEW x \in Known'
       PROVE  Brings(e, x) \/ (x \in Known /\ ~TakesAway(e, x))
  <2>1. x \in items \/ (p.type = "Added" /\ x \in Known)
    <3>1. CASE \E i \in AtomId : x = GItemsById'[i] /\ x # NoGI
      <4>1. PICK i \in AtomId : x = GItemsById'[i] /\ x # NoGI
        BY <3>1
      <4>2. CASE i \in added
        BY <1>1, <1>6, <4>1, <4>2
      <4>3. CASE i \notin added
        BY <1>1, <4>1, <4>3 DEF Known
      <4> QED
        BY <4>2, <4>3
    <3>2. CASE ~Forgot /\ x \in missingAssets'
      BY <1>1, <3>2 DEF Known
    <3> QED
      BY <1>12, <1>13, <3>1, <3>2 DEF Known
  <2> QED
    BY <1>5, <2>1 DEF Brings, TakesAway
<1>14. Names(e, Forgot) \subseteq Known
  BY <1>5 DEF Names
<1>15. deskInbox' \in Seq(DeskRequest) /\ Lively'
  BY <1>1, <1>5, <1>12, <1>13, <1>14, RequestQueued
<1> QED
  BY <1>1, <1>2, <1>8, <1>9, <1>10, <1>11, <1>15 DEF Itemised

\* The items of the atoms, as they are known.
LEMMA ItemOfAtom ==
  ASSUME Itemised, NEW i \in AtomId
  PROVE  /\ GItemsById[i] \in Item
         /\ GItemsById[i] # NoGI =>
              GItemsById[i] \in Known /\ GItemsById[i] \in GItem /\ GItemsById[i].atom = i
BY DEF Itemised, Known, Item

\* Atoms are removed: their items go, placeholders are looked for no more.
LEMMA ItemsRemoved ==
  ASSUME Itemised, Lively, crashed = "no", NEW p \in Payload, view' = view, removeItems(p)
  PROVE  Itemised' /\ Lively'
<1> DEFINE removed == p.ids \cap IdsOf(atoms)
           items == {GItemsById[i] : i \in removed} \ {NoGI}
           e == scene("Removed", items, {}, {})
<1>1. /\ GItemsById' = [i \in AtomId |-> IF i \in removed THEN NoGI ELSE GItemsById[i]]
      /\ ownedTokenIds' = ownedTokenIds \ removed
      /\ deskInbox' = Append(deskInbox, e)
      /\ slips' = IF {GItemsById[i] : i \in removed} \cap missingAssets = {} THEN slips
                  ELSE slips \cup {"forgetting"}
      /\ missingAssets' = missingAssets /\ built' = built
  BY DEF removeItems, stillOwned
<1>2. removed \subseteq AtomId
  BY DEF IdsOf
<1>3. \A x \in items : \E i \in removed : x = GItemsById[i] /\ x # NoGI
  OBVIOUS
<1>4. \A i \in removed : GItemsById[i] # NoGI => GItemsById[i] \in items
  OBVIOUS
<1>5. (\E i \in removed : GItemsById[i] \in missingAssets) => "forgetting" \in slips'
  BY <1>1
<1> HIDE DEF items, removed, e
<1>6. items \subseteq Known /\ items \subseteq GItem
  BY <1>2, <1>3, ItemOfAtom
<1>7. e \in DeskRequest /\ e.op = "scene" /\ e.type = "Removed" /\ e.items = items
  <2>1. items \in SUBSET Item /\ NoGI \notin items
    BY <1>6, NoGIIsNoItem DEF Item
  <2>2. /\ {} \in SUBSET Token /\ {} \in SUBSET (GItem \ Token) /\ {} \cap items = {}
        /\ "Removed" \in {"Added", "Reset", "Replaced", "Removed", "Selected"}
    OBVIOUS
  <2> QED
    BY <2>1, <2>2, SceneIsRequest DEF e
<1>8. Forgot => Forgot'
  BY <1>1 DEF Forgot
<1>9. ASSUME NEW x \in Known'
      PROVE  x \in Known /\ x \notin items
  <2>1. CASE \E i \in AtomId : x = GItemsById'[i] /\ x # NoGI
    <3>1. PICK i \in AtomId : x = GItemsById'[i] /\ x # NoGI
      BY <2>1
    <3>2. i \notin removed /\ x = GItemsById[i]
      BY <1>1, <3>1
    <3>3. x \in Known /\ x.atom = i
      BY <3>1, <3>2, ItemOfAtom
    <3>4. \A y \in items : y.atom \in removed
      BY <1>2, <1>3, ItemOfAtom
    <3> QED
      BY <3>2, <3>3, <3>4
  <2>2. CASE ~Forgot' /\ x \in missingAssets'
    <3>1. x \in missingAssets /\ x \in Known
      BY <1>1, <1>8, <2>2 DEF Known
    <3>2. x \notin items
      BY <1>3, <1>5, <2>2, <3>1 DEF Forgot
    <3> QED
      BY <3>1, <3>2
  <2> QED
    BY <1>9, <2>1, <2>2 DEF Known
<1>10. Names(e, Forgot) \subseteq Known
  BY <1>6, <1>7 DEF Names
<1>11. \A x \in Known' : x \in Known /\ ~TakesAway(e, x)
  BY <1>7, <1>9 DEF TakesAway
<1>12. deskInbox' \in Seq(DeskRequest) /\ Lively'
  BY <1>1, <1>7, <1>8, <1>10, <1>11, RequestQueued
<1>13. GItemsById' \in [AtomId -> Item] /\ \A i \in AtomId : GItemsById'[i] # NoGI => GItemsById'[i].atom = i
  BY <1>1 DEF Itemised, Item
<1>14. ownedTokenIds' \subseteq {i \in AtomId : GItemsById'[i] # NoGI}
  BY <1>1 DEF Itemised
<1> QED
  BY <1>1, <1>12, <1>13, <1>14 DEF Itemised

\* The view is told what is selected, or what to replace.
LEMMA ItemsSelected ==
  ASSUME Itemised, Lively, crashed = "no", handleSelect
  PROVE  Itemised' /\ Lively'
<1> DEFINE ids == Head(inbox).ids \cap IdsOf(atoms)
           items == {GItemsById[i] : i \in ids}
           e == scene("Selected", items, {}, {})
<1>1. /\ deskInbox' = Append(deskInbox, e)
      /\ itemVars' = itemVars /\ view' = view /\ slips' = slips
  BY DEF handleSelect
<1>2. ids \subseteq AtomId
  BY DEF IdsOf
<1>3. items \subseteq Item /\ items \ {NoGI} \subseteq Known
  BY <1>2, ItemOfAtom
<1> HIDE DEF items, e
<1>4. e \in DeskRequest /\ e.op = "scene" /\ e.type = "Selected" /\ e.items = items
  <2>1. /\ items \in SUBSET Item /\ {} \in SUBSET Token /\ {} \in SUBSET (GItem \ Token)
        /\ {} \cap items = {}
        /\ "Selected" \in {"Added", "Reset", "Replaced", "Removed", "Selected"}
    BY <1>3
  <2> QED
    BY <2>1, SceneIsRequest DEF e
<1>5. Names(e, Forgot) \subseteq Known /\ \A x : ~TakesAway(e, x)
  BY <1>3, <1>4 DEF Names, TakesAway
<1>6. Known' = Known /\ Forgot' = Forgot
  BY <1>1 DEF Known, Forgot, itemVars
<1>7. deskInbox' \in Seq(DeskRequest) /\ Lively'
  BY <1>1, <1>4, <1>5, <1>6, RequestQueued
<1> QED
  BY <1>1, <1>7 DEF Itemised, itemVars

LEMMA ItemsReplaced ==
  ASSUME Stored, Itemised, Lively, crashed = "no", handleAsset
  PROVE  Itemised' /\ Lively'
<1> DEFINE placeholders == {x \in missingAssets : x.asset = Head(inbox).hash}
           ids == {x.atom : x \in placeholders} \cap IdsOf(atoms)
           item(i) == graphicsItem(i, atoms[i], built + 1)
           items == {item(i) : i \in ids}
           e(last) == scene("Replaced", items, ownedOf(items, ownedTokenIds), {last[i] : i \in ids})
<1>1. view' = view /\ slips' = slips
  BY DEF handleAsset
<1>2. CASE deskInbox' = deskInbox /\ itemVars' = itemVars
  <2>1. Itemised'
    BY <1>2 DEF Itemised, itemVars
  <2>2. Lively'
    BY <1>1, <1>2 DEF Lively, Known, Forgot, itemVars
  <2> QED
    BY <2>1, <2>2
<1>3. CASE ~(deskInbox' = deskInbox /\ itemVars' = itemVars)
  <2>1. PICK last \in [ids -> placeholders] :
          /\ \A i \in ids : last[i].atom = i
          /\ deskInbox' = Append(deskInbox, e(last))
          /\ GItemsById' = [i \in AtomId |-> IF i \in ids THEN item(i) ELSE GItemsById[i]]
          /\ missingAssets' = missingAssets \ placeholders
          /\ built' = built + 1 /\ ownedTokenIds' = ownedTokenIds
    BY <1>3 DEF handleAsset, replaceBound, itemVars
  <2> DEFINE gone == {last[i] : i \in ids}
             f == scene("Replaced", items, ownedOf(items, ownedTokenIds), gone)
  <2>2. /\ ids \subseteq AtomId /\ ids \in SUBSET IdsOf(atoms) /\ atoms \in Maps
        /\ built \in Nat /\ built + 1 \in Nat
        /\ placeholders \subseteq missingAssets
    BY DEF IdsOf, Stored, Itemised
  <2>3. \A i \in ids : item(i) \in items /\ item(i) \in GItem /\ item(i).atom = i
    <3>1. \A i \in ids : i \in AtomId /\ atoms[i] \in Atom
      BY <2>2 DEF IdsOf, Maps
    <3> QED
      BY <2>2, <3>1, GraphicsItemTyped
  <2>4. \A y \in gone : \E i \in ids : y = last[i] /\ y.atom = i /\ y \in missingAssets
    BY <2>1, <2>2
  <2>5. deskInbox' = Append(deskInbox, f)
    BY <2>1
  <2>6. /\ missingAssets \subseteq GItem \ Token /\ \A x \in missingAssets : x.made \in Nat /\ x.made <= built
    BY DEF Itemised, GItem
  <2>7. BuiltFrom(items, atoms, ids, built + 1)
    BY DEF BuiltFrom
  <2> HIDE DEF items, item, ids, placeholders, gone, f
  <2>8. /\ items \subseteq GItem /\ \A x \in items : x.made = built + 1
        /\ ownedOf(items, ownedTokenIds) \subseteq items \cap Token
    BY <2>2, <2>7, ItemsBuilt
  <2>9. gone \cap items = {}
    <3>1. \A x \in gone : x.made <= built /\ x.made \in Nat
      BY <2>4, <2>6
    <3> QED
      BY <2>2, <2>8, <3>1
  <2>10. /\ f \in DeskRequest /\ f.op = "scene" /\ f.type = "Replaced" /\ f.items = items
         /\ f.toReplace = gone
    <3>1. /\ items \in SUBSET Item /\ ownedOf(items, ownedTokenIds) \in SUBSET Token
          /\ ownedOf(items, ownedTokenIds) \subseteq items /\ NoGI \notin items
          /\ gone \in SUBSET (GItem \ Token)
          /\ "Replaced" \in {"Added", "Reset", "Replaced", "Removed", "Selected"}
      BY <2>4, <2>6, <2>8, NoGIIsNoItem DEF Item
    <3> QED
      BY <2>9, <3>1, SceneIsRequest DEF f
  <2>11. Forgot' = Forgot
    BY <1>1 DEF Forgot
  <2>12. Names(f, Forgot) \subseteq Known
    BY <2>4, <2>10 DEF Names, Known
  <2>13. ASSUME NEW x \in Known'
         PROVE  x \in items \/ (x \in Known /\ x \notin gone)
    <3>1. CASE \E i \in AtomId : x = GItemsById'[i] /\ x # NoGI
      <4>1. PICK i \in AtomId : x = GItemsById'[i] /\ x # NoGI
        BY <3>1
      <4>2. CASE i \in ids
        BY <2>1, <2>3, <4>1, <4>2
      <4>3. CASE i \notin ids
        <5>1. x = GItemsById[i]
          BY <2>1, <4>1, <4>3
        <5>2. x \in Known /\ x.atom = i
          BY <4>1, <5>1, ItemOfAtom
        <5> QED
          BY <2>4, <4>3, <5>2
      <4> QED
        BY <4>2, <4>3
    <3>2. CASE ~Forgot' /\ x \in missingAssets'
      <4>1. x \in missingAssets /\ x \notin placeholders /\ x \in Known
        BY <2>1, <2>11, <3>2 DEF Known
      <4>2. gone \subseteq placeholders
        BY <2>1 DEF gone
      <4> QED
        BY <4>1, <4>2
    <3> QED
      BY <2>13, <3>1, <3>2 DEF Known
  <2>14. \A x \in Known' : Brings(f, x) \/ (x \in Known /\ ~TakesAway(f, x))
    BY <2>10, <2>13 DEF Brings, TakesAway
  <2>15. deskInbox' \in Seq(DeskRequest) /\ Lively'
    BY <1>1, <2>5, <2>10, <2>11, <2>12, <2>14, RequestQueued
  <2>16. /\ GItemsById' \in [AtomId -> Item]
         /\ \A i \in AtomId : GItemsById'[i] # NoGI => GItemsById'[i].atom = i
    <3>1. \A i \in ids : item(i) \in Item
      BY <2>3 DEF Item
    <3> QED
      BY <2>1, <2>2, <2>3, <3>1 DEF Itemised
  <2>17. ownedTokenIds' \subseteq {i \in AtomId : GItemsById'[i] # NoGI}
    BY <2>1, <2>2, <2>3, NoGIIsNoItem DEF Itemised
  <2>18. missingAssets' \subseteq GItem \ Token /\ \A x \in missingAssets' : x.made <= built'
    <3>1. \A x \in missingAssets : x.made <= built + 1
      BY <2>2, <2>6
    <3> QED
      BY <2>1, <2>6, <3>1
  <2> QED
    BY <2>1, <2>2, <2>15, <2>16, <2>17, <2>18 DEF Itemised
<1> QED
  BY <1>2, <1>3

LEMMA RequestConcatenated ==
  ASSUME NEW q \in Seq(DeskRequest), NEW e \in DeskRequest
  PROVE  q \o <<>> = q /\ q \o <<e>> = Append(q, e)
BY ConcatEmptySeq, AppendIsConcat

\* The owner of items that are known is told, if there are any.
LEMMA OwnershipQueued ==
  ASSUME NEW S, NEW q \in Seq(DeskRequest), NEW f \in BOOLEAN, NEW X, QueueLive(S, q, f), Held(S, q, X),
         NEW r, NEW items \in SUBSET GItem, items \subseteq X, NEW owned \in BOOLEAN, NEW ids,
         r = q \o (IF ids = {} THEN <<>> ELSE <<ownership(items, owned)>>)
  PROVE  r \in Seq(DeskRequest) /\ QueueLive(S, r, f) /\ Held(S, r, X)
<1> DEFINE e == ownership(items, owned)
<1>1. e \in DeskRequest /\ e.op = "ownership" /\ e.items = items
  BY DEF ownership, DeskRequest
<1> HIDE DEF e
<1>2. Names(e, f) \subseteq X /\ \A x : ~TakesAway(e, x)
  BY <1>1 DEF Names, TakesAway
<1>3. r = q \/ r = Append(q, e)
  BY <1>1, RequestConcatenated DEF e
<1>4. \A x \in X : Brings(e, x) \/ (x \in X /\ ~TakesAway(e, x))
  BY <1>2
<1>5. QueueLive(S, Append(q, e), f) /\ Held(S, Append(q, e), X)
  BY <1>1, <1>2, <1>4, QueueGrows
<1>6. Append(q, e) \in Seq(DeskRequest)
  BY <1>1, AppendedRequest
<1> QED
  BY <1>3, <1>5, <1>6

LEMMA UpdateQueued ==
  ASSUME NEW S, NEW q \in Seq(DeskRequest), NEW f \in BOOLEAN, NEW X, QueueLive(S, q, f), Held(S, q, X),
         NEW items \in SUBSET Item, items \ {NoGI} \subseteq X, NEW moved \in SUBSET Item, NEW r,
         r = q \o <<update(items, moved)>>
  PROVE  r \in Seq(DeskRequest) /\ QueueLive(S, r, f) /\ Held(S, r, X)
<1> DEFINE e == update(items, moved)
<1>1. e \in DeskRequest /\ e.op = "update" /\ e.items = items
  BY DEF update, DeskRequest
<1>2. r = Append(q, e)
  BY <1>1, RequestConcatenated
<1> HIDE DEF e
<1>3. Names(e, f) \subseteq X /\ \A x : ~TakesAway(e, x)
  BY <1>1 DEF Names, TakesAway
<1>4. \A x \in X : Brings(e, x) \/ (x \in X /\ ~TakesAway(e, x))
  BY <1>3
<1>5. QueueLive(S, Append(q, e), f) /\ Held(S, Append(q, e), X)
  BY <1>1, <1>3, <1>4, QueueGrows
<1>6. Append(q, e) \in Seq(DeskRequest)
  BY <1>1, AppendedRequest
<1> QED
  BY <1>2, <1>5, <1>6

\* Owners that change are told, then all that is updated.
LEMMA ItemsUpdated ==
  ASSUME Itemised, Lively, crashed = "no", NEW p \in Payload, view' = view, updateItems(p)
  PROVE  Itemised' /\ Lively'
<1> DEFINE updated == IF p.type = "MetadataChanged" THEN p.ids \cap IdsOf(atoms) ELSE namedAtoms(p)
           moved == {i \in updated : p.updates[i]["Position"] # Keep}
           newOwner(i) == p.updates[i]["CharacterId"]
           bound(i) == IF ownableAtomIdsByOwner[i] = NoEntry THEN 0 ELSE ownableAtomIdsByOwner[i]
           changed == {i \in updated \cap IdsOf(atoms) :
                         /\ newOwner(i) # Keep /\ newOwner(i) # bound(i)
                         /\ GItemsById[i] # NoGI}
           mine == {i \in changed : owns(newOwner(i))}
           items(ids) == {GItemsById[i] : i \in ids}
           told(ids, owned) == IF ids = {} THEN <<>> ELSE <<ownership(items(ids), owned)>>
           q1 == deskInbox \o told(mine, TRUE)
           q2 == q1 \o told(changed \ mine, FALSE)
           q3 == q2 \o <<update(items(updated), items(moved))>>
<1>1. /\ ownedTokenIds' = (ownedTokenIds \ changed) \cup mine
      /\ deskInbox' = q3
      /\ UNCHANGED <<GItemsById, missingAssets, built, slips>>
  BY DEF updateItems
<1>2. updated \subseteq AtomId /\ moved \subseteq AtomId
  BY PayloadFields DEF namedAtoms, IdsOf
<1>3. /\ changed \subseteq AtomId /\ mine \subseteq changed
      /\ \A i \in changed : GItemsById[i] # NoGI
  BY DEF IdsOf
<1>4. /\ items(updated) \in SUBSET Item /\ items(updated) \ {NoGI} \subseteq Known
      /\ items(moved) \in SUBSET Item
  <2> HIDE DEF updated, moved
  <2> QED
    BY <1>2, ItemOfAtom
<1>5. \A ids \in SUBSET changed : items(ids) \in SUBSET GItem /\ items(ids) \subseteq Known
  <2> HIDE DEF changed
  <2> QED
    BY <1>3, ItemOfAtom
<1>6. /\ deskInbox \in Seq(DeskRequest) /\ Forgot \in BOOLEAN
      /\ QueueLive(view.shown, deskInbox, Forgot) /\ Held(view.shown, deskInbox, Known)
  BY DEF Itemised, Lively, Forgot
<1>7. q1 \in Seq(DeskRequest) /\ QueueLive(view.shown, q1, Forgot) /\ Held(view.shown, q1, Known)
  <2>1. items(mine) \in SUBSET GItem /\ items(mine) \subseteq Known
    BY <1>3, <1>5
  <2> HIDE DEF mine
  <2> QED
    BY <1>6, <2>1, OwnershipQueued
<1>8. q2 \in Seq(DeskRequest) /\ QueueLive(view.shown, q2, Forgot) /\ Held(view.shown, q2, Known)
  <2>1. items(changed \ mine) \in SUBSET GItem /\ items(changed \ mine) \subseteq Known
    BY <1>5
  <2> HIDE DEF mine, changed, q1
  <2> QED
    BY <1>6, <1>7, <2>1, OwnershipQueued
<1>9. q3 \in Seq(DeskRequest) /\ QueueLive(view.shown, q3, Forgot) /\ Held(view.shown, q3, Known)
  <2> HIDE DEF updated, moved, q2
  <2> QED
    BY <1>4, <1>6, <1>8, UpdateQueued
<1> HIDE DEF updated, moved, changed, mine, q1, q2, q3
<1>10. Known' = Known /\ Forgot' = Forgot
  BY <1>1 DEF Known, Forgot
<1>11. Lively'
  BY <1>1, <1>9, <1>10 DEF Lively
<1>12. ownedTokenIds' \subseteq {i \in AtomId : GItemsById'[i] # NoGI}
  BY <1>1, <1>3 DEF Itemised
<1> QED
  BY <1>1, <1>9, <1>11, <1>12 DEF Itemised

\* What undo, redo and load post is also queued for the interface.
LEMMA EmittedAlteration ==
  ASSUME Stored, inbox # <<>>, emitted,
         \/ inbox' = Tail(inbox)
         \/ \E e \in DeskEvent : inbox' = Append(Tail(inbox), e) /\ e.op = "alter"
  PROVE  deskInbox' = deskInbox \/ \E p \in Payload : deskInbox' = Append(deskInbox, alter(p))
<1>1. PICK t \in Seq(DeskEvent) : t = Tail(inbox) /\ Len(t) = Len(inbox) - 1 /\ Len(t) \in Nat
  <2>1. Tail(inbox) \in Seq(DeskEvent) /\ Len(Tail(inbox)) = Len(inbox) - 1
    BY HeadTailProperties DEF Stored
  <2> QED
    BY <2>1, LenProperties
<1>0. Len(inbox) \in Nat
  BY LenProperties DEF Stored
<1>2. CASE inbox' = Tail(inbox)
  <2>1. Len(inbox') # Len(inbox)
    <3>1. Len(inbox') = Len(t)
      BY <1>1, <1>2
    <3>2. \A a, b \in Nat : a = b - 1 => a # b
      OBVIOUS
    <3>3. Len(t) # Len(inbox)
      BY <1>0, <1>1, <3>2, Zenon
    <3> QED
      BY <3>1, <3>3
  <2> QED
    BY <2>1 DEF emitted
<1>3. ASSUME NEW e \in DeskEvent, inbox' = Append(Tail(inbox), e), e.op = "alter"
      PROVE  \E p \in Payload : deskInbox' = Append(deskInbox, alter(p))
  <2>1. Len(inbox') = Len(inbox) /\ inbox'[Len(inbox')] = e
    <3>1. inbox' = Append(t, e) /\ Append(t, e)[Len(t) + 1] = e
      BY <1>1, <1>3, AppendedEvent
    <3>2. Len(Append(t, e)) = Len(t) + 1
      BY AppendProperties
    <3>3. Len(t) + 1 = Len(inbox)
      BY <1>0, <1>1
    <3> QED
      BY <3>1, <3>2, <3>3
  <2>2. e.payload \in Payload /\ e = alter(e.payload)
    BY <1>3 DEF DeskEvent, alter
  <2> QED
    BY <2>1, <2>2 DEF emitted
<1> QED
  BY <1>2, <1>3

LEMMA MapThreadKeepsItems ==
  ASSUME Stored, Itemised, Shows, Lively, crashed = "no", mapThreadNext
  PROVE  Itemised' /\ Shows' /\ Lively'
<1>1. view' = view /\ slips \subseteq slips'
  BY DEF mapThreadNext, handleAlteration, sceneFollows, resetItems, addItems, removeItems, updateItems,
         handleUndo, handleRedo, handleLoad, emitted, handleSave, ackRemoteness, handleSelect, handleAsset,
         interfaceVars
<1>2. Shows'
  <2>1. "letting go" \notin slips' => "letting go" \notin slips
    BY <1>1
  <2> QED
    BY <1>1, <2>1 DEF Shows
<1>3. CASE handleAlteration
  <2>1. PICK p \in Payload : /\ inbox # <<>> /\ p = Head(inbox).payload /\ sceneFollows(p)
    BY <1>3, InboxHead DEF handleAlteration, HandleAlteration
  <2>2. CASE p.type = "Reset"
    <3>1. PICK byId : byId = [i \in AtomId |-> NoGI]
      OBVIOUS
    <3>2. addItems(p, byId, {}, {})
      BY <2>1, <2>2, <3>1 DEF sceneFollows, resetItems
    <3>3. /\ byId \in [AtomId -> Item] /\ \A i \in AtomId : byId[i] = NoGI
          /\ {} \in SUBSET missingAssets /\ {} \subseteq {i \in AtomId : byId[i] # NoGI}
      BY <3>1 DEF Item
    <3> QED
      BY <1>1, <1>2, <2>2, <3>2, <3>3, ItemsAdded
  <2>3. CASE p.type = "Added"
    <3>1. addItems(p, GItemsById, missingAssets, ownedTokenIds)
      BY <2>1, <2>3 DEF sceneFollows
    <3>2. /\ GItemsById \in [AtomId -> Item]
          /\ \A i \in AtomId : GItemsById[i] # NoGI => GItemsById[i].atom = i
          /\ missingAssets \in SUBSET missingAssets
          /\ ownedTokenIds \subseteq {i \in AtomId : GItemsById[i] # NoGI}
      BY DEF Itemised
    <3> QED
      BY <1>1, <1>2, <2>3, <3>1, <3>2, ItemsAdded
  <2>4. CASE p.type = "Removed"
    <3>1. removeItems(p)
      BY <2>1, <2>4 DEF sceneFollows
    <3> QED
      BY <1>1, <1>2, <3>1, ItemsRemoved
  <2>5. CASE p.type \notin {"Reset", "Added", "Removed"}
    <3>1. updateItems(p)
      BY <2>1, <2>5 DEF sceneFollows
    <3> QED
      BY <1>1, <1>2, <3>1, ItemsUpdated
  <2> QED
    BY <2>2, <2>3, <2>4, <2>5
<1>4. CASE handleUndo \/ handleRedo
  <2>1. Walks /\ emitted
    BY <1>4, UndoWalks DEF handleUndo, handleRedo
  <2>2. deskInbox' = deskInbox \/ \E p \in Payload : deskInbox' = Append(deskInbox, alter(p))
    BY <2>1, EmittedAlteration DEF Walks
  <2> QED
    BY <1>1, <1>2, <2>1, <2>2, QueuedAlteration DEF emitted
<1>5. CASE handleLoad
  <2>1. PICK p \in Payload : /\ inbox # <<>> /\ inbox' = Append(Tail(inbox), alter(p)) /\ emitted
    BY <1>5, InboxHead DEF handleLoad, loadRPZMap
  <2>2. deskInbox' = deskInbox \/ \E r \in Payload : deskInbox' = Append(deskInbox, alter(r))
    BY <2>1, DeskEvents, EmittedAlteration
  <2> QED
    BY <1>1, <1>2, <2>1, <2>2, QueuedAlteration DEF emitted
<1>6. CASE handleSave \/ ackRemoteness
  <2>1. deskInbox' = deskInbox /\ itemVars' = itemVars
    BY <1>6 DEF handleSave, ackRemoteness, interfaceVars
  <2> QED
    BY <1>1, <1>2, <2>1, QueuedAlteration
<1>7. CASE handleSelect
  BY <1>2, <1>7, ItemsSelected
<1>8. CASE handleAsset
  BY <1>2, <1>8, ItemsReplaced
<1> QED
  BY <1>3, <1>4, <1>5, <1>6, <1>7, <1>8 DEF mapThreadNext

---------------------------------------------------------------------------
(* The history variables *)

Crash == {"no", "tree", "view", "item", "placeholder", "walk", "menu"}
Slip == {"crossing", "saving", "letting go", "forgetting", "session"}
Flagged == crashed \in Crash /\ slips \subseteq Slip

LEMMA FlaggedStep == Flagged /\ DeskNext => Flagged'
<1> SUFFICES ASSUME Flagged, DeskNext
             PROVE  Flagged'
  OBVIOUS
<1> USE DEF Flagged, Crash, Slip
<1>1. \A e : handleInInterface(e) => crashed' \in Crash
  BY DEF handleInInterface
<1>2. \A e : mayCross(e) => slips' \subseteq Slip
  BY DEF mayCross
<1>3. \A e : propagate(e) => Flagged'
  BY <1>1, <1>2 DEF propagate
<1>4. \A e : invoke(e) => Flagged'
  BY <1>2 DEF invoke
<1>5. \A p : receive(p) => Flagged'
  BY <1>2 DEF receive
<1>6. CASE gesturesNext
  <2>1. CASE draw \/ removeAtoms \/ edit \/ invokeUndo \/ invokeRedo \/ invokeSave \/ selectInTree \/ drag
    BY <2>1, <1>3, <1>4 DEF draw, removeAtoms, edit, invokeUndo, invokeRedo, invokeSave, selectInTree, drag
  <2>2. CASE openFile \/ selectInView \/ startWalking \/ resetTool
    BY <2>2, <1>1, <1>2 DEF openFile, selectInView, startWalking, viewChanges, resetTool, toolChanges
  <2>3. CASE walk
    BY <2>3, <1>3 DEF walk, viewChanges
  <2> QED
    BY <1>6, <2>1, <2>2, <2>3 DEF gesturesNext
<1>7. CASE menuNext
  BY <1>3, <1>4, <1>7 DEF menuNext, invokeMenu, closeMenu, moveAtomsToLayer, alterAtoms, removeInvoked,
                          chooseTimeline
<1>8. CASE interfaceQueueNext
  <2>1. CASE handlePropagated \/ onUIUpdateRequest \/ handleOwnership \/ storeAsset
    BY <2>1, <1>1 DEF handlePropagated, onUIUpdateRequest, handleOwnership, storeAsset, toolChanges
  <2>2. CASE onUIAlterationRequest
    BY <2>2 DEF onUIAlterationRequest, misses
  <2> QED
    BY <1>8, <2>1, <2>2 DEF interfaceQueueNext
<1>9. CASE receiveMove \/ receiveFromHost \/ receiveSession
  BY <1>4, <1>5, <1>9 DEF receiveMove, receiveFromHost, receiveSession
<1>10. CASE mapThreadNext
  BY <1>10 DEF mapThreadNext, handleAlteration, sceneFollows, resetItems, addItems, removeItems, updateItems,
         handleUndo, handleRedo, handleLoad, emitted, handleSave, ackRemoteness, handleSelect, handleAsset
<1> QED
  BY <1>6, <1>7, <1>8, <1>9, <1>10 DEF DeskNext

---------------------------------------------------------------------------
(* The theorems *)

LEMMA ItemsInit == DeskInit => Itemised /\ Shows /\ Lively
<1> SUFFICES ASSUME DeskInit
             PROVE  Itemised /\ Shows /\ Lively
  OBVIOUS
<1> DEFINE ids == IdsOf(InitialMap)
           items == {InitialItems[i] : i \in ids}
<1>1. /\ deskInbox = <<>> /\ built = 0 /\ slips = {} /\ GItemsById = InitialItems
      /\ missingAssets = {x \in items : isPlaceholder(x)}
      /\ view = EmptyView(items, ownedOf(items, ownedTokenIds))
      /\ ownedTokenIds \subseteq ids
  BY DEF DeskInit
<1>2. \A i \in ids : i \in AtomId /\ InitialMap[i] \in Atom
  BY InitialMapAssumption DEF IdsOf, Maps
<1>3. \A i \in ids : InitialItems[i] = graphicsItem(i, InitialMap[i], 0)
  BY DEF InitialItems, IdsOf
<1>4. \A i \in AtomId : i \notin ids => InitialItems[i] = NoGI
  BY DEF InitialItems, IdsOf
<1>5. \A i \in ids : InitialItems[i] \in GItem /\ InitialItems[i].atom = i
  BY <1>2, <1>3, GraphicsItemTyped
<1>6. BuiltFrom(items, InitialMap, ids, 0)
  BY <1>3 DEF BuiltFrom
<1>7. \A i \in ids : InitialItems[i] \in items
  OBVIOUS
<1>8. GItemsById \in [AtomId -> Item]
  <2>1. InitialItems = [i \in AtomId |-> InitialItems[i]]
    BY DEF InitialItems
  <2>2. \A i \in AtomId : InitialItems[i] \in Item
    BY <1>4, <1>5 DEF Item
  <2> HIDE DEF InitialItems
  <2> QED
    BY <1>1, <2>1, <2>2
<1> HIDE DEF items, ids
<1>9. /\ items \subseteq GItem /\ \A x \in items : x.made = 0
      /\ ownedOf(items, ownedTokenIds) \subseteq items \cap Token
      /\ \A x \in items : isPlaceholder(x) => x \in GItem \ Token
  <2>1. ids \in SUBSET IdsOf(InitialMap) /\ 0 \in Nat
    BY DEF ids
  <2> QED
    BY <1>6, <2>1, InitialMapAssumption, ItemsBuilt
<1>10. Itemised
  <2>1. \A i \in AtomId : GItemsById[i] # NoGI => i \in ids /\ GItemsById[i].atom = i
    BY <1>1, <1>4, <1>5
  <2>2. missingAssets \subseteq GItem \ Token /\ \A x \in missingAssets : x.made <= built
    BY <1>1, <1>9
  <2>3. ownedTokenIds \subseteq {i \in AtomId : GItemsById[i] # NoGI}
    BY <1>1, <1>2, <1>5, NoGIIsNoItem
  <2>4. deskInbox \in Seq(DeskRequest) /\ built \in Nat
    BY <1>1, EmptySeq
  <2> QED
    BY <1>8, <2>1, <2>2, <2>3, <2>4 DEF Itemised
<1>11. Shows
  <2>1. /\ view.shown = items /\ view.owned = ownedOf(items, ownedTokenIds) /\ view.selected = {}
        /\ view.tool = "Default" /\ view.helper = {}
        /\ view = [shown |-> items, selected |-> {}, owned |-> ownedOf(items, ownedTokenIds),
                   tool |-> "Default", helper |-> {}]
    BY <1>1 DEF EmptyView
  <2>2. /\ items \in SUBSET GItem /\ ownedOf(items, ownedTokenIds) \in SUBSET Token
        /\ ownedOf(items, ownedTokenIds) \subseteq items
    BY <1>9
  <2> QED
    BY <2>1, <2>2 DEF Shows, MapTool
<1>12. Lively
  <2>1. Known \subseteq items
    <3>1. \A i \in AtomId : GItemsById[i] # NoGI => GItemsById[i] \in items
      BY <1>1, <1>4, <1>7
    <3> QED
      BY <1>1, <3>1 DEF Known
  <2>2. view.shown = items
    BY <1>1 DEF EmptyView
  <2>3. DOMAIN deskInbox = {}
    BY <1>1
  <2> QED
    BY <2>1, <2>2, <2>3 DEF Lively, QueueLive, Held, Live
<1> QED
  BY <1>10, <1>11, <1>12

Desk ==
  Stored /\ SavedFollows /\ Arranged /\ Shows /\ Itemised /\ Lively /\ Flagged

LEMMA DeskStarts == DeskInit => Desk
<1> SUFFICES ASSUME DeskInit
             PROVE  Desk
  OBVIOUS
<1>1. SavedFollows
  <2>1. saved = atoms /\ DOMAIN inbox = {}
    BY DEF DeskInit
  <2> QED
    BY <2>1 DEF SavedFollows, NoReset
<1>2. Flagged
  BY DEF DeskInit, Flagged, Crash
<1> QED
  BY <1>1, <1>2, StoredInit, ArrangedInit, ItemsInit DEF Desk

LEMMA DeskKept == Desk /\ DeskNext => Desk'
<1> SUFFICES ASSUME Desk, DeskNext
             PROVE  Desk'
  OBVIOUS
<1> USE DEF Desk
<1>1. crashed = "no" /\ Flagged'
  BY FlaggedStep DEF DeskNext
<1>2. ASSUME UserMoves, menu' = menu \/ menuNext
      PROVE  Desk'
  <2>1. Stored' /\ SavedFollows'
    BY <1>2, StoredPosted, SavedPosted DEF UserMoves
  <2>2. Arranged'
    BY <1>2, ArrangedStep DEF UserMoves, PostedOrNot
  <2> QED
    BY <1>1, <1>2, <2>1, <2>2, UserKeepsItems
<1>3. CASE gesturesNext /\ menu' = menu
  BY <1>2, <1>3, GesturesPost
<1>4. CASE menuNext
  BY <1>2, <1>4, MenuPosts
<1>5. CASE (receiveMove \/ receiveFromHost \/ receiveSession) /\ menu' = menu
  BY <1>2, <1>5, NetworkPosts
<1>6. CASE interfaceQueueNext /\ menu' = menu
  <2>1. deskInbox # <<>> /\ Head(deskInbox).op = "alter" => Head(deskInbox) \in DeskEvent
    BY <1>1, HeadNames, RequestFields
  <2>2. PostedOrNot
    BY <1>6, <2>1, InterfacePosts
  <2>3. Stored' /\ SavedFollows' /\ Arranged'
    BY <1>6, <2>2, StoredPosted, SavedPosted, ArrangedStep DEF PostedOrNot
  <2> QED
    BY <1>1, <1>6, <2>3, InterfaceKeepsItems
<1>7. CASE mapThreadNext /\ menu' = menu
  <2>1. tree' = tree /\ edited' = edited
    BY <1>7 DEF mapThreadNext, handleAlteration, handleUndo, handleRedo, handleLoad, emitted, handleSave,
                ackRemoteness, handleSelect, handleAsset, interfaceVars
  <2>2. Arranged'
    BY <1>7, <2>1 DEF Arranged
  <2> QED
    BY <1>1, <1>7, <2>2, StoredHandled, SavedHandled, MapThreadKeepsItems
<1> QED
  BY <1>3, <1>4, <1>5, <1>6, <1>7 DEF DeskNext

---------------------------------------------------------------------------
(* Items that are lost *)

\* The scene and the queue hold what is known.
LEMMA KnownIsAlive ==
  ASSUME Itemised, Lively, crashed = "no"
  PROVE  Known \subseteq Alive
<1> SUFFICES ASSUME NEW x \in Known
             PROVE  x \in Alive
  OBVIOUS
<1>1. Live(view.shown, deskInbox, x, Len(deskInbox) + 1)
  BY DEF Lively, Held
<1>2. CASE x \in view.shown
  BY <1>2 DEF Alive
<1>3. CASE x \notin view.shown
  <2>1. PICK b \in DOMAIN deskInbox : Brings(deskInbox[b], x)
    BY <1>1, <1>3 DEF Live
  <2> QED
    BY <2>1 DEF Brings, Alive
<1> QED
  BY <1>2, <1>3

LEMMA LossesHaveCauses == Desk /\ DeskNext => LostItemsHaveCauses'
<1> SUFFICES ASSUME Desk, DeskNext
             PROVE  LostItemsHaveCauses'
  OBVIOUS
<1> USE DEF LostItemsHaveCauses
<1>1. crashed = "no" /\ Itemised /\ Shows /\ Lively
  BY DEF DeskNext, Desk
<1>2. \A e : handleInInterface(e) => crashed' \in {"no", "tree"}
  BY <1>1 DEF handleInInterface
<1>3. \A e : propagate(e) => crashed' \in {"no", "tree"}
  BY <1>2 DEF propagate
<1>4. \A e : invoke(e) \/ receive(e) => crashed' = "no"
  BY <1>1 DEF invoke, receive
<1>5. CASE gesturesNext
  <2>1. CASE draw \/ removeAtoms \/ edit \/ invokeUndo \/ invokeRedo \/ invokeSave \/ selectInTree \/ drag
    BY <2>1, <1>3, <1>4 DEF draw, removeAtoms, edit, invokeUndo, invokeRedo, invokeSave, selectInTree, drag
  <2>2. CASE openFile \/ selectInView \/ startWalking \/ resetTool
    BY <2>2, <1>1, <1>2 DEF openFile, selectInView, startWalking, viewChanges, resetTool, toolChanges
  <2>3. CASE walk
    <3>1. CASE view.helper \subseteq Alive
      BY <2>3, <3>1, <1>3 DEF walk
    <3>2. CASE ~(view.helper \subseteq Alive)
      <4>1. "letting go" \in slips
        BY <1>1, <3>2 DEF Alive, Shows
      <4> QED
        BY <2>3, <3>2, <4>1 DEF walk
    <3> QED
      BY <3>1, <3>2
  <2> QED
    BY <1>5, <2>1, <2>2, <2>3 DEF gesturesNext
<1>6. CASE menuNext
  BY <1>1, <1>3, <1>4, <1>6 DEF menuNext, invokeMenu, closeMenu, moveAtomsToLayer, alterAtoms, removeInvoked,
                               chooseTimeline
<1>7. CASE interfaceQueueNext
  <2>1. CASE handlePropagated \/ storeAsset
    BY <2>1, <1>1, <1>2 DEF handlePropagated, storeAsset
  <2>2. CASE onUIAlterationRequest
    <3>1. /\ deskInbox # <<>> /\ Head(deskInbox).op = "scene" /\ crashed' = misses(Head(deskInbox))
          /\ slips \subseteq slips'
      BY <2>2 DEF onUIAlterationRequest, dequeue
    <3>2. PICK e \in SceneRequest : e = Head(deskInbox) /\ Names(e, Forgot) \subseteq view.shown
      BY <1>1, <3>1, HeadNames, RequestFields
    <3>3. misses(e) = "item" => Forgot
      <4> SUFFICES ASSUME misses(e) = "item", ~Forgot
                   PROVE  FALSE
        OBVIOUS
      <4>1. /\ e.op = "scene"
            /\ e.type # "Replaced" => e.toReplace = {}
            /\ e.type # "Selected" => NoGI \notin e.items
        BY <3>2, SceneTyped, NoGIIsNoItem
      <4>2. CASE e.type \in {"Selected", "Removed"}
        <5>1. Names(e, Forgot) = e.items \ {NoGI}
          BY <4>1, <4>2 DEF Names
        <5>2. CASE NoGI \in e.items
          BY <4>1, <4>2, <5>2 DEF misses
        <5>3. CASE NoGI \notin e.items
          <6>1. e.items \subseteq view.shown /\ e.toReplace \subseteq view.shown
            BY <3>2, <4>1, <4>2, <5>1, <5>3
          <6> QED
            BY <4>2, <5>3, <6>1 DEF misses
        <5> QED
          BY <5>2, <5>3
      <4>3. CASE e.type = "Replaced"
        <5>1. Names(e, Forgot) = e.toReplace
          BY <4>1, <4>3 DEF Names
        <5> QED
          BY <3>2, <4>3, <5>1 DEF misses
      <4>4. CASE e.type \notin {"Selected", "Removed", "Replaced"}
        BY <4>1, <4>4 DEF misses
      <4> QED
        BY <4>2, <4>3, <4>4
    <3>4. misses(e) \in {"no", "view", "item"}
      BY DEF misses
    <3> QED
      BY <3>1, <3>2, <3>3, <3>4 DEF Forgot
  <2>3. CASE onUIUpdateRequest
    <3>1. deskInbox # <<>> /\ Head(deskInbox).op = "update"
      BY <2>3 DEF onUIUpdateRequest, dequeue
    <3>2. Head(deskInbox).items \ {NoGI} \subseteq view.shown
      BY <1>1, <3>1, HeadNames DEF Names
    <3> QED
      BY <2>3, <3>2 DEF onUIUpdateRequest
  <2>4. CASE handleOwnership
    <3>1. deskInbox # <<>> /\ Head(deskInbox).op = "ownership"
      BY <2>4 DEF handleOwnership, dequeue
    <3>2. Head(deskInbox).items \subseteq view.shown
      BY <1>1, <3>1, HeadNames, RequestFields, NoGIIsNoItem DEF Names
    <3> QED
      BY <2>4, <3>2 DEF handleOwnership
  <2> QED
    BY <1>7, <2>1, <2>2, <2>3, <2>4 DEF interfaceQueueNext
<1>8. CASE receiveMove \/ receiveFromHost \/ receiveSession
  BY <1>4, <1>8 DEF receiveMove, receiveFromHost, receiveSession
<1>9. CASE mapThreadNext
  <2>1. CASE handleAsset
    <3>1. CASE crashed' = crashed
      BY <1>1, <3>1
    <3>2. CASE ~({x \in missingAssets : x.asset = Head(inbox).hash} \subseteq Alive)
      <4>1. Forgot
        BY <1>1, <3>2, KnownIsAlive DEF Known
      <4> QED
        BY <1>1, <2>1, <4>1 DEF handleAsset, Forgot
    <3> QED
      BY <2>1, <3>1, <3>2 DEF handleAsset
  <2>2. CASE ~handleAsset
    BY <1>1, <1>9, <2>2 DEF mapThreadNext, handleAlteration, handleUndo, handleRedo, handleLoad, emitted,
                            handleSave, ackRemoteness, handleSelect
  <2> QED
    BY <2>1, <2>2
<1> QED
  BY <1>5, <1>6, <1>7, <1>8, <1>9 DEF DeskNext

LEMMA DeskStutters == Desk /\ UNCHANGED <<vars, deskVars>> => Desk'
<1> SUFFICES ASSUME Desk, UNCHANGED <<vars, deskVars>>
             PROVE  Desk'
  OBVIOUS
<1>1. /\ UNCHANGED <<mapVars, historyVars, inbox, issued>>
      /\ UNCHANGED <<hostAble, interfaceVars, itemVars, fileVars, menu, crashed, slips>>
  BY DEF vars, deskVars
<1>2. Stored' /\ SavedFollows'
  BY <1>1 DEF Desk, Stored, SavedFollows, mapVars, historyVars, fileVars
<1>3. Arranged' /\ Shows' /\ Flagged'
  BY <1>1 DEF Desk, Arranged, Shows, Flagged, interfaceVars
<1>4. Itemised'
  BY <1>1 DEF Desk, Itemised, interfaceVars, itemVars
<1>5. Lively'
  BY <1>1 DEF Desk, Lively, Known, Forgot, interfaceVars, itemVars
<1> QED
  BY <1>2, <1>3, <1>4, <1>5 DEF Desk

LEMMA DeskInvariant == DeskSpec => []Desk
<1>1. Desk /\ [DeskNext]_<<vars, deskVars>> => Desk'
  BY DeskKept, DeskStutters
<1> QED
  BY <1>1, DeskStarts, PTL DEF DeskSpec

\* A map that is told to have no changes is the one in its file, whatever was done,
\* undone, loaded and saved, but for the two slips named (MapHint::_setDirty and the
\* save of a map that waits for its reset).
THEOREM SavedMapIsTold == DeskSpec => []DirtyTellsUnsaved
<1>1. Desk => DirtyTellsUnsaved
  <2> SUFFICES ASSUME Desk, hostAble, ~dirty, ~ResetUnderway, slips \cap {"saving", "session"} = {}
               PROVE  saved = atoms
    BY DEF DirtyTellsUnsaved
  <2>1. NoReset(inbox)
    BY DEF NoReset, ResetUnderway, IsReset
  <2> QED
    BY <2>1 DEF Desk, SavedFollows
<1> QED
  BY <1>1, DeskInvariant, PTL

\* Selection, ownership, the table of items by atom and the walk name items that are
\* there, in any order of the map's requests and of the user's gestures.
THEOREM ItemsAlwaysExist == DeskSpec => []ItemsNamedExist
<1>1. Desk => ItemsNamedExist
  <2> SUFFICES ASSUME Desk
               PROVE  ItemsNamedExist
    OBVIOUS
  <2>1. \A x \in view.shown : isGItem(x)
    <3>1. view.shown \subseteq GItem
      BY DEF Desk, Shows
    <3> QED
      BY <3>1 DEF GItem, isGItem
  <2>2. view.selected \cup view.owned \subseteq view.shown /\ view.tool \in MapTool
    BY DEF Desk, Shows
  <2>3. DeskTypeOK
    BY <2>1, <2>2 DEF DeskTypeOK, Desk, Stored, Arranged, Itemised, Flagged, Crash, Slip
  <2>4. WalkedItemsExist
    BY DEF Desk, Shows, WalkedItemsExist
  <2> QED
    BY <2>3, <2>4 DEF ItemsNamedExist
<1> QED
  BY <1>1, DeskInvariant, PTL

\* An item that was deleted is reached by the map thread only when a placeholder was
\* forgotten, and by the walking helper only when it was let go.
THEOREM LostItemsAlwaysHaveCauses == DeskSpec => []LostItemsHaveCauses
<1>1. DeskInit => LostItemsHaveCauses
  BY DEF DeskInit, LostItemsHaveCauses
<1>2. Desk /\ LostItemsHaveCauses /\ [DeskNext]_<<vars, deskVars>> => LostItemsHaveCauses'
  <2>1. LostItemsHaveCauses /\ UNCHANGED <<vars, deskVars>> => LostItemsHaveCauses'
    BY DEF LostItemsHaveCauses, deskVars
  <2> QED
    BY <2>1, LossesHaveCauses
<1> QED
  BY <1>1, <1>2, DeskInvariant, PTL DEF DeskSpec
=============================================================================
