---------------------------- MODULE AtomsStorage ----------------------------
(***************************************************************************)
(* AtomsStorage (src/shared/hints): the map held by a peer, the ids it     *)
(* hides from players, the table of ownable atoms and the undo/redo        *)
(* history.                                                                *)
(*                                                                         *)
(* The storage lives in the map thread. Everything it does is an event of  *)
(* that thread's queue: an alteration (AlterationHandler emits it, the     *)
(* acknowledger is connected to it with a queued connection), or a call of *)
(* undo, redo, duplicateAtoms or loadRPZMap that the interface posts with  *)
(* QMetaObject::invokeMethod. undo and redo do not touch the map: they     *)
(* move the history index and queue one more alteration, which waits       *)
(* behind whatever was posted meanwhile. loadRPZMap does touch the map, at *)
(* once, and queues the reset that everything kept with the map waits for. *)
(***************************************************************************)
EXTENDS MapPayloads, Sequences

CONSTANTS
  Templates,        \* atoms that a user may add
  UpdateChoices,    \* the updates a user may make
  MaxPosted,        \* bound: events posted by users and the network
  UserWaits,        \* TRUE: nothing is posted while the queue is not empty
  NoEntry           \* an id that has no entry in the table of ownable atoms

ASSUME TemplatesAssumption == Templates \subseteq Atom
ASSUME UpdateChoicesAssumption == UpdateChoices \subseteq Updates
ASSUME MaxPostedAssumption == MaxPosted \in Nat
ASSUME UserWaitsAssumption == UserWaits \in BOOLEAN
ASSUME NoEntryAssumption == NoEntry \notin Values
ASSUME NatValuesAssumption == Values \subseteq Nat

VARIABLES
  atoms,                  \* MapDatabase::_atomsById
  assetHashes,            \* MapDatabase::_assetHashes
  restrictedAtomIds,      \* _restrictedAtomIds
  ownableAtomIdsByOwner,  \* _ownableAtomIdsByOwner
  redoHistory,            \* _redoHistory, the oldest payload first
  undoHistory,            \* _undoHistory
  payloadHistoryIndex,    \* _payloadHistoryIndex: entries undone
  latestDuplication,      \* _latestDuplication
  duplicationCount,       \* _duplicationCount
  inbox,                  \* event queue of the map thread
  issued,                 \* atom ids given out so far (SnowFlake::nextId)
  posted,                 \* events posted so far, bounded by MaxPosted
  versions,               \* history variable: the atoms before and after each entry
  replaced                \* history variable: no reset since a map was loaded

mapVars == <<atoms, assetHashes, restrictedAtomIds, ownableAtomIdsByOwner, versions,
             replaced>>
historyVars == <<redoHistory, undoHistory, payloadHistoryIndex>>
duplicationVars == <<latestDuplication, duplicationCount>>
vars == <<mapVars, historyVars, duplicationVars, inbox, issued, posted>>

\* What a map is loaded with: a file has the hashes MapDatabase kept.
Loaded == {p \in Payload : p.type = "Reset" /\ p.assets \subseteq Assets}

Event == [op : {"undo", "redo"}]
           \cup [op : {"alter"}, payload : Payload]
           \cup [op : {"load"}, payload : Loaded]
           \cup [op : {"duplicate"}, ids : SUBSET AtomId]

alter(p) == [op |-> "alter", payload |-> p]

TypeOK ==
  /\ atoms \in Maps
  /\ assetHashes \in SUBSET Assets
  /\ restrictedAtomIds \in SUBSET AtomId
  /\ ownableAtomIdsByOwner \in [AtomId -> Values \cup {NoEntry}]
  /\ redoHistory \in Seq(Payload)
  /\ undoHistory \in Seq(Payload)
  /\ payloadHistoryIndex \in Nat
  /\ latestDuplication \in SUBSET AtomId
  /\ duplicationCount \in Nat
  /\ inbox \in Seq(Event)
  /\ issued \in SUBSET AtomId
  /\ posted \in 0..MaxPosted
  /\ versions \in Seq(Maps)
  /\ replaced \in BOOLEAN

Init ==
  /\ atoms = NoAtoms
  /\ assetHashes = {}
  /\ restrictedAtomIds = {}
  /\ ownableAtomIdsByOwner = [i \in AtomId |-> NoEntry]
  /\ redoHistory = <<>>
  /\ undoHistory = <<>>
  /\ payloadHistoryIndex = 0
  /\ latestDuplication = {}
  /\ duplicationCount = 0
  /\ inbox = <<>>
  /\ issued = {}
  /\ posted = 0
  /\ versions = <<NoAtoms>>
  /\ replaced = FALSE

---------------------------------------------------------------------------
(* Events posted to the map thread *)

Post(e) ==
  /\ posted < MaxPosted
  /\ UserWaits => inbox = <<>>
  /\ posted' = posted + 1
  /\ inbox' = Append(inbox, e)
  /\ UNCHANGED <<mapVars, historyVars, duplicationVars>>

\* A user, here or at another peer, draws an atom.
PostAdded ==
  \E i \in AtomId \ issued, a \in Templates :
    /\ Post(alter(AddedPayload([NoAtoms EXCEPT ![i] = a])))
    /\ issued' = issued \cup {i}

\* The ids may be stale: their atoms may be gone when the event is handled.
PostRemoved ==
  \E ids \in (SUBSET issued) \ {{}} :
    /\ Post(alter(RemovedPayload(ids)))
    /\ UNCHANGED issued

PostMetadataChanged ==
  \E ids \in (SUBSET issued) \ {{}}, u \in UpdateChoices :
    /\ Post(alter(MetadataChangedPayload(ids, u)))
    /\ UNCHANGED issued

\* A map is posted: an empty one, the one at hand, saved or given other
\* parameters, or one with an atom that was never seen.
PostMap(op) ==
  \/ /\ \/ Post([op |-> op, payload |-> ResetPayload(NoAtoms, {})])
        \/ Post([op |-> op, payload |-> ResetPayload(atoms, assetHashes)])
     /\ UNCHANGED issued
  \/ \E i \in AtomId \ issued, a \in Templates :
       LET m == [NoAtoms EXCEPT ![i] = a] IN
         /\ Post([op |-> op, payload |-> ResetPayload(m, HashesOf(m))])
         /\ issued' = issued \cup {i}

\* A whole map is received, or the map of the interface is given other
\* parameters.
PostReset == PostMap("alter")

\* A file is opened or created.
PostLoad == PostMap("load")

PostUndo == Post([op |-> "undo"]) /\ UNCHANGED issued
PostRedo == Post([op |-> "redo"]) /\ UNCHANGED issued

\* The clipboard may hold ids of atoms that are gone.
PostDuplicate ==
  \E ids \in (SUBSET issued) \ {{}} :
    /\ Post([op |-> "duplicate", ids |-> ids])
    /\ UNCHANGED issued

---------------------------------------------------------------------------
(* Handling an alteration *)

\* Entries that stay when an alteration follows undone ones.
KeptEntries == Len(redoHistory) - payloadHistoryIndex

\* Mutant: the entries that were undone stay in the history.
registerPayloadWithoutCut(p) ==
  IF p.timeline \/ ~undoRedoAllowed(p)
  THEN UNCHANGED historyVars
  ELSE /\ redoHistory' = Append(redoHistory, p)
       /\ undoHistory' = Append(undoHistory, generateUndoPayload(atoms, p))
       /\ payloadHistoryIndex' = 0

registerPayloadForHistory(p) ==
  IF p.timeline \/ ~undoRedoAllowed(p)
  THEN UNCHANGED historyVars
  ELSE /\ redoHistory' = Append(SubSeq(redoHistory, 1, KeptEntries), p)
       /\ undoHistory' = Append(SubSeq(undoHistory, 1, KeptEntries),
                                generateUndoPayload(atoms, p))
       /\ payloadHistoryIndex' = 0

\* Mutant: a reset forgets the index.
clearStacksOnly ==
  /\ redoHistory' = <<>>
  /\ undoHistory' = <<>>
  /\ UNCHANGED payloadHistoryIndex

clearHistory ==
  /\ redoHistory' = <<>>
  /\ undoHistory' = <<>>
  /\ payloadHistoryIndex' = 0

\* Mutant: a change of owner is not followed.
ownerUpdatedNever(p, i) == ownableAtomIdsByOwner[i]

ownerUpdated(p, i) ==
  IF p.updates[i]["CharacterId"] # Keep THEN p.updates[i]["CharacterId"]
  ELSE ownableAtomIdsByOwner[i]

\* The table follows the atoms added and removed, and every update that names
\* the CharacterId of an atom of the map.
OwnersAfter(p) ==
  LET wielded(table) ==
        [i \in AtomId |-> IF isAtomOwnable(p.atoms[i])
                          THEN p.atoms[i].meta["CharacterId"] ELSE table[i]]
  IN CASE p.type = "Reset" -> wielded([i \in AtomId |-> NoEntry])
       [] p.type = "Added" -> wielded(ownableAtomIdsByOwner)
       [] p.type = "Removed" ->
            [i \in AtomId |-> IF i \in p.ids /\ atoms[i] # NoAtom
                              THEN NoEntry ELSE ownableAtomIdsByOwner[i]]
       [] OTHER ->
            [i \in AtomId |->
               IF atoms[i] = NoAtom THEN ownableAtomIdsByOwner[i] ELSE ownerUpdated(p, i)]

\* History variable: the map of the last reset, then the map that each registered
\* alteration made; those that were undone go with the entries that are cut.
versionsAfter(p) ==
  CASE p.type = "Reset" -> <<p.atoms>>
    [] p.type # "Reset" /\ p.timeline -> versions
    [] OTHER -> Append(SubSeq(versions, 1, KeptEntries + 1), AtomsAfter(atoms, p))

handleAlterationRequest(p) ==
  /\ inbox # <<>>
  /\ Head(inbox) = alter(p)
  /\ inbox' = Tail(inbox)
  /\ IF p.type = "Reset" THEN clearHistory ELSE registerPayloadForHistory(p)
  /\ atoms' = AtomsAfter(atoms, p)
  /\ assetHashes' = HashesAfter(assetHashes, atoms, p)
  /\ restrictedAtomIds' = RestrictedAfter(restrictedAtomIds, atoms, p)
  /\ ownableAtomIdsByOwner' = OwnersAfter(p)
  /\ versions' = versionsAfter(p)
  /\ replaced' = (replaced /\ p.type # "Reset")
  /\ UNCHANGED <<duplicationVars, issued, posted>>

HandleAlteration ==
  /\ inbox # <<>>
  /\ Head(inbox).op = "alter"
  /\ handleAlterationRequest(Head(inbox).payload)

\* The map gives way at once; the rest is left to the reset that is queued.
loadRPZMap ==
  /\ inbox # <<>>
  /\ Head(inbox).op = "load"
  /\ LET p == Head(inbox).payload IN
       /\ atoms' = p.atoms
       /\ assetHashes' = p.assets
       /\ inbox' = Append(Tail(inbox), alter(p))
  /\ replaced' = TRUE
  /\ UNCHANGED <<restrictedAtomIds, ownableAtomIdsByOwner, versions, historyVars,
                 duplicationVars, issued, posted>>

---------------------------------------------------------------------------
(* undo, redo, duplicateAtoms *)

canUndo == payloadHistoryIndex < Len(undoHistory)
canRedo == payloadHistoryIndex > 0 /\ payloadHistoryIndex <= Len(redoHistory)

undo ==
  /\ inbox # <<>>
  /\ Head(inbox).op = "undo"
  /\ IF canUndo
     THEN /\ payloadHistoryIndex' = payloadHistoryIndex + 1
          /\ inbox' = Append(Tail(inbox),
               alter(tagAsFromTimeline(undoHistory[Len(undoHistory) - payloadHistoryIndex])))
     ELSE /\ inbox' = Tail(inbox)
          /\ UNCHANGED payloadHistoryIndex
  /\ UNCHANGED <<mapVars, redoHistory, undoHistory, duplicationVars, issued, posted>>

redo ==
  /\ inbox # <<>>
  /\ Head(inbox).op = "redo"
  /\ IF canRedo
     THEN /\ payloadHistoryIndex' = payloadHistoryIndex - 1
          /\ inbox' = Append(Tail(inbox),
               alter(tagAsFromTimeline(redoHistory[Len(redoHistory) - payloadHistoryIndex + 1])))
     ELSE /\ inbox' = Tail(inbox)
          /\ UNCHANGED payloadHistoryIndex
  /\ UNCHANGED <<mapVars, redoHistory, undoHistory, duplicationVars, issued, posted>>

\* The copy of an atom: one tile further for each copy made in a row.
Copy(a, count) == [a EXCEPT !.meta["Position"] = @ + count]

\* Every copyable atom left of the clipboard gets a copy under a fresh id. The
\* selection that is queued next changes nothing in the storage.
duplicateAtoms ==
  /\ inbox # <<>>
  /\ Head(inbox).op = "duplicate"
  /\ LET ids == Head(inbox).ids
         count == IF latestDuplication = ids THEN duplicationCount + 1 ELSE 1
         copied == {i \in ids : isCopyable(atoms[i])}
     IN /\ latestDuplication' = ids
        /\ duplicationCount' = count
        /\ \A i \in copied : atoms[i].meta["Position"] + count \in Values  \* bound
        /\ \E fresh \in [copied -> AtomId \ issued] :
             /\ \A i, j \in copied : fresh[i] = fresh[j] => i = j
             /\ issued' = issued \cup {fresh[i] : i \in copied}
             /\ inbox' =
                  IF copied = {} THEN Tail(inbox)
                  ELSE Append(Tail(inbox), alter(AddedPayload(
                         [n \in AtomId |->
                            IF \E i \in copied : fresh[i] = n
                            THEN Copy(atoms[CHOOSE i \in copied : fresh[i] = n], count)
                            ELSE NoAtom])))
  /\ UNCHANGED <<mapVars, historyVars, posted>>

Next ==
  \/ PostAdded \/ PostRemoved \/ PostMetadataChanged \/ PostReset \/ PostLoad
  \/ PostUndo \/ PostRedo \/ PostDuplicate
  \/ HandleAlteration \/ loadRPZMap \/ undo \/ redo \/ duplicateAtoms

Spec == Init /\ [][Next]_vars

---------------------------------------------------------------------------
(* Properties *)

\* The two stacks of the history stay in step and the index points into them,
\* so that neither a cut branch pops an empty stack nor undo or redo reads
\* past an end, whatever the order in which alterations, undos, redos and
\* resets reach the map thread; each entry is between two versions.
HistoryAligned ==
  /\ Len(undoHistory) = Len(redoHistory)
  /\ payloadHistoryIndex <= Len(redoHistory)
  /\ Len(versions) = Len(redoHistory) + 1

currentVersion == versions[KeptEntries + 1]

\* With nothing left to handle the map is the current version, from which the
\* undo stack leads all the way back to the last reset and the redo stack forth
\* again: each entry, applied to the version on its one side, gives that on the
\* other, whatever mix of additions, removals, copies and changes of several
\* atoms, stale ids included, filled the history.
UndoLeadsBack ==
  /\ inbox = <<>> => atoms = currentVersion
  /\ \A k \in 1..Len(redoHistory) :
       /\ AtomsAfter(versions[k + 1], undoHistory[k]) = versions[k]
       /\ AtomsAfter(versions[k], redoHistory[k]) = versions[k + 1]

History == INSTANCE Timeline WITH
  versions <- versions,
  cursor <- KeptEntries + 1,
  shown <- IF replaced THEN currentVersion ELSE atoms

\* Undo and redo walk through the versions of the map and nothing else: every
\* step of the storage is a step of Timeline, or leaves it as it was. A map that
\* is loaded counts as shown once its reset is handled.
HistoryIsATimeline == History!Spec

\* The ids withheld from players are exactly those of the event atoms on the
\* map: a removal, its undo, a duplicate or a reset never leaves an event atom
\* unprotected, nor the id of one that is gone. A map that was loaded gets them
\* with its reset at the latest, whatever is handled in between.
RestrictedExact == ~replaced => restrictedAtomIds = RestrictedIdsOf(atoms)

\* The table of ownable atoms tells the owner that each player or NPC atom
\* carries, and knows no atom that is not on the map: undoing a removal or a
\* change of owner brings both back together. A map that was loaded gets its
\* table with its reset.
OwnerTableExact ==
  ~replaced => \A i \in AtomId :
    /\ isAtomOwnable(atoms[i]) =>
         ownableAtomIdsByOwner[i] = atoms[i].meta["CharacterId"]
    /\ atoms[i] = NoAtom => ownableAtomIdsByOwner[i] = NoEntry
=============================================================================
