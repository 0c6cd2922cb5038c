--------------------------- MODULE MCAtomsHistory ---------------------------
(***************************************************************************)
(* Model checking of the undo/redo history of AtomsStorage against         *)
(* Timeline. Two instances: one whose users wait for the map to settle     *)
(* before they undo or redo, and one where events are posted at any time.  *)
(***************************************************************************)
EXTENDS AtomsStorage, SequencesExt

CONSTANTS i1, i2, i3, a1

MCTemplates ==
  {[type |-> "Player", meta |-> [q \in Params |-> 0], asset |-> NoAsset],
   [type |-> "Event", meta |-> [q \in Params |-> 0], asset |-> NoAsset],
   [type |-> "Object", meta |-> [q \in Params |-> 0], asset |-> a1]}

MCUpdateChoices == {[NoUpdate EXCEPT !["Position"] = 1],
                    [NoUpdate EXCEPT !["CharacterId"] = 1]}

IdSymmetry == Permutations(AtomId)

\* The atoms after the first k entries of the history.
Replay(k) == FoldLeft(AtomsAfter, versions[1], SubSeq(redoHistory, 1, k))

\* With nothing left to handle, the map is the replay, over the atoms of the
\* last reset, of the entries of the history that are not undone.
TimelineReplays == inbox = <<>> => atoms = Replay(KeptEntries)
=============================================================================
