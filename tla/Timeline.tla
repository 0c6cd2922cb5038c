------------------------------ MODULE Timeline ------------------------------
(***************************************************************************)
(* What an undo/redo history promises, told without payloads: the versions *)
(* of a document since it was loaded, a cursor on the current one, and the *)
(* version on show, which follows the cursor with a delay.                 *)
(***************************************************************************)
EXTENDS Naturals, Sequences

VARIABLES
  versions,   \* the versions that undo and redo can reach, the oldest first
  cursor,     \* the current one
  shown       \* the document on show

vars == <<versions, cursor, shown>>

Init ==
  /\ Len(versions) = 1
  /\ cursor = 1
  /\ shown = versions[1]

\* A change is made to the current version: it follows it, and the versions
\* that had been undone are forgotten.
Change ==
  /\ shown = versions[cursor]
  /\ Len(versions') = cursor + 1
  /\ SubSeq(versions', 1, cursor) = SubSeq(versions, 1, cursor)
  /\ cursor' = cursor + 1
  /\ shown' = versions'[cursor']

Undo == cursor > 1 /\ cursor' = cursor - 1 /\ UNCHANGED <<versions, shown>>

Redo == cursor < Len(versions) /\ cursor' = cursor + 1 /\ UNCHANGED <<versions, shown>>

\* The document on show catches up with the cursor.
Show == shown' = versions[cursor] /\ UNCHANGED <<versions, cursor>>

\* Another document is loaded.
Load ==
  /\ Len(versions') = 1
  /\ cursor' = 1
  /\ shown' = versions'[1]

Next == Change \/ Undo \/ Redo \/ Show \/ Load

Spec == Init /\ [][Next]_vars
=============================================================================
