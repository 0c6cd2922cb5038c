------------------------------ MODULE MCSheets ------------------------------
EXTENDS SheetDesk

CONSTANTS x, y

Sheets ==
  (1 :> character(0, <<x :> 2, NoBag>>)) @@ (2 :> NewCharacter)
=============================================================================
