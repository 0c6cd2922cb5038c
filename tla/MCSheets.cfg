SPECIFICATION Spec
CONSTANTS
  x = x
  y = y
  Item = {x, y}
  Local = {1, 2, 3}
  Remote = {8, 9}
  StartSheets <- Sheets
  MaxActs = 4
  MaxNews = 2
INVARIANT EditsKept OthersSeeSheet PickerListsPlayers PointersHold
CHECK_DEADLOCK FALSE
