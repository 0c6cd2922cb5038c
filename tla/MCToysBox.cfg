SPECIFICATION Spec
CONSTANTS
  h1 = h1
  h2 = h2
  Map = Map
  Old = Old
  New = New
  object = object
  downloaded = downloaded
  Hash = {h1, h2}
  Letter = {Map, Old, New, object, downloaded}
  Container <- Containers
  Downloaded = downloaded
  Movable <- Arranged
  NewNames <- Generated
  GivenNames <- Given
  NoItem = NoItem
  MaxItems = 5
  MaxDepth = 3
  MaxSelected = 2
  MaxOperations = 6
INVARIANT TreeShowsDatabase AssetsStored
CHECK_DEADLOCK FALSE
