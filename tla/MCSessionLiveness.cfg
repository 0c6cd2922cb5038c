SPECIFICATION FairSpec
CONSTANTS
  c1 = c1
  c2 = c2
  c3 = c3
  i1 = i1
  i2 = i2
  i3 = i3
  a1 = a1
  a2 = a2
  Client = {c1, c2, c3}
  Loopback = {c1, c2}
  Outdated = {c2}
  Character = {1, 2}
  NoCharacter = NoCharacter
  NoUser = NoUser
  MaxSheet = 1
  AtomId = {i1}
  Values = {0}
  Assets = {}
  NoAsset = NoAsset
  NoAtom = NoAtom
  Keep = Keep
  StoredAssets = {}
  FiledAssets = {}
  Incarnates <- OwnCharacters
  StartMaps <- NoMap
  Changes <- NoChanges
  Moves <- NoMoves
  Leavers = {c1, c2, c3}
  MaxChanges = 0
  HostWaits = TRUE
PROPERTY HandshakeAnswered LeaversForgotten
CHECK_DEADLOCK FALSE
