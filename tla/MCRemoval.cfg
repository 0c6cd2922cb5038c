SPECIFICATION Spec
CONSTANTS
  c1 = c1
  c2 = c2
  c3 = c3
  i1 = i1
  i2 = i2
  i3 = i3
  a1 = a1
  a2 = a2
  Client = {c1, c3}
  Loopback = {c1}
  Outdated = {}
  Character = {1}
  NoCharacter = NoCharacter
  NoUser = NoUser
  MaxSheet = 0
  AtomId = {i1, i2}
  Values = {0, 1}
  Assets = {a1}
  NoAsset = NoAsset
  NoAtom = NoAtom
  Keep = Keep
  StoredAssets = {a1}
  FiledAssets = {a1}
  Incarnates <- TwoHostsOnePlayer
  StartMaps <- HostHasObject
  Changes <- RemovalAmongSecrets
  Moves <- NoMoves
  Leavers = {c1}
  MaxChanges = 2
  HostWaits = TRUE
INVARIANT UsersMirrorServer
CHECK_DEADLOCK FALSE
