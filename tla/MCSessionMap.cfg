SPECIFICATION PlannedSpec
CONSTANTS
  c1 = c1
  c2 = c2
  c3 = c3
  i1 = i1
  i2 = i2
  i3 = i3
  a1 = a1
  a2 = a2
  Client = {c1, c2, c3}
  Loopback = {c1, c2}
  Outdated = {}
  Character = {1}
  NoCharacter = NoCharacter
  NoUser = NoUser
  MaxSheet = 0
  AtomId = {i1, i2, i3}
  Values = {0, 1}
  Assets = {a1, a2}
  NoAsset = NoAsset
  NoAtom = NoAtom
  Keep = Keep
  StoredAssets = {a1, a2}
  FiledAssets = {a1}
  Incarnates <- TwoHostsOnePlayer
  StartMaps <- PlannedMaps
  Changes <- AllChanges
  Moves <- PlayerMovesToken
  Leavers = {c1}
  MaxChanges = 3
  HostWaits = TRUE
INVARIANT ServerMirrorsHost UsersMirrorServer AssetsAtHand RestrictedStayWithHost
CHECK_DEADLOCK FALSE
