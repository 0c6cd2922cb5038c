SPECIFICATION Spec
CONSTANTS
  i1 = i1
  i2 = i2
  i3 = i3
  a1 = a1
  AtomId = {i1, i2}
  Values = {0, 1}
  Assets = {a1}
  NoAsset = NoAsset
  NoAtom = NoAtom
  Keep = Keep
  NoEntry = NoEntry
  Templates <- MCTemplates
  UpdateChoices <- MCUpdateChoices
  MaxPosted = 4
  UserWaits = FALSE
INVARIANT TimelineReplays
CHECK_DEADLOCK FALSE
