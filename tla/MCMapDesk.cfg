SPECIFICATION DeskSpec
CONSTANTS
  token = token
  object = object
  fresh = fresh
  picture = picture
  AtomId = {token, object, fresh}
  Values = {0, 1}
  Assets = {picture}
  NoAsset = NoAsset
  NoAtom = NoAtom
  Keep = Keep
  NoEntry = NoEntry
  NoGI = NoGI
  InitiallyStored = {}
  InitialMap <- MCInitialMap
  MyCharacter <- MCMyCharacter
  Templates <- MCTemplates
  UpdateChoices <- MCUpdateChoices
  MaxPosted = 3
  UserWaits = FALSE
CHECK_DEADLOCK FALSE
INVARIANT TreeShowsMap CrashesHaveCauses SceneShowsMap ItemsNamedExist DirtyTellsUnsaved
