SPECIFICATION ToolsSpec
CONSTANTS
  brush = brush
  object = object
  Toy = {brush, object}
  TypeOf <- MCTypeOf
  NoToy = NoToy
  MaxInput = 5
  MaxLoads = 1
  Width = 3
  StoredFog = {1}
  StoredPlace = 2
  Painted = {1, 2}
  MaxActs = 3
  User = {drawer, watcher}
  Drawers = {drawer}
  RateFloor = 1
  MaxDrawings = 1
  MaxPoints = 3
  MaxComings = 3
INVARIANT DrawnOnce ToolAndGhostFollowToy ItemsFollowMapAndFog FogIsThePainted DrawingsSeenThenGone
CHECK_DEADLOCK FALSE
