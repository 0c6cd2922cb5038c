SPECIFICATION ApplicationSpec
CONSTANTS
  ChunkSize = 2
  Messages <- MCMessages
  MaxSent = 2
  MaxQueued = 2
  Socket = {s1, s2}
  Lengths = {1, 2}
  MaxLogged = 3
  MaxChanges = 3
  MaxClients = 2
  NullClient = NullClient
  Video = {a, b}
  None = None
  MaxActs = 4
  MaxEvents = 1
  MaxSessions = 2
  MaxMessages = 2
  MaxUnheard = 2
  Path = {p1, p2}
  StartPath = p1
  MaxMapActs = 6
INVARIANT InterfaceTells MusicFollowsPlaylist ChatFollowsSession FilesKeepMaps
PROPERTY WireIsFIFO
CHECK_DEADLOCK FALSE
