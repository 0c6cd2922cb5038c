SPECIFICATION SpecJoined
CONSTANTS
  gm = gm
  pl = pl
  Process <- MCProcess
  Loopback <- MCLoopback
  ServerProcesses = {gm}
  Alone = Alone
  MaxConnections = 3
  MaxActs = 2
  Track = {t1}
  NoTrack = NoTrack
  Document = {d1}
CHECK_DEADLOCK FALSE
INVARIANT WhispersStayPrivate LogsAgree AudioFollowsHost DocumentsListed ObserversSurvive
