CONSTANTS
  Protocols = {"TCP", "IPC"}
  INT_MAX = 3
  MaxSize = 2
  MaxMsgs = 3
  Limits = {1, 2}
  c1 = c1
  c2 = c2
  Cfds = {c1, c2}
  NoFd = NoFd
  RBUFFER_SZ = 1
  RECVMSG_MAXSIZE = 4
  ReadLimits = {2}
SPECIFICATION ConnectionSpec
INVARIANTS
  ConnectionTypeOK
  NothingLost
  Accounting
  EofIsReal
PROPERTIES
  LimitRespected
  ImplementsStream
  EndToEnd
  ReadsBounded
VIEW View
SYMMETRY Symmetry
