CONSTANTS
  Max = 2
  f1 = f1
  f2 = f2
  f4 = f4
  f3 = f3
  Fds = {f1, f2}
  StdFds = {}
  NoFd = NoFd
  INT_MAX = 2
  Limits = {1}
  BindProtocols = {"UDP"}
  Blocking = {FALSE}
  EarlySend = FALSE
  Faults = {}
SPECIFICATION FairSpec
PROPERTIES
  HalfCloseEnds
  ConnectResolves
