CONSTANTS
  Max = 3
  f1 = f1
  f2 = f2
  f4 = f4
  f3 = f3
  Fds = {f1, f2, f3}
  StdFds = {}
  NoFd = NoFd
  INT_MAX = 2
  Limits = {}
  BindProtocols = {"IPC"}
  Blocking = {FALSE}
  EarlySend = FALSE
  Faults = {"nonblock"}
SPECIFICATION Spec
INVARIANTS
  NoFdLeak
  WriteInterest
  HalfCloseHasData
  ConnectedIsEstablished
  EventsReachOwner
  OutputFits
  BatchTellsTruth
PROPERTIES
  PollReports
  SlotsInOrder
SYMMETRY Symmetry
