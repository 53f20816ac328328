CONSTANTS
  Max = 2
  f1 = f1
  f2 = f2
  f3 = f3
  f4 = f4
  Fds = {f1, f2, f3, f4}
  StdFds = {f1}
  NoFd = NoFd
  INT_MAX = 1
  Limits = {}
  BindProtocols = {"TCP", "UDP"}
  Blocking = {FALSE, TRUE}
  EarlySend = TRUE
  Faults = {"nonblock", "epoll"}
SPECIFICATION Spec
INVARIANTS
  FreeIsInvalid
  SingleOwner
  InterestRegistered
  ConnectingWatched
SYMMETRY StdSymmetry
