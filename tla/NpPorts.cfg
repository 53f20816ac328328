CONSTANTS
  Max = 2
  Fds = {0, 2, 3, 5}
  StdFds = {0}
  FD_SETSIZE = 5
  Backends = {"epoll", "kqueue", "select"}
  Faults = {FALSE, TRUE}
SPECIFICATION Spec
INVARIANTS
  SelectTable
  RegisteredAsAsked
  EventsReachOwner
  Granted
PROPERTIES
  ImplementsMultiplexer

CONSTRAINT Bounded
