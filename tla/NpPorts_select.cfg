CONSTANTS
  Max = 2
  Fds = {0, 2, 5}
  StdFds = {0}
  FD_SETSIZE = 5
  Backends = {"select"}
  Faults = {FALSE}
SPECIFICATION Spec
INVARIANTS
  SelectKnowsClosed
