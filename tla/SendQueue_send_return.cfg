CONSTANTS
  Protocols = {"TCP"}
  INT_MAX = 7
  MaxSize = 2
  MaxMsgs = 2
  Limits = {}
  c1 = c1
  c2 = c2
  Cfds = {}
  NoFd = NoFd
SPECIFICATION Spec
INVARIANTS
  ReturnsSendSize
