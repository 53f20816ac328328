CONSTANTS
  cmax = 3
  c1 = c1
  c2 = c2
  c3 = c3
  Cos = {c1, c2, c3}
  MaxConns = 3
  MaxUnits = 2
  Faults = {"sockerr"}
  NoEntry = NoEntry
  NoBuffer = NoBuffer
SPECIFICATION Spec
INVARIANTS
  DisconnectFindsSocket
