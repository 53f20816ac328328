CONSTANTS
  a = a
  b = b
  NUL = NUL
  Bytes = {a, b}
  Seps <- MCSeps
  StarOne <- MCStarOne
  Nil = Nil
  MaxNode = 2
  MaxSize = 5
  AnyDetach = FALSE
SPECIFICATION Spec
INVARIANTS
  SizeIsContent
PROPERTIES
  ImplementsQueue
  PopsCount
  MissesOnlySplit
