CONSTANTS
  a = a
  b = b
  NUL = NUL
  Bytes = {a, b}
  Seps <- MCSeps
  StarOne <- MCStarOne
  Nil = Nil
  MaxNode = 2
  MaxSize = 3
  AnyDetach = FALSE
SPECIFICATION Spec
PROPERTIES
  LengthByteRead
