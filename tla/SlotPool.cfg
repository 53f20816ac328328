\* Four slots and descriptors that overlap the slot numbers, so that a
\* descriptor mistaken for a link would be followed.
CONSTANTS
  Max = 4
  Fds = {0, 1, 2, 3}
SPECIFICATION Spec
INVARIANTS
  ListInv
  TailIsLast
PROPERTY ImplementsQueue
