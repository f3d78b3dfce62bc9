CONSTANTS
  n1 = n1
  n2 = n2
  Newcomers = {n1, n2}
  MaxVersion = 1
SPECIFICATION HandshakeSpec
SYMMETRY NewcomerSymmetry
INVARIANT RequestsAnswered
CHECK_DEADLOCK FALSE
