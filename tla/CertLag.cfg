SPECIFICATION Spec
CONSTANTS
  A = A
  B = B
  C = C
  None = None
  Nodes = {A, B}
  TTL = 10
  Renew = 4
  Skew <- FastA
  MaxLost = 0
  MaxLag = 2
  MaxTries = 2
INVARIANT Exclusive
