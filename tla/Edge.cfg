SPECIFICATION MCSpec
CONSTANTS
  A = A
  B = B
  C = C
  Web = Web
  Db = Db
  None = None
  Nodes = {A, B}
  TTL = 10
  Renew = 4
  Skew <- FastA
  MaxLost = 1
  MaxLag = 0
  MaxTries = 2
INVARIANTS TypesOK Exclusive ReloadIsolates  EdgeFollows
PROPERTIES UnlockFreesOwn LockFreesUp 
CHECK_DEADLOCK FALSE
