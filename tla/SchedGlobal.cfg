SPECIFICATION FairSpec
CONSTANTS
  None = None
  ImgA = ImgA
  ImgB = ImgB
  EnvA = EnvA
  EnvB = EnvB
  Hosts = {1, 2}
  MaxReplicas = 1
  Images = {ImgA, ImgB}
  Specs = {EnvA, EnvB}
  SpreadHash <- MCHash
  Manifests <- Daemonset
  MaxCalls = 2
  MaxMoves = 0
  MaxFaults = 0
PROPERTY GlobalRollsOut
CHECK_DEADLOCK FALSE
