SPECIFICATION FairSpec
CONSTANTS
  None = None
  ImgA = ImgA
  ImgB = ImgB
  EnvA = EnvA
  EnvB = EnvB
  Hosts = {1}
  MaxReplicas = 1
  Images = {ImgA, ImgB}
  Specs = {EnvA, EnvB}
  SpreadHash <- MCHash
  Manifests <- ImageBump
  MaxCalls = 1
  MaxMoves = 0
  MaxFaults = 0
PROPERTY DeleteRemovesReplicas
CHECK_DEADLOCK FALSE
