SPECIFICATION LiveSpec
CONSTANTS
  None = None
  ImgA = ImgA
  ImgB = ImgB
  EnvA = EnvA
  EnvB = EnvB
  Hosts = {1, 2}
  MaxReplicas = 1
  Images = {ImgA, ImgB}
  Specs = {EnvA, EnvB}
  SpreadHash <- MCHash
  Manifests <- PinnedOrRenamed
  MaxCalls = 2
  MaxMoves = 1
  MaxFaults = 1
PROPERTIES SchedulerSettles
CHECK_DEADLOCK FALSE
