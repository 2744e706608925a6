SPECIFICATION SuiteSpec
CONSTANTS
  None = None
  ImgA = ImgA
  ImgB = ImgB
  EnvA = EnvA
  EnvB = EnvB
  Hosts = {1}
  MaxReplicas = 2
  Images = {ImgA, ImgB}
  Specs = {EnvA, EnvB}
  SpreadHash <- MCHash
  Manifests <- ImageBump
  MaxCalls = 3
  MaxMoves = 0
  MaxFaults = 0
INVARIANTS TypesOK SubnetsKept SubmitOnce   GlobalOnce ViewsTrue 
PROPERTIES OneFlipPerCommit PlanForward
SYMMETRY ImageSymmetry
CHECK_DEADLOCK FALSE
