SPECIFICATION SuiteSpec
CONSTANTS
  None = None
  Buffer = 1
  Replicas = {"web", "db", "api"}
  Deps <- Waits
  Probed = {"db"}
  HealthyCount = 2
  MaxLog = 2
  MaxTasks = 2
  MaxFaults = 2
  MaxCrashes = 1
INVARIANTS TypesOK DependentsWait 
PROPERTIES RuntimeConverges FollowIsTail 
CHECK_DEADLOCK FALSE
