SPECIFICATION SuiteSpec
CONSTANTS
  None = None
  Hosts <- MCHosts
  Founder = 2
  MaxVoters = 7
  Tokens = {1}
  MaxRemovals = 2
  MaxCrashes = 2
INVARIANTS TypesOK 
PROPERTIES ClusterFormedOnce AdmissionKeepsQuorum VoterSetSettles  
CHECK_DEADLOCK FALSE
