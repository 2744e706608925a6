--------------------------- MODULE MCReplicatedFSM ---------------------------
(* Small instances of ReplicatedFSM for TLC.                                *)
EXTENDS ReplicatedFSM

Deploy(d, rev, services, routes, ports) ==
    [op |-> "DeploymentApply", dep |-> d, rev |-> rev, services |-> services,
     routes |-> routes, ports |-> ports]

(* What the control plane writes, in nine entries.  Commands on different *)
(* kinds of rows commute, so an entry may carry one of each.                *)
Writes == {
    <<Deploy("a", 1, {"a/web"}, {"x.io"}, {80}),
      [op |-> "ClusterInit", cluster |-> 1, host |-> "h1"]>>,
    <<Deploy("a", 2, {}, {}, {80}),
      [op |-> "CertLock", name |-> "l", lessee |-> "h1", now |-> 0, until |-> 2]>>,
    <<Deploy("b", 1, {"b/db"}, {"x.io"}, {}),
      [op |-> "CertLock", name |-> "l", lessee |-> "h2", now |-> 1, until |-> 3]>>,
    <<[op |-> "DeploymentRollback", dep |-> "a", rev |-> 1],
      [op |-> "CertUnlock", name |-> "l"],
      [op |-> "SubnetAllocate", dep |-> "a", net |-> "n", host |-> "h2", cidr |-> 0],
      [op |-> "ReplicaDesiredRemove", id |-> "a/web/0"],
      [op |-> "TokenIssue", identity |-> "i"],
      [op |-> "JoinTokenIssue", secret |-> "s"],
      [op |-> "CertBlobRemove", key |-> "k"],
      [op |-> "RegistryCredentialRemove", key |-> "r"]>>,
    <<[op |-> "DeploymentStatusUpdate", dep |-> "a", status |-> "pending"],
      [op |-> "SubnetFree", dep |-> "a", net |-> "", host |-> ""],
      [op |-> "TokenRevoke", identity |-> "i"],
      [op |-> "JoinTokenConsume", secret |-> "s"],
      [op |-> "ReplicaCounterIncrement", service |-> "a/web"],
      [op |-> "AuditAppend"]>>,
    <<[op |-> "DeploymentDelete", dep |-> "a"],
      [op |-> "NodeJoin", host |-> "h2", pubkey |-> 1]>>,
    <<[op |-> "ReplicaDesiredUpsert", id |-> "a/web/0", dep |-> "a", host |-> "h1"],
      [op |-> "RolloutPlanUpdate", dep |-> "a", service |-> "a/web", step |-> 0],
      [op |-> "NodeUpdateSelf", host |-> "h2", pubkey |-> 2],
      [op |-> "NodeStatusUpdate", host |-> "h2", status |-> "isolation_unavailable"]>>,
    <<[op |-> "ReplicaObservedUpdate", id |-> "a/web/0", state |-> "failed"],
      [op |-> "RestartCounterUpdate", id |-> "a/web/0", action |-> "increment"],
      [op |-> "ReplicaCommandIssue"],
      [op |-> "NodeRemove", host |-> "h2"]>>,
    <<[op |-> "RestartCounterUpdate", id |-> "a/web/0", action |-> "reset"],
      [op |-> "CertBlobUpsert", key |-> "k", v |-> 1],
      [op |-> "ChallengeTokenStore", key |-> "t", v |-> 1],
      [op |-> "RegistryCredentialUpsert", key |-> "r", v |-> 1]>> }
=============================================================================
