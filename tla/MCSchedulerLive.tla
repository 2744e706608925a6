-------------------------- MODULE MCSchedulerLive --------------------------
(* Small instances of Scheduler for one run of TLC about what the scheduler *)
(* reaches in the end.  In "churn" a pinned service meets one move of the   *)
(* rebalancer and one fault; in "renaming" a service changes between        *)
(* positional and host-keyed ids.                                           *)
EXTENDS MCScheduler

VARIABLE which

PinnedOrRenamed == Pinned \cup Renaming

LiveInit == which \in {"churn", "renaming"} /\ Init

(* Which manifests are applied, moves and faults are nobody's obligation.   *)
LiveNext ==
    /\ Next /\ UNCHANGED which
    /\ which = "churn" => (dep' # None => dep'.m \in Pinned)
    /\ which = "renaming" => (dep' # None => dep'.m \in Renaming) /\ moves' = 0 /\ faults' = 0

(* FairSpec; LoopSpec when renaming: a container may stay unhealthy.        *)
LiveSpec ==
    /\ LiveInit /\ [][LiveNext]_<<which, vars>> /\ LeaderFairness
    /\ \A p \in Places :
          /\ WF_vars(StopContainer(p[1], p[2]) \/ StartContainer(p[1], p[2]))
          /\ WF_vars(Report(p[1], p[2]))
          /\ WF_vars(which = "churn" /\ BecomeHealthy(p[1], p[2]))

RenamingEnds == []<>(which = "renaming" => ~InProgress)

ChurnConverges == <>[](which = "churn" => Settled /\ ~InProgress)

(* No rollout stays in progress, even when replicas are renamed and never   *)
(* get healthy; and after a move of the rebalancer and a fault the replicas *)
(* settle on what the manifest says.                                        *)
SchedulerSettles == RenamingEnds /\ ChurnConverges
=============================================================================
