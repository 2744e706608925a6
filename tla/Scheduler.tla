------------------------------ MODULE Scheduler ------------------------------
(***************************************************************************)
(* The leader's desired-state loop for one deployment with one service:    *)
(* scheduler.Reconcile, the rollout state machine it drives, the slice of  *)
(* the raft FSM both write, the Deploy API, the rebalancer's move and the  *)
(* hosts' runtime that turns desired replicas into observed ones.          *)
(*                                                                         *)
(* A reconcile pass is not atomic.  It reads the typed stores, then waits  *)
(* for one raft apply after another (abort, plan update, final batch);     *)
(* everything else may run while it waits, and what it read stays as it    *)
(* was.  So the pass is a program counter pc, the command it is waiting    *)
(* for, and the snapshot its later decisions use.                          *)
(*                                                                         *)
(* Time is abstract: a plan is `expired' when StepTimeout has passed since *)
(* last_step_at, an observation is "stale" when last_health_at is older    *)
(* than HealthFreshness.                                                   *)
(***************************************************************************)
EXTENDS Placement

CONSTANTS MaxReplicas,  \* replica indexes are 0 .. MaxReplicas - 1
          Images,       \* container images
          Specs,        \* what else the spec hash covers (env, mounts, ...)
          Manifests,    \* the manifests Deploy.Apply may submit
          None,         \* absence of a row
          MaxCalls,     \* bound: Deploy.Apply and Deploy.Rollback calls
          MaxMoves,     \* bound: rebalancer moves
          MaxFaults     \* bound: failed calls, leader changes, crashes, node flaps

Idx == 0 .. MaxReplicas - 1

(* counter.ReplicaID and counter.ReplicaIDForHost                           *)
ReplicaID(k) == <<"index", k>>
ReplicaIDForHost(h) == <<"host", h>>
Ids == {ReplicaID(k) : k \in Idx} \cup {ReplicaIDForHost(h) : h \in Hosts}

(* The resolved service of a revision; mode "absent" is a revision that no  *)
(* longer declares the service.                                             *)
Manifest == [image : Images, spec : Specs, replicas : 1 .. MaxReplicas,
             mode : Modes \cup {"absent"}, hosts : SUBSET Hosts]
Replica  == [host : Hosts, image : Images, spec : Specs]
Plan     == [state : {"in_progress", "completed", "aborted"},
             target : Nat, step : Nat, total : Nat, expired : BOOLEAN]
Deployment == [applied : Nat, previous : Nat, status : {"active", "pending"},
               m : Manifest]
(* What a pass reads.                                                       *)
Snapshot == [dep : Deployment, cur : [Ids -> Replica \cup {None}],
             ready : SUBSET Hosts]
Container == [current : BOOLEAN, healthy : BOOLEAN]
(* "running" and "stale" are RUNNING with fresh and with old health.        *)
Observation == {"none", "other", "running", "stale"}

ASSUME ConstantsAssumption ==
    /\ MaxReplicas \in Nat \ {0}
    /\ Manifests \subseteq Manifest
    /\ SpreadHash \in [Idx -> Nat]
    /\ MaxCalls \in Nat /\ MaxMoves \in Nat /\ MaxFaults \in Nat

ASSUME NoneAssumption ==
    /\ None \notin Replica
    /\ None \notin Plan
    /\ None \notin Deployment
    /\ None \notin Container
    /\ None \notin Snapshot

VARIABLES
    dep,       \* state.Deployments row
    plan,      \* state.RolloutPlans row
    desired,   \* state.ReplicasDesired
    observed,  \* state.ReplicasObserved
    ready,     \* nodes with status READY
    ctr,       \* containers per replica and host; `current' iff its raft
               \* index label equals the desired row's
    pc,        \* where the leader's reconcile pass is
    cmd,       \* the command the pass has submitted and waits for
    snap,      \* what the pass read
    step,      \* rolloutStep
    move,      \* the rebalancer's pending commitMove
    calls, moves, faults

fsm     == <<dep, plan, desired, observed, ctr>>
pass    == <<pc, cmd, snap, step>>
bounds  == <<calls, moves, faults>>
vars    == <<dep, plan, desired, observed, ready, ctr, pc, cmd, snap, step,
             move, calls, moves, faults>>

(* A raft command, reduced to its effects on the rows above: a plan update, *)
(* a rollback target (0: none), a status update to PENDING, replica upserts *)
(* and removes.                                                             *)
Command == [plan : Plan \cup {None}, rollback : Nat, pending : BOOLEAN,
            upserts : [Ids -> Replica \cup {None}], removes : SUBSET Ids]

NoCommand == [plan |-> None, rollback |-> 0, pending |-> FALSE,
              upserts |-> [id \in Ids |-> None], removes |-> {}]

PlanUpdate(p) == [NoCommand EXCEPT !.plan = p]

Present(rows) == {id \in Ids : rows[id] # None}

-----------------------------------------------------------------------------
(* The FSM                                                                  *)

(* RolloutPlanUpdate, DeploymentRollback, DeploymentStatusUpdate,           *)
(* ReplicaDesiredUpsert and ReplicaDesiredRemove, in one batch.  A removal  *)
(* also drops the observed row; an upsert stamps a new raft index, so a     *)
(* container started for the previous row is no longer current.             *)
FSMApply(c) ==
    /\ plan' = IF c.plan # None THEN c.plan ELSE plan
    /\ dep' = IF dep = None THEN None
              ELSE [dep EXCEPT
                      !.applied  = IF c.rollback > 0 THEN c.rollback ELSE @,
                      !.previous = IF c.rollback > 0 THEN dep.applied ELSE @,
                      !.status   = IF c.pending THEN "pending" ELSE @]
    /\ desired' = [id \in Ids |-> IF id \in c.removes THEN None
                                  ELSE IF c.upserts[id] # None THEN c.upserts[id]
                                  ELSE desired[id]]
    /\ observed' = [id \in Ids |-> IF id \in c.removes THEN "none"
                                   ELSE observed[id]]
    /\ ctr' = [id \in Ids |-> [h \in Hosts |->
                 IF ctr[id][h] # None /\ c.upserts[id] # None
                 THEN [ctr[id][h] EXCEPT !.current = FALSE] ELSE ctr[id][h]]]

-----------------------------------------------------------------------------
(* The Deploy API (controlplane/grpc/deploy.go) and its FSM commands        *)

DeployApply(m) ==
    /\ calls < MaxCalls
    /\ calls' = calls + 1
    /\ dep' = [applied  |-> IF dep = None THEN 1 ELSE dep.applied + 1,
               previous |-> IF dep = None THEN 0 ELSE dep.applied,
               status   |-> "active",
               m        |-> m]
    /\ plan' = IF m.mode = "absent" THEN None ELSE plan
    /\ UNCHANGED <<desired, observed, ready, ctr, pass, move, moves, faults>>

DeployRollback ==
    /\ calls < MaxCalls
    /\ calls' = calls + 1
    /\ dep # None /\ dep.previous # 0
    /\ dep' = [dep EXCEPT !.applied = dep.previous, !.previous = dep.applied]
    /\ UNCHANGED <<plan, desired, observed, ready, ctr, pass, move, moves, faults>>

DeployDelete ==
    /\ dep # None
    /\ dep' = None
    /\ plan' = None
    /\ desired' = [id \in Ids |-> None]
    /\ observed' = [id \in Ids |-> IF desired[id] # None THEN "none"
                                   ELSE observed[id]]
    /\ UNCHANGED <<ready, ctr, pass, move, bounds>>

-----------------------------------------------------------------------------
(* scheduler.reconcileService: from what the pass read to the final batch   *)

Counts(cur) ==
    [h \in Hosts |-> Cardinality({id \in Present(cur) : cur[id].host = h})]

Eligible(s) == EligibleHosts(s.dep.m, s.ready)

(* The desired set: host-keyed ids in GLOBAL mode, positional ids otherwise.*)
Wanted(s) ==
    LET m == s.dep.m
        E == Eligible(s)
    IN  CASE m.mode = "absent" -> {}
          [] m.mode = "global" ->
               {[id |-> ReplicaIDForHost(h), host |-> h, index |-> Rank(E, h)]
                   : h \in E}
          [] OTHER ->
               {[id |-> ReplicaID(i), index |-> i,
                 host |-> PlaceReplica(m, E, i, Counts(s.cur))]
                   : i \in 0 .. m.replicas - 1}

TotalSteps(s) == IF s.dep.m.mode = "global" THEN Cardinality(Eligible(s))
                 ELSE s.dep.m.replicas

CannotPlace(s) == /\ s.dep.m.mode \notin {"global", "absent"}
                  /\ PlacementError(s.dep.m, Eligible(s))

(* isRollingImageChange; an image is never "".                              *)
IsRollingImageChange(cur, image) ==
    /\ Present(cur) # {}
    /\ \/ \E id \in Present(cur) : cur[id].image = image
       \/ \A id \in Present(cur) : cur[id].image # image

(* stickyExistingHost: an existing replica stays where it is while its host *)
(* is eligible (and pinned, in HOSTS mode).                                 *)
StickyExistingHost(s, id) ==
    /\ s.cur[id] # None
    /\ s.cur[id].host \in Eligible(s)
    /\ s.dep.m.mode = "hosts" => s.cur[id].host \in s.dep.m.hosts

DesiredReplica(s, d) ==
    [host  |-> IF StickyExistingHost(s, d.id) THEN s.cur[d.id].host ELSE d.host,
     image |-> s.dep.m.image,
     spec  |-> s.dep.m.spec]

(* The drift gate and, for image changes in place, the rollout gate.        *)

Drifted(s, d) == s.cur[d.id] # DesiredReplica(s, d)

ImageChange(s, d) ==
    /\ IsRollingImageChange(s.cur, s.dep.m.image)
    /\ s.cur[d.id] # None
    /\ s.cur[d.id].host = DesiredReplica(s, d).host
    /\ s.cur[d.id].image # s.dep.m.image

(* GateOpen without the step check of a driven rollout.                     *)
GateAlwaysOpen(s, d, k) == TRUE

GateOpen(s, d, k) ==
    ImageChange(s, d) =>
       IF k >= 0 THEN d.index = k
       ELSE \A e \in Wanted(s) : ImageChange(s, e) => d.index <= e.index

BatchUpserts(s, k) ==
    LET up == {d \in Wanted(s) : Drifted(s, d) /\ GateOpen(s, d, k)}
    IN  [id \in Ids |-> IF \E d \in up : d.id = id
                        THEN DesiredReplica(s, CHOOSE d \in up : d.id = id)
                        ELSE None]

BatchRemoves(s) == Present(s.cur) \ {d.id : d \in Wanted(s)}

ReconcileBatch(s, k) ==
    IF CannotPlace(s) THEN [NoCommand EXCEPT !.pending = TRUE]
    ELSE [NoCommand EXCEPT !.upserts = BatchUpserts(s, k),
                           !.removes = BatchRemoves(s)]

-----------------------------------------------------------------------------
(* scheduler.Reconcile, driveRollout and the rollout package                *)

InProgress == plan # None /\ plan.state = "in_progress"

(* TimedOut that skips the plans of deployments that are gone.              *)
TimedOutLive == dep # None /\ InProgress /\ plan.expired

TimedOut == InProgress /\ plan.expired

Submit(c, at) == pc' = at /\ cmd' = c

GoIdle == pc' = "idle" /\ cmd' = NoCommand /\ snap' = None /\ step' = -1

(* Hand over the pass's batch, or end the pass when there is nothing to do. *)
Conclude(s, k) ==
    IF ReconcileBatch(s, k) = NoCommand THEN GoIdle
    ELSE /\ Submit(ReconcileBatch(s, k), "commit")
         /\ snap' = s
         /\ step' = k

(* CheckTimeouts -> Abort: plan ABORTED and the rollback in one batch.      *)
AbortTimedOut ==
    /\ pc = "idle" /\ TimedOut
    /\ Submit([NoCommand EXCEPT
                 !.plan = [plan EXCEPT !.state = "aborted", !.expired = FALSE],
                 !.rollback = IF dep = None THEN 0 ELSE dep.previous], "abort")
    /\ UNCHANGED <<fsm, ready, snap, step, move, bounds>>

(* Reading the stores: at the start of the pass, or after a failed abort.   *)
Reading == pc = "read" \/ (pc = "idle" /\ ~TimedOut)
View == [dep |-> dep, cur |-> desired, ready |-> ready]
Drives == /\ dep # None
          /\ dep.m.mode # "absent"
          /\ ~CannotPlace(View)
          /\ IsRollingImageChange(desired, dep.m.image)

NoDeployment ==
    /\ pc = "read" /\ dep = None
    /\ GoIdle
    /\ UNCHANGED <<fsm, ready, move, bounds>>

ReconcileDirect ==
    /\ Reading /\ dep # None /\ ~Drives
    /\ Conclude(View, -1)
    /\ UNCHANGED <<fsm, ready, move, bounds>>

(* A terminal plan for the applied revision is not restarted.               *)
RolloutTerminal ==
    /\ Reading /\ Drives
    /\ plan # None /\ ~InProgress /\ plan.target = dep.applied
    /\ Conclude(View, -1)
    /\ UNCHANGED <<fsm, ready, move, bounds>>

(* RolloutStart that does not compare the plan's revision.                  *)
RolloutRestart ==
    /\ Reading /\ Drives
    /\ ~InProgress
    /\ Submit(PlanUpdate([state |-> "in_progress", target |-> dep.applied,
                          step |-> 0, total |-> TotalSteps(View),
                          expired |-> FALSE]), "start")
    /\ snap' = View
    /\ UNCHANGED <<fsm, ready, step, move, bounds>>

RolloutStart ==
    /\ Reading /\ Drives
    /\ ~InProgress
    /\ plan # None => plan.target # dep.applied
    /\ Submit(PlanUpdate([state |-> "in_progress", target |-> dep.applied,
                          step |-> 0, total |-> TotalSteps(View),
                          expired |-> FALSE]), "start")
    /\ snap' = View
    /\ UNCHANGED <<fsm, ready, step, move, bounds>>

CompletePlan ==
    Submit(PlanUpdate([plan EXCEPT !.state = "completed", !.expired = FALSE]),
           "complete")

RolloutComplete ==
    /\ Reading /\ Drives /\ InProgress
    /\ plan.step >= plan.total
    /\ CompletePlan
    /\ snap' = View
    /\ UNCHANGED <<fsm, ready, step, move, bounds>>

(* StepReady: the replica the step names is RUNNING with fresh health.      *)
StepReady == /\ ReplicaID(plan.step) \in Ids
             /\ observed[ReplicaID(plan.step)] = "running"
NotRunning == Cardinality({id \in Present(desired) : observed[id] = "other"})

RolloutWait ==
    /\ Reading /\ Drives /\ InProgress
    /\ plan.step < plan.total
    /\ ~StepReady
    /\ Conclude(View, plan.step)
    /\ UNCHANGED <<fsm, ready, move, bounds>>

(* AdvanceStep; with more than one replica not running it only appends an   *)
(* audit event (auditAndHold).                                              *)
RolloutAdvance ==
    /\ Reading /\ Drives /\ InProgress
    /\ plan.step < plan.total
    /\ StepReady
    /\ Submit(IF NotRunning > 1 THEN NoCommand
              ELSE PlanUpdate([plan EXCEPT !.step = @ + 1, !.expired = FALSE]),
              "advance")
    /\ snap' = View
    /\ UNCHANGED <<fsm, ready, step, move, bounds>>

(* driveRollout reads the plan again after AdvanceStep.                     *)
RolloutReread ==
    /\ pc = "reread"
    /\ CASE plan = None             -> Conclude(snap, -1)
         [] plan # None /\ plan.step >= plan.total ->
                CompletePlan /\ UNCHANGED <<snap, step>>
         [] plan # None /\ plan.step < plan.total  -> Conclude(snap, plan.step)
    /\ UNCHANGED <<fsm, ready, move, bounds>>

(* What the pass does once the apply it waits for has returned.             *)
AfterApply(ok) ==
    CASE pc = "abort"    -> IF ok THEN GoIdle
                            ELSE Submit(NoCommand, "read") /\ UNCHANGED <<snap, step>>
      [] pc = "start"    -> Conclude(snap, IF ok THEN 0 ELSE -1)
      [] pc = "advance"  -> IF ok THEN Submit(NoCommand, "reread") /\ UNCHANGED <<snap, step>>
                            ELSE Conclude(snap, -1)
      [] pc = "complete" -> Conclude(snap, -1)
      [] pc = "commit"   -> GoIdle

Waiting == pc \in {"abort", "start", "advance", "complete", "commit"}

ApplyCommits ==
    /\ Waiting
    /\ FSMApply(cmd)
    /\ AfterApply(TRUE)
    /\ UNCHANGED <<ready, move, bounds>>

Fault == faults < MaxFaults /\ faults' = faults + 1

(* raft.Apply returns an error, whether or not the entry was committed.     *)
ApplyFails ==
    /\ Waiting /\ Fault
    /\ FSMApply(cmd) \/ UNCHANGED fsm
    /\ AfterApply(FALSE)
    /\ UNCHANGED <<ready, move, calls, moves>>

(* Another node becomes leader; its loops start from the stores alone.      *)
LeaderChange ==
    /\ Fault
    /\ pc # "idle" \/ move # None
    /\ FSMApply(cmd) \/ UNCHANGED fsm
    /\ GoIdle
    /\ move' = None
    /\ UNCHANGED <<ready, calls, moves>>

-----------------------------------------------------------------------------
(* rebalance.Cycle: the move it picks is committed from its own snapshot of *)
(* the row, after the audit appends of the candidates it skipped.           *)

AntiAffinityOK(dst) ==
    dep # None =>
       CASE dep.m.mode = "hosts"  -> dst \in dep.m.hosts
         [] dep.m.mode = "spread" -> \A r \in Present(desired) : desired[r].host # dst
         [] dep.m.mode = "global" -> FALSE
         [] OTHER                 -> TRUE

PickMove(id, dst) ==
    /\ move = None /\ moves < MaxMoves
    /\ desired[id] # None /\ desired[id].host # dst
    /\ AntiAffinityOK(dst)
    /\ moves' = moves + 1
    /\ move' = [id |-> id, rep |-> [desired[id] EXCEPT !.host = dst]]
    /\ UNCHANGED <<fsm, ready, pass, calls, faults>>

CommitMove ==
    /\ move # None
    /\ FSMApply([NoCommand EXCEPT !.upserts[move.id] = move.rep])
    /\ move' = None
    /\ UNCHANGED <<ready, pass, bounds>>

-----------------------------------------------------------------------------
(* The hosts: runtime/reconciler, runtime/lifecycle and runtime/health      *)

Serves(id, h) == ctr[id][h] # None /\ ctr[id][h].healthy

DesiredHere(id, h) == desired[id] # None /\ desired[id].host = h

(* runStart refuses when the deployment or the service is gone.             *)
CanStart(id, h) == DesiredHere(id, h) /\ dep # None /\ dep.m.mode # "absent"

(* stopReplica or orphanSweep for a replica that is not desired here;       *)
(* lifecycle.Start for a container whose raft index label does not match.   *)
StopContainer(id, h) ==
    /\ ctr[id][h] # None
    /\ ~DesiredHere(id, h) \/ (CanStart(id, h) /\ ~ctr[id][h].current)
    /\ ctr' = [ctr EXCEPT ![id][h] = None]
    /\ UNCHANGED <<dep, plan, desired, observed, ready, pass, move, bounds>>

StartContainer(id, h) ==
    /\ CanStart(id, h) /\ ctr[id][h] = None
    /\ ctr' = [ctr EXCEPT ![id][h] = [current |-> TRUE, healthy |-> FALSE]]
    /\ UNCHANGED <<dep, plan, desired, observed, ready, pass, move, bounds>>

(* observePull, or the watcher inspecting a container that was replaced.    *)
ReportStarting(id, h) ==
    /\ CanStart(id, h) /\ ctr[id][h] = None
    /\ observed[id] # "other"
    /\ observed' = [observed EXCEPT ![id] = "other"]
    /\ UNCHANGED <<dep, plan, desired, ctr, ready, pass, move, bounds>>

BecomeHealthy(id, h) ==
    /\ ctr[id][h] # None /\ ~ctr[id][h].healthy
    /\ ctr' = [ctr EXCEPT ![id][h].healthy = TRUE]
    /\ UNCHANGED <<dep, plan, desired, observed, ready, pass, move, bounds>>

(* One poll of the health watcher, committed without looking at whether     *)
(* the replica is still desired, here or at all.                            *)
Report(id, h) ==
    /\ ctr[id][h] # None
    /\ LET o == IF ctr[id][h].healthy THEN "running" ELSE "other"
       IN  /\ observed[id] # o
           /\ observed' = [observed EXCEPT ![id] = o]
    /\ UNCHANGED <<dep, plan, desired, ctr, ready, pass, move, bounds>>

Crash(id, h) ==
    /\ Fault
    /\ Serves(id, h)
    /\ ctr' = [ctr EXCEPT ![id][h].healthy = FALSE]
    /\ UNCHANGED <<dep, plan, desired, observed, ready, pass, move, calls, moves>>

-----------------------------------------------------------------------------
(* Time and nodes                                                           *)

(* StepTimeout passes since last_step_at.  The leader advances a step that  *)
(* is ready long before that, unless something is wrong with it.            *)
StepTimeoutPasses ==
    /\ InProgress /\ ~plan.expired
    /\ IF Drives /\ StepReady /\ NotRunning <= 1 THEN Fault ELSE UNCHANGED faults
    /\ plan' = [plan EXCEPT !.expired = TRUE]
    /\ UNCHANGED <<dep, desired, observed, ctr, ready, pass, move, calls, moves>>

HealthGoesStale(id) ==
    /\ Fault
    /\ observed[id] = "running"
    /\ observed' = [observed EXCEPT ![id] = "stale"]
    /\ UNCHANGED <<dep, plan, desired, ctr, ready, pass, move, calls, moves>>

NodeStatusChange(h) ==
    /\ Fault
    /\ ready' = IF h \in ready THEN ready \ {h} ELSE ready \cup {h}
    /\ UNCHANGED <<fsm, pass, move, calls, moves>>

-----------------------------------------------------------------------------

Init ==
    /\ dep = None /\ plan = None
    /\ desired = [id \in Ids |-> None]
    /\ observed = [id \in Ids |-> "none"]
    /\ ready = Hosts
    /\ ctr = [id \in Ids |-> [h \in Hosts |-> None]]
    /\ pc = "idle" /\ cmd = NoCommand /\ snap = None /\ step = -1
    /\ move = None
    /\ calls = 0 /\ moves = 0 /\ faults = 0

PassStep ==
    \/ AbortTimedOut \/ NoDeployment \/ ReconcileDirect
    \/ RolloutTerminal \/ RolloutStart \/ RolloutComplete
    \/ RolloutWait \/ RolloutAdvance \/ RolloutReread
    \/ ApplyCommits

RuntimeStep(id, h) ==
    \/ StopContainer(id, h) \/ StartContainer(id, h) \/ ReportStarting(id, h)
    \/ BecomeHealthy(id, h) \/ Report(id, h)

Next ==
    \/ \E m \in Manifests : DeployApply(m)
    \/ DeployRollback \/ DeployDelete
    \/ PassStep \/ ApplyFails \/ LeaderChange
    \/ \E id \in Ids, h \in Hosts :
          PickMove(id, h) \/ RuntimeStep(id, h) \/ Crash(id, h)
    \/ CommitMove
    \/ StepTimeoutPasses
    \/ \E id \in Ids : HealthGoesStale(id)
    \/ \E h \in Hosts : NodeStatusChange(h)

Spec == Init /\ [][Next]_vars

(* The safety tick keeps the pass going, raft applies return, time passes.  *)
LeaderFairness ==
    /\ WF_vars(PassStep)
    /\ WF_vars(CommitMove)
    /\ WF_vars(StepTimeoutPasses /\ UNCHANGED faults)

(* Where a replica can be: a host-keyed one on its host, if some manifest   *)
(* is GLOBAL; a positional one anywhere.                                    *)
Places == {ReplicaID(k) : k \in Idx} \X Hosts
          \cup {<<ReplicaIDForHost(h), h>> :
                  h \in {x \in Hosts : \E m \in Manifests : m.mode = "global"}}

(* The runtime's 30s sweep and the watcher's polls keep every host going.   *)
LoopSpec ==
    /\ Spec /\ LeaderFairness
    /\ \A p \in Places :
          /\ WF_vars(StopContainer(p[1], p[2]) \/ StartContainer(p[1], p[2]))
          /\ WF_vars(Report(p[1], p[2]))

(* In addition, a container that is left alone becomes healthy.             *)
FairSpec == LoopSpec /\ \A p \in Places : WF_vars(BecomeHealthy(p[1], p[2]))

-----------------------------------------------------------------------------
(* Properties                                                               *)

(* Every row, the command in flight and what the pass remembers are well    *)
(* formed: reconcileService never submits a half-built replica, and Abort   *)
(* never a revision below 0, whatever happens while the pass waits.         *)
TypeOK ==
    /\ dep \in Deployment \cup {None}
    /\ plan \in Plan \cup {None}
    /\ desired \in [Ids -> Replica \cup {None}]
    /\ observed \in [Ids -> Observation]
    /\ ready \in SUBSET Hosts
    /\ ctr \in [Ids -> [Hosts -> Container \cup {None}]]
    /\ pc \in {"idle", "abort", "read", "start", "advance", "reread",
               "complete", "commit"}
    /\ cmd \in Command
    /\ snap \in Snapshot \cup {None}
    /\ step \in Int /\ step >= -1
    /\ move \in [id : Ids, rep : Replica] \cup {None}
    /\ calls \in 0 .. MaxCalls /\ moves \in 0 .. MaxMoves
    /\ faults \in 0 .. MaxFaults

-----------------------------------------------------------------------------
(* The gate                                                                 *)

(* Replica id keeps its host and gets another image: its container is       *)
(* replaced where it runs.                                                  *)
FlipsInPlace(id) ==
    /\ desired[id] # None /\ desired'[id] # None
    /\ desired[id].host = desired'[id].host
    /\ desired[id].image # desired'[id].image

(* No step replaces the image of two replicas in place: reconcileService's  *)
(* gate holds although the batch is computed from what the pass read before *)
(* its raft applies.                                                        *)
OneFlipPerCommit ==
    [][\A i, j \in Ids : FlipsInPlace(i) /\ FlipsInPlace(j) => i = j]_vars

(* The rollout plan only moves the way the rollout package says: a plan in  *)
(* progress keeps its target and its length, advances one step at a time    *)
(* and completes only after its last step; a finished plan is only replaced *)
(* by a fresh one, for another revision.                                    *)
PlanMoves(p, q) ==
    IF p.state = "in_progress"
    THEN /\ q.target = p.target /\ q.total = p.total
         /\ q.step \in {p.step, p.step + 1} /\ q.step <= q.total
         /\ q.state = "completed" => q.step = q.total
    ELSE \/ q = p
         \/ q.state = "in_progress" /\ q.step = 0 /\ q.target # p.target

(* The plan moves only so, whatever Reconcile, aborts and calls interleave. *)
PlanForward == [][plan # None /\ plan' # None => PlanMoves(plan, plan')]_vars

(* The replicas of the manifest.                                            *)
WantedIds ==
    CASE dep.m.mode = "absent" -> {}
      [] dep.m.mode = "global" -> {ReplicaIDForHost(h) : h \in ready}
      [] OTHER                 -> {ReplicaID(i) : i \in 0 .. dep.m.replicas - 1}

Settled ==
    dep # None /\ ~CannotPlace(View) =>
       /\ Present(desired) = WantedIds
       /\ \A id \in WantedIds :
             /\ desired[id].image = dep.m.image
             /\ desired[id].spec = dep.m.spec
             /\ desired[id].host \in EligibleHosts(dep.m, ready)

-----------------------------------------------------------------------------
(* Claims of the documentation and comments that the code does not keep     *)

(* scheduling.md: "at no step is more than one replica in the service       *)
(* simultaneously not-running, excluding the one being replaced".  Counted  *)
(* are only the replicas that have the new image already, at a step that    *)
(* the plan in progress allows.                                             *)
RollKeepsServing ==
    [][\A i \in Ids : pc = "commit" /\ step >= 0 /\ FlipsInPlace(i) =>
         Cardinality({j \in Present(desired) \ {i} :
                        /\ desired[j].image = desired'[i].image
                        /\ \A h \in Hosts : ~Serves(j, h)}) <= 1]_vars

(* driveRollout: a terminal plan is not restarted, "otherwise CheckTimeouts *)
(* -> Abort would just re-fire Start on the next reconcile in an infinite   *)
(* loop".                                                                   *)
AbortIsFinal == <>[]~InProgress

(* reconcileService: for GLOBAL services the "index stays deterministic for *)
(* display/rollout ordering", and a rollout reaches every index.            *)
GlobalRollsOut == <>[]Settled

(* rollback-delete.md: delete "stops + removes every replica of the         *)
(* deployment".                                                             *)
DeleteRemovesReplicas ==
    (dep = None) ~> (dep # None \/ Present(desired) = {})
=============================================================================
