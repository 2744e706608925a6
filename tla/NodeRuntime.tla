---------------------------- MODULE NodeRuntime ----------------------------
(* The per-host runtime: the reconciler's loop over the ReplicasDesired     *)
(* watch, the asynchronous starts it dispatches, the containers they make   *)
(* in docker, and the health watchers that report on them.                  *)
EXTENDS Broker, Integers, FiniteSets, FiniteSetsExt

CONSTANTS
    Replicas,        \* replica ids
    Deps,            \* required depends_on entries: [of, on, condition]
    Probed,          \* replicas with a healthcheck
    HealthyCount,    \* HealthyConsecutiveCount
    MaxLog,          \* bound: changes of the desired set
    MaxTasks,        \* bound: start goroutines alive at once
    MaxFaults,       \* bound: failures of docker, the registry or the leader
    MaxCrashes       \* bound: stops of the daemon

VARIABLES
    log,             \* committed changes of ReplicasDesired: [id, host]
    applied,         \* how much of it this node's FSM holds; -1: not even the cluster row
    observed,        \* the ReplicasObserved rows
    events,          \* the reconciler's ReplicasDesired subscription
    nudge,           \* a ReplicasObserved event that triggers a resync waits
    loop,            \* where Run is
    tasks,           \* the start goroutines
    containers,      \* docker's containers by replica id (the name is the id)
    watchers,        \* the health watchers by replica id
    stray,           \* watcher goroutines no map entry leads to any more
    ran,             \* replicas whose container has run (history)
    faults, crashes

taskVars == <<tasks, nudge>>
dockerVars == <<containers, ran>>
watchVars == <<watchers, stray>>
raftVars == <<log, applied>>
vars == <<log, applied, observed, events, nudge, loop, tasks, containers,
          watchers, stray, ran, faults, crashes>>

Hosts == {"self", "other", "none"}
Satisfying == {"RUNNING", "DEGRADED"}
ReplicaStates == {"none", "PENDING", "PULLING", "RUNNING", "DEGRADED", "FAILED"}

Idle == [pc |-> "idle", ids |-> {}]
Down == [pc |-> "down", ids |-> {}]

(* A row of ReplicasDesired after n entries; its raft index is the entry's. *)
DesiredAt(n, id) ==
    LET of == {i \in 1 .. n : log[i].id = id}
    IN IF of = {} \/ log[Max(of)].host = "none" THEN None
       ELSE [host |-> log[Max(of)].host, rev |-> Max(of)]

Desired(id) == DesiredAt(applied, id)
Here(row) == row # None /\ row.host = "self"
Local == {id \in Replicas : Here(Desired(id))}
Wanted(id) == DesiredAt(Len(log), id)

InitWith(failed) ==
    /\ log = <<>> /\ applied = 0
    /\ observed = [id \in Replicas |-> "none"]
    /\ events = <<>> /\ nudge = FALSE /\ loop = Idle
    /\ tasks = {}
    /\ containers = [id \in Replicas |-> None]
    /\ watchers = [id \in Replicas |-> None]
    /\ stray = {} /\ ran = {} /\ faults = failed /\ crashes = 0

Init == InitWith(0)

Up == loop.pc # "down"
Fault == faults < MaxFaults /\ faults' = faults + 1

(****************************************************************************)
(* Raft, as the runtime sees it.                                            *)
(****************************************************************************)
Schedule(id, host) ==
    /\ Len(log) < MaxLog
    /\ host = "none" => Wanted(id) # None
    /\ log' = Append(log, [id |-> id, host |-> host])
    /\ UNCHANGED <<applied, observed, events, taskVars, loop, dockerVars, watchVars, faults, crashes>>

(* The FSM applies the next entry; a removal takes the observation along.   *)
FSMApply ==
    /\ Up /\ applied < Len(log)
    /\ applied' = applied + 1
    /\ IF applied = -1 THEN UNCHANGED <<events, observed>>
       ELSE LET id == log[applied'].id IN
            /\ events' = PublishAll(events, EventOf(id, Desired(id), DesiredAt(applied', id)))
            /\ observed' = IF log[applied'].host = "none"
                           THEN [observed EXCEPT ![id] = "none"] ELSE observed
    /\ UNCHANGED <<log, taskVars, loop, dockerVars, watchVars, faults, crashes>>

SatisfiesPulling(s, condition) == s \in Satisfying \cup {"PULLING"}

satisfies(s, condition) ==
    IF condition = "started" THEN s \in Satisfying ELSE s = "RUNNING"

depSatisfied(d) == Desired(d.on) # None /\ satisfies(observed[d.on], d.condition)

checkDependsOn(id) == \A d \in Deps : d.of = id => depSatisfied(d)

observedTriggersResync(s) == s \in Satisfying \cup {"PULLING"}

(* A ReplicaObserved update commits.  The event it raises may be lost to an *)
(* overflow, whose resync does not trigger anything.                        *)
Observe(id, s) ==
    /\ observed' = [observed EXCEPT ![id] = s]
    /\ nudge' \in IF observedTriggersResync(s) THEN {nudge, TRUE} ELSE {nudge}

(* The replica runs on another host, which reports it.                      *)
OtherReports(id) ==
    /\ Desired(id) # None /\ Desired(id).host = "other" /\ observed[id] # "RUNNING"
    /\ Observe(id, "RUNNING")
    /\ ran' = ran \cup {id}
    /\ UNCHANGED <<raftVars, events, loop, tasks, containers, watchVars, faults, crashes>>

(****************************************************************************)
(* The loop.  starting[id] of the code is the one live task of the replica. *)
(****************************************************************************)
LiveTasks(id) == {t \in tasks : t.id = id /\ t.live}
NewTask(id, rev) == [id |-> id, rev |-> rev, pc |-> "gate", live |-> TRUE, cid |-> 0]

Cancelled(ids) == {IF t.id \in ids THEN [t EXCEPT !.live = FALSE] ELSE t : t \in tasks}

(* The replicas a dispatch starts: not the ones whose start is in flight    *)
(* for this very raft index.  rows gives the raft index of each replica.    *)
DispatchAgain(rows) == DOMAIN rows

Undispatched(rows) == {id \in DOMAIN rows : \A t \in LiveTasks(id) : t.rev # rows[id]}

(* dispatchStart of every row: a start for another raft index is cancelled. *)
dispatchStart(rows) ==
    LET start == Undispatched(rows)
    IN /\ Cardinality(tasks) + Cardinality(start) <= MaxTasks
       /\ tasks' = Cancelled(start) \cup {NewTask(id, rows[id]) : id \in start}

resync == dispatchStart([id \in Local |-> Desired(id).rev])

(* stopReplica: cancel the start, stop the watcher, then stop and remove    *)
(* the container.                                                           *)
StopReplica(id) ==
    /\ tasks' = Cancelled({id})
    /\ watchers' = [watchers EXCEPT ![id] = None]
    /\ loop' = [pc |-> "stop", ids |-> {id}]

MovedOff(e) ==
    \/ e.kind = "updated" /\ ~Here(e.after) /\ Here(e.before)
    \/ e.kind = "removed" /\ Here(e.before)

handle(e) ==
    CASE e.kind = "resync" -> resync /\ UNCHANGED <<watchers, loop>>
      [] e.kind \in {"added", "updated"} /\ Here(e.after) ->
           dispatchStart([id \in {e.key} |-> e.after.rev]) /\ UNCHANGED <<watchers, loop>>
      [] MovedOff(e) -> StopReplica(e.key)
      [] OTHER -> UNCHANGED <<tasks, watchers, loop>>

HandleEvent ==
    /\ loop.pc = "idle" /\ events # <<>>
    /\ handle(Head(events))
    /\ events' = Tail(events)
    /\ UNCHANGED <<raftVars, observed, nudge, dockerVars, stray, faults, crashes>>

RemoveContainer ==
    /\ loop.pc = "stop"
    /\ containers' = [id \in Replicas |-> IF id \in loop.ids THEN None ELSE containers[id]]
    /\ loop' = Idle
    /\ UNCHANGED <<raftVars, observed, events, taskVars, watchVars, ran, faults, crashes>>

HandleObserved ==
    /\ loop.pc = "idle" /\ nudge
    /\ resync
    /\ nudge' = FALSE
    /\ UNCHANGED <<raftVars, observed, events, loop, dockerVars, watchVars, faults, crashes>>

(* The boot and the safety tick: read the expected set, unless the cluster  *)
(* row is not there yet, ...                                                *)
Tick ==
    /\ loop.pc \in {"boot", "idle"}
    /\ IF applied = -1 THEN resync /\ loop' = Idle
       ELSE loop' = [pc |-> "sweep", ids |-> Local] /\ UNCHANGED tasks
    /\ UNCHANGED <<raftVars, observed, events, nudge, dockerVars, watchVars, faults, crashes>>

(* lifecycle.Reconcile: only the expected containers stay.                  *)
Reconcile(expected) == [id \in Replicas |-> IF id \in expected THEN containers[id] ELSE None]

(* ... remove every other container with its watcher, and start what is     *)
(* desired.                                                                 *)
orphanSweep ==
    /\ loop.pc = "sweep"
    /\ containers' = Reconcile(loop.ids)
    /\ watchers' = [id \in Replicas |->
           IF id \in loop.ids \/ containers[id] = None THEN watchers[id] ELSE None]
    /\ resync
    /\ loop' = Idle
    /\ UNCHANGED <<raftVars, observed, events, nudge, stray, ran, faults, crashes>>

(****************************************************************************)
(* runStart, one step per call that can block.                              *)
(****************************************************************************)
Become(t, u) == tasks' = (tasks \ {t}) \cup {u}
Go(t, pc) == Become(t, [t EXCEPT !.pc = pc])
GoWith(t, pc, cid) == Become(t, [t EXCEPT !.pc = pc, !.cid = cid])
Return(t) == tasks' = tasks \ {t}
Mine(t) == containers[t.id] # None /\ containers[t.id].cid = t.cid

taskFrame == UNCHANGED <<raftVars, events, loop, crashes>>

(* No subnet is left for one of the networks.                               *)
failReplica(t) == Return(t) /\ Observe(t.id, "FAILED")

(* The depends_on gate, the subnets and the isolation gate.                 *)
Gate(t) ==
    /\ t.pc = "gate"
    /\ \/ /\ ~t.live \/ ~checkDependsOn(t.id)
          /\ Return(t) /\ UNCHANGED <<observed, nudge, faults>>
       \/ /\ t.live /\ checkDependsOn(t.id)
          /\ Go(t, "find") /\ UNCHANGED <<observed, nudge, faults>>
       \/ Fault /\ Return(t) /\ UNCHANGED <<observed, nudge>>
       \/ Fault /\ failReplica(t)
    /\ taskFrame /\ UNCHANGED <<dockerVars, watchVars>>

NextStep(c, rev) ==
    CASE c = None -> "pull"
      [] c.rev # rev -> "replace"
      [] c.status = "running" -> "watch"
      [] OTHER -> "restart"

FindContainer(t) ==
    /\ t.pc = "find"
    /\ LET c == containers[t.id] IN
       IF t.live
       THEN GoWith(t, NextStep(c, t.rev), IF c = None THEN 0 ELSE c.cid)
       ELSE Return(t)
    /\ taskFrame /\ UNCHANGED <<observed, nudge, dockerVars, watchVars, faults>>

Run(id) ==
    /\ containers' = [containers EXCEPT ![id].status = "running"]
    /\ ran' = ran \cup {id}

Gone(id) == containers' = [containers EXCEPT ![id] = None] /\ UNCHANGED ran

(* A container of this raft index that does not run is started again, or    *)
(* failing that replaced.  A cancelled request may still have its effect.   *)
RestartContainer(t) ==
    /\ t.pc = "restart"
    /\ \/ Mine(t) /\ Run(t.id) /\ UNCHANGED faults
          /\ IF t.live THEN Go(t, "watch") ELSE Return(t)
       \/ Mine(t) /\ Fault /\ t.live /\ Gone(t.id) /\ Go(t, "pull")
       \/ (~Mine(t) \/ ~t.live) /\ Return(t) /\ UNCHANGED <<dockerVars, faults>>
    /\ taskFrame /\ UNCHANGED <<observed, nudge, watchVars>>

ReplaceContainer(t) ==
    /\ t.pc = "replace"
    /\ \/ Mine(t) /\ Gone(t.id)
          /\ IF t.live THEN Go(t, "pull") ELSE Return(t)
       \/ (~Mine(t) \/ ~t.live) /\ Return(t) /\ UNCHANGED dockerVars
    /\ taskFrame /\ UNCHANGED <<observed, nudge, watchVars, faults>>

PullBegin(t) ==
    /\ t.pc = "pull"
    /\ Observe(t.id, "PULLING")
    /\ Go(t, "pulling")
    /\ taskFrame /\ UNCHANGED <<dockerVars, watchVars, faults>>

(* The pull succeeds, fails and is tried again after its back-off, or is    *)
(* cancelled; a failure is reported, and the report of a cancelled start    *)
(* reaches raft where this node leads.                                      *)
PullEnd(t) ==
    /\ t.pc = "pulling"
    /\ \/ t.live /\ Go(t, "create") /\ UNCHANGED <<observed, nudge, faults>>
       \/ t.live /\ Fault /\ Observe(t.id, "PENDING") /\ UNCHANGED tasks
       \/ /\ ~t.live /\ Return(t) /\ UNCHANGED faults
          /\ Observe(t.id, "PENDING") \/ UNCHANGED <<observed, nudge>>
    /\ taskFrame /\ UNCHANGED <<dockerVars, watchVars>>

Cids == {containers[id].cid : id \in {i \in Replicas : containers[i] # None}}
            \cup {watchers[id].cid : id \in {i \in Replicas : watchers[i] # None}}
            \cup {w.cid : w \in stray}
            \cup {t.cid : t \in tasks}

FreshCid == Min(1 .. (Cardinality(Cids) + 1) \ Cids)

(* Docker refuses a second container of the same name.                      *)
CreateContainer(t) ==
    /\ t.pc = "create"
    /\ \/ /\ containers[t.id] = None
          /\ containers' = [containers EXCEPT ![t.id] =
                 [rev |-> t.rev, cid |-> FreshCid, status |-> "created", health |-> "starting"]]
          /\ IF t.live THEN GoWith(t, "start", FreshCid) ELSE Return(t)
          /\ UNCHANGED ran
       \/ (containers[t.id] # None \/ ~t.live) /\ Return(t) /\ UNCHANGED dockerVars
    /\ taskFrame /\ UNCHANGED <<observed, nudge, watchVars, faults>>

StartContainer(t) ==
    /\ t.pc = "start"
    /\ \/ Mine(t) /\ Run(t.id) /\ UNCHANGED faults
          /\ IF t.live THEN Go(t, "watch") ELSE Return(t)
       \/ Mine(t) /\ Fault /\ Return(t) /\ UNCHANGED dockerVars
       \/ (~Mine(t) \/ ~t.live) /\ Return(t) /\ UNCHANGED <<dockerVars, faults>>
    /\ taskFrame /\ UNCHANGED <<observed, nudge, watchVars>>

(* Watcher.Start: nothing to do for a container already watched, else stop  *)
(* the old watcher ...                                                      *)
WatchStart(t) ==
    /\ t.pc = "watch"
    /\ LET id == t.id IN
       IF watchers[id] # None /\ watchers[id].cid = t.cid
       THEN Return(t) /\ UNCHANGED watchers
       ELSE Go(t, "insert") /\ watchers' = [watchers EXCEPT ![id] = None]
    /\ taskFrame /\ UNCHANGED <<observed, nudge, dockerVars, stray, faults>>

(* ... and, in a second critical section, enter the new one.                *)
WatchInsert(t) ==
    /\ t.pc = "insert"
    /\ LET id == t.id IN
       /\ stray' = IF watchers[id] = None THEN stray
                   ELSE stray \cup {watchers[id]}
       /\ watchers' = [watchers EXCEPT ![id] = [id |-> id, cid |-> t.cid, count |-> 0]]
    /\ Return(t)
    /\ taskFrame /\ UNCHANGED <<observed, nudge, dockerVars, faults>>

RunStart(t) ==
    \/ Gate(t) \/ FindContainer(t) \/ RestartContainer(t) \/ ReplaceContainer(t)
    \/ PullBegin(t) \/ PullEnd(t) \/ CreateContainer(t) \/ StartContainer(t)
    \/ WatchStart(t) \/ WatchInsert(t)

(****************************************************************************)
(* The health watcher.                                                      *)
(****************************************************************************)
Counted(n) == IF n < HealthyCount THEN n + 1 ELSE n

(* The state to report for container c and the next value of the counter.   *)
classify(id, c, n) ==
    CASE c.status = "exited" -> <<"FAILED", n>>
      [] c.status # "exited" /\ id \in Probed ->
            <<CASE c.health = "healthy" -> "RUNNING"
                [] c.health = "unhealthy" -> "DEGRADED"
                [] OTHER -> "PENDING", n>>
      [] c.status = "running" /\ id \notin Probed ->
            <<IF Counted(n) >= HealthyCount THEN "RUNNING" ELSE "PENDING", Counted(n)>>
      [] OTHER -> <<"PENDING", 0>>

(* What a watcher finds; a container that is gone cannot be inspected.      *)
Inspect(w) ==
    LET c == containers[w.id]
    IN IF c = None THEN <<"FAILED", w.count>>
       ELSE IF c.cid # w.cid THEN <<"FAILED", w.count>>
       ELSE classify(w.id, c, w.count)

Poll(id) ==
    /\ Up /\ watchers[id] # None
    /\ LET r == Inspect(watchers[id])
       IN /\ watchers' = [watchers EXCEPT ![id].count = r[2]]
          /\ \/ Observe(id, r[1]) /\ UNCHANGED faults
             \/ Fault /\ UNCHANGED <<observed, nudge>>
    /\ UNCHANGED <<raftVars, events, loop, tasks, dockerVars, stray, crashes>>

(* A watcher nobody can stop goes on polling.                               *)
StrayPoll(w) ==
    /\ Up
    /\ LET r == Inspect(w)
       IN /\ stray' = (stray \ {w}) \cup {[w EXCEPT !.count = r[2]]}
          /\ Observe(w.id, r[1])
    /\ UNCHANGED <<raftVars, events, loop, tasks, dockerVars, watchers, faults, crashes>>

(* Docker's side: a container exits, or its health probe changes.           *)
Exit(id) ==
    /\ containers[id] # None /\ containers[id].status = "running" /\ Fault
    /\ containers' = [containers EXCEPT ![id].status = "exited"]
    /\ UNCHANGED <<raftVars, observed, events, taskVars, loop, watchVars, ran, crashes>>

Probe(id) ==
    /\ id \in Probed /\ containers[id] # None /\ containers[id].status = "running"
    /\ \/ containers[id].health = "starting" /\ UNCHANGED faults
          /\ containers' = [containers EXCEPT ![id].health = "healthy"]
       \/ containers[id].health # "unhealthy" /\ Fault
          /\ containers' = [containers EXCEPT ![id].health = "unhealthy"]
    /\ UNCHANGED <<raftVars, observed, events, taskVars, loop, watchVars, ran, crashes>>

(****************************************************************************)
(* The daemon stops (a shutdown, a crash or a reboot of the host) and comes *)
(* back with what its last snapshot holds, or nothing without a snapshot.   *)
(****************************************************************************)
Stop(reboot) ==
    /\ Up /\ crashes < MaxCrashes /\ crashes' = crashes + 1
    /\ loop' = Down
    /\ tasks' = {}
    /\ watchers' = [id \in Replicas |-> None] /\ stray' = {}
    /\ events' = <<>> /\ nudge' = FALSE
    /\ containers' = [id \in Replicas |->
           IF reboot /\ containers[id] # None
           THEN [containers[id] EXCEPT !.status = "exited"] ELSE containers[id]]
    /\ UNCHANGED <<log, applied, observed, ran, faults>>

Start ==
    /\ ~Up
    /\ loop' = [pc |-> "boot", ids |-> {}]
    /\ \E n \in -1 .. applied : applied' = n
    /\ UNCHANGED <<log, observed, events, taskVars, dockerVars, watchVars, faults, crashes>>

Next ==
    \/ \E id \in Replicas, host \in Hosts : Schedule(id, host)
    \/ FSMApply \/ HandleEvent \/ RemoveContainer \/ HandleObserved \/ Tick \/ orphanSweep
    \/ \E t \in tasks : RunStart(t)
    \/ \E id \in Replicas : Poll(id) \/ Exit(id) \/ Probe(id) \/ OtherReports(id)
    \/ \E w \in stray : StrayPoll(w)
    \/ \E reboot \in BOOLEAN : Stop(reboot)
    \/ Start

Spec == Init /\ [][Next]_vars

(* The safety tick keeps coming and the loop gets round to it; goroutines    *)
(* keep running; raft delivers what is committed; a daemon that is down is   *)
(* started again; a probe gets its first answer.  Nothing is assumed of the  *)
(* watch events: the tick alone has to repair what they miss.                *)
Fairness ==
    /\ WF_vars(Tick) /\ WF_vars(RemoveContainer \/ orphanSweep)
    /\ WF_vars(FSMApply \/ Start)
    /\ WF_vars(\E t \in tasks : ~t.live /\ RunStart(t))
    /\ \A id \in Replicas : WF_vars(\E t \in LiveTasks(id) : RunStart(t))
    /\ \A id \in Replicas : WF_vars(Poll(id))
    /\ \A id \in Probed : WF_vars(Probe(id))

FairSpec == Spec /\ Fairness

(****************************************************************************)
(* Properties.                                                              *)
(****************************************************************************)
(* Types of the state.                                                      *)
TypeOK ==
    /\ \A i \in DOMAIN log : log[i].id \in Replicas /\ log[i].host \in Hosts
    /\ applied \in -1 .. Len(log)
    /\ observed \in [Replicas -> ReplicaStates]
    /\ Len(events) <= Buffer /\ nudge \in BOOLEAN
    /\ loop.pc \in {"boot", "idle", "stop", "sweep", "down"} /\ loop.ids \subseteq Replicas
    /\ Cardinality(tasks) <= MaxTasks
    /\ \A t \in tasks : t.id \in Replicas /\ t.rev \in 1 .. Len(log)
    /\ \A id \in Replicas :
         /\ containers[id] # None => containers[id].rev \in 1 .. Len(log)
         /\ watchers[id] # None => watchers[id].count \in 0 .. HealthyCount

Startable(id) == Here(Wanted(id)) /\ \A d \in Deps : d.of = id => Here(Wanted(d.on))

Settled(id) ==
    /\ containers[id] # None /\ containers[id].status = "running"
    /\ containers[id].rev = Wanted(id).rev

(* However the desired set changed, whatever watch events overflowed, docker *)
(* calls failed and starts were cancelled or superseded on the way, docker   *)
(* ends up with a running container of the current raft index for every      *)
(* replica the cluster wants on this host, and with none for the others      *)
(* (dispatchStart, stopReplica, orphanSweep and the safety tick).            *)
ContainersConverge ==
    <>[](\A id \in Replicas : /\ Startable(id) => Settled(id)
                              /\ ~Here(Wanted(id)) => containers[id] = None)

(* A container without a healthcheck that keeps running is reported RUNNING  *)
(* again and again, although the loop dispatches its start again on every    *)
(* tick and every nudge (Watcher.Start keeps the counter of a container it   *)
(* already watches).                                                         *)
RunningIsReported ==
    \A id \in Replicas \ Probed :
        <>[](Startable(id) /\ Settled(id)) => []<>(observed[id] = "RUNNING")

(* A dependent's container exists only after the container it waits for has  *)
(* run, on whatever host (checkDependsOn against the observations that the   *)
(* watchers and the pulls report).                                           *)
DependentsWait == \A d \in Deps : containers[d.of] # None => d.on \in ran
=============================================================================
