-------------------------------- MODULE Drain --------------------------------
(* Removing a node: NodeRemove on the leader plans where the node's replicas *)
(* go, commits the moves one by one, waits for them, and takes the node out  *)
(* of raft and of the stores.  Commits of others land in between; the leader *)
(* may fail; the call may time out and be repeated.                          *)
(* What NodeRemove does to the voter set first (prepareForRemoval) is in     *)
(* Membership.                                                               *)
EXTENDS Placement, Sequences, SequencesExt

CONSTANTS
    Replicas,
    ServiceOf,      \* replica -> its service
    IndexOf,        \* replica -> its index, as the scheduler set it
    Specs,          \* service -> its spec; None when the deployment no longer declares it
    Placements,     \* where the replicas may be at first
    Leader,         \* the host that serves the calls
    None,
    MaxCommits,     \* bound: commits of others
    MaxCalls,       \* bound: NodeRemove calls
    MaxFaults       \* bound: failed applies

VARIABLES
    ready,          \* the READY nodes of the Nodes store
    nodes,          \* all its nodes
    members,        \* raft's configuration
    desired,        \* replica -> [host, index]; None when absent
    observed,       \* replica -> the state last reported; None when absent
    call,           \* the NodeRemove in progress
    quiet,          \* no commit of others since the call began
    commits, calls, faults

vars == <<ready, nodes, members, desired, observed, call, quiet, commits, calls, faults>>

Idle == [host |-> None, force |-> FALSE, pc |-> "idle", plan |-> <<>>, at |-> 0]

-----------------------------------------------------------------------------
(* drain.Plan *)

OnHost(h) == {r \in Replicas : desired[r] # None /\ desired[r].host = h}

EvictsGlobals(h) == {r \in OnHost(h) : Specs[ServiceOf[r]] # None}

(* Replicas that must move: those of services still declared, but for the   *)
(* global ones, whose other copies are on the other nodes already.          *)
Evictees(h) == {r \in OnHost(h) : Specs[ServiceOf[r]] # None /\ Specs[ServiceOf[r]].mode # "global"}

Eligible(h, r) == EligibleHosts(Specs[ServiceOf[r]], ready \ {h})

(* Replicas of r's service on g, and those the plan has already put there.  *)
Counts(h, r, plan) ==
    [g \in Hosts |->
        Cardinality({x \in OnHost(g) \ OnHost(h) : ServiceOf[x] = ServiceOf[r]})
        + Cardinality({i \in 1..Len(plan) : plan[i].to = g /\ ServiceOf[plan[i].id] = ServiceOf[r]})]

Migration(h, plan, r) ==
    Append(plan, [id |-> r, to |-> PlaceReplica(Specs[ServiceOf[r]], Eligible(h, r),
                                                desired[r].index, Counts(h, r, plan))])

(* Services come in the order of a Go map, their replicas in the order the  *)
(* store lists them.                                                        *)
Orders(S) ==
    {o \in [1..Cardinality(S) -> S] :
        /\ \A r \in S : \E i \in DOMAIN o : o[i] = r
        /\ \A i, k \in DOMAIN o : ServiceOf[o[i]] = ServiceOf[o[k]] =>
              \A j \in i..k : ServiceOf[o[j]] = ServiceOf[o[i]]}

Unplaceable(h) == {r \in Evictees(h) : PlacementError(Specs[ServiceOf[r]], Eligible(h, r))}

PlansSomehow(h) ==
    {FoldLeft(LAMBDA plan, r : Migration(h, plan, r), <<>>, o) : o \in Orders(Evictees(h) \ Unplaceable(h))}

(* The plans Plan may return; none when a replica has nowhere to go.        *)
Plan(h) ==
    IF Unplaceable(h) # {} THEN {}
    ELSE {FoldLeft(LAMBDA plan, r : Migration(h, plan, r), <<>>, o) : o \in Orders(Evictees(h))}

-----------------------------------------------------------------------------
(* NodeRemove *)

Done(outcome) == call' = [call EXCEPT !.pc = outcome]

NodeRemove(h, force) ==
    /\ call.pc \notin {"upsert", "poll", "remove", "row"} /\ calls < MaxCalls
    /\ h \in members \ {Leader}
    /\ calls' = calls + 1 /\ quiet' = TRUE
    /\ \/ /\ force
          /\ call' = [host |-> h, force |-> TRUE, pc |-> "remove", plan |-> <<>>, at |-> 0]
       \/ /\ ~force
          /\ \E plan \in Plan(h) :
                call' = [host |-> h, force |-> FALSE, plan |-> plan, at |-> 1,
                         pc |-> IF plan = <<>> THEN "remove" ELSE "upsert"]
       \/ /\ ~force /\ Plan(h) = {}
          /\ call' = [host |-> h, force |-> FALSE, pc |-> "drain_no_placement", plan |-> <<>>, at |-> 0]
    /\ UNCHANGED <<ready, nodes, members, desired, observed, commits, faults>>

(* One ReplicaDesiredUpsert of drainHost; the command carries no index.     *)
Upsert ==
    /\ call.pc = "upsert"
    /\ LET m == call.plan[call.at] IN
          /\ desired' = [desired EXCEPT ![m.id] = [host |-> m.to, index |-> 0]]
          /\ call' = [call EXCEPT !.at = @ + 1,
                                  !.pc = IF call.at = Len(call.plan) THEN "poll" ELSE "upsert"]
    /\ UNCHANGED <<ready, nodes, members, observed, quiet, commits, calls, faults>>

UpsertFails ==
    /\ call.pc = "upsert" /\ faults < MaxFaults /\ faults' = faults + 1
    /\ Done("drain_apply_failed")
    /\ UNCHANGED <<ready, nodes, members, desired, observed, quiet, commits, calls>>

(* The last report counts, whichever host it came from.                     *)
drainComplete == \A i \in 1..Len(call.plan) : observed[call.plan[i].id] = "running"

Poll ==
    /\ call.pc = "poll"
    /\ \/ drainComplete /\ Done("remove")
       \/ ~drainComplete /\ Done("drain_timeout")
    /\ UNCHANGED <<ready, nodes, members, desired, observed, quiet, commits, calls, faults>>

RemoveServer ==
    /\ call.pc = "remove"
    /\ \/ members' = members \ {call.host} /\ Done("row") /\ UNCHANGED faults
       \/ faults < MaxFaults /\ faults' = faults + 1 /\ Done("raft_remove_failed") /\ UNCHANGED members
    /\ UNCHANGED <<ready, nodes, desired, observed, quiet, commits, calls>>

RemoveRow ==
    /\ call.pc = "row"
    /\ \/ /\ nodes' = nodes \ {call.host} /\ ready' = ready \ {call.host}
          /\ Done("removed") /\ UNCHANGED faults
       \/ /\ faults < MaxFaults /\ faults' = faults + 1
          /\ Done("raft_apply_failed") /\ UNCHANGED <<nodes, ready>>
    /\ UNCHANGED <<members, desired, observed, quiet, commits, calls>>

-----------------------------------------------------------------------------
(* The others *)

Commit == commits < MaxCommits /\ commits' = commits + 1 /\ quiet' = FALSE

(* A report, from the host that runs the replica or ran it.                 *)
ReplicaObservedUpdate(r) ==
    /\ Commit
    /\ \E s \in {"running", "failed"} : s # observed[r] /\ observed' = [observed EXCEPT ![r] = s]
    /\ UNCHANGED <<ready, nodes, members, desired, call, calls, faults>>

ReplicaDesiredRemove(r) ==
    /\ Commit /\ desired[r] # None
    /\ desired' = [desired EXCEPT ![r] = None] /\ observed' = [observed EXCEPT ![r] = None]
    /\ UNCHANGED <<ready, nodes, members, call, calls, faults>>

(* The scheduler places a replica that is missing; a global one on a READY  *)
(* node that has none.                                                      *)
ReplicaDesiredUpsert(r) ==
    /\ Commit /\ desired[r] = None /\ Specs[ServiceOf[r]] # None
    /\ LET spec == Specs[ServiceOf[r]]
           free == IF spec.mode = "global"
                   THEN {g \in ready : \A x \in OnHost(g) : ServiceOf[x] # ServiceOf[r]}
                   ELSE EligibleHosts(spec, ready) IN
          \E g \in free : desired' = [desired EXCEPT ![r] = [host |-> g, index |-> IndexOf[r]]]
    /\ UNCHANGED <<ready, nodes, members, observed, call, calls, faults>>

NodeStatusUpdate(h) ==
    /\ Commit /\ h \in nodes
    /\ ready' = IF h \in ready THEN ready \ {h} ELSE ready \cup {h}
    /\ UNCHANGED <<nodes, members, desired, observed, call, calls, faults>>

Init ==
    /\ ready = Hosts /\ nodes = Hosts /\ members = Hosts
    /\ \E p \in Placements : desired = [r \in Replicas |-> [host |-> p[r], index |-> IndexOf[r]]]
    /\ observed = [r \in Replicas |-> "running"]
    /\ call = Idle /\ quiet = TRUE /\ commits = 0 /\ calls = 0 /\ faults = 0

Next ==
    \/ \E h \in Hosts, force \in BOOLEAN : NodeRemove(h, force)
    \/ Upsert \/ UpsertFails \/ Poll \/ RemoveServer \/ RemoveRow
    \/ \E r \in Replicas : ReplicaObservedUpdate(r) \/ ReplicaDesiredRemove(r) \/ ReplicaDesiredUpsert(r)
    \/ \E h \in Hosts : NodeStatusUpdate(h)

-----------------------------------------------------------------------------
TypeOK ==
    /\ ready \subseteq nodes /\ nodes \subseteq Hosts /\ members \subseteq nodes
    /\ \A r \in Replicas : desired[r] # None => desired[r].host \in Hosts
    /\ \A r \in Replicas : observed[r] \in {None, "running", "failed"}

(* A node is removed without --force only when its replicas have gone: when *)
(* nobody else commits in between, none of a declared service is left on    *)
(* it, a global service's own copy apart.                                   *)
DrainEmpties ==
    call.pc = "removed" /\ ~call.force /\ quiet => Evictees(call.host) = {}

(* A node never runs two copies of a global service, whatever drains and    *)
(* interrupted drains came before.                                          *)
GlobalOnce ==
    \A g \in Hosts : \A x, y \in OnHost(g) :
        ServiceOf[x] = ServiceOf[y] /\ Specs[ServiceOf[x]] # None
            /\ Specs[ServiceOf[x]].mode = "global" => x = y

(* The replicas of a packed service are spread evenly over the nodes that   *)
(* take them over: a node that received one has at most one more than any   *)
(* other eligible node.                                                     *)
PackEven ==
    call.pc = "poll" /\ quiet =>
        \A i \in 1..Len(call.plan) :
            LET m == call.plan[i]
                On(g) == Cardinality({x \in OnHost(g) : ServiceOf[x] = ServiceOf[m.id]}) IN
            Specs[ServiceOf[m.id]].mode = "pack" =>
                \A g \in Eligible(call.host, m.id) : On(m.to) <= On(g) + 1
=============================================================================
