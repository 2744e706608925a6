----------------------------- MODULE MCCluster -----------------------------
(* Small instances of what the nodes of a cluster do together, for one run  *)
(* of TLC: membership, the mesh, service discovery, the rebalancer and the  *)
(* issuance of a certificate.  A behaviour is one of a single component,    *)
(* which "which" names; the others stay in an initial state.                *)
EXTENDS Membership

CONSTANT None

VARIABLES which,
    subnets, peers, device, routes, sync, commits, kernelFaults,
    local, observed, runs, down, subnetSub, obsSub, listeners, bound, services, bridges,
    changes, deaths,
    base, host, runsOn, ewma, over, replicaAge, nodeAge, pending, shifts,
    route, blobs, bad, mirror, issuer, ctrl, policy, cache, job, staged, loaded, env,
    restarted, faults, events

mesh == <<subnets, peers, device, routes, sync, commits, kernelFaults>>
dns == <<local, observed, runs, down, subnetSub, obsSub, listeners, bound, services, bridges,
         changes, deaths>>
rebalance == <<base, host, runsOn, ewma, over, replicaAge, nodeAge, pending, shifts>>
issuance == <<route, blobs, bad, mirror, issuer, ctrl, policy, cache, job, staged, loaded, env,
              restarted, faults, events>>

(* Membership from two starting points: daemons that have just been         *)
(* started, none of which is removed again, and the three-voter cluster     *)
(* that a founding and two joins leave behind.                              *)
MCHosts == 1..3

Established ==
    /\ disk = [h \in Hosts |-> "raft"]
    /\ up = Hosts /\ open = Hosts /\ gate = Hosts
    /\ init = [h \in Hosts |-> "idle"]
    /\ cluster = 1
    /\ conf = [h \in Hosts |-> "voter"]
    /\ leader = Founder /\ nodes = Hosts
    /\ token = [t \in Tokens |-> "consumed"]
    /\ join = [h \in Hosts |-> "idle"]
    /\ call = [h \in Hosts |-> CallIdle]
    /\ remove = RemoveNone
    /\ tick = TickIdle
    /\ seen = [h \in Hosts |-> [g \in Hosts |-> IF h = leader THEN "old" ELSE "no"]]
    /\ removals = 0 /\ crashes = 1   \* one more crash or lost leadership

MCInit == (Fresh /\ removals = MaxRemovals) \/ Established

ME == INSTANCE Mesh WITH
        Self <- "self", Peers <- {"p", "q"}, Cidrs <- 1..3, MaxChanges <- 3, MaxFaults <- 1,
        nodes <- peers, pc <- sync, changes <- commits, faults <- kernelFaults

DN == INSTANCE DnsManager WITH
        Self <- "self", Peers <- {"p", "q"}, Nets <- {"web"}, Cidrs <- 1..2, Buffer <- 2,
        MaxChanges <- 4, MaxFaults <- 1, faults <- deaths

(* Three hosts; two replicas of a spread service, a pinned one and one that *)
(* may stack, from placements the scheduler makes, under three loads.       *)
Movable == {"s1", "s2", "p1", "q1"}
Services ==
    [r \in Movable |->
        CASE r \in {"s1", "s2"} -> [name |-> "s", placement |-> "spread", hosts |-> {}]
          [] r = "p1"           -> [name |-> "p", placement |-> "hosts", hosts |-> {"a", "b"}]
          [] OTHER              -> [name |-> "q", placement |-> "pack", hosts |-> {}]]

Load(c, m) == [cpu |-> c, memory |-> m]
Footprints == [r \in Movable |-> IF r = "q1" THEN Load(10, 40) ELSE Load(12, 6)]
Loads == {[a |-> Load(80, 30), b |-> Load(30, 30), c |-> Load(40, 20)],
          [a |-> Load(20, 50), b |-> Load(75, 20), c |-> Load(30, 46)],
          [a |-> Load(70, 20), b |-> Load(35, 30), c |-> None]}

Placed(s1, s2, p1, q1) == [s1 |-> s1, s2 |-> s2, p1 |-> p1, q1 |-> q1]
FirstPlaced == Placed("a", "b", "a", "a")
Placings == {FirstPlaced, Placed("a", "c", "b", "b"), Placed("b", "c", "a", "c"),
             Placed("c", "a", "a", "a")}

RB == INSTANCE Rebalance WITH
        Hosts <- {"a", "b", "c"}, Replicas <- Movable, ServiceOf <- Services,
        Footprint <- Footprints, Bases <- Loads, Placements <- Placings,
        TriggerThreshold <- 85, ImbalanceGap <- 25, ReliefFloor <- 10, DstCap <- 75,
        ConsecutiveCycles <- 2, CooldownReplica <- 3, CooldownNode <- 2, MaxShifts <- 1,
        runs <- runsOn

Daemons == {"n1", "n2"}
IS == INSTANCE Issuance WITH
        Nodes <- Daemons, MaxFaults <- 1, MaxEvents <- 1,
        disk <- mirror, leader <- issuer, seen <- staged

(* A component that does not run is in one of its initial states.           *)
SuiteInit ==
    /\ which \in {"membership", "mesh", "dns", "rebalance", "issuance"}
    /\ MCInit /\ ME!Init /\ DN!Init /\ RB!Init /\ IS!Init
    /\ which # "membership" => cluster = 1
    /\ which # "dns" => "self" \notin runs["web"]
    /\ which # "rebalance" => host = FirstPlaced /\ base["a"] = Load(80, 30)
    /\ which # "issuance" => \A n \in Daemons : mirror[n] = {}

SuiteNext ==
    \/ which = "membership" /\ Next /\ UNCHANGED <<which, mesh, dns, rebalance, issuance>>
    \/ which = "mesh" /\ ME!Next /\ UNCHANGED <<which, vars, dns, rebalance, issuance>>
    \/ which = "dns" /\ DN!Next /\ UNCHANGED <<which, vars, mesh, rebalance, issuance>>
    \/ which = "rebalance" /\ RB!Next /\ UNCHANGED <<which, vars, mesh, dns, issuance>>
    \/ which = "issuance" /\ IS!Next /\ UNCHANGED <<which, vars, mesh, dns, rebalance>>

(* The fairness of the component that runs; the rebalancer settles without. *)
Of(c, A) == which = c /\ A

MembershipFairness ==
    /\ (\A h \in Hosts : /\ WF_vars(Of("membership", OpenRaft(h)))
                         /\ WF_vars(Of("membership", MarkInitialized(h)))
                         /\ WF_vars(Of("membership", JoinSteps(h))))
    /\ WF_vars(Of("membership", \E h \in Hosts : Elect(h)))
    /\ WF_vars(Of("membership", \E h \in Hosts : Settle(h)))
    /\ WF_vars(Of("membership", RemoveSteps))
    /\ WF_vars(Of("membership", TickRead)) /\ WF_vars(Of("membership", TickAct))

IssuanceFairness ==
    \A n \in Daemons : /\ WF_issuance(Of("issuance", IS!Reconcile(n)))
                       /\ WF_issuance(Of("issuance", IS!Rebuild(n)))
                       /\ WF_issuance(Of("issuance", IS!Expire(n)))
                       /\ WF_issuance(Of("issuance", IS!CertMagic(n)))

SuiteSpec ==
    /\ SuiteInit /\ [][SuiteNext]_<<which, vars, mesh, dns, rebalance, issuance>>
    /\ MembershipFairness /\ IssuanceFairness
    /\ WF_mesh(Of("mesh", ME!Tick))
    /\ WF_dns(Of("dns", DN!reconcileSubnets)) /\ WF_dns(Of("dns", DN!refreshServiceMaps))
    /\ WF_dns(Of("dns", \E h \in DN!AllHosts : DN!Poll("web", h)))
    /\ WF_dns(Of("dns", \E h \in DN!AllHosts : DN!Age("web", h)))

Runs(c) == <>[](which = c)

(* The type invariants of the five components; a handler past the gate      *)
(* finds raft open.                                                         *)
TypesOK == /\ which = "membership" => TypeOK /\ ServesOnlyWithRaft
           /\ which = "mesh" => ME!TypeOK
           /\ which = "dns" => DN!TypeOK
           /\ which = "rebalance" => RB!TypeOK
           /\ which = "issuance" => IS!TypeOK

(* Membership: the reconciler brings the voters to the target.              *)
VoterSetSettles == Runs("membership") => VotersSettle

(* Mesh: peers and routes end up as the stores say.                         *)
(* DnsManager: the host listens for exactly the networks it has, and the    *)
(* final answers are replicas that report.                                  *)
RowsFollowed ==
    /\ Runs("mesh") => ME!MeshFollows
    /\ Runs("dns") => DN!ListenersFollow /\ DN!NamesFollow

(* Rebalance: no move breaks the placement of a service.                    *)
PlacementKept == which = "rebalance" => RB!PlacementKept

(* Issuance: a domain with a route gets its prod certificate, followers end *)
(* up with the prod leaf, and the audit trail does not end with staging.    *)
ProdLands == Runs("issuance") => IS!ProdLands /\ IS!FollowersServe /\ IS!StatusEnv
=============================================================================
