-------------------------------- MODULE Mesh --------------------------------
(* The WireGuard syncer of one host, Self: every 30 s it replaces the peers *)
(* of jaco0 with those of the Nodes store and brings the routes on jaco0    *)
(* to the other hosts' subnets.  It subscribes to nothing.                  *)
EXTENDS Integers, FiniteSets

CONSTANTS Self, Peers,   \* hosts
          Cidrs,         \* the /24s of the pool
          MaxChanges,    \* bounds the commits
          MaxFaults      \* bounds the failing kernel calls

VARIABLES subnets,       \* state.Subnets: a set of [host, cidr]
          nodes,         \* state.Nodes: [Peers -> "none" | "ip" | "name"]
          device,        \* jaco0's peers: [peer -> allowed cidrs]
          routes,        \* the routes on jaco0
          pc,            \* idle, or between configuring and routing
          changes, faults

vars == <<subnets, nodes, device, routes, pc, changes, faults>>
AllHosts == {Self} \cup Peers

Init ==
    /\ subnets = {} /\ nodes = [h \in Peers |-> "ip"]
    /\ device = <<>> /\ routes = {} /\ pc = "idle" /\ changes = 0 /\ faults = 0

Commit == changes < MaxChanges /\ changes' = changes + 1

SubnetAllocate(h) ==
    /\ Commit /\ (h \in Peers => nodes[h] # "none")
    /\ \E c \in Cidrs \ {r.cidr : r \in subnets} : subnets' = subnets \cup {[host |-> h, cidr |-> c]}
    /\ UNCHANGED <<nodes, device, routes, pc, faults>>

(* DeploymentDelete frees the subnets of the deployment.                    *)
SubnetsFreed ==
    /\ Commit /\ \E gone \in SUBSET subnets : gone # {} /\ subnets' = subnets \ gone
    /\ UNCHANGED <<nodes, device, routes, pc, faults>>

NodeRemove(h) ==
    /\ Commit /\ nodes[h] # "none" /\ nodes' = [nodes EXCEPT ![h] = "none"]
    /\ subnets' = {r \in subnets : r.host # h}
    /\ UNCHANGED <<device, routes, pc, faults>>

(* A node publishes its address again; a name is no WireGuard endpoint.     *)
PublishAddress(h) ==
    /\ Commit /\ \E a \in {"ip", "name"} : nodes[h] # a /\ nodes' = [nodes EXCEPT ![h] = a]
    /\ UNCHANGED <<subnets, device, routes, pc, faults>>

Reachable == {h \in Peers : nodes[h] = "ip"}

(* The peers with an address, each with the subnets of its host.            *)
BuildConfig == [h \in Reachable |-> {r.cidr : r \in {x \in subnets : x.host = h}}]

(* ReplacePeers: what the device had is gone.                               *)
ConfigureDevice(cfg) == cfg

desiredRoutes == {r.cidr : r \in {x \in subnets : x.host # Self}}

(* The first half of a tick; the routes are reconciled even when it fails.  *)
Configure ==
    /\ pc = "idle" /\ pc' = "routes"
    /\ \/ device' = ConfigureDevice(BuildConfig) /\ UNCHANGED faults
       \/ UNCHANGED device /\ faults < MaxFaults /\ faults' = faults + 1
    /\ UNCHANGED <<subnets, nodes, routes, changes>>

(* Every desired route is replaced and the others are deleted; a command    *)
(* that fails skips the route it was for.                                   *)
RouteDiffAddsOnly(lost) == routes \cup (desiredRoutes \ lost)

RouteDiff(lost) == (routes \cup (desiredRoutes \ lost)) \ ((routes \ desiredRoutes) \ lost)

reconcileRoutes ==
    /\ pc = "routes" /\ pc' = "idle"
    /\ \/ routes' = RouteDiff({}) /\ UNCHANGED faults
       \/ /\ faults < MaxFaults /\ faults' = faults + 1
          /\ UNCHANGED routes \/ \E c \in Cidrs : routes' = RouteDiff({c})
    /\ UNCHANGED <<subnets, nodes, device, changes>>

Tick == Configure \/ reconcileRoutes

Next ==
    \/ \E h \in AllHosts : SubnetAllocate(h)
    \/ SubnetsFreed
    \/ \E h \in Peers : NodeRemove(h) \/ PublishAddress(h)
    \/ Tick

(* The ticker keeps the syncer going.                                       *)
Spec == Init /\ [][Next]_vars /\ WF_vars(Tick)

(****************************** properties **********************************)
(* WireGuard routes a cidr to one peer: no two peers of the device share    *)
(* one, although a subnet may be freed and given to another host.           *)
TypeOK ==
    /\ nodes \in [Peers -> {"none", "ip", "name"}] /\ DOMAIN device \subseteq Peers
    /\ routes \subseteq Cidrs /\ pc \in {"idle", "routes"}
    /\ \A g, h \in DOMAIN device : g # h => device[g] \cap device[h] = {}

(* In the end every reachable peer's subnets are on the device and exactly  *)
(* the other hosts' subnets are routed, after any mix of commits, failing   *)
(* kernel calls and commits between the two halves of a tick.               *)
MeshFollows ==
    <>[](/\ DOMAIN device = Reachable
         /\ \A h \in Reachable : device[h] = {r.cidr : r \in {x \in subnets : x.host = h}}
         /\ routes = {r.cidr : r \in {x \in subnets : x.host # Self}})
=============================================================================
