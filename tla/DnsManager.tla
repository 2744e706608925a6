----------------------------- MODULE DnsManager -----------------------------
(* The DNS manager of one host: a listener per network the host has a       *)
(* subnet in, made and removed on Subnets events, and the answers of each,  *)
(* renewed on ReplicasObserved events.  A subnet's gateway, where its       *)
(* listener binds, is the first address of its /24, so a cidr also names    *)
(* its gateway.  One service stands for the services of a network.          *)
EXTENDS Integers, FiniteSets

CONSTANTS Self, Peers,   \* hosts
          Nets,          \* (deployment, network) scopes
          Cidrs,         \* the /24s of the pool
          Buffer,        \* capacity of a broker channel
          None,
          MaxChanges,    \* bounds the commits that change subnets
          MaxFaults      \* bounds the hosts that die

VARIABLES local,         \* this host's rows of state.Subnets: [Nets -> None or cidr]
          observed,      \* state.ReplicasObserved: [Nets -> [AllHosts -> "none" | "fresh" | "old"]]
          runs,          \* [Nets -> the hosts that run a replica of the service]
          down,          \* the hosts that stopped reporting
          subnetSub, obsSub,   \* lengths of the channels; what they carry is not looked at
          listeners,     \* Manager.listeners: [Nets -> None or the cidr it was made for]
          bound,         \* the listeners that hold their address
          services,      \* [Nets -> the hosts whose replicas answer]
          bridges,       \* the docker networks of this host: [Nets -> None or cidr]
          changes, faults

stores == <<local, observed, runs, down>>
vars == <<stores, subnetSub, obsSub, listeners, bound, services, bridges, changes, faults>>

AllHosts == {Self} \cup Peers

PublishUnbounded(n, k) == n + k

Publish(n, k) == IF n + k > Buffer THEN Buffer ELSE n + k

Init ==
    /\ local = [n \in Nets |-> None] /\ observed = [n \in Nets |-> [h \in AllHosts |-> "none"]]
    /\ runs \in [Nets -> {Peers, AllHosts}] /\ down = {}
    /\ subnetSub = 0 /\ obsSub = 0 /\ listeners = [n \in Nets |-> None] /\ bound = {}
    /\ services = [n \in Nets |-> {}] /\ bridges = [n \in Nets |-> None]
    /\ changes = 0 /\ faults = 0

(****************************** commits *************************************)
Commit == changes < MaxChanges /\ changes' = changes + 1

SubnetAllocate(n) ==
    /\ Commit /\ local[n] = None
    /\ \E c \in {x \in Cidrs : \A m \in Nets : local[m] # x} : local' = [local EXCEPT ![n] = c]
    /\ subnetSub' = Publish(subnetSub, 1)
    /\ UNCHANGED <<observed, runs, down, obsSub, listeners, bound, services, bridges, faults>>

(* The cascade removes the deployment's subnets and observed rows.          *)
DeploymentDelete(n) ==
    /\ Commit /\ local[n] # None
    /\ local' = [local EXCEPT ![n] = None]
    /\ observed' = [observed EXCEPT ![n] = [h \in AllHosts |-> "none"]]
    /\ subnetSub' = Publish(subnetSub, 1)
    /\ obsSub' = Publish(obsSub, Cardinality({h \in AllHosts : observed[n][h] # "none"}))
    /\ UNCHANGED <<runs, down, listeners, bound, services, bridges, faults>>

(* A health watcher's poll renews a row.                                    *)
Poll(n, h) ==
    /\ local[n] # None /\ h \in runs[n] \ down
    /\ observed' = [observed EXCEPT ![n][h] = "fresh"]
    /\ obsSub' = Publish(obsSub, 1)
    /\ UNCHANGED <<local, runs, down, subnetSub, listeners, bound, services, bridges, changes, faults>>

HostDies(h) ==
    /\ h \in Peers \ down /\ faults < MaxFaults /\ faults' = faults + 1
    /\ down' = down \cup {h}
    /\ UNCHANGED <<local, observed, runs, subnetSub, obsSub, listeners, bound, services, bridges, changes>>

(* Ten seconds pass since the last poll; nothing is published.              *)
Age(n, h) ==
    /\ h \in down /\ observed[n][h] = "fresh"
    /\ observed' = [observed EXCEPT ![n][h] = "old"]
    /\ UNCHANGED <<local, runs, down, subnetSub, obsSub, listeners, bound, services, bridges, changes, faults>>

(* bridge.Ensure at the start of a replica: a network with another subnet   *)
(* is removed, with its containers, and made again.                         *)
EnsureBridge(n) ==
    /\ local[n] # None /\ bridges[n] # local[n]
    /\ bridges' = [bridges EXCEPT ![n] = local[n]] /\ bound' = bound \ {n}
    /\ UNCHANGED <<stores, subnetSub, obsSub, listeners, services, changes, faults>>

(****************************** the manager *********************************)
(* The networks that are gone lose their listener; one that exists is left  *)
(* alone.                                                                   *)
Reconciled(n) ==
    IF local[n] = None THEN None
    ELSE IF listeners[n] # None THEN listeners[n] ELSE local[n]

(* A new listener answers with an empty service map until a refresh.        *)
reconcileSubnets ==
    /\ subnetSub > 0 /\ subnetSub' = subnetSub - 1
    /\ listeners' = [n \in Nets |-> Reconciled(n)]
    /\ bound' = {n \in bound : listeners'[n] # None}
    /\ services' = [n \in Nets |-> IF listeners[n] = None THEN {} ELSE services[n]]
    /\ UNCHANGED <<stores, obsSub, bridges, changes, faults>>

Local(reps) == IF Self \in reps THEN {Self} ELSE reps

(* Local replicas win; without one, all fresh ones are returned.            *)
Answers(n) == Local({h \in AllHosts : observed[n][h] = "fresh"})

refreshServiceMaps ==
    /\ obsSub > 0 /\ obsSub' = obsSub - 1
    /\ services' = [n \in Nets |-> IF listeners[n] = None THEN {} ELSE Answers(n)]
    /\ UNCHANGED <<stores, subnetSub, listeners, bound, bridges, changes, faults>>

(* serveWithRetry: the bind succeeds once the bridge has the address.       *)
Bind(n) ==
    /\ listeners[n] # None /\ n \notin bound /\ bridges[n] = listeners[n]
    /\ bound' = bound \cup {n}
    /\ UNCHANGED <<stores, subnetSub, obsSub, listeners, services, bridges, changes, faults>>

Next ==
    \/ \E n \in Nets : \/ SubnetAllocate(n) \/ DeploymentDelete(n) \/ EnsureBridge(n) \/ Bind(n)
                       \/ \E h \in AllHosts : Poll(n, h) \/ Age(n, h)
    \/ \E h \in Peers : HostDies(h)
    \/ reconcileSubnets \/ refreshServiceMaps

(* Go's select is fair to a channel that stays ready; hosts that are up     *)
(* poll every few seconds and time passes.                                  *)
Spec ==
    /\ Init /\ [][Next]_vars
    /\ WF_vars(reconcileSubnets) /\ WF_vars(refreshServiceMaps)
    /\ \A n \in Nets : WF_vars(\E h \in AllHosts : Poll(n, h)) /\ WF_vars(\E h \in AllHosts : Age(n, h))

(****************************** properties **********************************)
(* A bound listener belongs to a network, and channels keep their capacity. *)
TypeOK ==
    /\ local \in [Nets -> Cidrs \cup {None}] /\ listeners \in [Nets -> Cidrs \cup {None}]
    /\ subnetSub \in 0..Buffer /\ obsSub \in 0..Buffer
    /\ \A n \in bound : listeners[n] # None /\ listeners[n] = bridges[n]

(* In the end this host listens for exactly the networks it has.            *)
ListenersFollow == <>[](\A n \in Nets : (listeners[n] = None) <=> (local[n] = None))

(* While some replica of the network keeps reporting, the final answers are *)
(* replicas that do, although a dead host's rows age without an event and a *)
(* new listener starts with none.                                           *)
NamesFollow ==
    \A n \in Nets :
        <>[](listeners[n] # None /\ runs[n] \ down # {} =>
                services[n] # {} /\ \A h \in services[n] : observed[n][h] = "fresh")
=============================================================================
