------------------------------- MODULE MCEdge -------------------------------
(* Small instances of what stands between a host's containers and the       *)
(* world, for one run of TLC: the certificate lock, the firewall and the    *)
(* edge's configuration.  A behaviour is one of a single component, which   *)
(* "which" names; the others stay in an initial state.                      *)
EXTENDS MCCertStorage, TLC

CONSTANTS Web, Db

VARIABLES which,
    subnets, table, chains, tick, ruleset, degraded, status, changes, drifts, faults, crashes,
    acme, routes, email, tcp, observed, staging, dirty, building, lastCfg, caddy, started,
    failed, events, failures

firewall == <<subnets, table, chains, tick, ruleset, degraded, status, changes, drifts,
              faults, crashes>>
edge == <<acme, routes, email, tcp, observed, staging, dirty, building, lastCfg, caddy, started,
          failed, events, failures>>

(* Two scopes, one of which may have a subnet on each of two hosts.         *)
FW == INSTANCE Firewall WITH
        Scopes <- {Web, Db}, Cidrs <- 1..3,
        SetNames <- [s \in {Web, Db} |-> IF s = Web THEN "dep_net_web" ELSE "dep_net_db"],
        MaxChanges <- 2, MaxDrifts <- 1, MaxFaults <- 1, MaxCrashes <- 1, pc <- tick

(* EdgeConfig: two stacks share the domain "d1": "x" has a site and an api, *)
(* "y" a part of the tree.  Segments 1, 2, 3 stand for "a", "b", "c".       *)
MCOwner == [web |-> "x", api |-> "x", blog |-> "y"]
MCServiceOf == [r1 |-> "web", r3 |-> "blog"]

P(seg, tail) == [seg |-> seg, tail |-> tail]
CatchAll == P(<<>>, "")
R(d, p, s, tls, strip) == [domain |-> d, path |-> p, service |-> s, tls |-> tls, strip |-> strip]

M(rs, e, ports) == [routes |-> rs, email |-> e, ports |-> ports]

MCManifests ==
    [x |-> {M({}, None, <<>>),
            M({R("d1", CatchAll, "web", TRUE, TRUE), R("d1", P(<<1>>, ""), "api", TRUE, FALSE)}, None, <<>>),
            M({R("d1", P(<<1>>, "/"), "web", TRUE, FALSE), R("d1", P(<<1, 2, 3>>, "/*"), "api", TRUE, TRUE)},
              "stack", 5432 :> "web"),
            M({R("d1", CatchAll, "web", TRUE, FALSE), R("d2", P(<<2>>, "/*"), "api", FALSE, FALSE)},
              "stack", <<>>)},
     y |-> {M({}, None, 5432 :> "blog"),
            M({R("d1", P(<<1, 2>>, ""), "blog", TRUE, TRUE), R("d2", CatchAll, "blog", FALSE, FALSE)}, None, <<>>),
            M({R("d1", P(<<1, 2>>, "/"), "blog", FALSE, FALSE), R("d1", P(<<2>>, ""), "blog", TRUE, TRUE)},
              None, 5432 :> "blog")}]

MCRequests == {<<>>, <<1>>, <<2>>, <<3>>, <<1, 2>>, <<1, 3>>, <<2, 1>>, <<1, 2, 3>>, <<1, 2, 1>>, <<1, 2, 3, 1>>}

EC == INSTANCE RouteView WITH
        Domains <- {"d1", "d2"}, Services <- {"web", "api", "blog"}, Replicas <- {"r1", "r3"},
        Ports <- {5432}, Owner <- MCOwner, ServiceOf <- MCServiceOf,
        Manifests <- MCManifests, Requests <- MCRequests,
        MaxChanges <- 3, MaxFaults <- 1, changes <- events, faults <- failures

MCInit ==
    /\ which \in {"lock", "firewall", "edge"} /\ Init /\ FW!Init /\ EC!Init
    /\ which # "edge" => acme

MCNext ==
    \/ which = "lock" /\ Next /\ UNCHANGED <<which, firewall, edge>>
    \/ which = "firewall" /\ FW!Next /\ UNCHANGED <<which, vars, edge>>
    \/ which = "edge" /\ EC!Next /\ UNCHANGED <<which, vars, firewall>>

(* The fairness of the component that runs.                                 *)
MCSpec ==
    /\ MCInit /\ [][MCNext]_<<which, vars, firewall, edge>>
    /\ WF_vars(which = "lock" /\ Tick) /\ (\A n \in Nodes : WF_vars(which = "lock" /\ Apply(n)))
    /\ WF_firewall(which = "firewall" /\ FW!Tick)

Runs(c) == <>[](which = c)

(* CertStorage: a lease whose lessee is gone ends.                          *)
LockFreesUp == Runs("lock") => FreesUp

(* The type invariants of the three components.                             *)
TypesOK == /\ which = "lock" => TypeOK
           /\ which = "firewall" => FW!TypeOK
           /\ which = "edge" => EC!TypeOK

(* Firewall: what a reload loads isolates the scopes from each other.       *)
ReloadIsolates == which = "firewall" => FW!ReloadIsolates

(* Firewall: the tick repairs the named sets and brings the exemptions back *)
(* to the top of Docker's chains.                                           *)
DriftRepaired == Runs("firewall") => FW!DriftRepaired /\ FW!ExemptionsReturn

(* EdgeConfig: the most specific route answers, as "jaco get route" shows   *)
(* it, and plain HTTP is redirected for the managed domains only.           *)
MostSpecific == which = "edge" => EC!MostSpecific /\ EC!ViewIsCaddys /\ EC!RedirectIffManaged

(* EdgeConfig: an idle edge serves what the stores say.                     *)
EdgeFollows == which = "edge" => EC!EdgeFollows
=============================================================================
