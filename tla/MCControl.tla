----------------------------- MODULE MCControl -----------------------------
(* Small instances of what the leader does, for one run of TLC: the         *)
(* scheduler's rollouts, the control plane's handlers, the removal of a     *)
(* node, the operator's views and the answers of the DNS responder.  A      *)
(* behaviour is one of a single component, which "which" names; the others  *)
(* stay in an initial state.                                                *)
EXTENDS MCScheduler, TLC

VARIABLES which,
    log, at, leader, terms, call, purged, given, behind, crossed, traffic,
    readyNodes, nodes, members, placed, reported, removal, quiet, commits, removals, failures,
    deployments, rows, reports, counters, routes, blobs, audits, deleting, request, stage,
    read, shown, during, changes,
    upstreams, services, name, legs, reply, sent, swaps

handlers == <<log, at, leader, terms, call, purged, given, behind, crossed, traffic>>
drain == <<readyNodes, nodes, members, placed, reported, removal, quiet, commits, removals,
           failures>>
views == <<deployments, rows, reports, counters, routes, blobs, audits, deleting, request,
           stage, read, shown, during, changes>>
resolver == <<upstreams, services, name, legs, reply, sent, swaps>>

(* Two deployments that publish port 80, of which one is privileged; a pin  *)
(* to a node that is not a member.                                          *)
Deploy(d, pins, ports, n, priv) ==
    [dep |-> d, pins |-> pins, ports |-> [p \in ports |-> n], privileged |-> priv]

Deploys == {Deploy("a", {}, {80}, 1, TRUE), Deploy("b", {"n1"}, {80}, 1, FALSE),
            Deploy("a", {"n9"}, {}, 1, FALSE), Deploy("b", {}, {81}, 2, FALSE),
            Deploy("a", {}, {}, 1, FALSE)}

(* One more network than the pool has subnets for.                          *)
Asked == {<<"a", "n1">>, <<"b", "n2">>}

Boot == <<[op |-> "ClusterInit", host |-> "n1", cluster |-> 1],
          [op |-> "NodeJoin", host |-> "n2", pubkey |-> 0]>>

CA == INSTANCE MCControlAPI WITH
        Nodes <- {"n1", "n2"}, Manifests <- Deploys, Idents <- {"root", "dev"},
        Privileged <- {"root"}, Networks <- Asked, Pool <- 1, Seed <- Boot,
        Clients <- {1, 2}, MaxLog <- 4, MaxTerms <- 1

(* Drain: a packed service, a global one on two of the nodes and a pinned   *)
(* one, spread over two nodes or all on the last.                           *)
Evicted == {"p1", "p2", "p3", "g1", "g2", "h1"}
EvictedOf == [r \in Evicted |-> CASE r \in {"p1", "p2", "p3"} -> "p"
                                  [] r \in {"g1", "g2"}       -> "g"
                                  [] OTHER                    -> "h"]
EvictedSpecs ==
    LET Shape(mode, pins, n) == [mode |-> mode, hosts |-> pins, replicas |-> n]
    IN  [p |-> Shape("pack", {}, 3), g |-> Shape("global", {}, 1), h |-> Shape("hosts", {2, 3}, 1)]
On(p1, p2, p3, g1, g2, h1) ==
    [p1 |-> p1, p2 |-> p2, p3 |-> p3, g1 |-> g1, g2 |-> g2, h1 |-> h1]
OverTwo == On(2, 2, 3, 2, 3, 2)

DR == INSTANCE Drain WITH
        Hosts <- 1..3, Replicas <- Evicted, ServiceOf <- EvictedOf, Specs <- EvictedSpecs,
        IndexOf <- [r \in Evicted |-> CASE r = "p2" -> 1 [] r = "p3" -> 2 [] OTHER -> 0],
        SpreadHash <- [i \in 0..2 |-> i],
        Placements <- {OverTwo, On(3, 3, 3, 1, 3, 3)}, Leader <- 1,
        MaxCommits <- 1, MaxCalls <- 2, MaxFaults <- 1,
        ready <- readyNodes, desired <- placed, observed <- reported, call <- removal,
        calls <- removals, faults <- failures

(* Views: a service that waits for two replicas of another, and a second    *)
(* deployment that the filters tell apart.                                  *)
Listed == {"w1", "d1", "d2"}
Seen(state, host, code, message, reason) ==
    [state |-> state, host |-> host, code |-> code, message |-> message, reason |-> reason]
Reported ==
    [r \in Listed |->
        IF r = "w1" THEN {Seen("pending", "h2", "image_pull_failed", None, "unreachable"),
                          Seen("failed", None, "inspect_failed", "message", None)}
        ELSE {Seen("running", "h2", None, None, None),
              Seen("degraded", None, "unhealthy", None, None)}]
Waits(on, condition, required) ==
    [of |-> "web", on |-> on, condition |-> condition, required |-> required]
Rule(path) == [domain |-> "e.org", path |-> path, deployment |-> "x", service |-> "web",
               port |-> 80, tls |-> TRUE]
Request(kind, d, svc, id) == [kind |-> kind, dep |-> d, svc |-> svc, id |-> id]
Requests == {Request("status", None, None, None), Request("status", "y", None, None),
             Request("replicas", None, "db", None)}
FirstRequest == Request("status", None, None, None)

VW == INSTANCE Views WITH
        Deployments <- {"x", "y"}, Replicas <- Listed, Hosts <- {"h1", "h2"},
        DeploymentOf <- [r \in Listed |-> "x"],
        ServiceOf <- [r \in Listed |-> IF r = "w1" THEN "web" ELSE "db"],
        Placed <- [r \in Listed |-> "h1"],
        Declared <- [x |-> {{Waits("db", "service_healthy", TRUE)},
                            {Waits("db", "service_started", TRUE),
                             Waits("web", "service_healthy", FALSE)}}, y |-> {{}}],
        RoutesOf <- [x |-> {Rule(""), Rule("/a")}, y |-> {}], Envs <- {"staging", "prod"},
        Reports <- Reported, Calls <- Requests, MaxCommits <- 2,
        desired <- rows, observed <- reports, call <- request, pc <- stage, commits <- changes

(* Resolver: in-scope names in each of their forms, a name of another       *)
(* deployment, two external ones; each source of upstreams.                 *)
V4(a, b, c, d) == [kind |-> "v4", octets |-> <<a, b, c, d>>, port |-> 0]
Public == V4(1, 1, 1, 1)
Gateway == V4(10, 244, 1, 1)
Line(a) == [key |-> "nameserver", addr |-> a]
Asks == {<<"web">>, <<"web", "app">>, <<"web", "jaco", "internal">>,
         <<"web", "app", "jaco", "internal">>, <<"web", "blog">>, <<"ex", "org">>,
         <<"six", "org">>}
Known(v4, v6) == [v4 |-> v4, v6 |-> v6]

RS == INSTANCE Resolver WITH
        Deployment <- "app", Services <- {"web"}, Overlay <- {"o1"}, Names <- Asks,
        Qtypes <- {"A", "AAAA", "MX"},
        Addresses <- [n \in Asks |-> CASE n = <<"ex", "org">>  -> Known({"x4"}, {"x6"})
                                      [] n = <<"six", "org">> -> Known({}, {"s6"})
                                      [] OTHER                -> Known({}, {})],
        Forwarders <- {<<>>, <<[Public EXCEPT !.port = 5353],
                               [kind |-> "hostname", octets |-> <<>>, port |-> 0]>>, <<Gateway>>},
        ResolvConfs <- {None, <<Line(Gateway), [Line(Public) EXCEPT !.key = "search"],
                                Line(V4(127, 0, 0, 11)), Line(Public)>>},
        MaxSwaps <- 1, MaxQueries <- 2

(* A component that does not run is in one of its initial states.           *)
SuiteInit ==
    /\ which \in {"scheduler", "handlers", "drain", "views", "resolver"}
    /\ Init /\ CA!MCInit /\ DR!Init /\ VW!Init /\ RS!Init
    /\ which # "handlers" => traffic = "deploy"
    /\ which # "drain" => placed["p1"].host = OverTwo["p1"]
    /\ which # "views" => request = FirstRequest
    /\ which # "resolver" => upstreams = None /\ name = <<"web">> /\ services["web"] = {}

SuiteNext ==
    \/ which = "scheduler" /\ Next /\ UNCHANGED <<which, handlers, drain, views, resolver>>
    \/ which = "handlers" /\ CA!MCNext /\ UNCHANGED <<which, vars, drain, views, resolver>>
    \/ which = "drain" /\ DR!Next /\ UNCHANGED <<which, vars, handlers, views, resolver>>
    \/ which = "views" /\ VW!Next /\ UNCHANGED <<which, vars, handlers, drain, resolver>>
    \/ which = "resolver" /\ RS!Next /\ UNCHANGED <<which, vars, handlers, drain, views>>

(* The two images are interchangeable.                                      *)
ImageSymmetry == Permutations({ImgA, ImgB})

SuiteSpec == SuiteInit /\ [][SuiteNext]_<<which, vars, handlers, drain, views, resolver>>

(* The type invariants of the five components.                              *)
TypesOK == /\ which = "scheduler" => TypeOK
           /\ which = "handlers" => CA!TypeOK
           /\ which = "drain" => DR!TypeOK
           /\ which = "views" => VW!TypeOK
           /\ which = "resolver" => RS!TypeOK

(* ControlAPI: no two networks of the cluster have the same /24, and one    *)
(* that was handed out stays with its host.                                 *)
SubnetsKept == which = "handlers" => CA!SubnetsDisjoint /\ CA!HandedOutStays

(* ControlAPI: a submission is in the log at most once, and the audit event *)
(* of a privileged workload after the manifest it is about.                 *)
SubmitOnce == which = "handlers" => CA!SubmitOnce /\ CA!AuditAfterAdmission

(* ControlAPI: a deployment keeps the host ports it publishes.              *)
PortsKept == which = "handlers" => CA!PortsKept

(* Drain: a node that was drained and removed has nothing left on it, and   *)
(* packed replicas are spread evenly over the nodes that remain.            *)
DrainEmpties == which = "drain" => DR!DrainEmpties /\ DR!PackEven

(* Drain: no node gets a second copy of a global service.                   *)
GlobalOnce == which = "drain" => DR!GlobalOnce

(* Views: a row is of the replica it names as it was during the call, of    *)
(* nothing that the filter excludes, no two routes look the same, a         *)
(* production certificate is shown as one, and a dependency is shown        *)
(* satisfied when the runtime's gate opens.                                 *)
ViewsTrue ==
    which = "views" => /\ VW!RowsCurrent /\ VW!FilterHolds /\ VW!RowsDistinct
                       /\ VW!ProdShown /\ VW!GateAgrees

(* Resolver: a name is denied only when no upstream knows it, the questions *)
(* about one name agree, and the names of the scope stay on the node.       *)
AnswersTrue == which = "resolver" => RS!NegativeIsTrue /\ RS!DualStackAgrees /\ RS!InScopeStays
=============================================================================
