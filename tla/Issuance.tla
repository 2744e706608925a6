------------------------------ MODULE Issuance ------------------------------
(***************************************************************************)
(* Certificates for one tls: auto domain: the stage-first controller of    *)
(* the leader (ingress/stagefirst), the loop that drives it on every node  *)
(* and makes followers load what was replicated (daemon/grpc/ingress.go),  *)
(* the Reloader, the raft-backed certificate storage with its disk mirror  *)
(* (ingress/storage) and the HTTP-01 tokens (ingress/challenge).           *)
(*                                                                         *)
(* Caddy and CertMagic are external, and used as the code's comments say:  *)
(* loading a configuration abandons the order the previous one started,    *)
(* takes a complete certificate from storage, and otherwise tries the      *)
(* domain's lock once; under the lock an order is retried until it         *)
(* succeeds.  The cache of leaves outlives a load.                         *)
(*                                                                         *)
(* Blobs replicate at once: every loop reads them at a moment of its own   *)
(* anyway.  Deadlines are "on" until time makes them "over".               *)
(***************************************************************************)
EXTENDS Naturals, FiniteSets

CONSTANTS Nodes,
          MaxFaults,   \* bounds failing loads and ACME attempts
          MaxEvents    \* bounds the daemons that restart and the applies
                       \* that add or remove the route

VARIABLES
    route,     \* the domain has a tls: auto route
    blobs,     \* state.CertBlobs of the domain: <<environment, half>>
    bad,       \* the staging chain does not name the domain
    disk,      \* the disk mirror of each node's storage
    leader,
    ctrl,      \* the Controller of each node, for this domain
    policy,    \* the automation policy in the configuration Caddy runs
    cache,     \* the environments of the leaves in Caddy's cache
    job,       \* CertMagic's obtain job for the policy
    seen, loaded,   \* seenStaging and loadedProd: sets of nodes
    env,       \* the last ACME event: issued by an environment, or failed
    restarted, \* some daemon has restarted
    faults, events

stores == <<route, blobs, bad, disk>>
bounds == <<restarted, faults, events>>
vars == <<stores, leader, ctrl, policy, cache, job, seen, loaded, env, bounds>>

Envs == {"staging", "prod"}
Resource(e) == {e} \X {"crt", "key"}
Fault == faults < MaxFaults /\ faults' = faults + 1
Event == events < MaxEvents /\ events' = events + 1

NewController == [staging |-> FALSE, backoff |-> "no", pending |-> "no", prodBackoff |-> "no"]

Init ==
    /\ route = TRUE /\ blobs = {} /\ bad = FALSE
    /\ disk \in {[n \in Nodes |-> {}]} \cup {[n \in Nodes |-> IF n = m THEN Resource("prod") ELSE {}] : m \in Nodes}
    /\ leader = CHOOSE n \in Nodes : TRUE   \* the nodes are alike
    /\ ctrl = [n \in Nodes |-> NewController]
    /\ policy = [n \in Nodes |-> "none"] /\ cache = [n \in Nodes |-> {}]
    /\ job = [n \in Nodes |-> "none"]
    /\ seen = {} /\ loaded = {} /\ env = "none"
    /\ restarted = FALSE /\ faults = 0 /\ events = 0

(****************************** the stores **********************************)
prodCertIssued == <<"prod", "crt">> \in blobs

prodCertResourceComplete == Resource("prod") \subseteq blobs

loadStagingChain == <<"staging", "crt">> \in blobs

(* The chain names the domain.                                              *)
SelfCheck == ~bad

clearStagingCertBlobs == blobs \ Resource("staging")

stagingDomainsFromState(bs) == route /\ ~prodCertIssued /\ <<"staging", "crt">> \in bs

stagingDomainsForBuilder(n, c, bs) == stagingDomainsFromState(bs) \/ (n = leader /\ c.staging)

(* JacoStorage.Load: what raft lacks is read from the disk mirror.          *)
Stored(n, e) == Resource(e) \cap (blobs \cup disk[n])

RouteChange ==
    /\ Event /\ route' = ~route
    /\ UNCHANGED <<blobs, bad, disk, leader, ctrl, policy, cache, job, seen, loaded, env, restarted, faults>>

(****************************** the Reloader ********************************)
(* buildTLSPolicies, for a domain with or without a tls: auto route.        *)
build(n, c, bs) ==
    IF ~route THEN "none" ELSE IF stagingDomainsForBuilder(n, c, bs) THEN "staging" ELSE "prod"

Load(n, p, held) ==
    /\ policy' = [policy EXCEPT ![n] = p]
    /\ IF p = "none" THEN job' = [job EXCEPT ![n] = "none"] /\ cache' = [cache EXCEPT ![n] = held]
       ELSE LET whole == Stored(n, p) = Resource(p)
            IN  /\ job' = [job EXCEPT ![n] = IF whole THEN "none" ELSE "want"]
                /\ cache' = [cache EXCEPT ![n] = IF whole THEN held \cup {p} ELSE held]

(* Read-repair: what the load took from disk goes back to raft.             *)
Repaired(n, p, kept) == IF p = "none" THEN kept ELSE kept \cup Stored(n, p)

(* rebuild, with a controller c, the blobs kept and the leaves held by its  *)
(* caller: an identical configuration is loaded only when forced.           *)
rebuild(n, c, kept, held, force) ==
    LET p == build(n, c, kept)
    IN  \/ /\ p = policy[n] /\ ~force
           /\ blobs' = kept /\ cache' = [cache EXCEPT ![n] = held] /\ UNCHANGED <<policy, job, faults>>
        \/ /\ p # policy[n] \/ force
           /\ \/ Load(n, p, held) /\ blobs' = Repaired(n, p, kept) /\ UNCHANGED faults
              \/ Fault /\ blobs' = kept /\ cache' = [cache EXCEPT ![n] = held] /\ UNCHANGED <<policy, job>>

(* The debounced loop; observations keep it going while a replica runs.     *)
Rebuild(n) ==
    /\ rebuild(n, ctrl[n], blobs, cache[n], FALSE)
    /\ UNCHANGED <<route, bad, disk, leader, ctrl, seen, loaded, env, restarted, events>>

(****************************** stage-first *********************************)
(* The controller's own deadlines pass.  They are minutes and hours long:   *)
(* no PendingProdWindow ends before an event for the Reloader, and one that *)
(* ends with an order under way is one of the faults.                       *)
Expire(n) ==
    /\ \/ \E f \in {"backoff", "prodBackoff"} :
             ctrl[n][f] = "on" /\ ctrl' = [ctrl EXCEPT ![n][f] = "over"] /\ UNCHANGED faults
       \/ /\ ctrl[n].pending = "on" /\ ctrl' = [ctrl EXCEPT ![n].pending = "over"]
          /\ \A m \in Nodes : policy[m] = build(m, ctrl[m], blobs)
          /\ Fault \/ ((\A m \in Nodes : job[m] = "none") /\ UNCHANGED faults)
    /\ UNCHANGED <<stores, leader, policy, cache, job, seen, loaded, env, restarted, events>>

(* A pass on the leader ends with controller c, the event e emitted, the    *)
(* blobs kept and leaves held, and a rebuild when the staging set changed.  *)
EndPass(n, c, e, kept, held, changed) ==
    /\ ctrl' = [ctrl EXCEPT ![n] = c] /\ env' = e
    /\ IF changed THEN rebuild(n, c, kept, held, FALSE)
       ELSE blobs' = kept /\ cache' = [cache EXCEPT ![n] = held] /\ UNCHANGED <<policy, job, faults>>
    /\ disk' = [disk EXCEPT ![n] = @ \ (blobs \ kept)]

Issued(c) == [c EXCEPT !.staging = FALSE, !.pending = "no", !.prodBackoff = "no"]

(* A domain in its dry run.                                                 *)
ReconcileStaging(n) ==
    LET c == ctrl[n] IN
    /\ c.staging
    /\ \/ ~route /\ EndPass(n, [c EXCEPT !.staging = FALSE], env, blobs, cache[n], TRUE)
       \/ route /\ prodCertIssued /\ EndPass(n, Issued(c), "prod", blobs, cache[n], TRUE)
       \/ /\ route /\ ~prodCertIssued /\ loadStagingChain /\ ~SelfCheck
          /\ EndPass(n, [c EXCEPT !.staging = FALSE, !.backoff = "on"], "failed", blobs, cache[n], TRUE)
       \/ /\ route /\ ~prodCertIssued /\ loadStagingChain /\ SelfCheck
          /\ EndPass(n, [c EXCEPT !.staging = FALSE, !.pending = "on"], "staging",
                     clearStagingCertBlobs, {}, TRUE)

(* A promoted domain: its prod certificate landed, or its window is over.   *)
(* (prodFails only lengthens the back-off.)                                 *)
ReconcilePending(n) ==
    LET c == ctrl[n] IN
    /\ ~c.staging /\ c.pending # "no" /\ route
    /\ \/ prodCertIssued /\ EndPass(n, Issued(c), "prod", blobs, cache[n], FALSE)
       \/ /\ ~prodCertIssued /\ c.pending = "over"
          /\ EndPass(n, [c EXCEPT !.pending = "no", !.prodBackoff = "on"], "failed", blobs, cache[n], FALSE)

(* Without the pending window.                                              *)
ShouldStageAgain(c) == ~prodCertIssued /\ c.prodBackoff # "on" /\ c.backoff # "on"

(* ShouldStage for a domain on the production CA, and the two back-offs.    *)
ShouldStage(c) == c.pending = "no" /\ ~prodCertIssued /\ c.prodBackoff # "on" /\ c.backoff # "on"

ReconcileNew(n) ==
    LET c == ctrl[n] IN
    /\ ~c.staging /\ route /\ ShouldStage(c)
    /\ EndPass(n, [c EXCEPT !.staging = TRUE, !.backoff = "no", !.prodBackoff = "no"], env, blobs, cache[n], TRUE)

Seen(n) ==
    IF stagingDomainsFromState(blobs) THEN seen \cup {n}
    ELSE IF prodCertIssued \/ ~route THEN seen \ {n} ELSE seen

(* The leader's pass, after a reconcileStagingCache that only tracks.       *)
ReconcileLeader(n) ==
    /\ n = leader /\ seen' = Seen(n)
    /\ ReconcileStaging(n) \/ ReconcilePending(n) \/ ReconcileNew(n)
    /\ UNCHANGED <<route, bad, leader, loaded, restarted, events>>

(* reconcileStagingCache on a follower drops the staging leaf once.         *)
Evicted(n) == IF n \in seen /\ ~stagingDomainsFromState(blobs) /\ prodCertIssued THEN {} ELSE cache[n]

ForceReload(n, held) == rebuild(n, ctrl[n], blobs, held, TRUE)

followerServesProdLeaf(n) == "prod" \in Evicted(n)

(* followerProdReloadTargets: whether n must load the replicated leaf.      *)
Target(n) == route /\ prodCertResourceComplete /\ n \notin loaded /\ ~followerServesProdLeaf(n)

Latched(n) ==
    IF route /\ prodCertResourceComplete /\ (n \in loaded \/ followerServesProdLeaf(n)) THEN loaded \cup {n}
    ELSE loaded \ {n}

ReconcileFollower(n) ==
    /\ n # leader /\ seen' = Seen(n) /\ loaded' = Latched(n)
    /\ IF Target(n) THEN ForceReload(n, Evicted(n))
       ELSE cache' = [cache EXCEPT ![n] = Evicted(n)] /\ UNCHANGED <<blobs, policy, job, faults>>
    /\ UNCHANGED <<route, bad, disk, leader, ctrl, env, restarted, events>>

(****************************** CertMagic ***********************************)
Ordering == {n \in Nodes : job[n] \in {"order", "valid", "half"}}

(* A lock that is held fails the job; under it, storage is looked at again. *)
Acquire(n) ==
    /\ job[n] = "want"
    /\ LET whole == Stored(n, policy[n]) = Resource(policy[n])
       IN  /\ job' = [job EXCEPT ![n] = IF Ordering = {} /\ ~whole THEN "order" ELSE "none"]
           /\ cache' = IF Ordering = {} /\ whole THEN [cache EXCEPT ![n] = @ \cup {policy[n]}] ELSE cache
    /\ UNCHANGED <<stores, leader, ctrl, policy, seen, loaded, env, bounds>>

(* Store of the challenge token: its tap publishes it to the cluster, and   *)
(* any node the CA asks answers from its own stores.                        *)
Present(n) ==
    /\ job[n] = "order" /\ job' = [job EXCEPT ![n] = "valid"]
    /\ UNCHANGED <<stores, leader, ctrl, policy, cache, seen, loaded, env, bounds>>

(* The publication failed, which is only logged, the CA asked a node before *)
(* the token reached it, or an apply failed: the order starts again.        *)
AttemptFails(n) ==
    /\ job[n] \in {"valid", "half"} /\ Fault
    /\ job' = [job EXCEPT ![n] = "order"]
    /\ UNCHANGED <<stores, leader, ctrl, policy, cache, seen, loaded, env, restarted, events>>

Store(n, blob) ==
    /\ blobs' = blobs \cup {blob} /\ disk' = [disk EXCEPT ![n] = @ \cup {blob}]

StoreCert(n) ==
    /\ job[n] = "valid" /\ job' = [job EXCEPT ![n] = "half"]
    /\ Store(n, <<policy[n], "crt">>)
    /\ \/ policy[n] = "staging" /\ Fault /\ bad' = TRUE
       \/ policy[n] = "staging" /\ bad' = FALSE /\ UNCHANGED faults
       \/ policy[n] = "prod" /\ UNCHANGED <<bad, faults>>
    /\ UNCHANGED <<route, leader, ctrl, policy, cache, seen, loaded, env, restarted, events>>

StoreKey(n) ==
    /\ job[n] = "half" /\ job' = [job EXCEPT ![n] = "none"]
    /\ Store(n, <<policy[n], "key">>)
    /\ cache' = [cache EXCEPT ![n] = @ \cup {policy[n]}]
    /\ UNCHANGED <<route, bad, leader, ctrl, policy, seen, loaded, env, bounds>>

(****************************** restarts ************************************)
(* The daemon's memory is gone and another node may lead.  When it leads    *)
(* again its first render already has the staging set.                      *)
Restart(n) ==
    /\ Event /\ restarted' = TRUE
    /\ leader' \in Nodes /\ (n # leader => leader' = leader)
    /\ ctrl' = [ctrl EXCEPT ![n] = [NewController EXCEPT !.staging = n = leader' /\ route /\ ~prodCertIssued]]
    /\ policy' = [policy EXCEPT ![n] = "none"] /\ cache' = [cache EXCEPT ![n] = {}]
    /\ job' = [job EXCEPT ![n] = "none"] /\ seen' = seen \ {n} /\ loaded' = loaded \ {n}
    /\ UNCHANGED <<stores, env, faults>>

CertMagic(n) ==
    Acquire(n) \/ Present(n) \/ StoreCert(n) \/ StoreKey(n)

Reconcile(n) == ReconcileLeader(n) \/ ReconcileFollower(n)

Next ==
    \/ RouteChange
    \/ \E n \in Nodes : Reconcile(n) \/ Rebuild(n) \/ Expire(n) \/ CertMagic(n) \/ AttemptFails(n) \/ Restart(n)

(* The loops tick, an order under way goes on, time passes.                 *)
Fairness ==
    \A n \in Nodes : /\ WF_vars(Reconcile(n)) /\ WF_vars(Rebuild(n)) /\ WF_vars(Expire(n))
                     /\ WF_vars(CertMagic(n))

Spec == Init /\ [][Next]_vars /\ Fairness

(****************************** properties **********************************)
(* The values the variables take, and one order at a time in the cluster.   *)
TypeOK ==
    /\ blobs \subseteq Resource("staging") \cup Resource("prod") /\ leader \in Nodes
    /\ policy \in [Nodes -> {"none"} \cup Envs] /\ cache \in [Nodes -> SUBSET Envs]
    /\ Cardinality(Ordering) <= 1

(* The two ways a staging certificate can block the domain for good: its    *)
(* chain fails the check and stays, or the leader clears the chain between  *)
(* the stores of its two halves, and the second one is what stays.          *)
StagingStuck ==
    bad \/ (<<"staging", "key">> \in blobs /\ <<"staging", "crt">> \notin blobs)

(* With a route that stays, the domain gets its prod certificate, although  *)
(* each switch between the two CAs abandons the order under way, orders     *)
(* fail, windows run out and leaders restart.                               *)
ProdLands == <>[]route => <>[](prodCertIssued \/ StagingStuck)

(* A follower ends up with the prod leaf in its cache, whichever node       *)
(* obtained it: its own attempt may have met a held lock, found half of the *)
(* certificate or failed to load, and its configuration does not change     *)
(* any more.                                                                *)
FollowersServe ==
    \A n \in Nodes : <>[](route /\ n # leader) => <>[]("prod" \in cache[n] \/ StagingStuck)

(* The audit trail does not end with the staging certificate, which status  *)
(* would show for a domain served by prod, when no daemon has restarted.    *)
StatusEnv == <>[](route /\ ~restarted) => <>[](env # "staging" \/ StagingStuck)
=============================================================================
