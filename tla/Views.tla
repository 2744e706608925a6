-------------------------------- MODULE Views --------------------------------
(* What an operator is shown: Deploy.Status and Deploy.GetReplicas read the *)
(* stores of one node one after the other while the FSM goes on writing     *)
(* them, and the CLI renders what they return.                              *)
EXTENDS Naturals, Sequences, FiniteSets

CONSTANTS
    Deployments, Replicas,
    DeploymentOf, ServiceOf,    \* per replica
    Hosts, Placed,  \* and where the replicas are at first
    Declared,       \* deployment -> the depends_on entries its manifests may declare
    RoutesOf,       \* deployment -> the routes it declares
    Envs,           \* issuing environments: "staging", "prod"
    Reports,        \* the observations a replica's host may submit
    Calls,          \* the requests: [kind, dep, svc, id]
    None,
    MaxCommits      \* bound: commands the FSM applies

Domains == {rt.domain : rt \in UNION {RoutesOf[d] : d \in Deployments}}

VARIABLES
    deployments,    \* deployment -> its depends_on entries; None when absent
    desired,        \* replica -> its host; None when absent
    observed,       \* replica -> the last report; None when absent
    counters,       \* replica -> consecutive failures
    routes,         \* the Routes rows
    blobs,          \* the certificates, as <<environment, domain>>
    audits,         \* the issuance events, oldest first
    deleting,       \* the cascade of a deletion, step by step
    call, pc, read, \* the request, its progress, and what it has read
    shown,          \* the response
    during,         \* per replica, the reports and the hosts it had during the call
    commits

stores == <<deployments, desired, observed, counters, routes, blobs, audits, deleting>>
reader == <<call, pc, read, shown>>
vars == <<stores, reader, during, commits>>

-----------------------------------------------------------------------------
(* GetReplicas *)

stateRank(s) ==
    CASE s = "running"  -> 7 [] s = "degraded" -> 6 [] s = "updating" -> 5
      [] s = "pulling"  -> 4 [] s = "pending"  -> 3 [] s = "stopped"  -> 2
      [] s = "failed"   -> 1 [] OTHER          -> 0

PeersOf(d, svc) ==
    {r \in Replicas : /\ desired[r] # None /\ DeploymentOf[r] = d /\ ServiceOf[r] = svc
                      /\ observed[r] # None}

bestObservedState(d, svc) ==
    LET states == {"unspecified"} \cup {observed[r].state : r \in PeersOf(d, svc)}
    IN  CHOOSE s \in states : \A t \in states : stateRank(t) <= stateRank(s)

dependencySatisfied(s, condition) ==
    \/ condition = "service_healthy" /\ s = "running"
    \/ condition = "service_started" /\ s \in {"running", "degraded"}

dependenciesFor(d, svc) ==
    IF deployments[d] = None THEN {} ELSE {x \in deployments[d] : x.of = svc}

resolveDependsOn(d, svc) ==
    {[service |-> x.on, condition |-> x.condition, state |-> bestObservedState(d, x.on),
      satisfied |-> x.required /\ dependencySatisfied(bestObservedState(d, x.on), x.condition)]
     : x \in dependenciesFor(d, svc)}

(* The gate of the runtime (depends_on.go), which the view repeats.         *)
satisfies(s, condition) ==
    CASE condition = "service_started" -> s \in {"running", "degraded"}
      [] condition = "service_healthy" -> s = "running"
      [] OTHER                         -> FALSE

checkDependsOn(d, svc) ==
    \A x \in dependenciesFor(d, svc) :
        x.required => \E r \in PeersOf(d, x.on) : satisfies(observed[r].state, x.condition)

(* The code, and the message or else the reason among the details.          *)
formatReplicaReason(o) == <<o.code, IF o.message # None THEN o.message ELSE o.reason>>

NoReason == <<None, None>>

Selected(r) ==
    /\ call.id # None => r = call.id
    /\ call.dep # None => DeploymentOf[r] = call.dep
    /\ call.svc # None => ServiceOf[r] = call.svc

HostAsPlanned(r, host, obs, fails) ==
    [id |-> r, state |-> IF obs = None THEN "unspecified" ELSE obs.state, host |-> host,
     reason |-> IF obs = None THEN NoReason ELSE formatReplicaReason(obs),
     restarts |-> fails, dependsOn |-> resolveDependsOn(DeploymentOf[r], ServiceOf[r])]

(* A row of the detail view; the host that reports is preferred.            *)
replicaToView(r, host, obs, fails) ==
    [id |-> r, state |-> IF obs = None THEN "unspecified" ELSE obs.state,
     host |-> IF obs # None /\ obs.host # None THEN obs.host ELSE host,
     reason |-> IF obs = None THEN NoReason ELSE formatReplicaReason(obs),
     restarts |-> fails, dependsOn |-> resolveDependsOn(DeploymentOf[r], ServiceOf[r])]

Idle == [observed |-> None, desired |-> None, counters |-> None, deployments |-> None,
         routes |-> None, latest |-> None]

ReadAt(from, to, field, value) ==
    /\ pc = from /\ pc' = to
    /\ read' = [read EXCEPT ![field] = value]
    /\ UNCHANGED <<stores, call, shown, during, commits>>

GetReplicas ==
    \/ call.kind = "replicas" /\ ReadAt("called", "counters", "observed", observed)
    \/ call.kind = "replicas" /\ ReadAt("counters", "desired", "counters", counters)
    \/ /\ pc = "desired" /\ pc' = "done"
       /\ shown' = {replicaToView(r, desired[r], read.observed[r], read.counters[r])
                    : r \in {x \in Replicas : desired[x] # None /\ Selected(x)}}
       /\ UNCHANGED <<stores, call, read, during, commits>>

-----------------------------------------------------------------------------
(* Status *)

(* The observed rows; under a filter, only those whose desired row tells    *)
(* the deployment and the service.                                          *)
StatusReplicas(rows, owned) ==
    {[id |-> r, state |-> rows[r].state, reason |-> formatReplicaReason(rows[r]),
      host |-> IF rows[r].host = None /\ owned[r] # None THEN owned[r] ELSE rows[r].host]
     : r \in {x \in Replicas : /\ rows[x] # None
                               /\ call.dep # None \/ call.svc # None =>
                                      owned[x] # None /\ Selected(x)}}

StatusRoutes(rows) ==
    {rt \in rows : /\ call.dep # None => rt.deployment = call.dep
                   /\ call.svc # None => rt.service = call.svc}

(* The last issuance event of each domain; None when there is none.         *)
Latest(events) ==
    [d \in Domains |->
        LET at == {i \in 1..Len(events) : events[i].domain = d}
        IN  IF at = {} THEN None ELSE events[CHOOSE i \in at : \A j \in at : j <= i].env]

(* The environment of a domain's certificate, whatever the order in which   *)
(* the store lists the blobs.                                               *)
FromBlob(d, listing) ==
    LET at == {i \in 1..Len(listing) : listing[i][2] = d}
    IN  IF at = {} THEN None
        ELSE IF \E i \in at : listing[i][1] = "prod" THEN "prod"
        ELSE listing[CHOOSE i \in at : \A j \in at : j <= i][1]

Certs(rows, latest, listing) ==
    LET shownFor == {d \in {rt.domain : rt \in {x \in rows : x.tls}} :
                        latest[d] # None \/ FromBlob(d, listing) # None}
    IN  [d \in shownFor |-> IF FromBlob(d, listing) # None THEN FromBlob(d, listing) ELSE latest[d]]

Listings == {l \in [1..Cardinality(blobs) -> blobs] : \A b \in blobs : \E i \in DOMAIN l : l[i] = b}

Status ==
    \/ call.kind = "status" /\ ReadAt("called", "index", "deployments",
            {d \in Deployments : deployments[d] # None /\ (call.dep # None => d = call.dep)})
    \/ ReadAt("index", "rows", "desired", desired)
    \/ ReadAt("rows", "routes", "observed", observed)
    \/ ReadAt("routes", "audits", "routes", StatusRoutes(routes))
    \/ ReadAt("audits", "blobs", "latest", Latest(audits))
    \/ /\ pc = "blobs" /\ pc' = "done"
       /\ \E listing \in Listings :
             shown' = [deployments |-> read.deployments,
                       replicas |-> StatusReplicas(read.observed, read.desired),
                       routes |-> read.routes,
                       certs |-> Certs(read.routes, read.latest, listing)]
       /\ UNCHANGED <<stores, call, read, during, commits>>

(* The rows of the Routes table.                                            *)
renderStatus(rt) == <<rt.domain, rt.path, rt.deployment, rt.service, rt.port, rt.tls>>

-----------------------------------------------------------------------------
(* The FSM *)

Commit == deleting = None /\ commits < MaxCommits /\ commits' = commits + 1

Seen(obs, des) ==
    [r \in Replicas |-> [reports |-> during[r].reports \cup {obs[r]},
                         hosts |-> during[r].hosts \cup {des[r]}]]

(* A report lands whether or not its replica is still desired.              *)
ReplicaObservedUpdate(r) ==
    /\ Commit
    /\ \E o \in Reports[r] : /\ o # observed[r]
                             /\ observed' = [observed EXCEPT ![r] = o]
    /\ during' = Seen(observed', desired)
    /\ UNCHANGED <<deployments, desired, counters, routes, blobs, audits, deleting, reader>>

ReplicaDesiredUpsert(r) ==
    /\ Commit
    /\ deployments[DeploymentOf[r]] # None
    /\ \E h \in Hosts : h # desired[r] /\ desired' = [desired EXCEPT ![r] = h]
    /\ during' = Seen(observed, desired')
    /\ UNCHANGED <<deployments, observed, counters, routes, blobs, audits, deleting, reader>>

RestartCounterIncrement(r) ==
    /\ Commit
    /\ counters' = [counters EXCEPT ![r] = @ + 1]
    /\ UNCHANGED <<deployments, desired, observed, routes, blobs, audits, deleting, reader, during>>

DeploymentApply(d) ==
    /\ Commit
    /\ \E deps \in Declared[d] : deps # deployments[d] /\ deployments' = [deployments EXCEPT ![d] = deps]
    /\ routes' = routes \cup RoutesOf[d]
    /\ UNCHANGED <<desired, observed, counters, blobs, audits, deleting, reader, during>>

(* The cascade goes through the stores one by one: the routes, the replicas *)
(* (desired, then observed and its counter), the deployment.                *)
DeploymentDelete(d) ==
    /\ Commit /\ deployments[d] # None
    /\ routes' = {rt \in routes : rt.deployment # d}
    /\ deleting' = [dep |-> d, left |-> {r \in Replicas : DeploymentOf[r] = d /\ desired[r] # None},
                    half |-> None]
    /\ UNCHANGED <<deployments, desired, observed, counters, blobs, audits, reader, during>>

removeReplicaDesired ==
    /\ deleting # None
    /\ \/ \E r \in deleting.left :
             /\ deleting.half = None
             /\ desired' = [desired EXCEPT ![r] = None]
             /\ deleting' = [deleting EXCEPT !.half = r]
             /\ UNCHANGED <<observed, counters>>
       \/ /\ deleting.half # None
          /\ observed' = [observed EXCEPT ![deleting.half] = None]
          /\ counters' = [counters EXCEPT ![deleting.half] = 0]
          /\ deleting' = [deleting EXCEPT !.half = None, !.left = @ \ {deleting.half}]
          /\ UNCHANGED desired
    /\ during' = Seen(observed', desired')
    /\ UNCHANGED <<deployments, routes, blobs, audits, reader, commits>>

DeploymentGone ==
    /\ deleting # None /\ deleting.left = {}
    /\ deployments' = [deployments EXCEPT ![deleting.dep] = None]
    /\ deleting' = None
    /\ UNCHANGED <<desired, observed, counters, routes, blobs, audits, reader, during, commits>>

CertBlobUpsert(e, d) ==
    /\ Commit
    /\ <<e, d>> \notin blobs /\ blobs' = blobs \cup {<<e, d>>}
    /\ UNCHANGED <<deployments, desired, observed, counters, routes, audits, deleting, reader, during>>

AuditEmit(e, d) ==
    /\ Commit
    /\ audits' = Append(audits, [env |-> e, domain |-> d])
    /\ UNCHANGED <<deployments, desired, observed, counters, routes, blobs, deleting, reader, during>>

-----------------------------------------------------------------------------
Init ==
    /\ deployments = [d \in Deployments |-> CHOOSE deps \in Declared[d] : TRUE]
    /\ desired = Placed
    /\ observed = [r \in Replicas |-> None]
    /\ counters = [r \in Replicas |-> 0]
    /\ routes = UNION {RoutesOf[d] : d \in Deployments}
    /\ blobs = {} /\ audits = <<>> /\ deleting = None
    /\ call \in Calls /\ pc = "uncalled" /\ read = Idle /\ shown = {}
    /\ during = [r \in Replicas |-> [reports |-> {}, hosts |-> {}]]
    /\ commits = 0

(* The call arrives; what it may show starts with what is there now.        *)
Called ==
    /\ pc = "uncalled" /\ pc' = "called"
    /\ during' = [r \in Replicas |-> [reports |-> {observed[r]}, hosts |-> {desired[r]}]]
    /\ UNCHANGED <<stores, call, read, shown, commits>>

Apply ==
    \/ \E r \in Replicas : ReplicaObservedUpdate(r) \/ ReplicaDesiredUpsert(r) \/ RestartCounterIncrement(r)
    \/ \E d \in Deployments : DeploymentApply(d) \/ DeploymentDelete(d)
    \/ removeReplicaDesired \/ DeploymentGone
    \/ \E e \in Envs, d \in Domains : CertBlobUpsert(e, d) \/ AuditEmit(e, d)

Next == Called \/ GetReplicas \/ Status \/ (pc # "done" /\ Apply)

-----------------------------------------------------------------------------
TypeOK ==
    /\ \A r \in Replicas : desired[r] \in Hosts \cup {None} /\ observed[r] \in Reports[r] \cup {None}
    /\ routes \subseteq UNION {RoutesOf[d] : d \in Deployments}
    /\ blobs \subseteq Envs \X Domains
    /\ commits \in 0..MaxCommits

ShownRows == IF pc # "done" THEN {} ELSE IF call.kind = "replicas" THEN shown ELSE shown.replicas

(* A row the CLI prints is of the replica it names, as it was at some       *)
(* moment of the call: its state and reason are one report of that replica, *)
(* and its host is the reporting one or one the replica was placed on.      *)
RowsCurrent ==
    \A row \in ShownRows :
        LET was == during[row.id]
            said == was.reports \ {None} IN
        \/ row.state = "unspecified" /\ None \in was.reports /\ row.host \in was.hosts
        \/ \E o \in said : /\ row.state = o.state /\ row.reason = formatReplicaReason(o)
                           /\ IF o.host # None THEN row.host = o.host ELSE row.host \in was.hosts \cup {None}

(* The depends_on column and the runtime's gate agree: every required entry *)
(* is shown satisfied exactly when the dependent may start.                 *)
GateAgrees ==
    \A r \in Replicas :
        LET d == DeploymentOf[r]
            svc == ServiceOf[r]
            required == {x.on : x \in {y \in dependenciesFor(d, svc) : y.required}} IN
        (\A row \in resolveDependsOn(d, svc) : row.service \in required => row.satisfied)
            <=> checkDependsOn(d, svc)

(* Under a filter nothing of another deployment or service is shown, not    *)
(* even a replica whose desired row went between two reads.                 *)
FilterHolds ==
    /\ \A row \in ShownRows : Selected(row.id)
    /\ pc = "done" /\ call.kind = "status" =>
           \A rt \in shown.routes : call.dep # None => rt.deployment = call.dep

(* A domain with a certificate of the production environment is shown as    *)
(* such, before the event that reports it and while the staging one stays.  *)
ProdShown ==
    pc = "done" /\ call.kind = "status" =>
        \A d \in DOMAIN shown.certs : <<"prod", d>> \in blobs => shown.certs[d] = "prod"

(* No two rows of the routes table look the same.                           *)
RowsDistinct ==
    pc = "done" /\ call.kind = "status" =>
        \A a, b \in shown.routes : a # b => renderStatus(a) # renderStatus(b)
=============================================================================
