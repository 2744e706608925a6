------------------------------ MODULE RouteView ------------------------------
(* Deploy.GetRoute: the routes of a domain as Caddy evaluates them, computed *)
(* from the rows a second time (controlplane/grpc/getroute.go), beside the  *)
(* configuration the edge builds from the same rows.                        *)
EXTENDS EdgeConfig

isUpstreamEligible(r) == observed[r].state = "running" /\ observed[r].fresh

ReplicasOf(s) == {r \in Replicas : ServiceOf[r] = s}

(* Replicas that reported, and those counted as admissible upstreams.       *)
upstreamReadiness(s) ==
    [ready |-> Cardinality({r \in ReplicasOf(s) : isUpstreamEligible(r)}),
     total |-> Cardinality({r \in ReplicasOf(s) : observed[r] # Unseen})]

(* Path routes before the catch-all, longer paths first, then by name.      *)
SortsBefore(r, q) ==
    IF (r.path = CatchAll) # (q.path = CatchAll) THEN r.path # CatchAll
    ELSE IF PathLength(r.path) # PathLength(q.path) THEN PathLength(r.path) > PathLength(q.path)
    ELSE PathBefore(r.path, q.path)

getRouteToView(r) ==
    [path |-> r.path, catchAll |-> r.path = CatchAll, service |-> r.service, tls |-> r.tls,
     strip |-> r.strip, ready |-> upstreamReadiness(r.service).ready,
     total |-> upstreamReadiness(r.service).total]

(* None: no route for the domain.                                           *)
GetRoute(d) ==
    LET order == SetToSortSeq(RoutesOf(d), SortsBefore)
    IN  IF RoutesOf(d) = {} THEN None ELSE [i \in DOMAIN order |-> getRouteToView(order[i])]

-----------------------------------------------------------------------------
(* The view lists a domain's routes in the order in which the configuration *)
(* that the next rebuild builds from the same rows evaluates them; a route  *)
(* it shows with 0 ready replicas has no upstream, and none has more        *)
(* upstreams than it shows.                                                 *)
ViewIsCaddys ==
    dirty /\ building = None => \A d \in Domains :
        LET view == GetRoute(d)
            chain == buildDomainRoute(d) IN
        IF view = None THEN chain = <<>>
        ELSE /\ Len(view) = Len(chain)
             /\ \A i \in DOMAIN chain :
                   /\ view[i].path = chain[i].match /\ view[i].service = chain[i].service
                   /\ Cardinality(chain[i].upstreams) <= view[i].ready
                   /\ view[i].ready <= view[i].total
=============================================================================
