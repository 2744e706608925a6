----------------------------- MODULE EdgeConfig -----------------------------
(* The ingress edge of one node: the Caddy configuration built from the     *)
(* replicated rows (ingress/config), and the loop that rebuilds and loads   *)
(* it when a row changes (ingress/rebuild, daemon/grpc/ingress.go).         *)
(* A path is its segments and the tail the operator wrote after them; a     *)
(* request is a sequence of segments.                                       *)
EXTENDS Naturals, Sequences, FiniteSets, SequencesExt

CONSTANTS Domains, Services, Replicas, Ports, None,
          Owner,        \* service -> its deployment
          ServiceOf,    \* replica -> its service
          Manifests,    \* deployment -> the [routes, email, ports] its manifests declare
          Requests,     \* request paths
          MaxChanges, MaxFaults

Deployments == {Owner[s] : s \in Services}
Emails == {"cluster", "stack"}

VARIABLES acme,       \* jacod.yaml acme_enabled
          routes,     \* Routes rows
          email,      \* deployment -> its acme_email, or None
          tcp,        \* published port -> service, or None
          observed,   \* replica -> [state, fresh, ip]
          staging,    \* domains in their staging dry-run
          dirty,      \* an event waits in a channel or for the debounce timer
          building,   \* the configuration a rebuild holds, or None
          lastCfg, caddy, started, failed,
          changes, faults

rows == <<acme, routes, email, tcp, observed, staging>>
loop == <<dirty, building, lastCfg, caddy, started, failed>>
vars == <<rows, loop, changes, faults>>

-----------------------------------------------------------------------------
(* Paths *)

CatchAll == [seg |-> <<>>, tail |-> ""]
TailLength(p) == CASE p.tail = "" -> 0 [] p.tail = "/" -> 1 [] p.tail = "/*" -> 2
PathLength(p) == 2 * Len(p.seg) + TailLength(p)

(* Byte order of the path strings: '*' sorts before every segment.          *)
PathBefore(p, q) ==
    \/ \E i \in 1..Len(p.seg) :
          /\ i <= Len(q.seg) /\ p.seg[i] < q.seg[i]
          /\ SubSeq(p.seg, 1, i - 1) = SubSeq(q.seg, 1, i - 1)
    \/ IsStrictPrefix(p.seg, q.seg)
    \/ p.seg = q.seg /\ TailLength(p) < TailLength(q)

(* "/a" and "/a/" match the path itself and what is below it; the glob      *)
(* "/a/*" is used as written and misses "/a".                               *)
pathMatchers(p) == {req \in Requests : IsPrefix(p.seg, req) /\ (p.tail = "/*" => req # p.seg)}

stripPrefix(p) == p.seg

-----------------------------------------------------------------------------
(* ingressBuilder and BuildCaddyConfig *)

isEligible(r) == observed[r].state = "running" /\ observed[r].fresh

buildUpstreams(s) ==
    {observed[r].ip : r \in {x \in Replicas : ServiceOf[x] = s /\ isEligible(x) /\ observed[x].ip # None}}

RoutesOf(d) == {r \in routes : r.domain = d}

ShorterFirst(r, q) ==
    \/ PathLength(r.path) < PathLength(q.path)
    \/ PathLength(r.path) = PathLength(q.path) /\ PathBefore(r.path, q.path)

LongerFirst(r, q) ==
    \/ PathLength(r.path) > PathLength(q.path)
    \/ PathLength(r.path) = PathLength(q.path) /\ PathBefore(r.path, q.path)

buildHandleChain(r) ==
    [match |-> r.path, strip |-> IF r.strip /\ r.path # CatchAll THEN stripPrefix(r.path) ELSE <<>>,
     service |-> r.service, upstreams |-> buildUpstreams(r.service)]

(* The path routes, longest first, then the catch-all route.                *)
buildDomainRoute(d) ==
    LET paths == {r \in RoutesOf(d) : r.path # CatchAll}
        order == SetToSortSeq(paths, LongerFirst) \o SetToSeq(RoutesOf(d) \ paths)
    IN [i \in DOMAIN order |-> buildHandleChain(order[i])]

redirectDomainSet == IF acme THEN {r.domain : r \in {x \in routes : x.tls}} ELSE {}

Managed == {r.domain : r \in {x \in routes : x.tls}}

(* The contacts a domain may get: the one of its first automatic route, and *)
(* the rows are listed in no particular order.                              *)
Contacts(d) ==
    {IF email[Owner[r.service]] = None THEN "cluster" ELSE email[Owner[r.service]]
     : r \in {x \in RoutesOf(d) : x.tls}}

Listings == {c \in [Managed -> Emails] : \A d \in Managed : c[d] \in Contacts(d)}

tlsPolicy(dry, contact, subjects) == [staging |-> dry, email |-> contact, subjects |-> subjects]

(* One policy for every (staging, contact) pair some domain has.            *)
buildTLSPolicies(contact) ==
    IF ~acme THEN {}
    ELSE {p \in {tlsPolicy(g, e, {d \in Managed : (d \in staging) = g /\ contact[d] = e})
                  : g \in BOOLEAN, e \in Emails} : p.subjects # {}}

buildTCPUpstreams(s) == buildUpstreams(s)

(* A port without upstream has no server: caddy-l4 would refuse the load.   *)
buildLayer4Servers ==
    [q \in {p \in Ports : tcp[p] # None /\ buildTCPUpstreams(tcp[p]) # {}} |-> buildTCPUpstreams(tcp[q])]

(* HTTP routes on :443 for every domain; on :80 the domains that are not    *)
(* redirected, and the challenge responder.                                 *)
BuildCaddyConfig(contact) ==
    [https     |-> [d \in {r.domain : r \in routes} |-> buildDomainRoute(d)],
     redirect  |-> redirectDomainSet,
     challenge |-> buildTLSPolicies(contact) # {},
     policies  |-> buildTLSPolicies(contact),
     layer4    |-> buildLayer4Servers]

configHasLoadableRoute(cfg) == DOMAIN cfg.https # {} \/ DOMAIN cfg.layer4 # {}

ShouldLoadRoutes(cfg) == configHasLoadableRoute(cfg)

shouldLoad(cfg) == started \/ configHasLoadableRoute(cfg)

-----------------------------------------------------------------------------
(* The rows *)

Unseen == [state |-> "pending", fresh |-> FALSE, ip |-> None]

Init ==
    /\ acme \in BOOLEAN
    /\ routes = {} /\ staging = {}
    /\ email = [d \in Deployments |-> None]
    /\ tcp = [p \in Ports |-> None]
    /\ observed = [r \in Replicas |-> Unseen]
    /\ dirty = TRUE /\ building = None /\ lastCfg = None /\ caddy = None
    /\ started = FALSE /\ failed = FALSE
    /\ changes = 0 /\ faults = 0

Change == changes < MaxChanges /\ changes' = changes + 1

(* The routes of an applied manifest replace the ones of its deployment,    *)
(* and take over the rows with the same domain and path.                    *)
DeploymentApply(d) ==
    /\ Change
    /\ \E m \in Manifests[d] :
          /\ routes' = m.routes \cup {r \in routes : /\ Owner[r.service] # d
                                                    /\ \A q \in m.routes : <<q.domain, q.path>> # <<r.domain, r.path>>}
          /\ email' = [email EXCEPT ![d] = m.email]
          /\ \A p \in DOMAIN m.ports : tcp[p] # None => Owner[tcp[p]] = d
          /\ tcp' = [p \in Ports |-> IF p \in DOMAIN m.ports THEN m.ports[p]
                                     ELSE IF tcp[p] # None /\ Owner[tcp[p]] = d THEN None ELSE tcp[p]]
    /\ staging' = staging \cap {r.domain : r \in {x \in routes' : x.tls}}
    /\ dirty' = TRUE
    /\ UNCHANGED <<acme, observed, building, lastCfg, caddy, started, failed, faults>>

Observe(r) ==
    /\ Change
    /\ \E st \in {"running", "failed"}, ip \in {None, r} :
          observed' = [observed EXCEPT ![r] = [state |-> st, fresh |-> TRUE, ip |-> ip]]
    /\ dirty' = TRUE
    /\ UNCHANGED <<acme, routes, email, tcp, staging, building, lastCfg, caddy, started, failed, faults>>

(* The ten seconds of HealthFreshness pass; no row changes, no event comes. *)
Age(r) ==
    /\ observed[r].fresh
    /\ observed' = [observed EXCEPT ![r].fresh = FALSE]
    /\ UNCHANGED <<acme, routes, email, tcp, staging, loop, changes, faults>>

(* A staging certificate appears or is promoted (CertBlobs).                *)
Stage(d) ==
    /\ Change
    /\ d \in Managed /\ acme
    /\ staging' = IF d \in staging THEN staging \ {d} ELSE staging \cup {d}
    /\ dirty' = TRUE
    /\ UNCHANGED <<acme, routes, email, tcp, observed, building, lastCfg, caddy, started, failed, faults>>

-----------------------------------------------------------------------------
(* The loop *)

(* The debounce timer fires and the rows are read.                          *)
Build ==
    /\ dirty /\ building = None
    /\ dirty' = FALSE
    /\ \E contact \in Listings : building' = BuildCaddyConfig(contact)
    /\ UNCHANGED <<rows, lastCfg, caddy, started, failed, changes, faults>>

(* A configuration equal to the last one is not loaded again; the embedded  *)
(* loader ignores one without routes until it has loaded one with routes.   *)
Load ==
    /\ building # None
    /\ building' = None
    /\ failed' = FALSE
    /\ IF building = lastCfg THEN UNCHANGED <<lastCfg, caddy, started>>
       ELSE /\ lastCfg' = building
            /\ caddy' = IF shouldLoad(building) THEN building ELSE caddy
            /\ started' = (started \/ shouldLoad(building))
    /\ UNCHANGED <<rows, dirty, changes, faults>>

(* caddy.Load fails: the old configuration goes on and is not forgotten.    *)
LoadFails ==
    /\ building # None /\ building # lastCfg /\ shouldLoad(building)
    /\ faults < MaxFaults /\ faults' = faults + 1
    /\ building' = None
    /\ failed' = TRUE
    /\ UNCHANGED <<rows, dirty, lastCfg, caddy, started, changes>>

Next ==
    \/ \E d \in Deployments : DeploymentApply(d)
    \/ \E r \in Replicas : Observe(r) \/ Age(r)
    \/ \E d \in Domains : Stage(d)
    \/ Build \/ Load \/ LoadFails

Spec == Init /\ [][Next]_vars
-----------------------------------------------------------------------------
(* Properties *)

Rendered == {BuildCaddyConfig(contact) : contact \in Listings}

(* Type invariant: what Caddy runs proxies only to addresses of replicas.   *)
TypeOK ==
    /\ \A r \in routes : \E m \in Manifests[Owner[r.service]] : r \in m.routes
    /\ staging \subseteq Domains
    /\ \A cfg \in {building, lastCfg, caddy} \ {None} :
          /\ \A d \in DOMAIN cfg.https : \A i \in DOMAIN cfg.https[d] : cfg.https[d][i].upstreams \subseteq Replicas
          /\ \A p \in DOMAIN cfg.layer4 : cfg.layer4[p] \subseteq Replicas /\ cfg.layer4[p] # {}
    /\ started = (caddy # None)

(* What Caddy's first-match rule makes of a domain's routes.                *)
Dispatch(chain, req) ==
    LET hits == {i \in DOMAIN chain : req \in pathMatchers(chain[i].match)}
        h == chain[CHOOSE i \in hits : \A j \in hits : i <= j]
    IN IF hits = {} THEN None
       ELSE [service |-> h.service, uri |-> SubSeq(req, Len(h.strip) + 1, Len(req))]

(* The route an operator means: the one with the most segments in common.   *)
Intended(d, req) ==
    LET cover == {r \in RoutesOf(d) : req \in pathMatchers(r.path)}
        best == CHOOSE r \in cover : \A q \in cover : Len(q.path.seg) <= Len(r.path.seg)
    IN IF cover = {} THEN None
       ELSE [service |-> best.service,
             uri |-> IF best.strip THEN SubSeq(req, Len(best.path.seg) + 1, Len(req)) ELSE req]

(* For every set of applied routes and every request, the order of the      *)
(* handlers (config.go buildDomainRoute) sends the request to the service   *)
(* of the most specific route, with that route's prefix stripped.           *)
MostSpecific ==
    \A cfg \in Rendered : \A d \in DOMAIN cfg.https : \A req \in Requests :
        Dispatch(cfg.https[d], req) = Intended(d, req)

(* A domain is redirected to https exactly when one, and only one, policy   *)
(* gets it a certificate: two functions that must agree (redirectDomainSet  *)
(* and buildTLSPolicies), whatever the order of the rows.                   *)
RedirectIffManaged ==
    \A cfg \in Rendered : \A d \in Domains :
        Cardinality({p \in cfg.policies : d \in p.subjects}) = (IF d \in cfg.redirect THEN 1 ELSE 0)

(* A configuration without the upstreams that went stale after it was       *)
(* built, which no event reports.                                           *)
Trim(cfg) ==
    LET Kept(u) == {a \in u : observed[a].fresh}
    IN [cfg EXCEPT
          !.https = [d \in DOMAIN @ |-> [i \in DOMAIN @[d] |-> [@[d][i] EXCEPT !.upstreams = Kept(@)]]],
          !.layer4 = [p \in {q \in DOMAIN @ : Kept(@[q]) # {}} |-> Kept(@[p])]]

(* Once the loop is idle and its last load did not fail, Caddy runs what    *)
(* the rows say, stale upstreams apart; in particular a deployment that was *)
(* deleted leaves no listener behind (daemon/grpc/ingress.go shouldLoad).   *)
EdgeFollows ==
    ~dirty /\ building = None /\ ~failed =>
        IF caddy = None THEN \A cfg \in Rendered : ~configHasLoadableRoute(cfg)
        ELSE Trim(caddy) \in Rendered
=============================================================================
