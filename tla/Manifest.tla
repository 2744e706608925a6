------------------------------ MODULE Manifest ------------------------------
(* One deployment's manifest on its way from the operator's files to a      *)
(* container: the CLI interpolates and inlines, the control plane validates *)
(* and merges, the scheduler hashes, the runtime projects.                  *)
(*   cmd/jaco/apply.go, controlplane/grpc/jaco_spec.go and deploy.go,       *)
(*   runtime/compose, runtime/lifecycle/config.go                           *)
(* A scalar is a token: "lit", a reference "$V", its escape "$$V" or a      *)
(* required reference "${V:?}"; "val" is the value the stack's environment  *)
(* file gives V.                                                            *)
EXTENDS Naturals, FiniteSets, TLC

CONSTANTS Documents,   \* the compose files the operator may write
          Jacos,       \* the jaco.yaml files
          Members,     \* cluster hosts
          None, MaxEdits

VARIABLES files,      \* the operator's [compose, jaco]
          request,    \* what the CLI sends, or None
          stored,     \* the deployment row [compose, services, tcp, routes], or None
          replica,    \* service -> its ReplicaDesired [hash, index], or None
          container,  \* service -> [config, index, hash] of its container, or None
          late,       \* an accepted manifest failed after it was stored
          edits

vars == <<files, request, stored, replica, container, late, edits>>

Names == UNION {DOMAIN d.services : d \in Documents}

-----------------------------------------------------------------------------
(* The CLI *)

(* compose-go's template: an unset variable is empty, a required one fails, *)
(* and an escape loses one dollar.                                          *)
Substitute(tok, env) ==
    CASE tok = "$V"     -> IF env = None THEN "" ELSE env
      [] tok = "${V:?}" -> IF env = None THEN "missing" ELSE env
      [] tok = "$$V"    -> "$V"
      [] OTHER          -> tok

MapEnv(doc, env) ==
    [doc EXCEPT !.services = [s \in DOMAIN @ |->
        [@[s] EXCEPT !.env = [k \in DOMAIN @ |-> Substitute(@[k], env)]]]]

SubstituteEnvVars(doc, env) == MapEnv(doc, env)

Interpolates(doc, env) ==
    \A s \in DOMAIN doc.services : \A k \in DOMAIN doc.services[s].env :
        Substitute(doc.services[s].env[k], env) # "missing"

(* An explicit environment value wins over the env_file.                    *)
rewriteEnvFiles(svc) ==
    [svc EXCEPT !.env = IF svc.envFile = None THEN @ ELSE @ @@ svc.envFile, !.envFile = None]

ResolveEnvFiles(doc) == [doc EXCEPT !.services = [s \in DOMAIN @ |-> rewriteEnvFiles(@[s])]]

-----------------------------------------------------------------------------
(* Parsing and validation *)

(* acme: off turns off the routes that leave tls open.                      *)
ParseJacoYAML(j) ==
    [j EXCEPT !.routes = {[r EXCEPT !.tls = IF @ # "" THEN @ ELSE IF j.acme = "off" THEN "off" ELSE "auto"] : r \in @},
              !.services = [s \in DOMAIN @ |-> [@[s] EXCEPT !.placement = IF @ = "" THEN "spread" ELSE @]]]

(* The retired compose_service key, at the top or inside a route.           *)
containsKey(j) == j.composeService \in {"top", "route"}

validateJacoYAML(j) ==
    /\ ~containsKey(j)
    /\ j.deployment # ""
    /\ j.acme \in {"", "on", "off"}
    /\ j.email # "malformed" \/ j.acme = "off"
    /\ \A s \in DOMAIN j.services :
          LET o == j.services[s]
          IN /\ o.placement \in {"spread", "pack", "hosts", "global"}
             /\ o.placement = "global" => o.replicas = None
             /\ o.placement = "hosts" => o.hosts # {}
    /\ \A r \in j.routes :
          /\ r.port > 0 /\ r.tls \in {"auto", "off"}
          /\ \A q \in j.routes : q.domain = r.domain => q.tls = r.tls /\ (q.path = r.path => q = r)

(* The host ports an entry publishes: none, one, or a range.                *)
publishedHostRange(p) == IF p.published = None THEN {} ELSE p.published[1]..p.published[2]

PortsPlainOnly(svc) ==
    \A p \in svc.ports : p.published = None \/ p.published[1] \notin {80, 443}

checkReservedPorts(svc) == \A p \in svc.ports : publishedHostRange(p) \cap {80, 443} = {}

checkPullPolicy(svc) == svc.pull \in {"", "always", "missing", "never", "build"}

checkPrivilegedLabel(svc) == svc.privileged => svc.label = "true"

NetworkModeAny(doc, svc) == TRUE

checkNetworkMode(doc, svc) ==
    \/ svc.mode.kind \in {"", "none"}
    \/ svc.mode.kind = "service" /\ svc.mode.target \in DOMAIN doc.services

checkDependsOn(doc, s) ==
    \A d \in DOMAIN doc.services[s].deps :
        /\ d # s /\ d \in DOMAIN doc.services
        /\ doc.services[s].deps[d] \in {"", "service_started", "service_healthy"}

Validate(doc) ==
    \A s \in DOMAIN doc.services :
        LET svc == doc.services[s]
        IN /\ svc.extra = {}                  \* allowedServiceFields
           /\ svc.networks \subseteq doc.networks \cup {"_default"}
           /\ checkReservedPorts(svc) /\ checkPullPolicy(svc) /\ checkPrivilegedLabel(svc)
           /\ checkNetworkMode(doc, svc)
           /\ checkDependsOn(doc, s)

(* LoadBytes refuses an env_file; compose-go then puts a service without    *)
(* networks on "default" (one with a network mode on none) and,             *)
(* interpolation being off, leaves scalars alone.                           *)
Loads(doc) == \A s \in DOMAIN doc.services : doc.services[s].envFile = None

LoadBytes(doc) ==
    [doc EXCEPT !.services = [s \in DOMAIN @ |->
        [@[s] EXCEPT !.networks = IF @ = {} /\ doc.services[s].mode.kind = "" THEN {"default"} ELSE @]]]

(* MergeServiceDefaults: jaco.yaml wins, then compose, then the default.    *)
mergeOne(svc, o) ==
    [replicas  |-> IF o # None /\ o.replicas # None THEN o.replicas ELSE IF svc.replicas # None THEN svc.replicas ELSE 1,
     placement |-> IF o = None THEN "spread" ELSE o.placement,
     hosts     |-> IF o = None THEN {} ELSE o.hosts,
     networks  |-> IF o # None /\ o.networks # {} THEN o.networks ELSE svc.networks]

MergeServiceDefaults(j, project) ==
    [s \in DOMAIN project.services |->
        mergeOne(project.services[s], IF s \in DOMAIN j.services THEN j.services[s] ELSE None)]

(* One listener per port of a range; compose-go has expanded it.            *)
toTCPRoutes(project) ==
    UNION {UNION {{[port |-> n, service |-> s] : n \in publishedHostRange(p)}
                  : p \in {q \in project.services[s].ports :
                               q.protocol \in {"", "tcp"} /\ q.hostIP \in {"", "0.0.0.0"}}}
           : s \in DOMAIN project.services}

toRoutes(decls) ==
    {[domain |-> r.domain, path |-> r.path, service |-> r.service, port |-> r.port,
      tlsAuto |-> r.tls = "auto"] : r \in decls}

(* What Deploy.Apply checks once both files are parsed.                     *)
CrossChecks(j, project) ==
    LET services == MergeServiceDefaults(j, project)
    IN /\ DOMAIN j.services \subseteq DOMAIN project.services
       /\ \A s \in DOMAIN services : services[s].placement = "hosts" => services[s].hosts \subseteq Members
       /\ \A r \in j.routes : r.service \in DOMAIN services /\ project.services[r.service].mode.kind = ""
       /\ \A t, u \in toTCPRoutes(project) : t.port = u.port => t = u

-----------------------------------------------------------------------------
(* Hash and projection *)

ImageHash(doc, s) == doc.services[s].image

(* Every field of the service's own subtree, and nothing outside it.        *)
ServiceSpecHash(doc, s) == doc.services[s]

volumeName(doc, key) == IF key \in DOMAIN doc.volumes /\ doc.volumes[key] # None THEN doc.volumes[key] ELSE <<"jaco", key>>

networkName(n) == IF n = "default" THEN "_default" ELSE n

(* bridge.DockerNetworkName, used by the ingress to look an address up.     *)
DockerNetworkName(n) == IF n = "default" THEN "_default" ELSE n

networksFromCompose(svc) == IF svc.networks = {} THEN {"_default"} ELSE {networkName(n) : n \in svc.networks}

resolveResources(svc) == IF svc.deploy # None THEN svc.deploy ELSE svc.legacy

dependsOnFromCompose(svc) ==
    [d \in DOMAIN svc.deps |-> IF svc.deps[d] = "" THEN "service_started" ELSE svc.deps[d]]

healthcheckFromCompose(svc) == IF svc.healthcheck = "disabled" THEN None ELSE svc.healthcheck

ToContainerSpec(doc, s) ==
    LET svc == LoadBytes(doc).services[s]
    IN [image |-> svc.image, env |-> svc.env, deps |-> dependsOnFromCompose(svc), mode |-> svc.mode,
        networks |-> networksFromCompose(svc), resources |-> resolveResources(svc),
        healthcheck |-> healthcheckFromCompose(svc), privileged |-> svc.privileged,
        mounts |-> {volumeName(doc, v) : v \in svc.mounts}]

(* A network mode replaces the bridges; any other form is an error the      *)
(* validator is meant to have excluded.                                     *)
Buildable(spec) == spec.mode.kind \in {"", "none", "service"}

buildConfig(spec) == [spec EXCEPT !.networks = IF spec.mode.kind = "" THEN @ ELSE {}]
-----------------------------------------------------------------------------
(* Steps *)

Init ==
    /\ files \in [compose : Documents, jaco : Jacos]
    /\ request = None /\ stored = None
    /\ replica = [s \in Names |-> None]
    /\ container = [s \in Names |-> None]
    /\ late = FALSE /\ edits = 0

Edit ==
    /\ edits < MaxEdits /\ edits' = edits + 1
    /\ files' \in [compose : Documents, jaco : Jacos]
    /\ UNCHANGED <<request, stored, replica, container, late>>

(* jaco apply: a file that does not interpolate never leaves the CLI.       *)
(* "source" keeps the files for the properties.                             *)
Send ==
    /\ request = None
    /\ ~containsKey(files.jaco)
    /\ Interpolates(files.compose, files.jaco.environment)
    /\ request' = [compose |-> ResolveEnvFiles(SubstituteEnvVars(files.compose, files.jaco.environment)),
                   jaco |-> files.jaco, source |-> files]
    /\ UNCHANGED <<files, stored, replica, container, late, edits>>

Accepts(r) ==
    LET j == ParseJacoYAML(r.jaco)
    IN /\ validateJacoYAML(j) /\ Validate(r.compose) /\ Loads(r.compose)
       /\ CrossChecks(j, LoadBytes(r.compose))

Apply ==
    /\ request # None
    /\ request' = None
    /\ stored' = IF ~Accepts(request) THEN stored
                 ELSE LET j == ParseJacoYAML(request.jaco)
                          project == LoadBytes(request.compose)
                      IN [compose |-> request.compose, services |-> MergeServiceDefaults(j, project),
                          routes |-> toRoutes(j.routes), tcp |-> toTCPRoutes(project), source |-> request.source]
    /\ UNCHANGED <<files, replica, container, late, edits>>

Declared(s) == stored # None /\ s \in DOMAIN stored.services

Drifted(s) == ~(replica[s] # None /\ replica[s].hash = ServiceSpecHash(stored.compose, s))

(* A service's replica follows its hash; the FSM bumps the index.           *)
Reconcile(s) ==
    /\ IF Declared(s)
       THEN /\ Drifted(s)
            /\ replica' = [replica EXCEPT ![s] =
                    [hash |-> ServiceSpecHash(stored.compose, s), index |-> IF @ = None THEN 1 ELSE @.index + 1]]
       ELSE /\ replica[s] # None
            /\ replica' = [replica EXCEPT ![s] = None]
    /\ UNCHANGED <<files, request, stored, container, late, edits>>

(* The sidecar of a service needs that service's container.                 *)
resolveNetworkModeTarget(spec) == spec.mode.kind = "service" => container[spec.mode.target] # None

Waits(spec) == (\E d \in DOMAIN spec.deps : container[d] = None) \/ ~resolveNetworkModeTarget(spec)

(* The runtime creates the container anew when its raft_index label is not  *)
(* the replica's, from the deployment row as it is now.                     *)
RunStart(s) ==
    /\ Declared(s) /\ replica[s] # None
    /\ LET spec == ToContainerSpec(stored.compose, s)
       IN IF ~Loads(stored.compose) \/ ~Buildable(spec)
          THEN late' = TRUE /\ UNCHANGED container
          ELSE /\ ~Waits(spec)
               /\ ~(container[s] # None /\ container[s].index = replica[s].index)
               /\ container' = [container EXCEPT ![s] =
                      [config |-> buildConfig(spec), index |-> replica[s].index, source |-> stored.source,
                       hash |-> ServiceSpecHash(stored.compose, s)]]
               /\ UNCHANGED late
    /\ UNCHANGED <<files, request, stored, replica, edits>>

RunStop(s) ==
    /\ replica[s] = None /\ container[s] # None
    /\ container' = [container EXCEPT ![s] = None]
    /\ UNCHANGED <<files, request, stored, replica, late, edits>>

Next ==
    \/ Edit \/ Send \/ Apply
    \/ \E s \in Names : Reconcile(s) \/ RunStart(s) \/ RunStop(s)

Spec == Init /\ [][Next]_vars

-----------------------------------------------------------------------------
(* Properties *)

(* Type invariant: the rows an accepted manifest leaves have the ranges the *)
(* scheduler and the edge assume, the reserved ports excluded.              *)
TypeOK ==
    /\ late \in BOOLEAN /\ edits \in 0..MaxEdits
    /\ stored # None =>
          /\ \A t \in stored.tcp : t.port \in (1..65535) \ {80, 443} /\ t.service \in DOMAIN stored.services
          /\ \A s \in DOMAIN stored.services : stored.services[s].replicas \in Nat
          /\ \A r \in stored.routes : r.tlsAuto \in BOOLEAN /\ r.service \in DOMAIN stored.services
    /\ \A s \in Names : container[s] # None => container[s].index \in 1..(MaxEdits + 1)

(* What Apply accepts never fails once it is stored: the runtime reaches    *)
(* neither the env_file refusal of LoadBytes nor the "validator should have *)
(* rejected" branch of buildConfig.                                         *)
AcceptedBuilds == ~late

(* Every value in a container's environment went through interpolation      *)
(* exactly once: an escaped dollar arrives as a dollar although the daemon  *)
(* loads the document again on every start, and an env_file value arrives   *)
(* as written unless the service sets the variable itself.                  *)
InterpolatedOnce ==
    \A s \in Names : container[s] # None =>
        LET src == container[s].source
            svc == src.compose.services[s]
            file == IF svc.envFile = None THEN <<>> ELSE svc.envFile
        IN container[s].config.env =
              [k \in DOMAIN svc.env \cup DOMAIN file |->
                  IF k \in DOMAIN svc.env THEN Substitute(svc.env[k], src.jaco.environment) ELSE file[k]]

Settled(s) ==
    /\ Declared(s) /\ ~Drifted(s)
    /\ container[s] # None /\ container[s].index = replica[s].index

(* When neither the scheduler nor the runtime sees anything to do for a     *)
(* service, its container is the one its manifest describes: the hash of    *)
(* the service's subtree tells apart all edits that reach the container.    *)
(* The names of top-level volumes lie outside that subtree, and a container *)
(* created from a revision the scheduler never saw is left out.             *)
RunsCurrent ==
    \A s \in Names :
        Settled(s) /\ container[s].hash = replica[s].hash
        /\ container[s].source.compose.volumes = stored.compose.volumes
            => container[s].config = buildConfig(ToContainerSpec(stored.compose, s))

(* A routed service whose jaco.yaml leaves its networks alone is attached   *)
(* to a network under the name the ingress looks its address up with.       *)
RoutedReachable ==
    stored # None => \A r \in stored.routes :
        LET o == stored.source.jaco.services
        IN Settled(r.service) /\ (r.service \in DOMAIN o => o[r.service].networks = {})
           /\ container[r.service].hash = replica[r.service].hash
            => \E n \in stored.services[r.service].networks :
                   DockerNetworkName(n) \in container[r.service].config.networks
=============================================================================
