------------------------------ MODULE MCState ------------------------------
(* Small instances of what is kept and carried from place to place, for one *)
(* run of TLC: the replicated FSM, the way of a manifest to its containers, *)
(* backups, the binaries of a host and registry credentials.  A behaviour   *)
(* is one of a single component, which "which" names; the others stay in an *)
(* initial state.                                                           *)
EXTENDS MCReplicatedFSM

CONSTANT None

VARIABLES which,
    files, request, stored, replica, container, late, edits,
    commits, reached, leader, audited, export, cli, file, version, importer, dir, backups, breaks,
    latest, got, bin, prev, staged, pc, todo, before, running, systemctl, result, damaged, runs, faults,
    creds, pull, presented, writes

manifest == <<files, request, stored, replica, container, late, edits>>
archive == <<commits, reached, leader, audited, export, cli, file, version, importer, dir, backups, breaks>>
upgrade == <<latest, got, bin, prev, staged, pc, todo, before, running, systemctl, result, damaged, runs, faults>>
registry == <<creds, pull, presented, writes>>

(* Manifest: a stack of two services: "db", which never changes, and "web"  *)
(* in the variants that exercise one rule each.                             *)
Bridge == [kind |-> "", target |-> None]

Plain == [image |-> "v1", env |-> [A |-> "lit"], envFile |-> None, extra |-> {}, networks |-> {}, ports |-> {},
          pull |-> "", privileged |-> FALSE, label |-> "", mode |-> Bridge, deps |-> <<>>, replicas |-> None,
          deploy |-> None, legacy |-> "0.5cpu", healthcheck |-> None, mounts |-> {}]

Port(n, ip, proto) == [published |-> <<n, n>>, hostIP |-> ip, protocol |-> proto]

Webs ==
    {Plain,
     [Plain EXCEPT !.env = [A |-> "$V"], !.deps = [db |-> ""]],
     [Plain EXCEPT !.env = [A |-> "$$V"], !.envFile = [A |-> "file", B |-> "file"]],
     [Plain EXCEPT !.env = [A |-> "${V:?}"], !.networks = {"front"}, !.healthcheck = "disabled"],
     [Plain EXCEPT !.networks = {"front", "back"}],
     [Plain EXCEPT !.ports = {Port(5432, "", ""), Port(53, "", "udp"), Port(9000, "127.0.0.1", "tcp")}, !.deploy = "1cpu"],
     [Plain EXCEPT !.ports = {[Port(442, "", "tcp") EXCEPT !.published = <<442, 444>>]}],
     [Plain EXCEPT !.mounts = {"data"}, !.replicas = 2, !.pull = "never"],
     [Plain EXCEPT !.pull = "daily"],
     [Plain EXCEPT !.privileged = TRUE],
     [Plain EXCEPT !.privileged = TRUE, !.label = "true"],
     [Plain EXCEPT !.mode = [kind |-> "host", target |-> None]],
     [Plain EXCEPT !.mode = [kind |-> "service", target |-> "db"]],
     [Plain EXCEPT !.deps = [db |-> "service_completed_successfully"]],
     [Plain EXCEPT !.extra = {"secrets"}]}

Doc(services, v) == [services |-> services, networks |-> {"front"}, volumes |-> [data |-> v]]

Small == Doc([db |-> Plain], None)

MCDocuments ==
    {Doc([web |-> w, db |-> Plain], None) : w \in Webs}
    \cup {Doc([web |-> [Plain EXCEPT !.mounts = {"data"}], db |-> Plain], "shared"), Small}

Override == [replicas |-> None, placement |-> "", hosts |-> {}, networks |-> {}]
RouteTo(s, tls) == [domain |-> "d1", path |-> "", service |-> s, port |-> 80, tls |-> tls]

Slim == [deployment |-> "x", services |-> <<>>, routes |-> {RouteTo("web", "")}, acme |-> "", email |-> "",
         environment |-> "val", composeService |-> ""]

MCJacos ==
    {Slim,
     [Slim EXCEPT !.environment = None, !.acme = "off", !.email = "malformed", !.routes = {}],
     [Slim EXCEPT !.services = [web |-> [Override EXCEPT !.placement = "hosts", !.hosts = {"h1"}]],
                  !.routes = {RouteTo("db", "off")}],
     [Slim EXCEPT !.services = [web |-> [Override EXCEPT !.placement = "global", !.replicas = 2]]],
     [Slim EXCEPT !.composeService = "route"],
     [Slim EXCEPT !.routes = {RouteTo("web", "auto"), [RouteTo("db", "off") EXCEPT !.path = "/a"]}]}

MA == INSTANCE Manifest WITH
        Documents <- MCDocuments, Jacos <- MCJacos, Members <- {"h1"}, MaxEdits <- 1

(* Two backups into one file, with a commit, an audit entry and two faults  *)
(* among them.                                                              *)
AR == INSTANCE Archive WITH
        MaxLog <- 4, MaxFaults <- 2, MaxBackups <- 2, Versions <- {None, 1},
        log <- commits, applied <- reached, faults <- breaks

(* The second release does not start.                                       *)
UP == INSTANCE Upgrade WITH Releases <- {1, 2, 3}, Broken <- {2}, MaxFaults <- 2, MaxRuns <- 2

(* A host with two namespaces, spelled in two ways, and Docker Hub.         *)
Ref(host, path) == [host |-> host, path |-> path]
RG == INSTANCE Registry WITH
        Refs <- {Ref("GHCR.IO", <<>>), Ref("ghcr.io", <<"a">>), Ref("ghcr.io", <<"b">>),
                 Ref("index.docker.io", <<"x">>), Ref("", <<"b">>)},
        Images <- {Ref("ghcr.io", <<"a", "x">>), Ref("GHCR.IO", <<"c">>), Ref(None, <<"x">>),
                   Ref("index.docker.io", <<"x">>)},
        Inputs <- {"", "p", "q"}, MaxWrites <- 2

SuiteInit ==
    /\ which \in {"fsm", "manifest", "archive", "upgrade", "registry"}
    /\ Init /\ MA!Init /\ AR!Init /\ UP!Init /\ RG!Init
    /\ which # "manifest" => files = [compose |-> Small, jaco |-> Slim]
    /\ which # "archive" => version = None
    /\ which # "upgrade" => systemctl /\ bin = UP!NoFile

SuiteNext ==
    \/ which = "fsm" /\ Next /\ UNCHANGED <<which, manifest, archive, upgrade, registry>>
    \/ which = "manifest" /\ MA!Next /\ UNCHANGED <<which, vars, archive, upgrade, registry>>
    \/ which = "archive" /\ AR!Next /\ UNCHANGED <<which, vars, manifest, upgrade, registry>>
    \/ which = "upgrade" /\ UP!Next /\ UNCHANGED <<which, vars, manifest, archive, registry>>
    \/ which = "registry" /\ RG!Next /\ UNCHANGED <<which, vars, manifest, archive, upgrade>>

SuiteSpec == SuiteInit /\ [][SuiteNext]_<<which, vars, manifest, archive, upgrade, registry>>

(* The type invariants of the five components; the FSM's routes belong to   *)
(* deployments it has.                                                      *)
TypesOK == /\ which = "fsm" => TypeOK /\ RoutesOwned
           /\ which = "manifest" => MA!TypeOK
           /\ which = "archive" => AR!TypeOK
           /\ which = "upgrade" => UP!TypeOK
           /\ which = "registry" => RG!TypeOK

(* Manifest: what Deploy.Apply has accepted can be built, with variables    *)
(* interpolated once, and a routed service is on a network the edge finds.  *)
AcceptedBuilds ==
    which = "manifest" => MA!AcceptedBuilds /\ MA!InterpolatedOnce /\ MA!RoutedReachable

(* Manifest: a settled container runs the stored manifest.                  *)
RunsCurrent == which = "manifest" => MA!RunsCurrent

(* Archive: what a restore leaves is one whole, consistent backup, and it   *)
(* leaves a directory that was served from alone.                           *)
RestoreExact == [](which = "archive" => AR!RestoreExact) /\ AR!ServedKept

(* Upgrade: the binaries in place are complete and verified, and both are   *)
(* swapped, or neither is.                                                  *)
InstalledWhole == which = "upgrade" => UP!InstalledWhole /\ UP!UpgradeAllOrNothing

(* Registry: a pull sends the credential that is meant for its image, and a *)
(* login covers the images of what it names.                                *)
CredentialInScope == which = "registry" => RG!CredentialInScope /\ RG!LoginIsUsed
=============================================================================
