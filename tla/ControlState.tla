---------------------------- MODULE ControlState ----------------------------
(***************************************************************************)
(* The raft FSM's state and what one command does to it:                   *)
(* internal/controlplane/state and internal/controlplane/fsm.              *)
(*                                                                         *)
(* A store is a function from the keys it has to their rows, the state is  *)
(* one store per entity kind plus the audit log.  A command is a record    *)
(* with the variant's name in field op; a row keeps the fields that some   *)
(* command reads.                                                          *)
(***************************************************************************)
EXTENDS Integers, Sequences

Kinds == {"cluster", "nodes", "deployments", "desired", "observed", "routes",
          "tcp_routes", "certs", "cert_blobs", "challenge_tokens", "tokens",
          "join_tokens", "subnets", "plans", "replica_counters",
          "restart_counters", "registry_credentials"}

Empty == [rows |-> [k \in Kinds |-> << >>], audit |-> << >>]

-----------------------------------------------------------------------------
(* Stores                                                                   *)

Has(s, kind, key) == key \in DOMAIN s.rows[kind]

Row(s, kind, key) == s.rows[kind][key]

(* The rows of f, and those of g under other keys.                          *)
Over(f, g) ==
    [k \in DOMAIN f \cup DOMAIN g |-> IF k \in DOMAIN f THEN f[k] ELSE g[k]]

Upsert(s, kind, key, row) == [s EXCEPT !.rows[kind] = Over([k \in {key} |-> row], @)]

Without(store, keys) == [k \in DOMAIN store \ keys |-> store[k]]

Remove(s, kind, keys) == [s EXCEPT !.rows[kind] = Without(@, keys)]

(* Read, change and write back a row; nothing when there is none.           *)
Patch(s, kind, key, Change(_)) ==
    IF Has(s, kind, key) THEN Upsert(s, kind, key, Change(Row(s, kind, key))) ELSE s

(* The keys of a store whose rows belong to deployment dep.                 *)
OwnedBy(s, kind, dep) ==
    {k \in DOMAIN s.rows[kind] : s.rows[kind][k].dep = dep}

-----------------------------------------------------------------------------
(* Nodes                                                                    *)

ClusterInit(s, c) ==
    Upsert(Upsert(Upsert(s, "cluster", "meta", [id |-> c.cluster]),
                  "tokens", "bootstrap", [revoked |-> FALSE]),
           "nodes", c.host, [status |-> "ready", pubkey |-> 0])

NodeJoin(s, c) == Upsert(s, "nodes", c.host, [status |-> "joining", pubkey |-> c.pubkey])

(* The /24s of the departing node go back to the pool.                      *)
NodeRemove(s, c) ==
    Remove(Remove(s, "nodes", {c.host}), "subnets",
           {k \in DOMAIN s.rows["subnets"] : s.rows["subnets"][k].host = c.host})

NodeUpdateSelf(s, c) ==
    Patch(s, "nodes", c.host, LAMBDA n : [n EXCEPT !.pubkey = c.pubkey])

NodeStatusUpdate(s, c) ==
    Patch(s, "nodes", c.host, LAMBDA n : [n EXCEPT !.status = c.status])

-----------------------------------------------------------------------------
(* Deployments                                                              *)

(* Prune the deployment's rows the revision no longer declares, then apply  *)
(* the declared ones (which may take over another deployment's key).        *)
ReplaceSet(s, kind, dep, keys) ==
    LET pruned == Remove(s, kind, OwnedBy(s, kind, dep) \ keys)
    IN  [pruned EXCEPT !.rows[kind] = Over([k \in keys |-> [dep |-> dep]], @)]

DeploymentApply(s, c) ==
    LET prev == IF Has(s, "deployments", c.dep)
                THEN Row(s, "deployments", c.dep).applied ELSE 0
        s1   == Upsert(s, "deployments", c.dep,
                       [applied |-> c.rev, previous |-> prev, status |-> "active"])
        s2   == Remove(s1, "plans", {k \in OwnedBy(s1, "plans", c.dep) : k \notin c.services})
        s3   == ReplaceSet(s2, "routes", c.dep, c.routes)
    IN  ReplaceSet(s3, "tcp_routes", c.dep, c.ports)

(* Only the markers flip; the manifest stays the latest one.                *)
DeploymentRollback(s, c) ==
    Patch(s, "deployments", c.dep,
          LAMBDA d : [d EXCEPT !.applied = c.rev, !.previous = d.applied])

RemoveReplicas(s, ids) ==
    Remove(Remove(Remove(s, "desired", ids), "observed", ids), "restart_counters", ids)

DeploymentDelete(s, c) ==
    LET s1 == Remove(s, "routes", OwnedBy(s, "routes", c.dep))
        s2 == Remove(s1, "tcp_routes", OwnedBy(s1, "tcp_routes", c.dep))
        s3 == RemoveReplicas(s2, OwnedBy(s2, "desired", c.dep))
        s4 == Remove(s3, "plans", OwnedBy(s3, "plans", c.dep))
        s5 == Remove(s4, "subnets", OwnedBy(s4, "subnets", c.dep))
    IN  Remove(s5, "deployments", {c.dep})

DeploymentStatusUpdate(s, c) ==
    Patch(s, "deployments", c.dep, LAMBDA d : [d EXCEPT !.status = c.status])

-----------------------------------------------------------------------------
(* Replicas, plans and counters                                             *)

ReplicaDesiredUpsert(s, c, idx) ==
    Upsert(s, "desired", c.id, [dep |-> c.dep, host |-> c.host, index |-> idx])

ReplicaDesiredRemove(s, c) == RemoveReplicas(s, {c.id})

ReplicaObservedUpdate(s, c) == Upsert(s, "observed", c.id, [state |-> c.state])

RolloutPlanUpdate(s, c) == Upsert(s, "plans", c.service, [dep |-> c.dep, step |-> c.step])

ReplicaCounterIncrement(s, c) ==
    Upsert(s, "replica_counters", c.service,
           [next |-> IF Has(s, "replica_counters", c.service)
                     THEN Row(s, "replica_counters", c.service).next + 1 ELSE 1])

RestartCounterUpdate(s, c) ==
    IF c.action = "reset" THEN Remove(s, "restart_counters", {c.id})
    ELSE Upsert(s, "restart_counters", c.id,
                [failures |-> IF Has(s, "restart_counters", c.id)
                              THEN Row(s, "restart_counters", c.id).failures + 1 ELSE 1])

-----------------------------------------------------------------------------
(* Ingress, subnets and credentials                                         *)

(* Refused while another lessee's lease lasts.                              *)
CertLock(s, c) ==
    LET held == /\ Has(s, "certs", c.name)
                /\ Row(s, "certs", c.name).lessee \notin {"", c.lessee}
                /\ Row(s, "certs", c.name).until > c.now
    IN  IF held THEN s
        ELSE Upsert(s, "certs", c.name, [lessee |-> c.lessee, until |-> c.until])

CertUnlock(s, c) == Patch(s, "certs", c.name, LAMBDA r : [lessee |-> "", until |-> 0])

SubnetAllocate(s, c) ==
    Upsert(s, "subnets", <<c.dep, c.net, c.host>>,
           [dep |-> c.dep, net |-> c.net, host |-> c.host, cidr |-> c.cidr])

(* An empty field of the command matches every row.                         *)
SubnetFree(s, c) ==
    Remove(s, "subnets",
           {k \in DOMAIN s.rows["subnets"] :
               LET r == s.rows["subnets"][k]
               IN  c.dep \in {"", r.dep} /\ c.net \in {"", r.net} /\ c.host \in {"", r.host}})

TokenRevoke(s, c) ==
    Patch(s, "tokens", c.identity, LAMBDA t : [t EXCEPT !.revoked = TRUE])

JoinTokenConsume(s, c) ==
    Patch(s, "join_tokens", c.secret, LAMBDA t : [t EXCEPT !.consumed = TRUE])

(* The variants that write or drop one row as the command gives it.         *)
PlainUpsert(s, c) ==
    CASE c.op = "ChallengeTokenStore"      -> Upsert(s, "challenge_tokens", c.key, [v |-> c.v])
      [] c.op = "CertBlobUpsert"           -> Upsert(s, "cert_blobs", c.key, [v |-> c.v])
      [] c.op = "TokenIssue"               -> Upsert(s, "tokens", c.identity, [revoked |-> FALSE])
      [] c.op = "JoinTokenIssue"           -> Upsert(s, "join_tokens", c.secret, [consumed |-> FALSE])
      [] c.op = "RegistryCredentialUpsert" -> Upsert(s, "registry_credentials", c.key, [v |-> c.v])
PlainRemove(s, c) ==
    CASE c.op = "CertBlobRemove"           -> Remove(s, "cert_blobs", {c.key})
      [] c.op = "RegistryCredentialRemove" -> Remove(s, "registry_credentials", {c.key})

-----------------------------------------------------------------------------
(* applyPayload, Apply and Batch                                            *)

ApplyPayload(s, c, idx) ==
    CASE c.op = "ClusterInit"            -> ClusterInit(s, c)
      [] c.op = "NodeJoin"               -> NodeJoin(s, c)
      [] c.op = "NodeRemove"             -> NodeRemove(s, c)
      [] c.op = "NodeUpdateSelf"         -> NodeUpdateSelf(s, c)
      [] c.op = "NodeStatusUpdate"       -> NodeStatusUpdate(s, c)
      [] c.op = "DeploymentApply"        -> DeploymentApply(s, c)
      [] c.op = "DeploymentRollback"     -> DeploymentRollback(s, c)
      [] c.op = "DeploymentDelete"       -> DeploymentDelete(s, c)
      [] c.op = "DeploymentStatusUpdate" -> DeploymentStatusUpdate(s, c)
      [] c.op = "ReplicaDesiredUpsert"   -> ReplicaDesiredUpsert(s, c, idx)
      [] c.op = "ReplicaDesiredRemove"   -> ReplicaDesiredRemove(s, c)
      [] c.op = "ReplicaObservedUpdate"  -> ReplicaObservedUpdate(s, c)
      [] c.op = "ReplicaCommandIssue"    -> s
      [] c.op = "RolloutPlanUpdate"      -> RolloutPlanUpdate(s, c)
      [] c.op = "ReplicaCounterIncrement" -> ReplicaCounterIncrement(s, c)
      [] c.op = "RestartCounterUpdate"   -> RestartCounterUpdate(s, c)
      [] c.op = "CertLock"               -> CertLock(s, c)
      [] c.op = "CertUnlock"             -> CertUnlock(s, c)
      [] c.op = "SubnetAllocate"         -> SubnetAllocate(s, c)
      [] c.op = "SubnetFree"             -> SubnetFree(s, c)
      [] c.op = "TokenRevoke"            -> TokenRevoke(s, c)
      [] c.op = "JoinTokenConsume"       -> JoinTokenConsume(s, c)
      [] c.op = "AuditAppend"            -> s
      [] c.op \in {"ChallengeTokenStore", "CertBlobUpsert", "TokenIssue",
                   "JoinTokenIssue", "RegistryCredentialUpsert"} -> PlainUpsert(s, c)
      [] c.op \in {"CertBlobRemove", "RegistryCredentialRemove"} -> PlainRemove(s, c)
      [] OTHER                           -> s

(* The variants that leave an audit event.                                  *)
Audited == {"ClusterInit", "NodeJoin", "NodeRemove", "DeploymentApply",
            "DeploymentRollback", "DeploymentDelete", "TokenIssue", "TokenRevoke",
            "RegistryCredentialUpsert", "RegistryCredentialRemove", "AuditAppend"}

ApplyOne(s, c, idx) ==
    LET t == ApplyPayload(s, c, idx)
    IN  IF c.op \in Audited
           \/ (c.op = "NodeStatusUpdate" /\ c.status = "isolation_unavailable")
        THEN [t EXCEPT !.audit = Append(@, <<c.op, idx>>)] ELSE t

(* A log entry: one command, or a batch whose children share its index.     *)
ApplyEntry(s, entry, idx) ==
    LET after[i \in 0 .. Len(entry)] ==
            IF i = 0 THEN s ELSE ApplyOne(after[i - 1], entry[i], idx)
    IN  after[Len(entry)]

-----------------------------------------------------------------------------
(* Snapshot and Restore                                                     *)

(* Restore that forgets the counters.                                       *)
RestoreNoCounters(s, snapshot) ==
    [rows  |-> [k \in Kinds |-> IF k \in {"replica_counters", "restart_counters"}
                                THEN s.rows[k]
                                ELSE Over(snapshot.rows[k], s.rows[k])],
     audit |-> s.audit \o snapshot.audit]

(* Every row of the snapshot is upserted into the stores as they are.       *)
Restore(s, snapshot) ==
    [rows  |-> [k \in Kinds |-> Over(snapshot.rows[k], s.rows[k])],
     audit |-> s.audit \o snapshot.audit]
=============================================================================
