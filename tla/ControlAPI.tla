----------------------------- MODULE ControlAPI -----------------------------
(***************************************************************************)
(* The RPCs that change the replicated state, on nodes whose FSMs lag:     *)
(* Deploy, Tokens and RegistryCredentials (internal/controlplane/grpc),    *)
(* Internal.Submit and EnsureSubnet (internal/daemon/grpc), the subnet     *)
(* allocator (internal/discovery/ipam) and the boot-time subnet purge.     *)
(*                                                                         *)
(* Every handler has the same shape.  It checks its request against the    *)
(* stores of the leader it runs on, builds a command, and hands it to raft *)
(* (applyRaftCommand); raft refuses it when the node no longer leads, and  *)
(* answers only after that node's FSM has applied the entry.  Between the  *)
(* check and the commit other handlers commit.  A new leader serves before *)
(* its FSM has applied what its predecessor committed.                     *)
(*                                                                         *)
(* raft is external: log is the committed log.                             *)
(***************************************************************************)
EXTENDS ControlState, FiniteSets, FiniteSetsExt

CONSTANTS Nodes,      \* the hostnames of the members
          Manifests,  \* what Deploy.Apply may be given, see Manifest
          Idents,     \* identities that tokens are issued to
          Privileged, \* the ones whose token is issued with allows_privileged
          Networks,   \* the <<deployment, host>> pairs EnsureSubnet is asked for
          Pool,       \* the /24s of the pool: 0..Pool-1 (256 in the code)
          Seed,       \* the entry the log starts with
          Clients,    \* slots 1..n for handlers that run at the same time
          MaxLog,     \* bound on the length of the log
          MaxTerms    \* bound on the leaderships that end

Nobody == "none"

VARIABLES
    log,      \* the committed log
    at,       \* at[n]: how much of it the FSM of n had applied when n last led
    leader,
    terms,    \* the leaderships that have ended
    call,     \* call[c]: the handler that serves client c, between check and commit
    purged,   \* the nodes whose boot migration has ended
    given,    \* given[k]: the /24 EnsureSubnet last answered for k, while k is in use
    behind,   \* a handler has relied on the stores of a leader that lagged, or
              \* committed in a later leadership than it read in
    crossed   \* an Apply has committed after another commit it did not see

apiVars == <<log, at, leader, terms, call, purged, given, behind, crossed>>

(* The stores after the first i entries.                                    *)
StateAt(i) ==
    LET after[j \in 0 .. i] == IF j = 0 THEN Empty ELSE ApplyEntry(after[j - 1], log[j], j)
    IN  after[i]

State(n) == StateAt(at[n])

Committed == StateAt(Len(log))

Idle == [pc |-> "idle"]

(* A handler on the leader has checked its request and built entry.         *)
Checked(c, kind, entry, rest) ==
    /\ call' = [call EXCEPT ![c] = [pc |-> "commit", kind |-> kind, node |-> leader, entry |-> entry,
                                    base |-> Len(log), rest |-> rest, old |-> FALSE]]
    /\ behind' = (behind \/ at[leader] < Len(log))
    /\ UNCHANGED <<log, at, leader, terms, purged, given, crossed>>

(* A new call takes the lowest free slot.                                   *)
Slot(c) == c = Min({d \in Clients : call[d] = Idle}) /\ Len(log) < MaxLog

Serving(c) == call[c] = Idle /\ Slot(c) /\ leader # Nobody

-----------------------------------------------------------------------------
(* Admission: the local socket needs no token, others one that is known to  *)
(* this node and not revoked.                                               *)
authResolve(s, who) ==
    who = "local" \/ (Has(s, "tokens", who) /\ ~Row(s, "tokens", who).revoked)

-----------------------------------------------------------------------------
(* Deploy                                                                   *)

(* A manifest that parsed and validated: the deployment, the hosts its      *)
(* services are pinned to, the host ports its services publish (with the    *)
(* number of services publishing each), and whether one is privileged.      *)
Pins(m) == m.pins
Ports(m) == DOMAIN m.ports

HostsKnown(s, m) == \A h \in Pins(m) : Has(s, "nodes", h)

PortsUnchecked(s, m) == TRUE

PortsFree(s, m) ==
    /\ \A p \in Ports(m) : m.ports[p] = 1
    /\ \A p \in Ports(m) : Has(s, "tcp_routes", p) => Row(s, "tcp_routes", p).dep = m.dep

(* A token issued with allows_privileged, or the local socket.              *)
checkPrivilegedAdmission(s, who, m) ==
    m.privileged => who = "local" \/ (Has(s, "tokens", who) /\ who \in Privileged)

(* The revision after the one the leader's stores hold.                     *)
NextRevision(s, dep) ==
    1 + (IF Has(s, "deployments", dep) THEN Row(s, "deployments", dep).applied ELSE 0)

DeploymentApplyOf(s, m) ==
    [op |-> "DeploymentApply", dep |-> m.dep, rev |-> NextRevision(s, m.dep), services |-> {},
     routes |-> {}, ports |-> Ports(m), privileged |-> m.privileged]

Audit(m) == IF m.privileged THEN <<[op |-> "AuditAppend", dep |-> m.dep]>> ELSE << >>

(* Every check precedes the command; after it come the audit events of the  *)
(* privileged services.                                                     *)
Apply(c, s, who, m) ==
    /\ authResolve(s, who)
    /\ HostsKnown(s, m) /\ PortsFree(s, m) /\ checkPrivilegedAdmission(s, who, m)
    /\ Checked(c, "apply", <<DeploymentApplyOf(s, m)>>, Audit(m))

Rollback(c, s, dep) ==
    /\ Has(s, "deployments", dep) /\ Row(s, "deployments", dep).previous # 0
    /\ Checked(c, "rollback", <<[op |-> "DeploymentRollback", dep |-> dep,
                                 rev |-> Row(s, "deployments", dep).previous]>>, << >>)

Delete(c, dep) ==
    Checked(c, "delete", <<[op |-> "DeploymentDelete", dep |-> dep]>>, << >>)

-----------------------------------------------------------------------------
(* Tokens and RegistryCredentials write one row as they are asked.          *)

Issue(c, who) ==
    Checked(c, "token", <<[op |-> "TokenIssue", identity |-> who]>>, << >>)

Revoke(c, who) ==
    Checked(c, "token", <<[op |-> "TokenRevoke", identity |-> who]>>, << >>)

Add(c, who, v) ==
    Checked(c, "registry", <<[op |-> "RegistryCredentialUpsert", key |-> who, v |-> v]>>, << >>)

RemoveCredential(c, who) ==
    Checked(c, "registry", <<[op |-> "RegistryCredentialRemove", key |-> who]>>, << >>)

-----------------------------------------------------------------------------
(* EnsureSubnet and the allocator                                           *)

Key(k) == <<k[1], "default", k[2]>>

Taken(s) == {s.rows["subnets"][k].cidr : k \in DOMAIN s.rows["subnets"]}

(* One /24 more than the pool has.                                          *)
FreeOffByOne(s) == (0 .. Pool) \ Taken(s)

(* The lowest free /24 of the pool.                                         *)
Free(s) == (0 .. Pool - 1) \ Taken(s)

nextFree(s) == Min(Free(s))

NeverLocked(n) == FALSE

(* The allocator's mutex, held from the look-up until raft has answered.    *)
Locked(n) == \E c \in Clients : call[c] # Idle /\ call[c].kind = "ensure" /\ call[c].node = n

(* A pair that has its subnet gets it again.                                *)
EnsureHit(s, k) ==
    /\ ~Locked(leader) /\ Has(s, "subnets", Key(k))
    /\ given' = [given EXCEPT ![k] = Row(s, "subnets", Key(k)).cidr]
    /\ behind' = (behind \/ at[leader] < Len(log))
    /\ given' # given
    /\ UNCHANGED <<log, at, leader, terms, call, purged, crossed>>

Allocate(c, s, k) ==
    /\ ~Locked(leader)
    /\ ~Has(s, "subnets", Key(k)) /\ Free(s) # {}
    /\ Checked(c, "ensure", <<[op |-> "SubnetAllocate", dep |-> k[1], net |-> "default",
                               host |-> k[2], cidr |-> nextFree(s)]>>, << >>)

(* A node runs its boot migration once, when it first leads.                *)
Migrates(n) == n \notin purged

(* The boot migration of a node that leads: free the host-less rows, one    *)
(* after the other, until none is left or an apply fails.  The command      *)
(* leaves the host empty, which the FSM takes as any host.                  *)
purgeHostlessSubnets(c, s) ==
    LET old == {k \in DOMAIN s.rows["subnets"] : k[3] = ""}
    IN  /\ Migrates(leader)
        /\ \/ /\ old = {}
              /\ purged' = purged \cup {leader}
              /\ UNCHANGED <<log, at, leader, terms, call, given, behind, crossed>>
           \/ \E k \in old :
                 Checked(c, "purge", <<[op |-> "SubnetFree", dep |-> k[1], net |-> k[2], host |-> ""]>>, << >>)

-----------------------------------------------------------------------------
(* A node's own observation, applied here or forwarded to the leader.       *)
Submit(c, n, id) ==
    /\ call[c] = Idle /\ Slot(c)
    /\ \A i \in 1 .. Len(log) : log[i][1].op = "ReplicaObservedUpdate" => log[i][1].id # id
    /\ \A d \in Clients : call[d] # Idle => call[d].entry[1].op # "ReplicaObservedUpdate"
    /\ call' = [call EXCEPT ![c] = [pc |-> "commit", kind |-> "submit", node |-> n, base |-> Len(log),
                                    entry |-> <<[op |-> "ReplicaObservedUpdate", id |-> id, state |-> "up"]>>,
                                    rest |-> << >>, old |-> FALSE]]
    /\ UNCHANGED <<log, at, leader, terms, purged, given, behind, crossed>>

(* Who commits the call's entry: its node, or for a submission the leader   *)
(* its node forwards to when raft says ErrNotLeader.                        *)
Through(r) == IF r.kind = "submit" THEN leader ELSE r.node

-----------------------------------------------------------------------------
(* What the deployments and hosts in use lose with a committed entry.       *)
GivenAfter(r) ==
    CASE r.entry[1].op = "DeploymentDelete" ->
             [k \in Networks |-> IF k[1] = r.entry[1].dep THEN -1 ELSE given[k]]
      [] r.entry[1].op = "SubnetAllocate" ->
             [given EXCEPT ![<<r.entry[1].dep, r.entry[1].host>>] = r.entry[1].cidr]
      [] OTHER -> given

(* raft.Apply commits: the node that leads has applied the entry when it    *)
(* answers.  An Apply of a privileged manifest goes on to its audit event.  *)
Commit(c) ==
    /\ call[c] # Idle /\ leader # Nobody /\ leader = Through(call[c])
    /\ LET r == call[c]
       IN  /\ log' = Append(log, r.entry)
           /\ at' = [at EXCEPT ![leader] = Len(log) + 1]
           /\ given' = GivenAfter(r)
           /\ crossed' = (crossed \/ (r.kind = "apply" /\ r.base # Len(log)))
           /\ call' = [call EXCEPT ![c] = IF r.rest = << >> THEN Idle
                                          ELSE [r EXCEPT !.entry = r.rest, !.rest = << >>, !.kind = "audit"]]
           /\ behind' = (behind \/ r.old)
    /\ UNCHANGED <<leader, terms, purged>>

(* The node no longer leads: the handler returns an error.                  *)
Refused(c) ==
    /\ call[c] # Idle /\ leader # Through(call[c])
    /\ call' = [call EXCEPT ![c] = Idle]
    /\ purged' = IF call[c].kind = "purge" THEN purged \cup {call[c].node} ELSE purged
    /\ UNCHANGED <<log, at, leader, terms, given, behind, crossed>>

(* A submission that is forwarded again after an error that is not          *)
(* ErrNotLeader.                                                            *)
LostForwards(c) ==
    /\ call[c] # Idle /\ leader # Nobody /\ leader = Through(call[c])
    /\ log' = Append(log, call[c].entry)
    /\ leader' = Nobody /\ terms < MaxTerms /\ terms' = terms + 1
    /\ given' = IF call[c].entry[1].op = "DeploymentDelete" THEN GivenAfter(call[c]) ELSE given
    /\ crossed' = (crossed \/ (call[c].kind = "apply" /\ call[c].base # Len(log)))
    /\ call' = IF call[c].kind = "submit" THEN call ELSE [call EXCEPT ![c] = Idle]
    /\ UNCHANGED <<at, purged, behind>>

(* Leadership is lost while the entry commits: the caller gets an error     *)
(* that is not ErrNotLeader, so nothing is forwarded, and the entry stands. *)
Lost(c) ==
    /\ call[c] # Idle /\ leader # Nobody /\ leader = Through(call[c])
    /\ log' = Append(log, call[c].entry)
    /\ leader' = Nobody /\ terms < MaxTerms /\ terms' = terms + 1
    /\ given' = IF call[c].entry[1].op = "DeploymentDelete" THEN GivenAfter(call[c]) ELSE given
    /\ crossed' = (crossed \/ (call[c].kind = "apply" /\ call[c].base # Len(log)))
    /\ purged' = IF call[c].kind = "purge" THEN purged \cup {call[c].node} ELSE purged
    /\ call' = [call EXCEPT ![c] = Idle]
    /\ behind' = (behind \/ call[c].old)
    /\ UNCHANGED at

(* A new leader's FSM has applied some of the log, all it had before and    *)
(* whatever it caught up with as a follower.                                *)
Elect(n) ==
    /\ leader = Nobody /\ leader' = n
    /\ \E i \in at[n] .. Len(log) : at' = [at EXCEPT ![n] = i]
    /\ call' = [c \in Clients |-> IF call[c] = Idle THEN Idle ELSE [call[c] EXCEPT !.old = TRUE]]
    /\ UNCHANGED <<log, terms, purged, given, behind, crossed>>

StepDown ==
    /\ leader # Nobody /\ leader' = Nobody
    /\ terms < MaxTerms /\ terms' = terms + 1
    /\ UNCHANGED <<log, at, call, purged, given, behind, crossed>>

(* The leader's FSM catches up with the log.                                *)
FSMApply ==
    /\ leader # Nobody /\ at[leader] < Len(log) /\ at' = [at EXCEPT ![leader] = @ + 1]
    /\ UNCHANGED <<log, leader, terms, call, purged, given, behind, crossed>>

-----------------------------------------------------------------------------
Init ==
    /\ log = <<Seed>>
    /\ at = [n \in Nodes |-> 1]
    /\ leader \in Nodes /\ terms = 0
    /\ call = [c \in Clients |-> Idle]
    /\ purged = {} /\ given = [k \in Networks |-> -1]
    /\ behind = FALSE /\ crossed = FALSE

Deps == {m.dep : m \in Manifests}

Handle(c, s) ==
    \/ \E m \in Manifests, who \in Idents \cup {"local"} : Apply(c, s, who, m)
    \/ \E d \in Deps : Rollback(c, s, d) \/ Delete(c, d)
    \/ \E who \in Idents : Issue(c, who) \/ Revoke(c, who) \/ RemoveCredential(c, who) \/ Add(c, who, 1)
    \/ \E k \in Networks : EnsureHit(s, k) \/ Allocate(c, s, k)
    \/ purgeHostlessSubnets(c, s)

Next ==
    \/ \E c \in Clients :
          \/ Serving(c) /\ Handle(c, State(leader))
          \/ \E n \in Nodes : Submit(c, n, "r")
          \/ Commit(c) \/ Refused(c) \/ Lost(c)
    \/ \E n \in Nodes : Elect(n)
    \/ StepDown \/ FSMApply

Spec == Init /\ [][Next]_apiVars

-----------------------------------------------------------------------------
(* The values the variables take; what EnsureSubnet answers is in the pool, *)
(* and a handler holds one command at a time.                               *)
TypeOK ==
    /\ at \in [Nodes -> 0 .. Len(log)]
    /\ leader \in Nodes \cup {Nobody}
    /\ given \in [Networks -> -1 .. Pool - 1]
    /\ \A c \in Clients : call[c] # Idle => call[c].node \in Nodes /\ Len(call[c].entry) = 1

(* While every handler read a leader that had caught up, no two of the      *)
(* cluster's /24s are the same, whoever asks for them at the same time.     *)
SubnetsDisjoint ==
    LET subnets == Committed.rows["subnets"]
    IN  ~behind => \A j, k \in DOMAIN subnets : subnets[j].cidr = subnets[k].cidr => j = k

(* A /24 that EnsureSubnet has answered stays the host's until the          *)
(* deployment goes: nothing hands it back to the pool meanwhile.            *)
HandedOutStays ==
    LET s == Committed
    IN  ~behind => \A k \in Networks :
                       given[k] # -1 => /\ Has(s, "subnets", Key(k))
                                        /\ Row(s, "subnets", Key(k)).cidr = given[k]

(* The audit log only records privileged workloads that landed: before each *)
(* such event the log holds the manifest it is about.                       *)
AuditAfterAdmission ==
    \A i \in 1 .. Len(log) : log[i][1].op = "AuditAppend" =>
        \E j \in 1 .. i - 1 : /\ log[j][1].op = "DeploymentApply" /\ log[j][1].privileged
                              /\ log[j][1].dep = log[i][1].dep

(* A submission is in the log at most once, whether it was applied here or  *)
(* forwarded, and whatever raft answered.                                   *)
SubmitOnce ==
    \A i, j \in 1 .. Len(log) : log[i] = log[j] /\ log[i][1].op = "ReplicaObservedUpdate" => i = j

(* The last manifest that a deployment has in the log since it was deleted. *)
LastPorts(d) ==
    LET own == {i \in 1 .. Len(log) : log[i][1].op \in {"DeploymentApply", "DeploymentDelete"}
                                      /\ log[i][1].dep = d}
    IN  IF own = {} \/ log[Max(own)][1].op = "DeploymentDelete" THEN {}
        ELSE log[Max(own)][1].ports

(* As long as no Apply commits over something it has not seen, a deployment *)
(* keeps every host port its manifest publishes: no other takes it over.    *)
PortsKept ==
    LET s == Committed
    IN  ~behind /\ ~crossed => \A d \in Deps : \A p \in LastPorts(d) :
                                   Has(s, "tcp_routes", p) /\ Row(s, "tcp_routes", p).dep = d
=============================================================================
