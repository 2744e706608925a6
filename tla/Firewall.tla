------------------------------ MODULE Firewall ------------------------------
(* The isolation firewall of one host: the nftables table inet jaco, the    *)
(* rules pinned in Docker's iptables chains, the 30 s reconcile tick and    *)
(* the node status it reports through raft.  Kernel tables survive a daemon *)
(* restart; the reconciler's memory does not.                               *)
EXTENDS Integers, Sequences, FiniteSets, SequencesExt

CONSTANTS Scopes,       \* (deployment, network) pairs
          Cidrs,        \* the /24s of the pool
          SetNames,     \* scope -> nftables set identifier
          MaxChanges,   \* bounds the changes of the Subnets store
          MaxDrifts,    \* bounds the edits other programs make to the kernel
          MaxFaults,    \* bounds the failing commands and raft writes
          MaxCrashes    \* bounds the daemon restarts

VARIABLES subnets,      \* the Subnets store: a set of [scope, cidr]
          table,        \* table inet jaco: chains, sets and the forward rules
          chains,       \* Docker-owned iptables chains, first rule first
          pc,           \* where the tick is
          ruleset,      \* the input of the last nft -f
          degraded,     \* Reconciler.degraded
          status,       \* the node's row in raft
          changes, drifts, faults, crashes

kernel == <<table, chains>>
vars == <<subnets, table, chains, pc, ruleset, degraded, status, changes, drifts, faults, crashes>>

Rows == [scope : Scopes, cidr : Cidrs]
Pool == "jaco_pool"
SetName(s) == SetNames[s]
SetNamesUsed(rows) == {SetName(r.scope) : r \in rows}

(****************************** nft *****************************************)
Elements(rows, name) == {r.cidr : r \in {x \in rows : SetName(x.scope) = name}}

Absent == [chains |-> FALSE, sets |-> <<>>, forward |-> <<>>]

(* The rendered table: one set per scope, the pool set when there is any    *)
(* subnet, and a forward chain that accepts within a set before it drops    *)
(* within the pool.                                                         *)
Render(rows) ==
    LET names == SetNamesUsed(rows)
        drop  == IF rows = {} THEN <<>> ELSE <<[verdict |-> "drop", set |-> Pool]>>
    IN [chains  |-> TRUE,
        sets    |-> [n \in names \cup (IF rows = {} THEN {} ELSE {Pool}) |->
                        IF n = Pool THEN {r.cidr : r \in rows} ELSE Elements(rows, n)],
        forward |-> SetToSeq({[verdict |-> "accept", set |-> n] : n \in names}) \o drop]

(* What nft -f leaves in the kernel.  The file starts with add table and    *)
(* delete table, so no rule of an earlier generation survives.              *)
NftApplyAppends(new) ==
    [chains  |-> TRUE,
     sets    |-> [n \in DOMAIN table.sets \cup DOMAIN new.sets |->
                     IF n \in DOMAIN new.sets THEN new.sets[n] ELSE table.sets[n]],
     forward |-> table.forward \o new.forward]

NftApply(new) == new

(* SelfTestFromJSON: the base chains are there, and the named sets are      *)
(* exactly those expected.  Neither elements nor rules are compared.        *)
SelfTestIgnoresExtra(live, rows) ==
    /\ live.chains
    /\ SetNamesUsed(rows) \cup (IF rows = {} THEN {} ELSE {Pool}) \subseteq DOMAIN live.sets

SelfTestFromJSON(live, rows) ==
    /\ live.chains
    /\ DOMAIN live.sets = SetNamesUsed(rows) \cup (IF rows = {} THEN {} ELSE {Pool})

(* The first forward rule whose set holds both ends decides; the chain's    *)
(* policy accepts.                                                          *)
Forward(live, a, b) ==
    LET match == SelectSeq(live.forward, LAMBDA r : {a, b} \subseteq live.sets[r.set])
    IN IF match = <<>> THEN "accept" ELSE match[1].verdict

(****************************** iptables ************************************)
Exempt == <<"pool">>               \* POSTROUTING: pool to pool, RETURN
Accepts == <<"pool", "mesh">>      \* PREROUTING, DOCKER-USER: pool and mesh to pool, ACCEPT
ChainNames == {"POSTROUTING", "PREROUTING", "DOCKER-USER"}
Wanted(c) == IF c = "POSTROUTING" THEN Exempt ELSE Accepts

(* The rules we want are the first ones of the chain.                       *)
topAppendedRulesMatch(chain, wants) == IsPrefix(wants, chain)

(* Delete every copy of the rules, then insert each at the top, the last    *)
(* one first; n of the inserts get through.                                 *)
ensureTopAccepts(chain, wants, n) ==
    IF topAppendedRulesMatch(chain, wants) THEN chain
    ELSE SubSeq(wants, Len(wants) - n + 1, Len(wants))
         \o SelectSeq(chain, LAMBDA r : r \notin Range(wants))

Pinned(c) == topAppendedRulesMatch(chains[c], Wanted(c))

(****************************** the tick ************************************)
Fault == faults < MaxFaults /\ faults' = faults + 1
NoFault == UNCHANGED faults

Init ==
    /\ subnets = {} /\ table = Absent /\ chains = [c \in ChainNames |-> <<"docker">>]
    /\ pc = "idle" /\ ruleset = {} /\ degraded = FALSE /\ status = "ready"
    /\ changes = 0 /\ drifts = 0 /\ faults = 0 /\ crashes = 0

(* A committed SubnetAllocate, or SubnetFree, reaches this node's store.    *)
SubnetChange ==
    /\ changes < MaxChanges /\ changes' = changes + 1
    /\ \/ \E r \in Rows : /\ \A x \in subnets : x.cidr # r.cidr
                          /\ subnets' = subnets \cup {r}
       \/ \E r \in subnets : subnets' = subnets \ {r}
    /\ UNCHANGED <<table, chains, pc, ruleset, degraded, status, drifts, faults, crashes>>

(* Docker inserts a rule of its own at the top of one of its chains, or     *)
(* rebuilds the chain; somebody drops a set or flushes the table.           *)
Drift ==
    /\ drifts < MaxDrifts /\ drifts' = drifts + 1
    /\ \/ /\ \E c \in ChainNames : chains' = [chains EXCEPT ![c] = <<"docker">> \o @]
          /\ UNCHANGED table
       \/ /\ \E c \in ChainNames : chains' = [chains EXCEPT ![c] = <<"docker">>]
          /\ UNCHANGED table
       \/ /\ table' = Absent /\ UNCHANGED chains
    /\ UNCHANGED <<subnets, pc, ruleset, degraded, status, changes, faults, crashes>>

(* EnsureSNATExempt and EnsureOverlayExempt.  A failing insert leaves the   *)
(* chain without the rules; PREROUTING failing keeps DOCKER-USER as it is.  *)
(* Neither failure ends the tick.                                           *)
Ensure(c, to) ==
    /\ \E n \in 0..Len(Wanted(c)) :
          /\ chains' = [chains EXCEPT ![c] = ensureTopAccepts(@, Wanted(c), n)]
          /\ IF n = Len(Wanted(c)) THEN NoFault /\ pc' = to
             ELSE /\ ~Pinned(c) /\ Fault
                  /\ pc' = IF c = "PREROUTING" THEN "list" ELSE to
    /\ UNCHANGED <<subnets, table, ruleset, degraded, status, changes, drifts, crashes>>

(* Loop waits for a known leader before every tick; without one the tick is *)
(* skipped, which leaves everything as it is.                               *)
TickSNAT == pc = "idle" /\ Ensure("POSTROUTING", "raw")
TickOverlay ==
    \/ pc = "raw" /\ Ensure("PREROUTING", "user")
    \/ pc = "user" /\ Ensure("DOCKER-USER", "list")

(* A raft write through the leader: the row changes, or the call fails.     *)
UpdateStatus(s) ==
    \/ status' = s /\ NoFault
    \/ UNCHANGED status /\ Fault

(* The ruleset matches: a degraded node reports its recovery, once.         *)
TickMatches ==
    /\ pc = "list" /\ SelfTestFromJSON(table, subnets)
    /\ pc' = "idle" /\ degraded' = FALSE
    /\ IF degraded THEN UpdateStatus("ready") ELSE UNCHANGED status /\ NoFault
    /\ UNCHANGED <<subnets, kernel, ruleset, changes, drifts, crashes>>

(* The ruleset differs; it is rendered again from the store of that moment. *)
TickDiffers ==
    /\ pc = "list" /\ ~SelfTestFromJSON(table, subnets)
    /\ pc' = "render" /\ NoFault
    /\ UNCHANGED <<subnets, kernel, ruleset, degraded, status, changes, drifts, crashes>>

(* nft list fails for a reason other than a missing table.                  *)
TickListFails ==
    /\ pc = "list" /\ Fault /\ pc' = "idle"
    /\ UNCHANGED <<subnets, kernel, ruleset, degraded, status, changes, drifts, crashes>>

TickRender ==
    /\ pc = "render" /\ pc' = "apply" /\ ruleset' = subnets /\ NoFault
    /\ UNCHANGED <<subnets, kernel, degraded, status, changes, drifts, crashes>>

TickApply ==
    /\ pc = "apply" /\ table' = NftApply(Render(ruleset)) /\ pc' = "applied" /\ NoFault
    /\ UNCHANGED <<subnets, chains, ruleset, degraded, status, changes, drifts, crashes>>

(* nft -f fails and changes nothing; the node is reported unavailable.      *)
TickApplyFails ==
    /\ pc = "apply" /\ Fault /\ pc' = "failed" /\ degraded' = TRUE
    /\ UNCHANGED <<subnets, kernel, ruleset, status, changes, drifts, crashes>>

TickReportFailure ==
    /\ pc = "failed" /\ pc' = "idle" /\ UpdateStatus("isolation_unavailable")
    /\ UNCHANGED <<subnets, kernel, ruleset, degraded, changes, drifts, crashes>>

(* The applied ruleset is audited; a failing audit ends the tick with       *)
(* degraded as it was.  Otherwise a degraded node reports its recovery.     *)
TickAudit ==
    /\ pc = "applied" /\ pc' = "idle"
    /\ \/ Fault /\ UNCHANGED <<degraded, status>>
       \/ ~degraded /\ NoFault /\ UNCHANGED <<degraded, status>>
       \/ degraded /\ degraded' = FALSE /\ UpdateStatus("ready")
    /\ UNCHANGED <<subnets, kernel, ruleset, changes, drifts, crashes>>

(* The daemon restarts, alone or with the host; publishSelf keeps the       *)
(* status of the node's row.                                                *)
Restart ==
    /\ crashes < MaxCrashes /\ crashes' = crashes + 1
    /\ pc' = "idle" /\ degraded' = FALSE /\ ruleset' = {}
    /\ \/ UNCHANGED kernel
       \/ table' = Absent /\ chains' = [c \in ChainNames |-> <<"docker">>]
    /\ UNCHANGED <<subnets, status, changes, drifts, faults>>

Tick ==
    \/ TickSNAT \/ TickOverlay \/ TickMatches \/ TickDiffers \/ TickListFails \/ TickRender
    \/ TickApply \/ TickApplyFails \/ TickReportFailure \/ TickAudit

Next == SubnetChange \/ Drift \/ Tick \/ Restart

Spec == Init /\ [][Next]_vars
Fairness == WF_vars(Tick)
FairSpec == Spec /\ Fairness

(****************************** properties **********************************)
TableOK(t) ==
    /\ t.chains \in BOOLEAN
    /\ DOMAIN t.sets \subseteq Range(SetNames) \cup {Pool}
    /\ \A n \in DOMAIN t.sets : t.sets[n] \subseteq Cidrs
    /\ \A i \in DOMAIN t.forward : t.forward[i].set \in DOMAIN t.sets

(* Every forward rule matches on a set the table declares, and no chain     *)
(* ever holds two copies of a pinned rule.                                  *)
TypeOK ==
    /\ subnets \subseteq Rows /\ ruleset \subseteq Rows /\ TableOK(table)
    /\ pc \in {"idle", "raw", "user", "list", "render", "apply", "applied", "failed"}
    /\ degraded \in BOOLEAN /\ status \in {"ready", "isolation_unavailable"}
    /\ \A c \in ChainNames, r \in {"pool", "mesh"} :
          Cardinality({i \in DOMAIN chains[c] : chains[c][i] = r}) <= 1

(* Right after a reload the kernel forwards between two subnets exactly     *)
(* when they share a set, whatever was loaded before: the rendered file     *)
(* replaces the table, and the accepts come before the drop.                *)
ReloadIsolates ==
    pc = "applied" =>
        \A r, s \in ruleset :
            table.chains => (Forward(table, r.cidr, s.cidr) = "accept" <=> SetName(r.scope) = SetName(s.scope))

(* Once the store and the kernel are left alone and commands work, the      *)
(* tick restores the named sets of the table: drift and stale scopes do not *)
(* stay.                                                                    *)
DriftRepaired ==
    <>[](/\ table.chains
         /\ DOMAIN table.sets = SetNamesUsed(subnets) \cup (IF subnets = {} THEN {} ELSE {Pool}))

(* Docker may rebuild or prepend to its chains at any time; the exemptions  *)
(* come back to the top of each.                                            *)
ExemptionsReturn == <>[](\A c \in ChainNames : Pinned(c))
=============================================================================
