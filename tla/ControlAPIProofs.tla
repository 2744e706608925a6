-------------------------- MODULE ControlAPIProofs --------------------------
(* Proofs about ControlAPI, for any number of nodes, clients, manifests and *)
(* leaderships, and any pool.                                               *)
EXTENDS ControlAPI, ControlStateProofs

-----------------------------------------------------------------------------
(* The stores after a prefix of a log                                       *)

IsHistory(f, n, l) ==
    f = [j \in 0 .. n |-> IF j = 0 THEN Empty ELSE ApplyEntry(f[j - 1], l[j], j)]

StateOf(l, i) ==
    LET after[j \in 0 .. i] == IF j = 0 THEN Empty ELSE ApplyEntry(after[j - 1], l[j], j)
    IN  after[i]

(* Every log has a history, by the least length without one.                *)
LEMMA HistoryExists ==
    ASSUME NEW l, NEW n \in Nat
    PROVE  \E f : IsHistory(f, n, l)
<1> DEFINE T == {m \in Nat : ~\E f : IsHistory(f, m, l)}
<1> SUFFICES ASSUME T # {} PROVE FALSE
  OBVIOUS
<1>1. PICK m \in T : \A y \in T : m <= y
  BY Zenon, LeastElement
<1>2. m # 0
  <2>1. IsHistory([i \in 0 .. 0 |-> Empty], 0, l)
    BY DEF IsHistory
  <2> QED BY <2>1
<1>3. m - 1 \in Nat /\ m - 1 \notin T
  BY <1>1, <1>2
<1>4. PICK f : IsHistory(f, m - 1, l)
  BY <1>3
<1> DEFINE g == [i \in 0 .. m |-> IF i = m THEN ApplyEntry(f[m - 1], l[m], m) ELSE f[i]]
<1>5. g = [i \in 0 .. m |-> IF i = 0 THEN Empty ELSE ApplyEntry(g[i - 1], l[i], i)]
  <2>1. ASSUME NEW i \in 0 .. m
        PROVE  g[i] = IF i = 0 THEN Empty ELSE ApplyEntry(g[i - 1], l[i], i)
    BY <1>2, <1>4 DEF IsHistory
  <2> QED BY <2>1
<1>6. IsHistory(g, m, l)
  BY <1>5 DEF IsHistory
<1> QED BY <1>6

(* And StateOf is the last state of it.                                     *)
LEMMA StateOfHistory ==
    ASSUME NEW l, NEW n \in Nat
    PROVE  \E f : IsHistory(f, n, l) /\ StateOf(l, n) = f[n]
<1> DEFINE P(f) == f = [j \in 0 .. n |-> IF j = 0 THEN Empty ELSE ApplyEntry(f[j - 1], l[j], j)]
           after == CHOOSE f : P(f)
<1>1. \E f : P(f)
  <2>1. \E f : IsHistory(f, n, l)
    BY HistoryExists
  <2> QED BY <2>1, Zenon DEF IsHistory
<1>2. P(after)
  BY <1>1, Zenon
<1>3. StateOf(l, n) = after[n]
  BY DEF StateOf
<1> QED BY Zenon, <1>2, <1>3 DEF IsHistory

Same(l, k, i) == \A j \in 1 .. i : l[j] = k[j]

(* Two histories of logs with the same first entries agree on them.         *)
LEMMA HistoriesAgree ==
    ASSUME NEW l, NEW k, NEW n \in Nat, NEW m \in Nat, NEW i \in Nat, i <= n, i <= m,
           Same(l, k, i), NEW f, IsHistory(f, n, l), NEW g, IsHistory(g, m, k)
    PROVE  f[i] = g[i]
<1> DEFINE T == {j \in 0 .. i : f[j] # g[j]}
<1> SUFFICES ASSUME T # {} PROVE FALSE
  OBVIOUS
<1>0. T \subseteq Nat
  OBVIOUS
<1>1. PICK j \in T : \A y \in T : j <= y
  <2> HIDE DEF T
  <2> QED BY Zenon, <1>0, LeastElement
<1>2. j # 0
  BY DEF IsHistory
<1>3. f[j - 1] = g[j - 1]
  BY <1>1, <1>2
<1>4. f[j] = ApplyEntry(f[j - 1], l[j], j) /\ g[j] = ApplyEntry(g[j - 1], k[j], j)
  BY <1>2 DEF IsHistory
<1>5. l[j] = k[j]
  BY <1>2 DEF Same
<1> QED BY <1>3, <1>4, <1>5

(* The state after i entries depends on these entries only.                 *)
LEMMA StateOfPrefix ==
    ASSUME NEW l, NEW k, NEW i \in Nat, Same(l, k, i)
    PROVE  StateOf(l, i) = StateOf(k, i)
<1>1. PICK f : IsHistory(f, i, l) /\ StateOf(l, i) = f[i]
  BY StateOfHistory
<1>2. PICK g : IsHistory(g, i, k) /\ StateOf(k, i) = g[i]
  BY StateOfHistory
<1>3. f[i] = g[i]
  <2>1. i <= i
    OBVIOUS
  <2> QED BY <1>1, <1>2, <2>1, HistoriesAgree
<1> QED BY <1>1, <1>2, <1>3

(* One entry more is one FSM.Apply more.                                    *)
LEMMA StateOfStep ==
    ASSUME NEW l, NEW i \in Nat
    PROVE  StateOf(l, i + 1) = ApplyEntry(StateOf(l, i), l[i + 1], i + 1)
<1>1. PICK f : IsHistory(f, i, l) /\ StateOf(l, i) = f[i]
  BY StateOfHistory
<1>2. PICK g : IsHistory(g, i + 1, l) /\ StateOf(l, i + 1) = g[i + 1]
  BY StateOfHistory
<1>3. f[i] = g[i]
  <2>1. i <= i /\ i <= i + 1 /\ i + 1 \in Nat /\ Same(l, l, i)
    BY DEF Same
  <2> QED BY <1>1, <1>2, <2>1, HistoriesAgree
<1>4. g[i + 1] = ApplyEntry(g[i], l[i + 1], i + 1)
  BY <1>2 DEF IsHistory
<1> QED BY <1>1, <1>2, <1>3, <1>4

(* Nothing applied is NewState.                                             *)
LEMMA StateOfZero == ASSUME NEW l PROVE StateOf(l, 0) = Empty
<1>1. PICK f : IsHistory(f, 0, l) /\ StateOf(l, 0) = f[0]
  BY StateOfHistory
<1> QED BY <1>1 DEF IsHistory

(* StateAt is StateOf for the log there is.                                 *)
LEMMA StateAtIs == \A i : StateAt(i) = StateOf(log, i)
  BY Zenon DEF StateAt, StateOf

-----------------------------------------------------------------------------
(* The types the arguments below need.  A handler in flight holds one       *)
(* command, SubnetAllocate exactly in EnsureSubnet, and an Apply of a       *)
(* privileged manifest the audit event that is to follow it.                *)

IsCall(r) ==
    /\ r = [pc |-> "commit", kind |-> r.kind, node |-> r.node, entry |-> r.entry,
            base |-> r.base, rest |-> r.rest, old |-> r.old]
    /\ Len(r.entry) = 1 /\ r.old \in BOOLEAN
    /\ r.entry[1].op = "SubnetAllocate" <=> r.kind = "ensure"
    /\ r.entry[1].op = "DeploymentApply" <=> r.kind = "apply"
    /\ r.rest # << >> =>
          /\ Len(r.rest) = 1 /\ r.rest[1].op = "AuditAppend"
          /\ r.entry[1].op = "DeploymentApply" /\ r.entry[1].privileged
          /\ r.rest[1].dep = r.entry[1].dep

Typed ==
    /\ log \in Seq({log[i] : i \in DOMAIN log})
    /\ at \in [Nodes -> 0 .. Len(log)]
    /\ leader \in Nodes \cup {Nobody}
    /\ call = [c \in Clients |-> call[c]]
    /\ \A c \in Clients : call[c] # Idle => IsCall(call[c]) /\ call[c].base \in 0 .. Len(log)
    /\ behind \in BOOLEAN /\ crossed \in BOOLEAN

(* The first entry is in the log and nobody calls.                          *)
LEMMA InitTyped == Init => Typed
<1> SUFFICES ASSUME Init PROVE Typed
  OBVIOUS
<1>1. log \in Seq({log[i] : i \in DOMAIN log}) /\ Len(log) = 1
  <2>1. log \in Seq({Seed}) /\ Len(log) = 1 /\ log[1] = Seed
    BY DEF Init
  <2> QED BY <2>1, SeqDef
<1>2. at \in [Nodes -> 0 .. Len(log)] /\ leader \in Nodes \cup {Nobody}
  BY <1>1 DEF Init
<1>4. behind \in BOOLEAN /\ crossed \in BOOLEAN
  BY Zenon DEF Init
<1>3. call = [c \in Clients |-> call[c]] /\ \A c \in Clients : call[c] = Idle
  BY DEF Init
<1> QED BY <1>1, <1>2, <1>3, <1>4 DEF Typed

(* One more entry leaves the log before it as it was.                       *)
LEMMA LogGrows ==
    ASSUME Typed, NEW e, log' = Append(log, e)
    PROVE  /\ log' \in Seq({log'[i] : i \in DOMAIN log'})
           /\ Len(log) \in Nat /\ Len(log') = Len(log) + 1
           /\ \A i \in 1 .. Len(log) : log'[i] = log[i]
           /\ log'[Len(log) + 1] = e
<1> DEFINE S == {log[i] : i \in DOMAIN log} \cup {e}
<1>1. log \in Seq(S) /\ e \in S
  BY DEF Typed
<1> HIDE DEF S
<1>2. /\ log' \in Seq(S) /\ Len(log') = Len(log) + 1 /\ Len(log) \in Nat
      /\ \A i \in 1 .. Len(log) : log'[i] = log[i]
      /\ log'[Len(log) + 1] = e
  BY <1>1, AppendProperties
<1>3. log' \in Seq({log'[i] : i \in DOMAIN log'})
  BY SMTT(20), Zenon, <1>2, SeqDef
<1> QED BY <1>2, <1>3

(* A handler has passed its checks on the leader and holds a new command:   *)
(* a free /24 while nobody else on this node allocates, or a manifest with  *)
(* ports that are free or its own.                                          *)
NewCall(c) ==
    LET r == call'[c]
    IN  /\ r # Idle /\ IsCall(r) /\ leader \in Nodes /\ r.node = leader /\ r.old = FALSE /\ r.base = Len(log)
        /\ r.entry[1].op \notin {"ReplicaObservedUpdate", "AuditAppend"}
        /\ r.entry[1].op = "SubnetAllocate" =>
              /\ ~Locked(leader) /\ Free(State(leader)) # {}
              /\ r.entry[1].cidr = nextFree(State(leader))
        /\ r.entry[1].op = "DeploymentApply" =>
              \A p \in r.entry[1].ports : Has(State(leader), "tcp_routes", p) =>
                 Row(State(leader), "tcp_routes", p).dep = r.entry[1].dep
        /\ \A d \in Clients \ {c} : call'[d] = call[d]
        /\ call' = [d \in Clients |-> call'[d]]
        /\ behind' = (behind \/ at[leader] < Len(log))
        /\ UNCHANGED <<log, at, leader, terms, purged, given, crossed>>

(* What Checked does, once the command is known to be as NewCall says.      *)
LEMMA CheckedCall ==
    ASSUME Typed, leader \in Nodes, NEW c \in Clients, NEW kind, NEW e, NEW rest,
           Checked(c, kind, <<e>>, rest),
           e.op \notin {"ReplicaObservedUpdate", "AuditAppend"},
           e.op = "SubnetAllocate" <=> kind = "ensure",
           e.op = "DeploymentApply" <=> kind = "apply",
           rest # << >> =>
              /\ Len(rest) = 1 /\ rest[1].op = "AuditAppend"
              /\ e.op = "DeploymentApply" /\ e.privileged
              /\ rest[1].dep = e.dep,
           e.op = "SubnetAllocate" =>
              ~Locked(leader) /\ Free(State(leader)) # {} /\ e.cidr = nextFree(State(leader)),
           e.op = "DeploymentApply" =>
              \A p \in e.ports : Has(State(leader), "tcp_routes", p) =>
                 Row(State(leader), "tcp_routes", p).dep = e.dep
    PROVE  NewCall(c)
<1> DEFINE r == [pc |-> "commit", kind |-> kind, node |-> leader, entry |-> <<e>>,
                 base |-> Len(log), rest |-> rest, old |-> FALSE]
<1>1. call' = [call EXCEPT ![c] = r]
  BY DEF Checked
<1>2. /\ r.entry = <<e>> /\ Len(r.entry) = 1 /\ r.entry[1] = e /\ r.rest = rest /\ r.kind = kind
      /\ r.node = leader /\ r.base = Len(log) /\ r.old = FALSE
  OBVIOUS
<1>3. /\ r # Idle
      /\ r = [pc |-> "commit", kind |-> r.kind, node |-> r.node, entry |-> r.entry,
              base |-> r.base, rest |-> r.rest, old |-> r.old]
  BY DEF Idle
<1> HIDE DEF r
<1>4. r.old \in BOOLEAN
  BY ZenonT(40), <1>2
<1>5. IsCall(r)
  BY <1>2, <1>3, <1>4, Zenon DEF IsCall
<1>6. call'[c] = r /\ (\A d \in Clients \ {c} : call'[d] = call[d]) /\ call' = [d \in Clients |-> call'[d]]
  BY <1>1 DEF Typed
<1>7. /\ behind' = (behind \/ at[leader] < Len(log))
      /\ UNCHANGED <<log, at, leader, terms, purged, given, crossed>>
  BY DEF Checked
<1> QED BY SMTT(20), Zenon, <1>2, <1>3, <1>5, <1>6, <1>7 DEF NewCall

(* Every handler either stops with nothing to commit or holds a new command. *)
LEMMA HandlerCases ==
    ASSUME Typed, leader # Nobody, NEW c \in Clients, Handle(c, State(leader))
    PROVE  \/ NewCall(c)
           \/ /\ UNCHANGED <<log, at, leader, call, crossed>>
              /\ behind' = behind \/ behind' = (behind \/ at[leader] < Len(log))
<1> DEFINE s == State(leader)
<1>0. leader \in Nodes
  BY DEF Typed
<1>1. ASSUME NEW m \in Manifests, NEW who, Apply(c, s, who, m) PROVE NewCall(c)
  <2> DEFINE e == DeploymentApplyOf(s, m)
             rest == Audit(m)
  <2>1. e.op = "DeploymentApply" /\ e.dep = m.dep /\ e.ports = Ports(m) /\ e.privileged = m.privileged
    BY DEF DeploymentApplyOf
  <2>2. ASSUME rest # << >>
        PROVE  Len(rest) = 1 /\ rest[1].op = "AuditAppend" /\ rest[1].dep = m.dep /\ m.privileged
    <3>1. m.privileged /\ rest = <<[op |-> "AuditAppend", dep |-> m.dep]>>
      BY <2>2, Zenon DEF Audit
    <3> HIDE DEF rest
    <3> QED BY <3>1
  <2>3. \A p \in Ports(m) : Has(s, "tcp_routes", p) => Row(s, "tcp_routes", p).dep = m.dep
    BY <1>1, Zenon DEF Apply, PortsFree
  <2>4. Checked(c, "apply", <<e>>, rest)
    BY <1>1, Zenon DEF Apply
  <2> HIDE DEF e, rest
  <2>5. e.privileged <=> m.privileged
    BY <2>1, Zenon
  <2> QED BY SMTT(20), Zenon, <2>1, <2>2, <2>3, <2>4, <2>5, <1>0, CheckedCall
<1>2. ASSUME NEW d \in Deps, Rollback(c, s, d) PROVE NewCall(c)
  <2> DEFINE e == [op |-> "DeploymentRollback", dep |-> d, rev |-> Row(s, "deployments", d).previous]
  <2>1. Checked(c, "rollback", <<e>>, << >>) /\ e.op = "DeploymentRollback"
    BY <1>2 DEF Rollback
  <2> HIDE DEF e
  <2> QED BY Zenon, <2>1, <1>0, CheckedCall
<1>3. ASSUME NEW d \in Deps, Delete(c, d) PROVE NewCall(c)
  <2> DEFINE e == [op |-> "DeploymentDelete", dep |-> d]
  <2>1. Checked(c, "delete", <<e>>, << >>) /\ e.op = "DeploymentDelete"
    BY <1>3 DEF Delete
  <2> HIDE DEF e
  <2> QED BY Zenon, <2>1, <1>0, CheckedCall
<1>4. ASSUME NEW who \in Idents, Issue(c, who) \/ Revoke(c, who) PROVE NewCall(c)
  <2> DEFINE e(op) == [op |-> op, identity |-> who]
  <2>1. /\ Checked(c, "token", <<e("TokenIssue")>>, << >>) \/ Checked(c, "token", <<e("TokenRevoke")>>, << >>)
        /\ e("TokenIssue").op = "TokenIssue" /\ e("TokenRevoke").op = "TokenRevoke"
    BY <1>4 DEF Issue, Revoke
  <2> HIDE DEF e
  <2> QED BY Zenon, <2>1, <1>0, CheckedCall
<1>5. ASSUME NEW who \in Idents, RemoveCredential(c, who) \/ Add(c, who, 1) PROVE NewCall(c)
  <2> DEFINE e == [op |-> "RegistryCredentialUpsert", key |-> who, v |-> 1]
             f == [op |-> "RegistryCredentialRemove", key |-> who]
  <2>1. /\ Checked(c, "registry", <<e>>, << >>) \/ Checked(c, "registry", <<f>>, << >>)
        /\ e.op = "RegistryCredentialUpsert" /\ f.op = "RegistryCredentialRemove"
    BY <1>5 DEF Add, RemoveCredential
  <2> HIDE DEF e, f
  <2> QED BY Zenon, <2>1, <1>0, CheckedCall
<1>6. ASSUME NEW k \in Networks, Allocate(c, s, k) PROVE NewCall(c)
  <2> DEFINE e == [op |-> "SubnetAllocate", dep |-> k[1], net |-> "default",
                   host |-> k[2], cidr |-> nextFree(s)]
  <2>1. Checked(c, "ensure", <<e>>, << >>) /\ ~Locked(leader) /\ Free(s) # {}
    BY <1>6, Zenon DEF Allocate
  <2>2. e.op = "SubnetAllocate" /\ e.cidr = nextFree(s)
    OBVIOUS
  <2> HIDE DEF e
  <2> QED BY <2>1, <2>2, <1>0, CheckedCall
<1>7. ASSUME NEW k \in Networks, EnsureHit(s, k)
      PROVE  UNCHANGED <<log, at, leader, call, crossed>> /\ behind' = (behind \/ at[leader] < Len(log))
  BY <1>7 DEF EnsureHit
<1>8. ASSUME purgeHostlessSubnets(c, s)
      PROVE  NewCall(c) \/ UNCHANGED <<log, at, leader, call, behind, crossed>>
  <2>1. CASE UNCHANGED <<log, at, leader, call, behind, crossed>>
    BY <2>1
  <2>2. ASSUME NEW k, Checked(c, "purge", <<[op |-> "SubnetFree", dep |-> k[1], net |-> k[2], host |-> ""]>>, << >>)
        PROVE  NewCall(c)
    <3> DEFINE e == [op |-> "SubnetFree", dep |-> k[1], net |-> k[2], host |-> ""]
    <3>1. Checked(c, "purge", <<e>>, << >>) /\ e.op = "SubnetFree"
      BY Zenon, <2>2
    <3> HIDE DEF e
    <3> QED BY Zenon, <3>1, <1>0, CheckedCall
  <2> QED BY <1>8, <2>1, <2>2, Zenon DEF purgeHostlessSubnets
<1> HIDE DEF s
<1>9. Handle(c, s)
  BY DEF s
<1> QED BY <1>1, <1>2, <1>3, <1>4, <1>5, <1>6, <1>7, <1>8, <1>9, ZenonT(40) DEF Handle

(* A node's observation is on its way.                                      *)
NewSubmit(c) ==
    LET r == call'[c]
    IN  /\ r # Idle /\ IsCall(r) /\ r.base = Len(log) /\ r.entry[1].op = "ReplicaObservedUpdate"
        /\ \A i \in 1 .. Len(log) :
              log[i][1].op = "ReplicaObservedUpdate" => log[i][1].id # r.entry[1].id
        /\ \A d \in Clients : call[d] # Idle => call[d].entry[1].op # "ReplicaObservedUpdate"
        /\ \A d \in Clients \ {c} : call'[d] = call[d]
        /\ call' = [d \in Clients |-> call'[d]]
        /\ UNCHANGED <<log, at, leader, terms, purged, given, behind, crossed>>

(* Submit only sends an observation that is neither in the log nor on its   *)
(* way.                                                                     *)
LEMMA SubmitCase ==
    ASSUME Typed, NEW c \in Clients, NEW n \in Nodes, NEW id, Submit(c, n, id)
    PROVE  NewSubmit(c)
<1> DEFINE e == [op |-> "ReplicaObservedUpdate", id |-> id, state |-> "up"]
           r == [pc |-> "commit", kind |-> "submit", node |-> n, base |-> Len(log),
                 entry |-> <<e>>, rest |-> << >>, old |-> FALSE]
<1>1. call' = [call EXCEPT ![c] = r]
  BY DEF Submit
<1>2. e.op = "ReplicaObservedUpdate" /\ e.id = id
  OBVIOUS
<1> HIDE DEF e
<1>3. /\ Len(r.entry) = 1 /\ r.entry[1] = e /\ r.rest = << >> /\ r.kind = "submit"
      /\ r.base = Len(log) /\ r.old \in BOOLEAN /\ r # Idle
      /\ r = [pc |-> "commit", kind |-> r.kind, node |-> r.node, entry |-> r.entry,
              base |-> r.base, rest |-> r.rest, old |-> r.old]
  BY DEF Idle
<1> HIDE DEF r
<1>4. IsCall(r)
  BY <1>2, <1>3 DEF IsCall
<1>5. call'[c] = r /\ (\A d \in Clients \ {c} : call'[d] = call[d]) /\ call' = [d \in Clients |-> call'[d]]
  BY <1>1 DEF Typed
<1> QED BY ZenonT(40), <1>2, <1>3, <1>4, <1>5 DEF Submit, NewSubmit

(* The entry of a call is in the log; the call ends, or goes on to its audit *)
(* event.                                                                   *)
Landed(c) ==
    LET r == call[c]
        q == call'[c]
    IN  /\ r # Idle /\ IsCall(r) /\ leader # Nobody /\ leader = Through(r)
        /\ log' = Append(log, r.entry)
        /\ behind' = (behind \/ r.old)
        /\ crossed' = (crossed \/ (r.kind = "apply" /\ r.base # Len(log)))
        /\ q # Idle => /\ IsCall(q) /\ r.rest # << >> /\ q.entry = r.rest /\ q.kind = "audit"
                       /\ q.base = r.base
        /\ \A d \in Clients \ {c} : call'[d] = call[d]
        /\ call' = [d \in Clients |-> call'[d]]
        /\ leader' \in {leader, Nobody} /\ at' \in [Nodes -> 0 .. Len(log) + 1]

(* The record of a handler that goes on from its command to its audit event. *)
LEMMA AuditRecord ==
    ASSUME NEW k, NEW n, NEW e, NEW b, NEW x, NEW o, NEW z, NEW t,
           z = [pc |-> "commit", kind |-> k, node |-> n, entry |-> e, base |-> b, rest |-> x, old |-> o],
           t = [z EXCEPT !.entry = x, !.rest = << >>, !.kind = "audit"]
    PROVE  t = [pc |-> "commit", kind |-> "audit", node |-> n, entry |-> x,
                base |-> b, rest |-> << >>, old |-> o]
  BY Zenon

(* The same of a record known by its own fields.                            *)
LEMMA OnToAudit ==
    ASSUME NEW z, NEW t,
           z = [pc |-> "commit", kind |-> z.kind, node |-> z.node, entry |-> z.entry,
                base |-> z.base, rest |-> z.rest, old |-> z.old],
           t = [z EXCEPT !.entry = z.rest, !.rest = << >>, !.kind = "audit"]
    PROVE  t = [pc |-> "commit", kind |-> "audit", node |-> z.node, entry |-> z.rest,
                base |-> z.base, rest |-> << >>, old |-> z.old]
<1>1. PICK k, n, e, b, x, o :
         k = z.kind /\ n = z.node /\ e = z.entry /\ b = z.base /\ x = z.rest /\ o = z.old
  BY Zenon
<1>2. z = [pc |-> "commit", kind |-> k, node |-> n, entry |-> e, base |-> b, rest |-> x, old |-> o]
  BY <1>1, Zenon
<1>3. t = [z EXCEPT !.entry = x, !.rest = << >>, !.kind = "audit"]
  BY <1>1, Zenon
<1>4. t = [pc |-> "commit", kind |-> "audit", node |-> n, entry |-> x, base |-> b, rest |-> << >>, old |-> o]
  BY <1>2, <1>3, AuditRecord, ZenonT(40)
<1> QED BY <1>1, <1>4, Zenon

(* Commit, answered or with the answer lost, puts the entry of the call in  *)
(* the log.                                                                 *)
LEMMA LandedCases ==
    ASSUME Typed, NEW c \in Clients, Commit(c) \/ Lost(c)
    PROVE  Landed(c)
<1> DEFINE r == call[c]
           q == [r EXCEPT !.entry = r.rest, !.rest = << >>, !.kind = "audit"]
<1>0. r # Idle /\ IsCall(r)
  BY DEF Commit, Lost, Typed
<1>1. ASSUME r.rest # << >>
      PROVE  IsCall(q) /\ q.entry = r.rest /\ q.kind = "audit" /\ q.base = r.base
  <2> SUFFICES ASSUME NEW t, t = q
               PROVE  IsCall(t) /\ t.entry = r.rest /\ t.kind = "audit" /\ t.base = r.base
    BY Zenon
  <2>0. r = [pc |-> "commit", kind |-> r.kind, node |-> r.node, entry |-> r.entry,
             base |-> r.base, rest |-> r.rest, old |-> r.old]
    BY <1>0, Zenon DEF IsCall
  <2>1. Len(r.rest) = 1 /\ r.rest[1].op = "AuditAppend"
    BY <1>0, <1>1, Zenon DEF IsCall
  <2>4. r.old \in BOOLEAN
    BY <1>0, Zenon DEF IsCall
  <2> HIDE DEF r
  <2>2. t = [pc |-> "commit", kind |-> "audit", node |-> r.node, entry |-> r.rest,
             base |-> r.base, rest |-> << >>, old |-> r.old]
    BY <2>0, OnToAudit, ZenonT(40)
  <2> HIDE DEF q
  <2>3. /\ t = [pc |-> "commit", kind |-> t.kind, node |-> t.node, entry |-> t.entry,
                base |-> t.base, rest |-> t.rest, old |-> t.old]
        /\ t.entry = r.rest /\ t.rest = << >> /\ t.kind = "audit" /\ t.base = r.base /\ t.old = r.old
    BY <2>2
  <2>5. IsCall(t)
    BY <2>1, <2>3, <2>4 DEF IsCall
  <2> QED BY <2>3, <2>5
<1> HIDE DEF q
<1>2. CASE Commit(c)
  <2>1. /\ call' = [call EXCEPT ![c] = IF r.rest = << >> THEN Idle ELSE q]
        /\ behind' = (behind \/ r.old)
        /\ crossed' = (crossed \/ (r.kind = "apply" /\ r.base # Len(log)))
        /\ log' = Append(log, r.entry) /\ leader' = leader /\ leader # Nobody /\ leader = Through(r)
    BY <1>2, Zenon DEF Commit, q
  <2>2. /\ call'[c] = (IF r.rest = << >> THEN Idle ELSE q)
        /\ \A d \in Clients \ {c} : call'[d] = call[d]
        /\ call' = [d \in Clients |-> call'[d]]
    BY Zenon, <2>1 DEF Typed
  <2>3. at' \in [Nodes -> 0 .. Len(log) + 1]
    BY <1>2 DEF Commit, Typed
  <2> QED BY <1>0, <1>1, <2>1, <2>2, <2>3, ZenonT(40) DEF Landed
<1>3. CASE Lost(c)
  <2>1. /\ call' = [call EXCEPT ![c] = Idle]
        /\ behind' = (behind \/ r.old)
        /\ crossed' = (crossed \/ (r.kind = "apply" /\ r.base # Len(log)))
        /\ log' = Append(log, r.entry) /\ leader' = Nobody /\ leader # Nobody /\ leader = Through(r)
    BY <1>3, Zenon DEF Lost
  <2>2. /\ call'[c] = Idle
        /\ \A d \in Clients \ {c} : call'[d] = call[d]
        /\ call' = [d \in Clients |-> call'[d]]
    BY Zenon, <2>1 DEF Typed
  <2>3. at' \in [Nodes -> 0 .. Len(log) + 1]
    BY <1>3 DEF Lost, Typed
  <2> QED BY <1>0, <2>1, <2>2, <2>3, Zenon DEF Landed
<1> QED BY <1>2, <1>3

(* Nothing is committed and no command is new: a handler ends or only reads, *)
(* the leadership moves, or an FSM catches up.                              *)
Quiet ==
    /\ log' = log /\ crossed' = crossed /\ (behind => behind') /\ behind' \in BOOLEAN
    /\ at' \in [Nodes -> 0 .. Len(log)] /\ leader' \in Nodes \cup {Nobody}
    /\ call' = [d \in Clients |-> call'[d]]
    /\ \A d \in Clients : call'[d] # Idle =>
          LET r == call[d]
              q == call'[d]
          IN  /\ r # Idle /\ IsCall(q)
              /\ q.kind = r.kind /\ q.node = r.node /\ q.entry = r.entry /\ q.base = r.base
              /\ q.rest = r.rest
              /\ ~q.old => ~r.old /\ leader' \in {leader, Nobody}

(* A step that changes neither log nor calls is quiet.                      *)
LEMMA QuietSame ==
    ASSUME Typed, UNCHANGED <<log, call, crossed>>, behind => behind', behind' \in BOOLEAN,
           leader' \in {leader, Nobody}, at' \in [Nodes -> 0 .. Len(log)]
    PROVE  Quiet
<1>1. \A d \in Clients : call'[d] # Idle => call[d] # Idle /\ IsCall(call'[d]) /\ call'[d] = call[d]
  BY DEF Typed
<1>2. /\ call' = [d \in Clients |-> call'[d]] /\ log' = log /\ crossed' = crossed
      /\ leader' \in Nodes \cup {Nobody}
  BY DEF Typed
<1> QED BY <1>1, <1>2, Zenon DEF Quiet

(* A call that raft refuses ends with nothing committed.                    *)
LEMMA RefusedQuiet ==
    ASSUME Typed, NEW c \in Clients, Refused(c)
    PROVE  Quiet
<1>1. /\ call' = [call EXCEPT ![c] = Idle]
      /\ UNCHANGED <<log, at, leader, terms, given, behind, crossed>>
  BY DEF Refused
<1>2. \A d \in Clients : call'[d] # Idle => call[d] # Idle /\ IsCall(call'[d]) /\ call'[d] = call[d]
  BY <1>1 DEF Typed
<1>3. call' = [d \in Clients |-> call'[d]] /\ log' = log /\ crossed' = crossed /\ leader' = leader
  BY <1>1 DEF Typed
<1>4. (behind => behind') /\ behind' \in BOOLEAN
  BY <1>1, Zenon DEF Typed
<1>5. at' \in [Nodes -> 0 .. Len(log)] /\ leader' \in Nodes \cup {Nobody}
  BY <1>1 DEF Typed
<1> QED BY <1>2, <1>3, <1>4, <1>5, ZenonT(40) DEF Quiet

(* The record of a call of an earlier leadership.                           *)
LEMMA OldRecord ==
    ASSUME NEW k, NEW n, NEW e, NEW b, NEW x, NEW o, NEW z, NEW t,
           z = [pc |-> "commit", kind |-> k, node |-> n, entry |-> e, base |-> b, rest |-> x, old |-> o],
           t = [z EXCEPT !.old = TRUE]
    PROVE  t = [pc |-> "commit", kind |-> k, node |-> n, entry |-> e, base |-> b, rest |-> x, old |-> TRUE]
  BY Zenon

(* A call that outlives the leadership it was checked in.                   *)
LEMMA Outlived ==
    ASSUME NEW r, IsCall(r), NEW q, q = [r EXCEPT !.old = TRUE]
    PROVE  /\ IsCall(q) /\ q.old = TRUE
           /\ q.kind = r.kind /\ q.node = r.node /\ q.entry = r.entry /\ q.base = r.base
           /\ q.rest = r.rest
<1>1. r = [pc |-> "commit", kind |-> r.kind, node |-> r.node, entry |-> r.entry,
           base |-> r.base, rest |-> r.rest, old |-> r.old]
  BY Zenon DEF IsCall
<1>2. q = [pc |-> "commit", kind |-> r.kind, node |-> r.node, entry |-> r.entry,
           base |-> r.base, rest |-> r.rest, old |-> TRUE]
  <2>1. PICK k, n, e, b, x, o :
           k = r.kind /\ n = r.node /\ e = r.entry /\ b = r.base /\ x = r.rest /\ o = r.old
    BY Zenon
  <2>2. r = [pc |-> "commit", kind |-> k, node |-> n, entry |-> e, base |-> b, rest |-> x, old |-> o]
    BY <1>1, <2>1, Zenon
  <2>3. q = [pc |-> "commit", kind |-> k, node |-> n, entry |-> e, base |-> b, rest |-> x, old |-> TRUE]
    BY <2>2, OldRecord, Zenon
  <2> QED BY <2>1, <2>3, Zenon
<1>3. /\ q.old = TRUE
      /\ q.kind = r.kind /\ q.node = r.node /\ q.entry = r.entry /\ q.base = r.base
      /\ q.rest = r.rest
  BY <1>2
<1>4. q = [pc |-> "commit", kind |-> q.kind, node |-> q.node, entry |-> q.entry,
           base |-> q.base, rest |-> q.rest, old |-> q.old]
  BY Zenon, <1>2, <1>3
<1>5. q.old \in BOOLEAN
  BY <1>3
<1>6. IsCall(q)
  BY <1>3, <1>4, <1>5, Zenon DEF IsCall
<1> QED BY <1>3, <1>6

(* A new leader commits nothing by being elected, and the calls that go on  *)
(* are those of before.                                                     *)
LEMMA ElectQuiet ==
    ASSUME Typed, NEW n \in Nodes, Elect(n)
    PROVE  Quiet
<1>1. call' = [c \in Clients |-> IF call[c] = Idle THEN Idle ELSE [call[c] EXCEPT !.old = TRUE]]
  BY Zenon DEF Elect
<1>2. ASSUME NEW d \in Clients, call'[d] # Idle
      PROVE  LET r == call[d]
                 q == call'[d]
             IN  /\ r # Idle /\ IsCall(q) /\ q.old
                 /\ q.kind = r.kind /\ q.node = r.node /\ q.entry = r.entry /\ q.base = r.base
                 /\ q.rest = r.rest
  <2>1. call[d] # Idle /\ call'[d] = [call[d] EXCEPT !.old = TRUE]
    BY <1>1, <1>2, Zenon
  <2>2. IsCall(call[d])
    BY <2>1 DEF Typed
  <2> QED BY <2>1, <2>2, Outlived, ZenonT(40)
<1>3. log' = log /\ crossed' = crossed /\ behind' = behind
  BY DEF Elect
<1>4. call' = [d \in Clients |-> call'[d]]
  BY <1>1
<1>5. at' \in [Nodes -> 0 .. Len(log)] /\ leader' \in Nodes \cup {Nobody}
  BY DEF Elect, Typed
<1>6. behind' \in BOOLEAN
  BY <1>3, Zenon DEF Typed
<1> QED BY <1>6, <1>2, <1>3, <1>4, <1>5, ZenonT(40) DEF Quiet

(* Every step is one of these four.                                         *)
LEMMA StepCases ==
    ASSUME Typed, [Next]_apiVars
    PROVE  \/ \E c \in Clients : NewCall(c) \/ NewSubmit(c) \/ Landed(c)
           \/ Quiet
<1>1. ASSUME NEW c \in Clients, Serving(c), Handle(c, State(leader)) PROVE NewCall(c) \/ Quiet
  <2>1. CASE NewCall(c)
    BY <2>1
  <2>2. CASE /\ UNCHANGED <<log, at, leader, call, crossed>>
             /\ behind' = behind \/ behind' = (behind \/ at[leader] < Len(log))
    <3>1. (behind => behind') /\ behind' \in BOOLEAN
      BY <2>2, Zenon DEF Typed
    <3>2. at' \in [Nodes -> 0 .. Len(log)]
      BY <2>2 DEF Typed
    <3> QED BY <2>2, <3>1, <3>2, QuietSame
  <2>3. leader # Nobody
    BY <1>1 DEF Serving
  <2> QED BY SMTT(20), Zenon, <1>1, <2>1, <2>2, <2>3, HandlerCases
<1>2. ASSUME NEW c \in Clients, NEW n \in Nodes, Submit(c, n, "r") PROVE NewSubmit(c)
  BY <1>2, SubmitCase
<1>3. ASSUME NEW c \in Clients, Commit(c) \/ Lost(c) PROVE Landed(c)
  BY <1>3, LandedCases
<1>4. ASSUME NEW c \in Clients, Refused(c) PROVE Quiet
  BY <1>4, RefusedQuiet
<1>5. ASSUME NEW n \in Nodes, Elect(n) PROVE Quiet
  BY <1>5, ElectQuiet
<1>6. ASSUME StepDown \/ FSMApply PROVE Quiet
  <2>1. UNCHANGED <<log, call, crossed>> /\ leader' \in {leader, Nobody} /\ behind' = behind
    BY <1>6 DEF StepDown, FSMApply
  <2>2. at' \in [Nodes -> 0 .. Len(log)]
    BY SMTT(20), Zenon, <1>6 DEF StepDown, FSMApply, Typed
  <2>3. (behind => behind') /\ behind' \in BOOLEAN
    BY <2>1, Zenon DEF Typed
  <2> QED BY SMTT(20), Zenon, <2>1, <2>2, <2>3, QuietSame
<1>7. ASSUME UNCHANGED apiVars PROVE Quiet
  <2>1. UNCHANGED <<log, call, crossed>> /\ leader' = leader /\ behind' = behind
    BY <1>7 DEF apiVars
  <2>2. at' \in [Nodes -> 0 .. Len(log)]
    BY <1>7 DEF apiVars, Typed
  <2>3. (behind => behind') /\ behind' \in BOOLEAN
    BY <2>1, Zenon DEF Typed
  <2> QED BY <2>1, <2>2, <2>3, QuietSame
<1> QED BY <1>1, <1>2, <1>3, <1>4, <1>5, <1>6, <1>7, ZenonT(40) DEF Next

(* Every step keeps the types.                                              *)
LEMMA TypedStep ==
    ASSUME Typed, [Next]_apiVars
    PROVE  Typed'
<1>0. Len(log) \in Nat
  BY DEF Typed
<1>1. ASSUME NEW c \in Clients, NewCall(c) \/ NewSubmit(c)
      PROVE  Typed'
  <2>1. \A d \in Clients : call'[d] # Idle => IsCall(call'[d]) /\ call'[d].base \in 0 .. Len(log)
    BY <1>0, <1>1 DEF NewCall, NewSubmit, Typed
  <2>2. behind' \in BOOLEAN /\ crossed' \in BOOLEAN
    BY <1>1, ZenonT(40) DEF NewCall, NewSubmit, Typed
  <2>3. UNCHANGED <<log, at, leader>> /\ call' = [d \in Clients |-> call'[d]]
    BY <1>1 DEF NewCall, NewSubmit
  <2> QED BY SMTT(20), Zenon, <2>1, <2>2, <2>3 DEF Typed
<1>2. ASSUME NEW c \in Clients, Landed(c)
      PROVE  Typed'
  <2>1. \A d \in Clients : call'[d] # Idle => IsCall(call'[d]) /\ call'[d].base \in 0 .. Len(log)
    BY <1>2, Zenon DEF Landed, Typed
  <2>2. behind' \in BOOLEAN /\ crossed' \in BOOLEAN
    BY <1>2, Zenon DEF Landed, Typed
  <2>3. log' \in Seq({log'[i] : i \in DOMAIN log'}) /\ Len(log') = Len(log) + 1
    BY <1>2, LogGrows DEF Landed
  <2>4. /\ at' \in [Nodes -> 0 .. Len(log) + 1] /\ leader' \in Nodes \cup {Nobody}
        /\ call' = [d \in Clients |-> call'[d]]
    BY <1>2 DEF Landed, Typed
  <2>5. \A d \in Clients : call'[d] # Idle => IsCall(call'[d]) /\ call'[d].base \in 0 .. Len(log')
    BY <1>0, <2>1, <2>3
  <2>6. at' \in [Nodes -> 0 .. Len(log')]
    BY <2>3, <2>4
  <2> QED BY SMTT(20), Zenon, <2>2, <2>3, <2>4, <2>5, <2>6 DEF Typed
<1>3. ASSUME Quiet
      PROVE  Typed'
  <2>1. \A d \in Clients : call'[d] # Idle => IsCall(call'[d]) /\ call'[d].base \in 0 .. Len(log)
    BY <1>3, Zenon DEF Quiet, Typed
  <2>2. behind' \in BOOLEAN /\ crossed' \in BOOLEAN
    BY <1>3, Zenon DEF Quiet, Typed
  <2>3. /\ log' = log /\ at' \in [Nodes -> 0 .. Len(log)] /\ leader' \in Nodes \cup {Nobody}
        /\ call' = [d \in Clients |-> call'[d]]
    BY <1>3 DEF Quiet
  <2> QED BY <2>1, <2>2, <2>3 DEF Typed
<1> QED BY <1>1, <1>2, <1>3, StepCases

-----------------------------------------------------------------------------
(* Submissions                                                              *)

Observes(c) == call[c] # Idle /\ call[c].entry[1].op = "ReplicaObservedUpdate"

(* At most one call carries an observation, and the log has none of its id. *)
SubmitInv ==
    /\ \A c, d \in Clients : Observes(c) /\ Observes(d) => c = d
    /\ \A c \in Clients : Observes(c) =>
          \A i \in 1 .. Len(log) :
             log[i][1].op = "ReplicaObservedUpdate" => log[i][1].id # call[c].entry[1].id
    /\ SubmitOnce

(* Only Submit starts an observation, and Commit moves it from its call to  *)
(* the log.                                                                 *)
LEMMA SubmitStep ==
    ASSUME Typed, SubmitInv, [Next]_apiVars
    PROVE  SubmitInv'
<1>1. ASSUME NEW c \in Clients, NewCall(c) PROVE SubmitInv'
  <2>1. log' = log /\ \A d \in Clients : Observes(d)' => Observes(d) /\ call'[d] = call[d]
    BY <1>1 DEF NewCall, Observes
  <2> QED BY <2>1 DEF SubmitInv, SubmitOnce
<1>2. ASSUME NEW c \in Clients, NewSubmit(c) PROVE SubmitInv'
  <2>1. log' = log /\ \A d \in Clients : Observes(d)' => d = c
    BY SMTT(20), Zenon, <1>2 DEF NewSubmit, Observes
  <2>2. \A i \in 1 .. Len(log) :
           log[i][1].op = "ReplicaObservedUpdate" => log[i][1].id # call'[c].entry[1].id
    BY <1>2 DEF NewSubmit
  <2> QED BY <2>1, <2>2 DEF SubmitInv, SubmitOnce
<1>3. ASSUME NEW c \in Clients, Landed(c) PROVE SubmitInv'
  <2> DEFINE e == call[c].entry
  <2>1. /\ Len(log) \in Nat /\ Len(log') = Len(log) + 1
        /\ \A i \in 1 .. Len(log) : log'[i] = log[i]
        /\ log'[Len(log) + 1] = e
    BY SMTT(20), Zenon, <1>3, LogGrows DEF Landed
  <2>2. \A d \in Clients : Observes(d)' => d # c /\ Observes(d) /\ call'[d] = call[d]
    <3>1. ~Observes(c)'
      BY SMTT(20), Zenon, <1>3 DEF Landed, Observes, IsCall
    <3> QED BY SMTT(20), Zenon, <1>3, <3>1 DEF Landed, Observes
  <2>3. (e[1].op = "ReplicaObservedUpdate") => Observes(c)
    BY <1>3 DEF Landed, Observes
  <2> HIDE DEF e
  <2>4. (\E d \in Clients : Observes(d)') => e[1].op # "ReplicaObservedUpdate"
    BY <2>2, <2>3 DEF SubmitInv
  <2>5. SubmitOnce'
    <3> SUFFICES ASSUME NEW i \in 1 .. Len(log) + 1, NEW j \in 1 .. Len(log) + 1,
                        log'[i] = log'[j], log'[i][1].op = "ReplicaObservedUpdate"
                 PROVE  i = j
      BY <2>1 DEF SubmitOnce
    <3>1. ASSUME NEW k \in 1 .. Len(log), log[k] = e, e[1].op = "ReplicaObservedUpdate" PROVE FALSE
      BY SMTT(20), Zenon, <2>3, <3>1 DEF SubmitInv, e
    <3>2. CASE i \in 1 .. Len(log) /\ j \in 1 .. Len(log)
      BY SMTT(20), Zenon, <2>1, <3>2 DEF SubmitInv, SubmitOnce
    <3>3. CASE i \in 1 .. Len(log) /\ j = Len(log) + 1
      BY <2>1, <3>1, <3>3
    <3>4. CASE i = Len(log) + 1 /\ j \in 1 .. Len(log)
      BY SMTT(20), Zenon, <2>1, <3>1, <3>4
    <3> QED BY SMTT(20), Zenon, <2>1, <3>2, <3>3, <3>4
  <2>6. ASSUME NEW d \in Clients, Observes(d)', NEW i \in 1 .. Len(log) + 1,
               log'[i][1].op = "ReplicaObservedUpdate"
        PROVE  log'[i][1].id # call'[d].entry[1].id
    <3>1. i \in 1 .. Len(log)
      BY <2>1, <2>4, <2>6
    <3> QED BY SMTT(20), Zenon, <2>1, <2>2, <2>6, <3>1 DEF SubmitInv
  <2>7. \A d \in Clients : Observes(d)' =>
          \A i \in 1 .. Len(log') :
             log'[i][1].op = "ReplicaObservedUpdate" => log'[i][1].id # call'[d].entry[1].id
    BY <2>1, <2>6
  <2>8. \A d, f \in Clients : Observes(d)' /\ Observes(f)' => d = f
    BY <2>2 DEF SubmitInv
  <2> QED BY SMTT(20), Zenon, <2>5, <2>7, <2>8 DEF SubmitInv
<1>4. ASSUME Quiet PROVE SubmitInv'
  <2>1. log' = log /\ \A d \in Clients : Observes(d)' => Observes(d) /\ call'[d].entry = call[d].entry
    BY <1>4 DEF Quiet, Observes
  <2> QED BY <2>1 DEF SubmitInv, SubmitOnce
<1> QED BY SMTT(20), Zenon, <1>1, <1>2, <1>3, <1>4, StepCases

(* Internal.Submit and its forwarding: an observation is in the log at most *)
(* once, for any number of handlers, leaderships and lost answers.          *)
THEOREM SubmitsOnce == Spec => []SubmitOnce
<1>1. Init => Typed /\ SubmitInv
  <2> SUFFICES ASSUME Init PROVE SubmitInv
    BY InitTyped
  <2>1. Len(log) = 1 /\ \A c \in Clients : ~Observes(c)
    BY DEF Init, Observes
  <2> QED BY <2>1 DEF SubmitInv, SubmitOnce
<1>2. Typed /\ SubmitInv /\ [Next]_apiVars => (Typed /\ SubmitInv)'
  BY TypedStep, SubmitStep
<1>3. SubmitInv => SubmitOnce
  BY DEF SubmitInv
<1> QED BY <1>1, <1>2, <1>3, PTL DEF Spec

-----------------------------------------------------------------------------
(* Audit events                                                             *)

(* The entry is the privileged manifest of deployment dep.                  *)
Admits(e, dep) == e[1].op = "DeploymentApply" /\ e[1].privileged /\ e[1].dep = dep

(* The log l has one before entry i.                                        *)
Admitted(l, dep, i) == \E j \in 1 .. i - 1 : Admits(l[j], dep)

(* So it has the manifest of a call that is left with its audit event.      *)
AuditInv ==
    /\ \A c \in Clients : call[c] # Idle /\ call[c].entry[1].op = "AuditAppend" =>
          Admitted(log, call[c].entry[1].dep, Len(log) + 1)
    /\ \A i \in 1 .. Len(log) : log[i][1].op = "AuditAppend" => Admitted(log, log[i][1].dep, i)

(* A call goes on to its audit event in the step that puts its manifest in  *)
(* the log.                                                                 *)
LEMMA AuditStep ==
    ASSUME Typed, AuditInv, [Next]_apiVars
    PROVE  AuditInv'
<1>0. Len(log) \in Nat
  BY SMTT(20), Zenon DEF Typed
<1>1. ASSUME log' = log,
             \A d \in Clients : call'[d] # Idle /\ call'[d].entry[1].op = "AuditAppend" =>
                call[d] # Idle /\ call'[d].entry = call[d].entry
      PROVE  AuditInv'
  BY SMTT(20), Zenon, <1>1 DEF AuditInv
<1>2. ASSUME NEW c \in Clients, NewCall(c) \/ NewSubmit(c) PROVE AuditInv'
  BY <1>1, <1>2 DEF NewCall, NewSubmit
<1>3. ASSUME Quiet PROVE AuditInv'
  BY SMTT(20), Zenon, <1>1, <1>3 DEF Quiet
<1>4. ASSUME NEW c \in Clients, Landed(c) PROVE AuditInv'
  <2> DEFINE e == call[c].entry
             n == Len(log)
  <2>1. /\ n \in Nat /\ Len(log') = n + 1
        /\ \A i \in 1 .. n : log'[i] = log[i]
        /\ log'[n + 1] = e
    BY <1>4, LogGrows DEF Landed
  <2>2. /\ call[c] # Idle /\ IsCall(call[c])
        /\ call'[c] # Idle => call[c].rest # << >> /\ call'[c].entry = call[c].rest
        /\ \A d \in Clients \ {c} : call'[d] = call[d]
    BY <1>4 DEF Landed
  <2>3. ASSUME NEW d \in Clients, call'[d] # Idle, call'[d].entry[1].op = "AuditAppend", d # c
        PROVE  Admitted(log, call'[d].entry[1].dep, n + 1)
    BY <2>2, <2>3 DEF AuditInv
  <2>4. ASSUME call'[c] # Idle
        PROVE  Admits(e, call'[c].entry[1].dep)
    BY <2>2, <2>4, ZenonT(40) DEF IsCall, Admits
  <2>5. e[1].op = "AuditAppend" => Admitted(log, e[1].dep, n + 1)
    BY <2>2 DEF AuditInv
  <2>6. \A i \in 1 .. n : log[i][1].op = "AuditAppend" => Admitted(log, log[i][1].dep, i)
    BY DEF AuditInv
  <2> HIDE DEF e, n
  <2>7. ASSUME NEW dep, NEW i \in 1 .. n + 1, Admitted(log, dep, i)
        PROVE  Admitted(log', dep, i) /\ Admitted(log', dep, n + 2)
    BY <2>1, <2>7 DEF Admitted
  <2>8. ASSUME NEW i \in 1 .. n + 1, log'[i][1].op = "AuditAppend"
        PROVE  Admitted(log', log'[i][1].dep, i)
    <3>1. CASE i \in 1 .. n
      BY SMTT(20), Zenon, <2>1, <2>6, <2>7, <2>8, <3>1
    <3>2. CASE i = n + 1
      BY SMTT(20), Zenon, <2>1, <2>5, <2>7, <2>8, <3>2
    <3> QED BY SMTT(20), Zenon, <2>1, <3>1, <3>2
  <2>9. ASSUME NEW d \in Clients, call'[d] # Idle, call'[d].entry[1].op = "AuditAppend"
        PROVE  Admitted(log', call'[d].entry[1].dep, n + 2)
    <3>1. CASE d # c
      BY SMTT(20), Zenon, <2>1, <2>3, <2>7, <2>9, <3>1
    <3>2. CASE d = c
      <4>1. n + 1 \in 1 .. (n + 2) - 1 /\ Admits(log'[n + 1], call'[c].entry[1].dep)
        BY SMTT(20), Zenon, <2>1, <2>4, <2>9, <3>2
      <4>2. \E j \in 1 .. (n + 2) - 1 : Admits(log'[j], call'[c].entry[1].dep)
        BY <4>1
      <4>3. Admitted(log', call'[c].entry[1].dep, n + 2)
        BY <4>2 DEF Admitted
      <4> QED BY SMTT(20), Zenon, <3>2, <4>3
    <3> QED BY <3>1, <3>2
  <2>10. Len(log') + 1 = n + 2
    BY <2>1
  <2> QED BY SMTT(20), Zenon, <2>1, <2>8, <2>9, <2>10 DEF AuditInv
<1> QED BY SMTT(20), Zenon, <1>2, <1>3, <1>4, StepCases

(* Deploy.Apply: an audit event about a privileged workload follows the     *)
(* manifest it is about, whatever fails or changes leader in between.       *)
THEOREM AuditFollowsAdmission ==
    ASSUME Seed[1].op # "AuditAppend"
    PROVE  Spec => []AuditAfterAdmission
<1>1. Init => Typed /\ AuditInv
  <2> SUFFICES ASSUME Init PROVE AuditInv
    BY InitTyped
  <2>1. Len(log) = 1 /\ log[1] = Seed /\ \A c \in Clients : call[c] = Idle
    BY DEF Init
  <2> QED BY <2>1 DEF AuditInv
<1>2. Typed /\ AuditInv /\ [Next]_apiVars => (Typed /\ AuditInv)'
  BY TypedStep, AuditStep
<1>3. AuditInv => AuditAfterAdmission
  BY Zenon DEF AuditInv, AuditAfterAdmission, Admitted, Admits
<1> QED BY <1>1, <1>2, <1>3, PTL DEF Spec

-----------------------------------------------------------------------------
(* What the log's last entry does to the stores                             *)

(* An entry in the log is one FSM.Apply on the committed state.             *)
LEMMA CommittedGrows ==
    ASSUME Typed, NEW e, log' = Append(log, e)
    PROVE  Committed' = ApplyEntry(Committed, e, Len(log) + 1)
<1> DEFINE n == Len(log)
<1>1. /\ n \in Nat /\ Len(log') = n + 1 /\ log'[n + 1] = e
      /\ \A i \in 1 .. n : log'[i] = log[i]
  BY LogGrows
<1>2. Committed' = StateOf(log', Len(log'))
  BY Zenon DEF Committed, StateAt, StateOf
<1>3. Committed = StateOf(log, n)
  BY Zenon DEF Committed, StateAt, StateOf
<1> HIDE DEF n
<1>4. Same(log', log, n)
  BY <1>1 DEF Same
<1>5. StateOf(log', n) = StateOf(log, n)
  BY SMTT(20), Zenon, <1>1, <1>4, StateOfPrefix
<1>6. StateOf(log', n + 1) = ApplyEntry(StateOf(log', n), log'[n + 1], n + 1)
  BY ZenonT(40), <1>1, StateOfStep
<1> QED BY SMTT(20), Zenon, <1>1, <1>2, <1>3, <1>5, <1>6 DEF n

(* Without a new entry the committed state is the same.                     *)
LEMMA CommittedSame == log' = log => Committed' = Committed
  BY DEF Committed, StateAt

(* It starts as what the cluster was founded with.                          *)
LEMMA CommittedFirst ==
    ASSUME Init PROVE Committed = ApplyEntry(Empty, Seed, 1)
<1>1. Len(log) = 0 + 1 /\ log[0 + 1] = Seed
  BY DEF Init
<1>2. Committed = StateOf(log, Len(log))
  BY Zenon DEF Committed, StateAt, StateOf
<1>3. StateOf(log, 0 + 1) = ApplyEntry(StateOf(log, 0), log[0 + 1], 0 + 1)
  BY StateOfStep
<1> QED BY <1>1, <1>2, <1>3, StateOfZero

(* A leader that has applied the whole log reads the committed state.       *)
LEMMA CaughtUp ==
    ASSUME Typed, leader \in Nodes, ~(at[leader] < Len(log))
    PROVE  State(leader) = Committed
<1>1. at[leader] = Len(log)
  BY DEF Typed
<1> QED BY <1>1 DEF State, Committed

-----------------------------------------------------------------------------
(* Subnets                                                                  *)

Disjoint(s) ==
    \A j, k \in DOMAIN s.rows["subnets"] :
        s.rows["subnets"][j].cidr = s.rows["subnets"][k].cidr => j = k

(* Subnets stay apart where none is given out.                              *)
LEMMA KeepsDisjoint ==
    ASSUME NEW s, NEW t, KeepsSubnets(s, t)
    PROVE  (Disjoint(s) => Disjoint(t)) /\ Taken(t) \subseteq Taken(s)
  BY DEF KeepsSubnets, Disjoint, Taken

(* And where the one given out was nobody's.                                *)
LEMMA AllocateDisjoint ==
    ASSUME NEW s, WellFormed(s), Disjoint(s), NEW c, c.cidr \notin Taken(s),
           NEW t, t.rows = SubnetAllocate(s, c).rows
    PROVE  Disjoint(t)
<1> DEFINE key == <<c.dep, c.net, c.host>>
           row == [dep |-> c.dep, net |-> c.net, host |-> c.host, cidr |-> c.cidr]
           u == Upsert(s, "subnets", key, row)
<1>1. row.cidr = c.cidr /\ "subnets" \in Kinds
  BY DEF Kinds
<1>2. t.rows = u.rows
  BY ZenonT(40) DEF SubnetAllocate
<1> HIDE DEF key, row
<1>3. /\ DOMAIN u.rows["subnets"] = DOMAIN s.rows["subnets"] \cup {key}
      /\ u.rows["subnets"][key] = row
      /\ \A x \in DOMAIN s.rows["subnets"] : x # key => u.rows["subnets"][x] = s.rows["subnets"][x]
  BY <1>1, UpsertFacts
<1> HIDE DEF u
<1>4. \A x \in DOMAIN s.rows["subnets"] : s.rows["subnets"][x].cidr # c.cidr
  BY DEF Taken
<1> QED BY SMTT(20), Zenon, <1>1, <1>2, <1>3, <1>4 DEF Disjoint

(* The allocator picks a /24 that the stores it reads do not have.          *)
LEMMA NextFreeIsFree ==
    ASSUME NEW s, Free(s) # {}, Pool \in Nat
    PROVE  nextFree(s) \notin Taken(s)
<1> DEFINE F == Free(s)
<1>1. F \subseteq Nat
  BY DEF Free
<1>2. \A x \in F : x \notin Taken(s)
  BY DEF Free
<1>3. nextFree(s) = CHOOSE x \in F : \A y \in F : x <= y
  BY Zenon DEF nextFree, Min
<1> HIDE DEF F
<1>4. \E x \in F : \A y \in F : x <= y
  BY <1>1, LeastElement DEF F
<1> QED BY <1>2, <1>3, <1>4, Zenon

Allocates(c) == call[c] # Idle /\ call[c].kind = "ensure"

(* One allocation at a time per node; the ones checked in this leadership   *)
(* are the leader's, and hold a /24 nobody has.                             *)
SubnetInv ==
    /\ StateOK(Committed)
    /\ \A c, d \in Clients : Allocates(c) /\ Allocates(d) /\ call[c].node = call[d].node => c = d
    /\ \A c \in Clients : Allocates(c) /\ ~call[c].old =>
          /\ leader \in {call[c].node, Nobody}
          /\ ~behind => call[c].entry[1].cidr \notin Taken(Committed)
    /\ ~behind => Disjoint(Committed)

(* EnsureSubnet picks under its node's mutex, so between its check and its  *)
(* commit in one leadership nobody else's SubnetAllocate lands.             *)
LEMMA SubnetStep ==
    ASSUME Typed, SubnetInv, Pool \in Nat, [Next]_apiVars
    PROVE  SubnetInv'
<1>0. Len(log) \in Nat
  BY DEF Typed
<1>1. ASSUME NEW c \in Clients, NewCall(c) PROVE SubnetInv'
  <2>1. Committed' = Committed /\ leader' = leader
    BY <1>1, CommittedSame DEF NewCall
  <2>2. \A d \in Clients \ {c} : call'[d] = call[d]
    BY SMTT(20), Zenon, <1>1 DEF NewCall
  <2>3. ASSUME Allocates(c)'
        PROVE  /\ call'[c].node = leader /\ ~Locked(leader)
               /\ Free(State(leader)) # {} /\ call'[c].entry[1].cidr = nextFree(State(leader))
    BY <1>1, <2>3 DEF NewCall, Allocates, IsCall
  <2>4. (behind => behind') /\ (at[leader] < Len(log) => behind')
    BY <1>1, ZenonT(40) DEF NewCall
  <2>5. ASSUME Allocates(c)', ~behind'
        PROVE  call'[c].entry[1].cidr \notin Taken(Committed)
    <3>1. ~(at[leader] < Len(log))
      BY <2>4, <2>5
    <3>2. leader \in Nodes
      BY SMTT(20), Zenon, <1>1 DEF NewCall
    <3> QED BY SMTT(20), Zenon, <2>3, <2>5, <3>1, <3>2, CaughtUp, NextFreeIsFree
  <2>6. \A d, f \in Clients : Allocates(d)' /\ Allocates(f)' /\ call'[d].node = call'[f].node => d = f
    BY SMTT(20), Zenon, <2>2, <2>3 DEF Allocates, Locked, SubnetInv
  <2>7. \A d \in Clients : Allocates(d)' /\ ~call'[d].old =>
          /\ leader' \in {call'[d].node, Nobody}
          /\ ~behind' => call'[d].entry[1].cidr \notin Taken(Committed)
    BY SMTT(20), Zenon, <2>1, <2>2, <2>3, <2>4, <2>5 DEF Allocates, SubnetInv
  <2> QED BY SMTT(20), Zenon, <2>1, <2>4, <2>6, <2>7 DEF SubnetInv
<1>2. ASSUME NEW c \in Clients, NewSubmit(c) PROVE SubnetInv'
  <2>1. Committed' = Committed /\ leader' = leader /\ behind' = behind
    BY SMTT(20), Zenon, <1>2, CommittedSame DEF NewSubmit
  <2>2. \A d \in Clients : Allocates(d)' => Allocates(d) /\ call'[d] = call[d]
    BY SMTT(20), Zenon, <1>2 DEF NewSubmit, Allocates, IsCall
  <2> QED BY <2>1, <2>2 DEF SubnetInv
<1>3. ASSUME Quiet PROVE SubnetInv'
  <2>1. Committed' = Committed /\ (behind => behind')
    BY <1>3, CommittedSame DEF Quiet
  <2>2. \A d \in Clients : Allocates(d)' =>
           /\ Allocates(d) /\ call'[d].node = call[d].node /\ call'[d].entry = call[d].entry
           /\ ~call'[d].old => ~call[d].old /\ leader' \in {leader, Nobody}
    BY <1>3, ZenonT(40) DEF Quiet, Allocates
  <2> QED BY <2>1, <2>2 DEF SubnetInv
<1>4. ASSUME NEW c \in Clients, Landed(c) PROVE SubnetInv'
  <2> DEFINE r == call[c]
             s == Committed
             t == ApplyOne(s, r.entry[1], Len(log) + 1)
  <2>1. /\ r # Idle /\ Len(r.entry) = 1
        /\ r.entry[1].op = "SubnetAllocate" => r.kind = "ensure"
        /\ r.kind = "ensure" => leader = r.node
        /\ leader # Nobody /\ leader' \in {leader, Nobody}
        /\ log' = Append(log, r.entry)
        /\ \A d \in Clients \ {c} : call'[d] = call[d]
    BY <1>4 DEF Landed, IsCall, Through
  <2>2. ~Allocates(c)'
    BY <1>4 DEF Landed, Allocates
  <2>3. (behind => behind') /\ (r.old => behind')
    BY <1>4, ZenonT(40) DEF Landed
  <2>4. Committed' = t
    BY SMTT(20), Zenon, <2>1, CommittedGrows, SingleEntry
  <2> HIDE DEF s, r
  <2>5. StateOK(s) /\ Len(log) + 1 \in Nat
    BY <1>0 DEF SubnetInv, s
  <2>6. StateOK(t)
    BY SMTT(20), Zenon, <2>5, ApplyOneOK
  <2>7. ASSUME r.entry[1].op # "SubnetAllocate"
        PROVE  (Disjoint(s) => Disjoint(t)) /\ Taken(t) \subseteq Taken(s)
    BY SMTT(20), Zenon, <2>5, <2>7, OthersKeep, KeepsDisjoint
  <2>8. ASSUME r.entry[1].op = "SubnetAllocate", ~behind'
        PROVE  Disjoint(t) /\ \A d \in Clients : Allocates(d)' => call'[d].old
    <3>1. Allocates(c) /\ leader = r.node /\ ~behind /\ ~r.old
      BY SMTT(20), Zenon, <2>1, <2>3, <2>8 DEF Allocates, r
    <3>2. Disjoint(s) /\ r.entry[1].cidr \notin Taken(s)
      BY SMTT(20), Zenon, <3>1 DEF SubnetInv, s, r
    <3>3. t.rows = SubnetAllocate(s, r.entry[1]).rows
      BY SMTT(20), Zenon, <2>5, <2>8, ApplyOneRows DEF ApplyPayload
    <3>4. Disjoint(t)
      BY SMTT(20), Zenon, <2>5, <3>2, <3>3, AllocateDisjoint DEF StateOK
    <3>5. ASSUME NEW d \in Clients, Allocates(d)', ~call'[d].old PROVE FALSE
      <4>1. d # c /\ call'[d] = call[d]
        BY <2>1, <2>2, <3>5
      <4>2. Allocates(d) /\ ~call[d].old
        BY SMTT(20), Zenon, <3>5, <4>1 DEF Allocates
      <4>3. call[d].node = leader
        BY <2>1, <4>2 DEF SubnetInv
      <4> QED BY SMTT(20), Zenon, <3>1, <4>1, <4>2, <4>3 DEF SubnetInv, r
    <3> QED BY <3>4, <3>5
  <2> HIDE DEF t
  <2> QED BY SMTT(20), Zenon, <2>1, <2>2, <2>3, <2>4, <2>6, <2>7, <2>8 DEF SubnetInv, Allocates, s
<1> QED BY SMTT(20), Zenon, <1>1, <1>2, <1>3, <1>4, StepCases

(* EnsureSubnet and its allocator: while every handler read a leader that   *)
(* had caught up, no /24 is given out twice, for any pool, any number of    *)
(* nodes and callers, and any leadership changes.                           *)
THEOREM SubnetsStayDisjoint ==
    ASSUME Pool \in Nat, Len(Seed) \in Nat, Disjoint(ApplyEntry(Empty, Seed, 1))
    PROVE  Spec => []SubnetsDisjoint
<1>1. Init => Typed /\ SubnetInv
  <2> SUFFICES ASSUME Init PROVE SubnetInv
    BY InitTyped
  <2>1. Committed = ApplyEntry(Empty, Seed, 1)
    BY CommittedFirst
  <2>2. StateOK(Empty)
    BY EmptyWellFormed DEF StateOK, RoutesHaveOwner, Empty, Kinds
  <2>3. StateOK(Committed) /\ Disjoint(Committed)
    BY <2>1, <2>2, ApplyEntryOK
  <2>4. \A c \in Clients : ~Allocates(c)
    BY DEF Init, Allocates
  <2> QED BY <2>3, <2>4 DEF SubnetInv
<1>2. Typed /\ SubnetInv /\ [Next]_apiVars => (Typed /\ SubnetInv)'
  BY TypedStep, SubnetStep
<1>3. SubnetInv => SubnetsDisjoint
  BY Zenon DEF SubnetInv, SubnetsDisjoint, Disjoint
<1> QED BY <1>1, <1>2, <1>3, PTL DEF Spec

-----------------------------------------------------------------------------
(* Host ports                                                               *)

(* A set of log positions that is not empty has a last one.                 *)
LEMMA GreatestElement ==
    ASSUME NEW n \in Nat, NEW S, S \subseteq 1 .. n, S # {}
    PROVE  Max(S) \in S /\ \A y \in S : y <= Max(S)
<1> DEFINE T == {n - x : x \in S}
<1>0. \A x \in S : n - x \in Nat
  OBVIOUS
<1>1. T \subseteq Nat /\ T # {}
  BY <1>0, Zenon
<1>2. PICK x \in S : \A t \in T : n - x <= t
  <2> HIDE DEF T
  <2>1. PICK m \in T : \A t \in T : m <= t
    BY Zenon, <1>1, LeastElement
  <2> QED BY <2>1 DEF T
<1>3. \A y \in S : x >= y
  BY <1>2
<1>4. Max(S) = CHOOSE z \in S : \A y \in S : z >= y
  BY Zenon DEF Max
<1>5. Max(S) \in S /\ \A y \in S : Max(S) >= y
  BY <1>3, <1>4, Zenon
<1> QED BY <1>5

(* The entries of log l that set or clear the manifest of deployment d.     *)
Own(l, d) ==
    {i \in 1 .. Len(l) : l[i][1].op \in {"DeploymentApply", "DeploymentDelete"} /\ l[i][1].dep = d}

PortsOf(l, d) ==
    IF Own(l, d) = {} \/ l[Max(Own(l, d))][1].op = "DeploymentDelete" THEN {}
    ELSE l[Max(Own(l, d))][1].ports

(* LastPorts is PortsOf for the log there is.                               *)
LEMMA LastPortsIs == \A d : LastPorts(d) = PortsOf(log, d)
  BY Zenon DEF LastPorts, PortsOf, Own

(* Log k is log l and one more entry e.                                     *)
Extends(k, l, e) ==
    /\ Len(l) \in Nat /\ Len(k) = Len(l) + 1 /\ k[Len(l) + 1] = e
    /\ \A i \in 1 .. Len(l) : k[i] = l[i]

(* An entry about the deployment decides which ports it publishes.          *)
LEMMA PortsOfOwn ==
    ASSUME NEW l, NEW k, NEW e, Extends(k, l, e), NEW d,
           e[1].op \in {"DeploymentApply", "DeploymentDelete"}, e[1].dep = d
    PROVE  /\ e[1].op = "DeploymentDelete" => PortsOf(k, d) = {}
           /\ e[1].op = "DeploymentApply" => PortsOf(k, d) = e[1].ports
<1> DEFINE n == Len(l)
<1>0. /\ n \in Nat /\ Len(k) = n + 1 /\ k[n + 1] = e
      /\ \A i \in 1 .. n : k[i] = l[i]
  BY DEF Extends
<1>1. n + 1 \in Own(k, d) /\ Own(k, d) \subseteq 1 .. n + 1
  BY <1>0 DEF Own
<1> HIDE DEF n
<1>2. Max(Own(k, d)) \in Own(k, d) /\ \A y \in Own(k, d) : y <= Max(Own(k, d))
  BY <1>0, <1>1, GreatestElement
<1>3. Max(Own(k, d)) = n + 1
  BY <1>0, <1>1, <1>2
<1> QED BY <1>0, <1>1, <1>3 DEF PortsOf

(* Any other entry leaves them as they were.                                *)
LEMMA PortsOfOther ==
    ASSUME NEW l, NEW k, NEW e, Extends(k, l, e), NEW d,
           e[1].op \notin {"DeploymentApply", "DeploymentDelete"} \/ e[1].dep # d
    PROVE  PortsOf(k, d) = PortsOf(l, d)
<1> DEFINE n == Len(l)
<1>0. /\ n \in Nat /\ Len(k) = n + 1 /\ k[n + 1] = e
      /\ \A i \in 1 .. n : k[i] = l[i]
  BY DEF Extends
<1>1. Own(k, d) = Own(l, d) /\ Own(l, d) \subseteq 1 .. n
  BY <1>0 DEF Own
<1> HIDE DEF n
<1>2. CASE Own(l, d) = {}
  BY <1>1, <1>2 DEF PortsOf
<1>3. CASE Own(l, d) # {}
  <2>1. Max(Own(l, d)) \in 1 .. n
    BY <1>0, <1>1, <1>3, GreatestElement
  <2>2. k[Max(Own(k, d))] = l[Max(Own(l, d))]
    BY <1>0, <1>1, <2>1
  <2> QED BY <1>1, <2>2 DEF PortsOf
<1> QED BY <1>2, <1>3

(* Deployment d has the ports of its last manifest.                         *)
HasPorts(s, d, ports) == \A p \in ports : Has(s, "tcp_routes", p) /\ Row(s, "tcp_routes", p).dep = d

(* An Apply that nothing overtook still finds its ports free or its own.    *)
PortInv ==
    /\ StateOK(Committed)
    /\ ~behind => \A c \in Clients :
          call[c] # Idle /\ call[c].entry[1].op = "DeploymentApply" /\ call[c].base = Len(log) =>
             \A p \in call[c].entry[1].ports : Has(Committed, "tcp_routes", p) =>
                Row(Committed, "tcp_routes", p).dep = call[c].entry[1].dep
    /\ ~behind /\ ~crossed => \A d : HasPorts(Committed, d, PortsOf(log, d))

(* An Apply that lands unovertaken takes nobody's port, one that was        *)
(* overtaken sets crossed, and no other entry takes a port from a           *)
(* deployment that is not its own.                                          *)
LEMMA PortStep ==
    ASSUME Typed, PortInv, [Next]_apiVars
    PROVE  PortInv'
<1>0. Len(log) \in Nat
  BY DEF Typed
<1>1. ASSUME NEW c \in Clients, NewCall(c) PROVE PortInv'
  <2>1. Committed' = Committed /\ log' = log
    BY <1>1, CommittedSame DEF NewCall
  <2>2. (behind => behind') /\ (at[leader] < Len(log) => behind') /\ (crossed <=> crossed')
    BY <1>1, ZenonT(40) DEF NewCall
  <2>3. ASSUME ~behind', call'[c].entry[1].op = "DeploymentApply", NEW p \in call'[c].entry[1].ports,
               Has(Committed, "tcp_routes", p)
        PROVE  Row(Committed, "tcp_routes", p).dep = call'[c].entry[1].dep
    <3>1. leader \in Nodes /\ ~(at[leader] < Len(log))
      BY <1>1, <2>2, <2>3 DEF NewCall
    <3>2. State(leader) = Committed
      BY <3>1, CaughtUp
    <3> QED BY SMTT(20), Zenon, <1>1, <2>3, <3>2 DEF NewCall
  <2>4. \A d \in Clients \ {c} : call'[d] = call[d]
    BY <1>1 DEF NewCall
  <2> QED BY <2>1, <2>2, <2>3, <2>4 DEF PortInv
<1>2. ASSUME NEW c \in Clients, NewSubmit(c) PROVE PortInv'
  <2>1. Committed' = Committed /\ log' = log /\ behind' = behind /\ crossed' = crossed
    BY <1>2, CommittedSame DEF NewSubmit
  <2>2. /\ call'[c].entry[1].op # "DeploymentApply"
        /\ \A d \in Clients \ {c} : call'[d] = call[d]
    BY SMTT(20), Zenon, <1>2 DEF NewSubmit
  <2> QED BY <2>1, <2>2 DEF PortInv
<1>3. ASSUME Quiet PROVE PortInv'
  <2>1. Committed' = Committed /\ log' = log /\ (behind => behind') /\ crossed' = crossed
    BY <1>3, CommittedSame DEF Quiet
  <2>2. \A d \in Clients : call'[d] # Idle =>
           call[d] # Idle /\ call'[d].base = call[d].base /\ call'[d].entry = call[d].entry
    BY <1>3, ZenonT(40) DEF Quiet
  <2> QED BY <2>1, <2>2 DEF PortInv
<1>4. ASSUME NEW c \in Clients, Landed(c) PROVE PortInv'
  <2> DEFINE r == call[c]
             s == Committed
             e == r.entry[1]
             t == ApplyOne(s, e, Len(log) + 1)
  <2>1. r # Idle /\ Len(r.entry) = 1 /\ log' = Append(log, r.entry)
    BY <1>4 DEF Landed, IsCall
  <2>2. /\ Len(log') = Len(log) + 1 /\ log'[Len(log) + 1] = r.entry
        /\ \A i \in 1 .. Len(log) : log'[i] = log[i]
    BY <2>1, LogGrows
  <2>9. Extends(log', log, r.entry)
    BY <1>0, <2>2 DEF Extends
  <2>3. \A d \in Clients : call'[d] # Idle => call'[d].base # Len(log')
    <3>1. \A d \in Clients : call'[d] # Idle => call'[d].base \in 0 .. Len(log)
      BY <1>4, Zenon DEF Landed, Typed
    <3> QED BY <1>0, <2>2, <3>1
  <2>4. Committed' = t
    BY <2>1, CommittedGrows, SingleEntry
  <2>5. StateOK(s) /\ Len(log) + 1 \in Nat
    BY <1>0 DEF PortInv
  <2>6. StateOK(t)
    BY SMTT(20), Zenon, <2>5, ApplyOneOK
  <2>7. ASSUME ~behind', ~crossed'
        PROVE  /\ \A d : HasPorts(s, d, PortsOf(log, d))
               /\ e.op = "DeploymentApply" =>
                    \A p \in e.ports : Has(s, "tcp_routes", p) => Row(s, "tcp_routes", p).dep = e.dep
    <3>1. ~behind /\ ~crossed /\ (r.kind = "apply" => r.base = Len(log))
      BY <1>4, <2>7, ZenonT(40) DEF Landed
    <3>2. e.op = "DeploymentApply" => r.kind = "apply"
      BY <1>4 DEF Landed, IsCall
    <3> QED BY <2>1, <3>1, <3>2 DEF PortInv
  <2> HIDE DEF s, e
  <2>8. ASSUME ~behind', ~crossed', NEW d PROVE HasPorts(t, d, PortsOf(log', d))
    <3>1. HasPorts(s, d, PortsOf(log, d))
      BY <2>7, <2>8
    <3>2. t.rows = ApplyPayload(s, e, Len(log) + 1).rows
      BY <2>5, ApplyOneRows
    <3>3. CASE e.op \notin {"DeploymentApply", "DeploymentDelete"}
      <4>1. t.rows["tcp_routes"] = s.rows["tcp_routes"]
        BY SMTT(20), Zenon, <2>5, <3>3, OthersKeepThePorts
      <4>2. PortsOf(log', d) = PortsOf(log, d)
        BY <2>9, <3>3, PortsOfOther DEF e
      <4> HIDE DEF t
      <4> QED BY SMTT(20), Zenon, <3>1, <4>1, <4>2 DEF HasPorts, Has, Row
    <3>4. CASE e.op = "DeploymentApply"
      <4>1. t.rows = DeploymentApply(s, e).rows
        BY SMTT(20), Zenon, <3>2, <3>4 DEF ApplyPayload
      <4>2. /\ \A p \in e.ports : Has(t, "tcp_routes", p) /\ Row(t, "tcp_routes", p).dep = e.dep
            /\ \A p \in DOMAIN s.rows["tcp_routes"] :
                  Row(s, "tcp_routes", p).dep # e.dep /\ p \notin e.ports =>
                     Has(t, "tcp_routes", p) /\ Row(t, "tcp_routes", p) = Row(s, "tcp_routes", p)
        BY SMTT(20), Zenon, <2>5, <4>1, ApplyPorts DEF StateOK, Has, Row
      <4> HIDE DEF t
      <4>3. CASE e.dep = d
        <5>1. PortsOf(log', d) = e.ports
          BY SMTT(20), Zenon, <2>9, <3>4, <4>3, PortsOfOwn DEF e
        <5> QED BY SMTT(20), Zenon, <4>2, <4>3, <5>1 DEF HasPorts
      <4>4. CASE e.dep # d
        <5>1. PortsOf(log', d) = PortsOf(log, d)
          BY SMTT(20), Zenon, <2>9, <4>4, PortsOfOther DEF e
        <5> QED BY SMTT(20), Zenon, <2>7, <2>8, <3>1, <3>4, <4>2, <4>4, <5>1 DEF HasPorts, Has
      <4> QED BY <4>3, <4>4
    <3>5. CASE e.op = "DeploymentDelete"
      <4>1. t.rows = DeploymentDelete(s, e).rows
        BY SMTT(20), Zenon, <3>2, <3>5 DEF ApplyPayload
      <4>2. \A p \in DOMAIN s.rows["tcp_routes"] : Row(s, "tcp_routes", p).dep # e.dep =>
               Has(t, "tcp_routes", p) /\ Row(t, "tcp_routes", p) = Row(s, "tcp_routes", p)
        BY <2>5, <4>1, DeletePorts DEF StateOK, Has, Row
      <4> HIDE DEF t
      <4>3. CASE e.dep = d
        <5>1. PortsOf(log', d) = {}
          BY SMTT(20), Zenon, <2>9, <3>5, <4>3, PortsOfOwn DEF e
        <5> QED BY <5>1 DEF HasPorts
      <4>4. CASE e.dep # d
        <5>1. PortsOf(log', d) = PortsOf(log, d)
          BY <2>9, <4>4, PortsOfOther DEF e
        <5> QED BY SMTT(20), Zenon, <3>1, <4>2, <4>4, <5>1 DEF HasPorts, Has
      <4> QED BY <4>3, <4>4
    <3> QED BY SMTT(20), Zenon, <3>3, <3>4, <3>5
  <2> HIDE DEF t
  <2> QED BY SMTT(20), Zenon, <2>3, <2>4, <2>6, <2>8 DEF PortInv
<1> QED BY SMTT(20), Zenon, <1>1, <1>2, <1>3, <1>4, StepCases

(* Deploy.Apply's port check: as long as no Apply commits over something it *)
(* has not seen, a deployment keeps every host port its manifest publishes, *)
(* for any manifests, any number of handlers and any leadership changes.    *)
THEOREM PortsStay ==
    ASSUME Len(Seed) \in Nat, Seed[1].op \notin {"DeploymentApply", "DeploymentDelete"}
    PROVE  Spec => []PortsKept
<1>1. Init => Typed /\ PortInv
  <2> SUFFICES ASSUME Init PROVE PortInv
    BY InitTyped
  <2>1. Committed = ApplyEntry(Empty, Seed, 1)
    BY CommittedFirst
  <2>2. StateOK(Empty)
    BY EmptyWellFormed DEF StateOK, RoutesHaveOwner, Empty, Kinds
  <2>3. StateOK(Committed)
    BY <2>1, <2>2, ApplyEntryOK
  <2>4. \A c \in Clients : call[c] = Idle
    BY DEF Init
  <2>5. Len(log) = 1 /\ log[1] = Seed
    BY DEF Init
  <2>6. \A d : Own(log, d) = {}
    BY <2>5 DEF Own
  <2>7. \A d : HasPorts(Committed, d, PortsOf(log, d))
    BY <2>6 DEF HasPorts, PortsOf
  <2> QED BY <2>3, <2>4, <2>7 DEF PortInv
<1>2. Typed /\ PortInv /\ [Next]_apiVars => (Typed /\ PortInv)'
  BY TypedStep, PortStep
<1>3. PortInv => PortsKept
  BY LastPortsIs, Zenon DEF PortInv, PortsKept, HasPorts
<1> QED BY <1>1, <1>2, <1>3, PTL DEF Spec
=============================================================================
