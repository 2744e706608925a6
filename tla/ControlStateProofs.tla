-------------------------- MODULE ControlStateProofs --------------------------
(* What applyPayload, applyOne, FSM.Apply, Snapshot and Restore do to any   *)
(* state and any command: the states they produce are well formed, survive  *)
(* a snapshot, have an owner for every route, and only two commands touch a *)
(* host port and one gives out a subnet.  ReplicatedFSMProofs and           *)
(* ControlAPIProofs build on these lemmas.                                  *)
EXTENDS ControlState, TLAPS, SequenceTheorems, WellFoundedInduction

(* A set of natural numbers that is not empty has a least element: what the *)
(* arguments by a least counterexample below rest on.                       *)
LEMMA LeastElement ==
    ASSUME NEW T, T \subseteq Nat, T # {}
    PROVE  \E x \in T : \A y \in T : x <= y
<1> DEFINE R == OpToRel(<, Nat)
<1>1. IsWellFoundedOn(R, Nat)
  BY Zenon, NatLessThanWellFounded
<1>2. \A x, y \in Nat : y < x => <<y, x>> \in R
  BY DEF OpToRel
<1> HIDE DEF R
<1>3. PICK x \in T : \A y \in T : ~ (<<y, x>> \in R)
  BY Zenon, <1>1, WFMin
<1>4. \A y \in T : x <= y
  <2> SUFFICES ASSUME NEW y \in T PROVE x <= y
    OBVIOUS
  <2>1. ~ (y < x)
    BY Zenon, <1>2, <1>3
  <2> QED BY <2>1
<1> QED BY <1>4

-----------------------------------------------------------------------------
(* A state as the stores can hold it: a function per kind, and audit events. *)
AuditRows == (Audited \cup {"NodeStatusUpdate"}) \X Nat

WellFormed(s) ==
    /\ s = [rows |-> s.rows, audit |-> s.audit]
    /\ s.rows = [k \in Kinds |-> s.rows[k]]
    /\ \A k \in Kinds : s.rows[k] = [x \in DOMAIN s.rows[k] |-> s.rows[k][x]]
    /\ s.audit \in Seq(AuditRows)

(* NewState.                                                                *)
LEMMA EmptyWellFormed == WellFormed(Empty)
  BY DEF WellFormed, Empty

(* The state s with store f in the place of the one of kind.                *)
Written(s, kind, f) ==
    [rows |-> [k \in Kinds |-> IF k = kind THEN f ELSE s.rows[k]], audit |-> s.audit]

(* Writing one store leaves the others and the audit log alone.             *)
LEMMA StoreReplaced ==
    ASSUME NEW s, WellFormed(s), NEW kind \in Kinds, NEW f
    PROVE  [s EXCEPT !.rows[kind] = f] = Written(s, kind, f)
<1> SUFFICES ASSUME NEW t, t = [s EXCEPT !.rows[kind] = f]
             PROVE  t = Written(s, kind, f)
  BY Zenon
<1>1. t = [rows |-> [k \in Kinds |-> IF k = kind THEN f ELSE s.rows[k]], audit |-> s.audit]
  BY DEF WellFormed
<1> QED BY Zenon, <1>1 DEF Written

(* And leaves a well-formed state.                                          *)
LEMMA StoreWritten ==
    ASSUME NEW s, WellFormed(s), NEW kind \in Kinds, NEW f, f = [x \in DOMAIN f |-> f[x]]
    PROVE  /\ WellFormed(Written(s, kind, f))
           /\ Written(s, kind, f).rows[kind] = f
           /\ \A k \in Kinds \ {kind} : Written(s, kind, f).rows[k] = s.rows[k]
           /\ Written(s, kind, f).audit = s.audit
  BY DEF WellFormed, Written

(* Store.Upsert: the key has the new row, every other key the row it had.   *)
LEMMA UpsertFacts ==
    ASSUME NEW s, WellFormed(s), NEW kind \in Kinds, NEW key, NEW row
    PROVE  LET t == Upsert(s, kind, key, row)
           IN  /\ WellFormed(t)
               /\ DOMAIN t.rows[kind] = DOMAIN s.rows[kind] \cup {key}
               /\ t.rows[kind][key] = row
               /\ \A x \in DOMAIN s.rows[kind] : x # key => t.rows[kind][x] = s.rows[kind][x]
               /\ \A k \in Kinds \ {kind} : t.rows[k] = s.rows[k]
               /\ t.audit = s.audit
<1> DEFINE f == Over([k \in {key} |-> row], s.rows[kind])
           t == Upsert(s, kind, key, row)
<1>1. f = [x \in DOMAIN f |-> f[x]]
  BY DEF Over
<1>2. t = Written(s, kind, f)
  BY StoreReplaced, Zenon DEF Upsert
<1>3. /\ DOMAIN f = DOMAIN s.rows[kind] \cup {key}
      /\ f[key] = row
      /\ \A x \in DOMAIN s.rows[kind] : x # key => f[x] = s.rows[kind][x]
  BY DEF Over
<1> HIDE DEF f, t
<1>4. /\ WellFormed(t)
      /\ t.rows[kind] = f
      /\ \A k \in Kinds \ {kind} : t.rows[k] = s.rows[k]
      /\ t.audit = s.audit
  BY <1>1, <1>2, StoreWritten
<1>5. QED BY <1>3, <1>4 DEF t

(* Store.Remove: the keys are gone, every other key has the row it had.     *)
LEMMA RemoveFacts ==
    ASSUME NEW s, WellFormed(s), NEW kind \in Kinds, NEW keys
    PROVE  LET t == Remove(s, kind, keys)
           IN  /\ WellFormed(t)
               /\ DOMAIN t.rows[kind] = DOMAIN s.rows[kind] \ keys
               /\ \A x \in DOMAIN t.rows[kind] : t.rows[kind][x] = s.rows[kind][x]
               /\ \A k \in Kinds \ {kind} : t.rows[k] = s.rows[k]
               /\ t.audit = s.audit
<1> DEFINE f == Without(s.rows[kind], keys)
           t == Remove(s, kind, keys)
<1>1. f = [x \in DOMAIN f |-> f[x]]
  BY DEF Without
<1>2. t = Written(s, kind, f)
  BY StoreReplaced, Zenon DEF Remove
<1>3. /\ DOMAIN f = DOMAIN s.rows[kind] \ keys
      /\ \A x \in DOMAIN f : f[x] = s.rows[kind][x]
  BY DEF Without
<1> HIDE DEF f, t
<1>4. /\ WellFormed(t)
      /\ t.rows[kind] = f
      /\ \A k \in Kinds \ {kind} : t.rows[k] = s.rows[k]
      /\ t.audit = s.audit
  BY <1>1, <1>2, StoreWritten
<1>5. QED BY <1>3, <1>4 DEF t

(* What a snapshot of it gives back.                                        *)
LEMMA RestoreGivesBack ==
    ASSUME NEW s, WellFormed(s)
    PROVE  Restore(Empty, s) = s
<1>1. ASSUME NEW k \in Kinds
      PROVE  Over(s.rows[k], Empty.rows[k]) = s.rows[k]
  <2>1. DOMAIN Empty.rows[k] = {}
    BY DEF Empty
  <2>2. s.rows[k] = [x \in DOMAIN s.rows[k] |-> s.rows[k][x]]
    BY DEF WellFormed
  <2> QED BY <2>1, <2>2 DEF Over
<1>2. Empty.audit \o s.audit = s.audit
  BY DEF Empty, WellFormed
<1> QED BY <1>1, <1>2 DEF Restore, WellFormed

-----------------------------------------------------------------------------
(* A route or a TCP port belongs to a deployment the state has.             *)
RoutesHaveOwner(s) ==
    \A kind \in {"routes", "tcp_routes"} : \A k \in DOMAIN s.rows[kind] :
        Has(s, "deployments", s.rows[kind][k].dep)

StateOK(s) == WellFormed(s) /\ RoutesHaveOwner(s)

(* Writing a row that is no route takes no route its owner.                 *)
LEMMA UpsertOK ==
    ASSUME NEW s, StateOK(s), NEW kind \in Kinds \ {"routes", "tcp_routes"}, NEW key, NEW row
    PROVE  StateOK(Upsert(s, kind, key, row))
<1>1. WellFormed(s) /\ kind \in Kinds
  BY DEF StateOK
<1> DEFINE t == Upsert(s, kind, key, row)
<1>2. /\ WellFormed(t)
      /\ DOMAIN t.rows[kind] = DOMAIN s.rows[kind] \cup {key}
      /\ \A k \in Kinds \ {kind} : t.rows[k] = s.rows[k]
  BY <1>1, UpsertFacts
<1> HIDE DEF t
<1>3. RoutesHaveOwner(t)
  BY <1>2 DEF StateOK, RoutesHaveOwner, Has, Kinds
<1> QED BY <1>2, <1>3 DEF StateOK, t

(* Neither does removing rows that are no deployments.                      *)
LEMMA RemoveOK ==
    ASSUME NEW s, StateOK(s), NEW kind \in Kinds \ {"deployments"}, NEW keys
    PROVE  StateOK(Remove(s, kind, keys))
<1>1. WellFormed(s) /\ kind \in Kinds
  BY DEF StateOK
<1> DEFINE t == Remove(s, kind, keys)
<1>2. /\ WellFormed(t)
      /\ DOMAIN t.rows[kind] = DOMAIN s.rows[kind] \ keys
      /\ \A x \in DOMAIN t.rows[kind] : t.rows[kind][x] = s.rows[kind][x]
      /\ \A k \in Kinds \ {kind} : t.rows[k] = s.rows[k]
  BY <1>1, RemoveFacts
<1> HIDE DEF t
<1>3. RoutesHaveOwner(t)
  BY <1>2 DEF StateOK, RoutesHaveOwner, Has, Kinds
<1> QED BY <1>2, <1>3 DEF StateOK, t

(* ReplaceSet gives its routes to a deployment the state has.               *)
LEMMA ReplaceSetOK ==
    ASSUME NEW s, StateOK(s), NEW kind \in {"routes", "tcp_routes"}, NEW dep, NEW keys,
           Has(s, "deployments", dep)
    PROVE  /\ StateOK(ReplaceSet(s, kind, dep, keys))
           /\ Has(ReplaceSet(s, kind, dep, keys), "deployments", dep)
<1> DEFINE p == Remove(s, kind, OwnedBy(s, kind, dep) \ keys)
           f == Over([k \in keys |-> [dep |-> dep]], p.rows[kind])
<1>1. kind \in Kinds /\ "deployments" \in Kinds \ {kind} /\ kind \in Kinds \ {"deployments"}
  BY DEF Kinds
<1>2. /\ StateOK(p)
      /\ \A k \in Kinds \ {kind} : p.rows[k] = s.rows[k]
  BY <1>1, RemoveOK, RemoveFacts DEF StateOK
<1>3. f = [x \in DOMAIN f |-> f[x]]
  BY DEF Over
<1>4. /\ DOMAIN f = keys \cup DOMAIN p.rows[kind]
      /\ \A x \in DOMAIN f : IF x \in keys THEN f[x] = [dep |-> dep] ELSE f[x] = p.rows[kind][x]
  BY DEF Over
<1>5. ReplaceSet(s, kind, dep, keys) = Written(p, kind, f)
  BY <1>1, <1>2, StoreReplaced, Zenon DEF ReplaceSet, StateOK
<1> HIDE DEF p, f
<1> DEFINE t == Written(p, kind, f)
<1>6. /\ WellFormed(t) /\ t.rows[kind] = f
      /\ \A k \in Kinds \ {kind} : t.rows[k] = p.rows[k]
  BY <1>1, <1>2, <1>3, StoreWritten DEF StateOK
<1> HIDE DEF t
<1>7. Has(t, "deployments", dep) /\ t.rows["deployments"] = p.rows["deployments"]
  BY <1>1, <1>2, <1>6 DEF Has
<1>8. RoutesHaveOwner(t)
  <2> SUFFICES ASSUME NEW q \in {"routes", "tcp_routes"}, NEW k \in DOMAIN t.rows[q]
               PROVE  t.rows[q][k].dep \in DOMAIN t.rows["deployments"]
    BY DEF RoutesHaveOwner, Has
  <2>1. CASE q = kind /\ k \in keys
    BY <2>1, <1>4, <1>6, <1>7 DEF Has
  <2>2. CASE q = kind /\ k \notin keys
    <3>1. k \in DOMAIN p.rows[q] /\ t.rows[q][k] = p.rows[q][k]
      BY <2>2, <1>4, <1>6
    <3> QED BY <3>1, <1>2, <1>7 DEF StateOK, RoutesHaveOwner, Has
  <2>3. CASE q # kind
    <3>1. t.rows[q] = p.rows[q]
      BY <2>3, <1>6 DEF Kinds
    <3> QED BY <3>1, <1>2, <1>7 DEF StateOK, RoutesHaveOwner, Has
  <2> QED BY <2>1, <2>2, <2>3
<1> QED BY <1>5, <1>6, <1>7, <1>8 DEF StateOK, t

(* DeploymentApply writes the deployment before its routes.                 *)
LEMMA DeploymentApplyOK ==
    ASSUME NEW s, StateOK(s), NEW c
    PROVE  StateOK(DeploymentApply(s, c))
<1> DEFINE prev == IF Has(s, "deployments", c.dep) THEN Row(s, "deployments", c.dep).applied ELSE 0
           row  == [applied |-> c.rev, previous |-> prev, status |-> "active"]
           s1   == Upsert(s, "deployments", c.dep, row)
           s2   == Remove(s1, "plans", {k \in OwnedBy(s1, "plans", c.dep) : k \notin c.services})
           s3   == ReplaceSet(s2, "routes", c.dep, c.routes)
<1> HIDE DEF row
<1>1. StateOK(s1) /\ Has(s1, "deployments", c.dep)
  BY UpsertOK, UpsertFacts DEF Has, Kinds, StateOK
<1> HIDE DEF s1
<1>2. StateOK(s2) /\ Has(s2, "deployments", c.dep)
  BY <1>1, RemoveOK, RemoveFacts DEF Has, Kinds, StateOK
<1> HIDE DEF s2
<1>3. StateOK(s3) /\ Has(s3, "deployments", c.dep)
  BY <1>2, ReplaceSetOK
<1> HIDE DEF s3
<1>4. StateOK(ReplaceSet(s3, "tcp_routes", c.dep, c.ports))
  BY <1>3, ReplaceSetOK
<1> QED BY <1>4, Zenon DEF DeploymentApply, row, s1, s2, s3

(* DeploymentDelete takes the routes of the deployment with it.             *)
LEMMA DeploymentDeleteOK ==
    ASSUME NEW s, StateOK(s), NEW c
    PROVE  StateOK(DeploymentDelete(s, c))
<1> DEFINE s1 == Remove(s, "routes", OwnedBy(s, "routes", c.dep))
           s2 == Remove(s1, "tcp_routes", OwnedBy(s1, "tcp_routes", c.dep))
           s3 == RemoveReplicas(s2, OwnedBy(s2, "desired", c.dep))
           s4 == Remove(s3, "plans", OwnedBy(s3, "plans", c.dep))
           s5 == Remove(s4, "subnets", OwnedBy(s4, "subnets", c.dep))
           s6 == Remove(s5, "deployments", {c.dep})
           Left(t, q) == \A k \in DOMAIN t.rows[q] : t.rows[q][k].dep # c.dep
<1> USE DEF Kinds
<1>1. StateOK(s1) /\ Left(s1, "routes")
  BY RemoveOK, RemoveFacts DEF StateOK, OwnedBy
<1> HIDE DEF s1
<1>2. StateOK(s2) /\ Left(s2, "routes") /\ Left(s2, "tcp_routes")
  <2> DEFINE ids == OwnedBy(s1, "tcp_routes", c.dep)
             t == Remove(s1, "tcp_routes", ids)
  <2> HIDE DEF ids
  <2>1. /\ StateOK(t) /\ t.rows["routes"] = s1.rows["routes"]
        /\ DOMAIN t.rows["tcp_routes"] = DOMAIN s1.rows["tcp_routes"] \ ids
        /\ \A k \in DOMAIN t.rows["tcp_routes"] : t.rows["tcp_routes"][k] = s1.rows["tcp_routes"][k]
    BY <1>1, RemoveOK, RemoveFacts DEF StateOK
  <2>2. s2 = t
    BY Zenon DEF ids
  <2> HIDE DEF t, s2
  <2>3. Left(t, "routes") /\ Left(t, "tcp_routes")
    BY <1>1, <2>1 DEF OwnedBy, ids
  <2> QED BY <2>1, <2>2, <2>3
<1> HIDE DEF s2
<1>3. StateOK(s3) /\ Left(s3, "routes") /\ Left(s3, "tcp_routes")
  <2> DEFINE ids == OwnedBy(s2, "desired", c.dep)
             t1 == Remove(s2, "desired", ids)
             t2 == Remove(t1, "observed", ids)
  <2> HIDE DEF ids
  <2>1. StateOK(t1) /\ t1.rows["routes"] = s2.rows["routes"] /\ t1.rows["tcp_routes"] = s2.rows["tcp_routes"]
    BY <1>2, RemoveOK, RemoveFacts DEF StateOK
  <2> HIDE DEF t1
  <2>2. StateOK(t2) /\ t2.rows["routes"] = t1.rows["routes"] /\ t2.rows["tcp_routes"] = t1.rows["tcp_routes"]
    BY <2>1, RemoveOK, RemoveFacts DEF StateOK
  <2> HIDE DEF t2
  <2> DEFINE t3 == Remove(t2, "restart_counters", ids)
  <2>3. StateOK(t3) /\ t3.rows["routes"] = t2.rows["routes"] /\ t3.rows["tcp_routes"] = t2.rows["tcp_routes"]
    BY <2>2, RemoveOK, RemoveFacts DEF StateOK
  <2>4. s3 = t3
    BY Zenon DEF RemoveReplicas, t1, t2, ids
  <2> HIDE DEF t3, s3
  <2> QED BY <1>2, <2>1, <2>2, <2>3, <2>4
<1> HIDE DEF s3
<1>4. StateOK(s4) /\ Left(s4, "routes") /\ Left(s4, "tcp_routes")
  BY <1>3, RemoveOK, RemoveFacts DEF StateOK
<1> HIDE DEF s4
<1>5. StateOK(s5) /\ Left(s5, "routes") /\ Left(s5, "tcp_routes")
  BY <1>4, RemoveOK, RemoveFacts DEF StateOK
<1> HIDE DEF s5
<1>6. /\ WellFormed(s6)
      /\ s6.rows["routes"] = s5.rows["routes"] /\ s6.rows["tcp_routes"] = s5.rows["tcp_routes"]
      /\ DOMAIN s6.rows["deployments"] = DOMAIN s5.rows["deployments"] \ {c.dep}
  BY <1>5, RemoveFacts DEF StateOK
<1> HIDE DEF s6
<1>7. RoutesHaveOwner(s6)
  BY <1>5, <1>6 DEF StateOK, RoutesHaveOwner, Has
<1> QED BY <1>6, <1>7, ZenonT(40) DEF StateOK, DeploymentDelete, s1, s2, s3, s4, s5, s6

(* The other commands write and remove neither deployments nor routes.      *)
LEMMA PlainOK ==
    ASSUME NEW s, StateOK(s), NEW c, NEW idx
    PROVE  /\ StateOK(ClusterInit(s, c)) /\ StateOK(NodeJoin(s, c)) /\ StateOK(NodeRemove(s, c))
           /\ StateOK(NodeUpdateSelf(s, c)) /\ StateOK(NodeStatusUpdate(s, c))
           /\ StateOK(DeploymentRollback(s, c)) /\ StateOK(DeploymentStatusUpdate(s, c))
           /\ StateOK(ReplicaDesiredUpsert(s, c, idx)) /\ StateOK(ReplicaDesiredRemove(s, c))
           /\ StateOK(ReplicaObservedUpdate(s, c)) /\ StateOK(RolloutPlanUpdate(s, c))
           /\ StateOK(ReplicaCounterIncrement(s, c)) /\ StateOK(RestartCounterUpdate(s, c))
           /\ StateOK(CertLock(s, c)) /\ StateOK(CertUnlock(s, c))
           /\ StateOK(SubnetAllocate(s, c)) /\ StateOK(SubnetFree(s, c))
           /\ StateOK(TokenRevoke(s, c)) /\ StateOK(JoinTokenConsume(s, c))
           /\ c.op \in {"ChallengeTokenStore", "CertBlobUpsert", "TokenIssue",
                        "JoinTokenIssue", "RegistryCredentialUpsert"} => StateOK(PlainUpsert(s, c))
           /\ c.op \in {"CertBlobRemove", "RegistryCredentialRemove"} => StateOK(PlainRemove(s, c))
<1>1. \A kind \in Kinds \ {"routes", "tcp_routes"} : \A t, key, row :
         StateOK(t) => StateOK(Upsert(t, kind, key, row))
  BY UpsertOK
<1>2. \A kind \in Kinds \ {"deployments"} : \A t, keys : StateOK(t) => StateOK(Remove(t, kind, keys))
  BY RemoveOK
<1> USE DEF Kinds
<1>3. StateOK(ClusterInit(s, c)) /\ StateOK(NodeJoin(s, c)) /\ StateOK(NodeRemove(s, c))
  BY <1>1, <1>2 DEF ClusterInit, NodeJoin, NodeRemove
<1>4. StateOK(NodeUpdateSelf(s, c)) /\ StateOK(NodeStatusUpdate(s, c))
  BY <1>1 DEF NodeUpdateSelf, NodeStatusUpdate, Patch
<1>5. StateOK(DeploymentRollback(s, c)) /\ StateOK(DeploymentStatusUpdate(s, c))
  BY <1>1 DEF DeploymentRollback, DeploymentStatusUpdate, Patch
<1>6. StateOK(ReplicaDesiredUpsert(s, c, idx)) /\ StateOK(ReplicaDesiredRemove(s, c))
  BY <1>1, <1>2 DEF ReplicaDesiredUpsert, ReplicaDesiredRemove, RemoveReplicas
<1>7. StateOK(ReplicaObservedUpdate(s, c)) /\ StateOK(RolloutPlanUpdate(s, c))
  BY <1>1 DEF ReplicaObservedUpdate, RolloutPlanUpdate
<1>8. StateOK(ReplicaCounterIncrement(s, c)) /\ StateOK(RestartCounterUpdate(s, c))
  BY <1>1, <1>2 DEF ReplicaCounterIncrement, RestartCounterUpdate
<1>9. StateOK(CertLock(s, c)) /\ StateOK(CertUnlock(s, c))
  BY Zenon, <1>1 DEF CertLock, CertUnlock, Patch
<1>10. StateOK(SubnetAllocate(s, c)) /\ StateOK(SubnetFree(s, c))
  BY Zenon, <1>1, <1>2 DEF SubnetAllocate, SubnetFree
<1>11. StateOK(TokenRevoke(s, c)) /\ StateOK(JoinTokenConsume(s, c))
  BY <1>1 DEF TokenRevoke, JoinTokenConsume, Patch
<1>12. ASSUME c.op \in {"ChallengeTokenStore", "CertBlobUpsert", "TokenIssue",
                        "JoinTokenIssue", "RegistryCredentialUpsert"}
       PROVE  StateOK(PlainUpsert(s, c))
  BY <1>1, <1>12 DEF PlainUpsert
<1>13. ASSUME c.op \in {"CertBlobRemove", "RegistryCredentialRemove"} PROVE StateOK(PlainRemove(s, c))
  BY <1>2, <1>13 DEF PlainRemove
<1> QED BY <1>3, <1>4, <1>5, <1>6, <1>7, <1>8, <1>9, <1>10, <1>11, <1>12, <1>13

-----------------------------------------------------------------------------
(* t gives out no subnet that s does not: its rows are rows of s.           *)
KeepsSubnets(s, t) ==
    /\ WellFormed(t)
    /\ DOMAIN t.rows["subnets"] \subseteq DOMAIN s.rows["subnets"]
    /\ \A k \in DOMAIN t.rows["subnets"] : t.rows["subnets"][k] = s.rows["subnets"][k]

(* Commands in a row keep the subnets when each of them does.               *)
LEMMA KeepsTransitive ==
    ASSUME NEW s, NEW t, NEW u, KeepsSubnets(s, t), KeepsSubnets(t, u)
    PROVE  KeepsSubnets(s, u)
  BY DEF KeepsSubnets

(* A row of another kind gives out no subnet.                               *)
LEMMA UpsertKeeps ==
    ASSUME NEW s, NEW t, KeepsSubnets(s, t), NEW kind \in Kinds \ {"subnets"}, NEW key, NEW row
    PROVE  KeepsSubnets(s, Upsert(t, kind, key, row))
<1> DEFINE u == Upsert(t, kind, key, row)
<1>1. WellFormed(u) /\ \A k \in Kinds \ {kind} : u.rows[k] = t.rows[k]
  BY UpsertFacts DEF KeepsSubnets
<1> HIDE DEF u
<1>2. u.rows["subnets"] = t.rows["subnets"]
  BY <1>1 DEF Kinds
<1> QED BY <1>1, <1>2 DEF KeepsSubnets, u

(* Removing rows gives out no subnet.                                       *)
LEMMA RemoveKeeps ==
    ASSUME NEW s, NEW t, KeepsSubnets(s, t), NEW kind \in Kinds, NEW keys
    PROVE  KeepsSubnets(s, Remove(t, kind, keys))
<1> DEFINE u == Remove(t, kind, keys)
<1>1. /\ WellFormed(u)
      /\ DOMAIN u.rows[kind] = DOMAIN t.rows[kind] \ keys
      /\ \A x \in DOMAIN u.rows[kind] : u.rows[kind][x] = t.rows[kind][x]
      /\ \A k \in Kinds \ {kind} : u.rows[k] = t.rows[k]
  BY RemoveFacts DEF KeepsSubnets
<1> HIDE DEF u
<1>2. KeepsSubnets(t, u)
  BY <1>1 DEF KeepsSubnets, Kinds
<1> QED BY <1>2, KeepsTransitive DEF u

(* Replacing the routes of a deployment gives out no subnet.                *)
LEMMA ReplaceSetKeeps ==
    ASSUME NEW s, NEW t, KeepsSubnets(s, t), NEW kind \in Kinds \ {"subnets"}, NEW dep, NEW keys
    PROVE  KeepsSubnets(s, ReplaceSet(t, kind, dep, keys))
<1> DEFINE p == Remove(t, kind, OwnedBy(t, kind, dep) \ keys)
           f == Over([k \in keys |-> [dep |-> dep]], p.rows[kind])
           u == Written(p, kind, f)
<1>1. KeepsSubnets(s, p)
  BY RemoveKeeps
<1>2. f = [x \in DOMAIN f |-> f[x]]
  BY DEF Over
<1>3. ReplaceSet(t, kind, dep, keys) = u
  BY <1>1, StoreReplaced, Zenon DEF ReplaceSet, KeepsSubnets
<1> HIDE DEF p, f
<1>4. WellFormed(u) /\ \A k \in Kinds \ {kind} : u.rows[k] = p.rows[k]
  BY <1>1, <1>2, StoreWritten DEF KeepsSubnets
<1> HIDE DEF u
<1>5. u.rows["subnets"] = p.rows["subnets"]
  BY <1>4 DEF Kinds
<1> QED BY <1>1, <1>3, <1>4, <1>5 DEF KeepsSubnets

(* No command but SubnetAllocate gives out a subnet.                        *)
LEMMA OthersKeepSubnets ==
    ASSUME NEW s, WellFormed(s), NEW c, c.op # "SubnetAllocate", NEW idx
    PROVE  KeepsSubnets(s, ApplyPayload(s, c, idx))
<1>0. KeepsSubnets(s, s)
  BY DEF KeepsSubnets
<1>1. \A kind \in Kinds \ {"subnets"} : \A t, key, row :
         KeepsSubnets(s, t) => KeepsSubnets(s, Upsert(t, kind, key, row))
  BY UpsertKeeps
<1>2. \A kind \in Kinds : \A t, keys : KeepsSubnets(s, t) => KeepsSubnets(s, Remove(t, kind, keys))
  BY RemoveKeeps
<1>3. \A kind \in Kinds \ {"subnets"} : \A t, dep, keys :
         KeepsSubnets(s, t) => KeepsSubnets(s, ReplaceSet(t, kind, dep, keys))
  BY ReplaceSetKeeps
<1> DEFINE Keeps(t) == KeepsSubnets(s, t)
<1> USE DEF Kinds
<1>4. Keeps(ClusterInit(s, c)) /\ Keeps(NodeJoin(s, c)) /\ Keeps(NodeRemove(s, c))
  BY <1>0, <1>1, <1>2 DEF ClusterInit, NodeJoin, NodeRemove
<1>5. Keeps(NodeUpdateSelf(s, c)) /\ Keeps(NodeStatusUpdate(s, c))
  BY <1>0, <1>1 DEF NodeUpdateSelf, NodeStatusUpdate, Patch
<1>6. Keeps(DeploymentRollback(s, c)) /\ Keeps(DeploymentStatusUpdate(s, c))
  BY <1>0, <1>1 DEF DeploymentRollback, DeploymentStatusUpdate, Patch
<1>7. Keeps(DeploymentApply(s, c))
  BY <1>0, <1>1, <1>2, <1>3 DEF DeploymentApply
<1>8. Keeps(DeploymentDelete(s, c))
  BY <1>0, <1>2 DEF DeploymentDelete, RemoveReplicas
<1>9. Keeps(ReplicaDesiredUpsert(s, c, idx)) /\ Keeps(ReplicaDesiredRemove(s, c))
  BY <1>0, <1>1, <1>2 DEF ReplicaDesiredUpsert, ReplicaDesiredRemove, RemoveReplicas
<1>10. Keeps(ReplicaObservedUpdate(s, c)) /\ Keeps(RolloutPlanUpdate(s, c))
  BY <1>0, <1>1 DEF ReplicaObservedUpdate, RolloutPlanUpdate
<1>11. Keeps(ReplicaCounterIncrement(s, c)) /\ Keeps(RestartCounterUpdate(s, c))
  BY <1>0, <1>1, <1>2 DEF ReplicaCounterIncrement, RestartCounterUpdate
<1>12. Keeps(CertLock(s, c)) /\ Keeps(CertUnlock(s, c))
  BY Zenon, <1>0, <1>1 DEF CertLock, CertUnlock, Patch
<1>13. Keeps(SubnetFree(s, c))
  BY Zenon, <1>0, <1>2 DEF SubnetFree
<1>14. Keeps(TokenRevoke(s, c)) /\ Keeps(JoinTokenConsume(s, c))
  BY <1>0, <1>1 DEF TokenRevoke, JoinTokenConsume, Patch
<1>15. ASSUME c.op \in {"ChallengeTokenStore", "CertBlobUpsert", "TokenIssue",
                        "JoinTokenIssue", "RegistryCredentialUpsert"}
       PROVE  Keeps(PlainUpsert(s, c))
  BY <1>0, <1>1, <1>15 DEF PlainUpsert
<1>16. ASSUME c.op \in {"CertBlobRemove", "RegistryCredentialRemove"} PROVE Keeps(PlainRemove(s, c))
  BY <1>0, <1>2, <1>16 DEF PlainRemove
<1> QED BY <1>0, <1>4, <1>5, <1>6, <1>7, <1>8, <1>9, <1>10, <1>11, <1>12, <1>13, <1>14, <1>15, <1>16
           DEF ApplyPayload

-----------------------------------------------------------------------------
(* t has the host ports that s has.                                         *)
KeepsPorts(s, t) == WellFormed(t) /\ t.rows["tcp_routes"] = s.rows["tcp_routes"]

(* A row of another kind leaves the host ports alone.                       *)
LEMMA UpsertKeepsPorts ==
    ASSUME NEW s, NEW t, KeepsPorts(s, t), NEW kind \in Kinds \ {"tcp_routes"}, NEW key, NEW row
    PROVE  KeepsPorts(s, Upsert(t, kind, key, row))
<1> DEFINE u == Upsert(t, kind, key, row)
<1>1. WellFormed(u) /\ \A k \in Kinds \ {kind} : u.rows[k] = t.rows[k]
  BY UpsertFacts DEF KeepsPorts
<1> HIDE DEF u
<1>2. u.rows["tcp_routes"] = t.rows["tcp_routes"]
  BY <1>1 DEF Kinds
<1> QED BY <1>1, <1>2 DEF KeepsPorts, u

(* So does removing rows of another kind.                                   *)
LEMMA RemoveKeepsPorts ==
    ASSUME NEW s, NEW t, KeepsPorts(s, t), NEW kind \in Kinds \ {"tcp_routes"}, NEW keys
    PROVE  KeepsPorts(s, Remove(t, kind, keys))
<1> DEFINE u == Remove(t, kind, keys)
<1>1. WellFormed(u) /\ \A k \in Kinds \ {kind} : u.rows[k] = t.rows[k]
  BY RemoveFacts DEF KeepsPorts
<1> HIDE DEF u
<1>2. u.rows["tcp_routes"] = t.rows["tcp_routes"]
  BY <1>1 DEF Kinds
<1> QED BY <1>1, <1>2 DEF KeepsPorts, u

(* No command but DeploymentApply and DeploymentDelete touches a host port. *)
LEMMA OthersKeepPorts ==
    ASSUME NEW s, WellFormed(s), NEW c, c.op \notin {"DeploymentApply", "DeploymentDelete"}, NEW idx
    PROVE  KeepsPorts(s, ApplyPayload(s, c, idx))
<1>0. KeepsPorts(s, s)
  BY DEF KeepsPorts
<1>1. \A kind \in Kinds \ {"tcp_routes"} : \A t, key, row :
         KeepsPorts(s, t) => KeepsPorts(s, Upsert(t, kind, key, row))
  BY UpsertKeepsPorts
<1>2. \A kind \in Kinds \ {"tcp_routes"} : \A t, keys :
         KeepsPorts(s, t) => KeepsPorts(s, Remove(t, kind, keys))
  BY RemoveKeepsPorts
<1> DEFINE Keeps(t) == KeepsPorts(s, t)
<1> USE DEF Kinds
<1>4. Keeps(ClusterInit(s, c)) /\ Keeps(NodeJoin(s, c)) /\ Keeps(NodeRemove(s, c))
  BY <1>0, <1>1, <1>2 DEF ClusterInit, NodeJoin, NodeRemove
<1>5. Keeps(NodeUpdateSelf(s, c)) /\ Keeps(NodeStatusUpdate(s, c))
  BY <1>0, <1>1 DEF NodeUpdateSelf, NodeStatusUpdate, Patch
<1>6. Keeps(DeploymentRollback(s, c)) /\ Keeps(DeploymentStatusUpdate(s, c))
  BY <1>0, <1>1 DEF DeploymentRollback, DeploymentStatusUpdate, Patch
<1>9. Keeps(ReplicaDesiredUpsert(s, c, idx)) /\ Keeps(ReplicaDesiredRemove(s, c))
  BY <1>0, <1>1, <1>2 DEF ReplicaDesiredUpsert, ReplicaDesiredRemove, RemoveReplicas
<1>10. Keeps(ReplicaObservedUpdate(s, c)) /\ Keeps(RolloutPlanUpdate(s, c))
  BY <1>0, <1>1 DEF ReplicaObservedUpdate, RolloutPlanUpdate
<1>11. Keeps(ReplicaCounterIncrement(s, c)) /\ Keeps(RestartCounterUpdate(s, c))
  BY <1>0, <1>1, <1>2 DEF ReplicaCounterIncrement, RestartCounterUpdate
<1>12. Keeps(CertLock(s, c)) /\ Keeps(CertUnlock(s, c))
  BY Zenon, <1>0, <1>1 DEF CertLock, CertUnlock, Patch
<1>13. Keeps(SubnetAllocate(s, c)) /\ Keeps(SubnetFree(s, c))
  BY Zenon, <1>0, <1>1, <1>2 DEF SubnetAllocate, SubnetFree
<1>14. Keeps(TokenRevoke(s, c)) /\ Keeps(JoinTokenConsume(s, c))
  BY <1>0, <1>1 DEF TokenRevoke, JoinTokenConsume, Patch
<1>15. ASSUME c.op \in {"ChallengeTokenStore", "CertBlobUpsert", "TokenIssue",
                        "JoinTokenIssue", "RegistryCredentialUpsert"}
       PROVE  Keeps(PlainUpsert(s, c))
  BY <1>0, <1>1, <1>15 DEF PlainUpsert
<1>16. ASSUME c.op \in {"CertBlobRemove", "RegistryCredentialRemove"} PROVE Keeps(PlainRemove(s, c))
  BY <1>0, <1>2, <1>16 DEF PlainRemove
<1> QED BY <1>0, <1>4, <1>5, <1>6, <1>9, <1>10, <1>11, <1>12, <1>13, <1>14, <1>15, <1>16
           DEF ApplyPayload

(* What ReplaceSet leaves in its store.                                     *)
Replaced(s, t, kind, dep, keys) ==
    /\ WellFormed(t)
    /\ \A p \in keys : p \in DOMAIN t.rows[kind] /\ t.rows[kind][p] = [dep |-> dep]
    /\ \A p \in DOMAIN s.rows[kind] : s.rows[kind][p].dep # dep /\ p \notin keys =>
          p \in DOMAIN t.rows[kind] /\ t.rows[kind][p] = s.rows[kind][p]
    /\ \A k \in Kinds \ {kind} : t.rows[k] = s.rows[k]

(* ReplaceSet: the keys are the deployment's, and the other deployments     *)
(* keep those it does not name.                                             *)
LEMMA ReplaceSetFacts ==
    ASSUME NEW s, WellFormed(s), NEW kind \in Kinds, NEW dep, NEW keys
    PROVE  Replaced(s, ReplaceSet(s, kind, dep, keys), kind, dep, keys)
<1> DEFINE own == OwnedBy(s, kind, dep)
           p == Remove(s, kind, own \ keys)
           f == Over([k \in keys |-> [dep |-> dep]], p.rows[kind])
           t == Written(p, kind, f)
<1>1. /\ WellFormed(p)
      /\ DOMAIN p.rows[kind] = DOMAIN s.rows[kind] \ (own \ keys)
      /\ \A x \in DOMAIN p.rows[kind] : p.rows[kind][x] = s.rows[kind][x]
      /\ \A k \in Kinds \ {kind} : p.rows[k] = s.rows[k]
  BY RemoveFacts
<1>2. ReplaceSet(s, kind, dep, keys) = t
  BY <1>1, StoreReplaced, Zenon DEF ReplaceSet
<1> HIDE DEF p
<1>3. f = [x \in DOMAIN f |-> f[x]]
  BY DEF Over
<1>4. /\ DOMAIN f = keys \cup DOMAIN p.rows[kind]
      /\ \A x \in keys : f[x] = [dep |-> dep]
      /\ \A x \in DOMAIN p.rows[kind] \ keys : f[x] = p.rows[kind][x]
  BY DEF Over
<1>5. \A x \in own : s.rows[kind][x].dep = dep
  BY DEF OwnedBy
<1> HIDE DEF f, own
<1>6. /\ WellFormed(t) /\ t.rows[kind] = f
      /\ \A k \in Kinds \ {kind} : t.rows[k] = p.rows[k]
  BY <1>1, <1>3, StoreWritten
<1> HIDE DEF t
<1>7. Replaced(s, t, kind, dep, keys)
  BY <1>1, <1>4, <1>5, <1>6 DEF Replaced
<1> QED BY <1>2, <1>7

(* The host ports after an Apply: the manifest's are its deployment's, and  *)
(* the other deployments keep the ones it does not name.                    *)
LEMMA ApplyPorts ==
    ASSUME NEW s, WellFormed(s), NEW c
    PROVE  LET t == DeploymentApply(s, c)
           IN  /\ \A p \in c.ports : Has(t, "tcp_routes", p) /\ Row(t, "tcp_routes", p).dep = c.dep
               /\ \A p \in DOMAIN s.rows["tcp_routes"] :
                     Row(s, "tcp_routes", p).dep # c.dep /\ p \notin c.ports =>
                        Has(t, "tcp_routes", p) /\ Row(t, "tcp_routes", p) = Row(s, "tcp_routes", p)
<1> DEFINE prev == IF Has(s, "deployments", c.dep) THEN Row(s, "deployments", c.dep).applied ELSE 0
           row  == [applied |-> c.rev, previous |-> prev, status |-> "active"]
           s1   == Upsert(s, "deployments", c.dep, row)
           s2   == Remove(s1, "plans", {k \in OwnedBy(s1, "plans", c.dep) : k \notin c.services})
           s3   == ReplaceSet(s2, "routes", c.dep, c.routes)
           t    == ReplaceSet(s3, "tcp_routes", c.dep, c.ports)
<1> USE DEF Kinds
<1> HIDE DEF row
<1>0. KeepsPorts(s, s)
  BY DEF KeepsPorts
<1>1. KeepsPorts(s, s1)
  BY <1>0, UpsertKeepsPorts
<1> HIDE DEF s1
<1>2. KeepsPorts(s, s2)
  BY <1>1, RemoveKeepsPorts
<1> HIDE DEF s2
<1>3. WellFormed(s3) /\ s3.rows["tcp_routes"] = s2.rows["tcp_routes"]
  <2>1. WellFormed(s2) /\ "routes" \in Kinds /\ "tcp_routes" \in Kinds \ {"routes"}
    BY <1>2 DEF KeepsPorts
  <2> HIDE DEF Kinds
  <2>2. Replaced(s2, s3, "routes", c.dep, c.routes)
    BY <2>1, ReplaceSetFacts, Zenon
  <2> HIDE DEF s3
  <2> QED BY <2>1, <2>2 DEF Replaced
<1> HIDE DEF s3
<1>4. /\ \A p \in c.ports : p \in DOMAIN t.rows["tcp_routes"] /\ t.rows["tcp_routes"][p] = [dep |-> c.dep]
      /\ \A p \in DOMAIN s3.rows["tcp_routes"] :
            s3.rows["tcp_routes"][p].dep # c.dep /\ p \notin c.ports =>
               p \in DOMAIN t.rows["tcp_routes"] /\ t.rows["tcp_routes"][p] = s3.rows["tcp_routes"][p]
  <2>1. "tcp_routes" \in Kinds
    OBVIOUS
  <2> HIDE DEF Kinds
  <2>2. Replaced(s3, t, "tcp_routes", c.dep, c.ports)
    BY <1>3, <2>1, ReplaceSetFacts, Zenon
  <2> HIDE DEF t
  <2> QED BY <2>2 DEF Replaced
<1>5. DeploymentApply(s, c) = t
  BY Zenon DEF DeploymentApply, row, s1, s2, s3
<1> HIDE DEF t
<1> QED BY <1>2, <1>3, <1>4, <1>5 DEF KeepsPorts, Has, Row

(* A Delete only takes the host ports of its own deployment.                *)
LEMMA DeletePorts ==
    ASSUME NEW s, WellFormed(s), NEW c
    PROVE  LET t == DeploymentDelete(s, c)
           IN  \A p \in DOMAIN s.rows["tcp_routes"] : Row(s, "tcp_routes", p).dep # c.dep =>
                  Has(t, "tcp_routes", p) /\ Row(t, "tcp_routes", p) = Row(s, "tcp_routes", p)
<1> DEFINE s1 == Remove(s, "routes", OwnedBy(s, "routes", c.dep))
           own == OwnedBy(s1, "tcp_routes", c.dep)
           s2 == Remove(s1, "tcp_routes", own)
           s3 == RemoveReplicas(s2, OwnedBy(s2, "desired", c.dep))
           s4 == Remove(s3, "plans", OwnedBy(s3, "plans", c.dep))
           s5 == Remove(s4, "subnets", OwnedBy(s4, "subnets", c.dep))
           s6 == Remove(s5, "deployments", {c.dep})
<1> USE DEF Kinds
<1>0. KeepsPorts(s, s)
  BY DEF KeepsPorts
<1>1. KeepsPorts(s, s1)
  BY SMTT(20), Zenon, <1>0, RemoveKeepsPorts
<1>2. \A p \in own : s1.rows["tcp_routes"][p].dep = c.dep
  BY Zenon DEF OwnedBy
<1> HIDE DEF s1, own
<1>3. /\ WellFormed(s2)
      /\ DOMAIN s2.rows["tcp_routes"] = DOMAIN s1.rows["tcp_routes"] \ own
      /\ \A x \in DOMAIN s2.rows["tcp_routes"] : s2.rows["tcp_routes"][x] = s1.rows["tcp_routes"][x]
  BY <1>1, RemoveFacts DEF KeepsPorts
<1> HIDE DEF s2
<1>4. \A kind \in Kinds \ {"tcp_routes"} : \A t, keys : KeepsPorts(s2, t) => KeepsPorts(s2, Remove(t, kind, keys))
  BY RemoveKeepsPorts
<1>5. KeepsPorts(s2, s2)
  BY <1>3 DEF KeepsPorts
<1>6. KeepsPorts(s2, s6)
  BY <1>4, <1>5 DEF RemoveReplicas
<1>7. DeploymentDelete(s, c) = s6
  BY Zenon DEF DeploymentDelete, s1, s2, own
<1> HIDE DEF s6
<1> QED BY <1>1, <1>2, <1>3, <1>6, <1>7 DEF KeepsPorts, Has, Row

-----------------------------------------------------------------------------
(* applyOne keeps the routes owned: its command does, and its audit event   *)
(* is beside the rows.                                                      *)
LEMMA ApplyOneOK ==
    ASSUME NEW s, StateOK(s), NEW c, NEW idx \in Nat
    PROVE  StateOK(ApplyOne(s, c, idx))
<1> DEFINE t == ApplyPayload(s, c, idx)
<1>1. StateOK(t)
  BY PlainOK, DeploymentApplyOK, DeploymentDeleteOK DEF ApplyPayload
<1> HIDE DEF t
<1> DEFINE u == [t EXCEPT !.audit = Append(@, <<c.op, idx>>)]
<1>2. ASSUME c.op \in Audited \/ (c.op = "NodeStatusUpdate" /\ c.status = "isolation_unavailable")
      PROVE  StateOK(u)
  <2>1. <<c.op, idx>> \in AuditRows
    BY <1>2 DEF AuditRows
  <2>2. Append(t.audit, <<c.op, idx>>) \in Seq(AuditRows)
    BY <1>1, <2>1 DEF StateOK, WellFormed
  <2>3. ASSUME NEW a, NEW v, v = [t EXCEPT !.audit = a]
        PROVE  v.rows = t.rows /\ v.audit = a /\ v = [rows |-> v.rows, audit |-> v.audit]
    BY <1>1, <2>3 DEF StateOK, WellFormed
  <2>4. u = [t EXCEPT !.audit = Append(t.audit, <<c.op, idx>>)]
    BY Zenon
  <2> HIDE DEF u
  <2>5. u.rows = t.rows /\ u.audit = Append(t.audit, <<c.op, idx>>) /\ u = [rows |-> u.rows, audit |-> u.audit]
    BY <2>3, <2>4, Zenon
  <2> QED BY Zenon, <1>1, <2>2, <2>5 DEF StateOK, WellFormed, RoutesHaveOwner, Has
<1> QED BY <1>1, <1>2, Zenon DEF ApplyOne, t

(* The audit event of a command is beside the rows.                         *)
LEMMA ApplyOneRows ==
    ASSUME NEW s, StateOK(s), NEW c, NEW idx \in Nat
    PROVE  ApplyOne(s, c, idx).rows = ApplyPayload(s, c, idx).rows
<1> DEFINE t == ApplyPayload(s, c, idx)
<1>1. WellFormed(t)
  BY PlainOK, DeploymentApplyOK, DeploymentDeleteOK DEF ApplyPayload, StateOK
<1> HIDE DEF t
<1>2. ASSUME NEW a, NEW v, v = [t EXCEPT !.audit = a] PROVE v.rows = t.rows
  BY <1>1, <1>2 DEF WellFormed
<1>3. [t EXCEPT !.audit = Append(@, <<c.op, idx>>)].rows = t.rows
  BY <1>2, Zenon
<1> QED BY <1>3, Zenon DEF ApplyOne, t

(* No applyOne but that of a SubnetAllocate gives out a subnet.             *)
LEMMA OthersKeep ==
    ASSUME NEW s, StateOK(s), NEW c, c.op # "SubnetAllocate", NEW idx \in Nat
    PROVE  KeepsSubnets(s, ApplyOne(s, c, idx))
<1>1. KeepsSubnets(s, ApplyPayload(s, c, idx)) /\ WellFormed(ApplyOne(s, c, idx))
  BY OthersKeepSubnets, ApplyOneOK DEF StateOK
<1> QED BY <1>1, ApplyOneRows DEF KeepsSubnets

(* None but those of DeploymentApply and DeploymentDelete touch a host      *)
(* port.                                                                    *)
LEMMA OthersKeepThePorts ==
    ASSUME NEW s, StateOK(s), NEW c, c.op \notin {"DeploymentApply", "DeploymentDelete"}, NEW idx \in Nat
    PROVE  ApplyOne(s, c, idx).rows["tcp_routes"] = s.rows["tcp_routes"]
<1>1. KeepsPorts(s, ApplyPayload(s, c, idx))
  BY OthersKeepPorts DEF StateOK
<1> QED BY <1>1, ApplyOneRows DEF KeepsPorts

(* The states between the commands of an entry.                             *)
IsRun(f, n, s, entry, idx) ==
    f = [i \in 0 .. n |-> IF i = 0 THEN s ELSE ApplyOne(f[i - 1], entry[i], idx)]

(* There are such states, by the least number of commands without them.     *)
LEMMA RunExists ==
    ASSUME NEW s, NEW entry, NEW idx, NEW n \in Nat
    PROVE  \E f : IsRun(f, n, s, entry, idx)
<1> DEFINE T == {m \in Nat : ~\E f : IsRun(f, m, s, entry, idx)}
<1> SUFFICES ASSUME T # {} PROVE FALSE
  OBVIOUS
<1>1. PICK m \in T : \A y \in T : m <= y
  BY Zenon, LeastElement
<1>2. m # 0
  <2>1. IsRun([i \in 0 .. 0 |-> s], 0, s, entry, idx)
    BY DEF IsRun
  <2> QED BY <2>1
<1>3. m - 1 \in Nat /\ m - 1 \notin T
  BY <1>1, <1>2
<1>4. PICK f : IsRun(f, m - 1, s, entry, idx)
  BY <1>3
<1> DEFINE g == [i \in 0 .. m |-> IF i = m THEN ApplyOne(f[m - 1], entry[m], idx) ELSE f[i]]
<1>5. g = [i \in 0 .. m |-> IF i = 0 THEN s ELSE ApplyOne(g[i - 1], entry[i], idx)]
  <2>1. ASSUME NEW i \in 0 .. m
        PROVE  g[i] = IF i = 0 THEN s ELSE ApplyOne(g[i - 1], entry[i], idx)
    BY <1>2, <1>4 DEF IsRun
  <2> QED BY <2>1
<1>6. IsRun(g, m, s, entry, idx)
  BY <1>5 DEF IsRun
<1> QED BY <1>6

(* FSM.Apply ends in the last of them.                                      *)
LEMMA ApplyEntryRuns ==
    ASSUME NEW s, NEW entry, NEW idx, Len(entry) \in Nat
    PROVE  \E f : IsRun(f, Len(entry), s, entry, idx) /\ ApplyEntry(s, entry, idx) = f[Len(entry)]
<1> DEFINE P(f) == f = [i \in 0 .. Len(entry) |-> IF i = 0 THEN s ELSE ApplyOne(f[i - 1], entry[i], idx)]
           after == CHOOSE f : P(f)
<1>1. \E f : P(f)
  <2>1. \E f : IsRun(f, Len(entry), s, entry, idx)
    BY RunExists
  <2> QED BY <2>1, Zenon DEF IsRun
<1>2. P(after)
  BY <1>1, Zenon
<1>3. ApplyEntry(s, entry, idx) = after[Len(entry)]
  BY DEF ApplyEntry
<1> QED BY Zenon, <1>2, <1>3 DEF IsRun

(* An entry of one command does what the command does.                      *)
LEMMA SingleEntry ==
    ASSUME NEW s, NEW entry, NEW idx, Len(entry) = 1
    PROVE  ApplyEntry(s, entry, idx) = ApplyOne(s, entry[1], idx)
<1>1. PICK f : IsRun(f, Len(entry), s, entry, idx) /\ ApplyEntry(s, entry, idx) = f[Len(entry)]
  <2>1. Len(entry) \in Nat
    OBVIOUS
  <2> QED BY <2>1, ApplyEntryRuns, Zenon
<1>2. f = [i \in 0 .. 1 |-> IF i = 0 THEN s ELSE ApplyOne(f[i - 1], entry[i], idx)]
  BY <1>1 DEF IsRun
<1>3. f[0] = s /\ f[1] = ApplyOne(f[1 - 1], entry[1], idx)
  BY <1>2
<1> QED BY <1>1, <1>3

(* FSM.Apply keeps the routes owned, whatever the entry holds: by the first *)
(* command of it that would not.                                            *)
LEMMA ApplyEntryOK ==
    ASSUME NEW s, StateOK(s), NEW entry, NEW idx \in Nat, Len(entry) \in Nat
    PROVE  StateOK(ApplyEntry(s, entry, idx))
<1>1. PICK f : IsRun(f, Len(entry), s, entry, idx) /\ ApplyEntry(s, entry, idx) = f[Len(entry)]
  BY ApplyEntryRuns
<1> DEFINE T == {m \in 0 .. Len(entry) : ~StateOK(f[m])}
<1> SUFFICES ASSUME T # {} PROVE FALSE
  BY <1>1
<1>0. T \subseteq Nat
  OBVIOUS
<1>2. PICK m \in T : \A y \in T : m <= y
  <2> HIDE DEF T
  <2> QED BY Zenon, <1>0, LeastElement
<1>3. m # 0
  BY <1>1 DEF IsRun
<1>4. StateOK(f[m - 1])
  BY <1>2, <1>3
<1>5. f[m] = ApplyOne(f[m - 1], entry[m], idx)
  BY <1>1, <1>3 DEF IsRun
<1> QED BY <1>4, <1>5, ApplyOneOK
=============================================================================
