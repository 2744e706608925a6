--------------------------- MODULE SchedulerProofs ---------------------------
(***************************************************************************)
(* What holds of placement and of the scheduler for every cluster, every   *)
(* set of manifests and every bound: placement returns eligible hosts,     *)
(* the stores keep their types, the rollout plan only moves forward, and   *)
(* without rebalancer moves no commit replaces two replicas in place.      *)
(***************************************************************************)
EXTENDS Scheduler, TLAPS, FiniteSetTheorems, WellFoundedInduction

-----------------------------------------------------------------------------
(* Placement                                                                *)

(* A nonempty set of naturals has a least element: the sorted host list and *)
(* the lowest count of pickPackHost exist.                                  *)
LEMMA LeastNatural ==
    ASSUME NEW S \in SUBSET Nat, S # {}
    PROVE  \E x \in S : \A y \in S : x <= y
<1>1. PICK x \in S : \A y \in S : ~(<<y, x>> \in OpToRel(<, Nat))
  BY WFMin, NatLessThanWellFounded
<1>2. \A y \in S : y < x => <<y, x>> \in OpToRel(<, Nat)
  BY DEF OpToRel
<1>3. \A y \in S : ~(y < x)
  BY <1>1, <1>2
<1>4. \A y \in S : x <= y
  BY <1>3
<1> QED BY <1>4

(* sortedEligible[r] is an eligible host.                                   *)
LEMMA NthHostIn ==
    ASSUME NEW E, E # {}, NEW r
    PROVE  NthHost(E, r) \in E
<1>1. \E h \in E : (\E g \in E : Rank(E, g) = r) => Rank(E, h) = r
  OBVIOUS
<1> QED BY <1>1 DEF NthHost

(* pickPackHost finds a host, and one of the eligible ones.                 *)
LEMMA PickPackHostIn ==
    ASSUME NEW E \in SUBSET Hosts, E # {}, NEW counts \in [Hosts -> Nat]
    PROVE  PickPackHost(E, counts) \in E
<1> DEFINE C == {counts[h] : h \in E}
<1>1. C \in SUBSET Nat /\ C # {}
  OBVIOUS
<1>2. PICK c \in C : \A d \in C : c <= d
  BY <1>1, LeastNatural, Zenon
<1> DEFINE T == {h \in E : counts[h] = c}
<1>3. T \in SUBSET Nat /\ T # {}
  BY <1>2, HostsAssumption, Zenon
<1>4. PICK h \in T : \A g \in T : h <= g
  BY <1>3, LeastNatural, Zenon
<1>5. \A g \in E : \/ counts[h] < counts[g]
                   \/ counts[h] = counts[g] /\ h <= g
  <2> TAKE g \in E
  <2>1. counts[g] \in Nat /\ counts[h] = c /\ c <= counts[g] /\ c \in Nat
    BY <1>1, <1>2, <1>4
  <2>2. CASE counts[g] = c
    BY <2>1, <2>2, <1>4
  <2>3. CASE counts[g] # c
    BY <2>1, <2>3
  <2> QED BY <2>2, <2>3
<1> QED BY <1>4, <1>5 DEF PickPackHost

(* EligibleHosts is a finite set of hosts.                                  *)
LEMMA EligibleHostsIn ==
    ASSUME NEW spec, NEW ready_ \in SUBSET Hosts
    PROVE  /\ EligibleHosts(spec, ready_) \in SUBSET Hosts
           /\ IsFiniteSet(EligibleHosts(spec, ready_))
<1>1. EligibleHosts(spec, ready_) \in SUBSET Hosts
  BY DEF EligibleHosts
<1> QED BY <1>1, FS_Subset, HostsAssumption

(* PlaceReplica never names a host outside the eligible set.                *)
THEOREM PlacementEligible ==
    ASSUME NEW spec, NEW E \in SUBSET Hosts, ~PlacementError(spec, E),
           NEW index, NEW counts \in [Hosts -> Nat]
    PROVE  PlaceReplica(spec, E, index, counts) \in E
<1>1. E # {}
  BY DEF PlacementError
<1>2. /\ NthHost(E, index % Cardinality(E)) \in E
      /\ PickPackHost(E, counts) \in E
      /\ PickSpreadHost(E, index) \in E
  BY <1>1, NthHostIn, PickPackHostIn DEF PickSpreadHost
<1> QED BY <1>2 DEF PlaceReplica

(* Two hosts of a finite set never have the same position in its order.     *)
LEMMA RankInjective ==
    ASSUME NEW E \in SUBSET Hosts, NEW g \in E, NEW h \in E,
           Rank(E, g) = Rank(E, h)
    PROVE  g = h
<1> DEFINE Below(x) == {y \in E : y < x}
<1>1. \A x, y \in E : x < y => Rank(E, x) # Rank(E, y)
  <2> SUFFICES ASSUME NEW x \in E, NEW y \in E, x < y
               PROVE  Cardinality(Below(x)) # Cardinality(Below(y))
    BY DEF Rank
  <2>1. Below(x) \in SUBSET Below(y) /\ x \in Below(y) /\ x \notin Below(x)
    <3>1. x \in Nat /\ y \in Nat /\ E \subseteq Nat
      BY HostsAssumption
    <3>2. Below(x) \in SUBSET Below(y)
      <4>1. \A z \in E : z < x => z < y
        BY <3>1
      <4> QED BY <4>1, Zenon
    <3>3. x \in Below(y)
      OBVIOUS
    <3>4. x \notin Below(x)
      BY <3>1
    <3> QED BY <3>2, <3>3, <3>4
  <2>2. IsFiniteSet(Below(y))
    <3>1. IsFiniteSet(E)
      BY FS_Subset, HostsAssumption, Zenon
    <3> QED BY <3>1, FS_Subset
  <2> HIDE DEF Below
  <2> QED BY <2>1, <2>2, FS_Subset
<1> QED BY <1>1, HostsAssumption

-----------------------------------------------------------------------------
(* The batch of a pass                                                      *)

(* There are finitely many replica ids.                                     *)
LEMMA IdsFinite == IsFiniteSet(Ids)
<1> DEFINE A == {ReplicaID(k) : k \in Idx}
           B == {ReplicaIDForHost(h) : h \in Hosts}
<1>1. IsFiniteSet(A)
  <2>1. [k \in Idx |-> ReplicaID(k)] \in Surjection(Idx, A)
    BY DEF Surjection
  <2>2. IsFiniteSet(Idx)
    BY FS_Interval, ConstantsAssumption DEF Idx
  <2> QED BY <2>1, <2>2, FS_Surjection
<1>2. IsFiniteSet(B)
  <2>1. [h \in Hosts |-> ReplicaIDForHost(h)] \in Surjection(Hosts, B)
    BY DEF Surjection
  <2> QED BY <2>1, HostsAssumption, FS_Surjection
<1> QED BY <1>1, <1>2, FS_Union, Zenon DEF Ids

(* The per-host counts that PACK placement compares are numbers.            *)
LEMMA CountsType ==
    ASSUME NEW cur
    PROVE  Counts(cur) \in [Hosts -> Nat]
<1> SUFFICES ASSUME NEW h \in Hosts
             PROVE  Cardinality({id \in Present(cur) : cur[id].host = h}) \in Nat
  BY DEF Counts
<1>1. {id \in Present(cur) : cur[id].host = h} \in SUBSET Ids
  BY DEF Present
<1> QED BY <1>1, IdsFinite, FS_Subset, FS_CardinalityType

(* The eligible nodes are finitely many.                                    *)
LEMMA EligibleType ==
    ASSUME NEW s \in Snapshot
    PROVE  /\ Eligible(s) \in SUBSET Hosts
           /\ IsFiniteSet(Eligible(s))
           /\ Cardinality(Eligible(s)) \in Nat
<1>1. s.ready \in SUBSET Hosts
  BY DEF Snapshot
<1> QED BY <1>1, EligibleHostsIn, FS_CardinalityType DEF Eligible

(* A plan has a number of steps.                                            *)
LEMMA TotalStepsType ==
    ASSUME NEW s \in Snapshot
    PROVE  TotalSteps(s) \in Nat
<1>1. s.dep.m.replicas \in Nat
  BY ConstantsAssumption DEF Snapshot, Deployment, Manifest
<1> QED BY <1>1, EligibleType DEF TotalSteps

(* Every replica of the desired set has an id of the service, an eligible   *)
(* host and an index; the index determines the id.                          *)
LEMMA WantedType ==
    ASSUME NEW s \in Snapshot, ~CannotPlace(s)
    PROVE  /\ \A d \in Wanted(s) : d.id \in Ids /\ d.host \in Eligible(s) /\ d.index \in Nat
           /\ \A d, e \in Wanted(s) : d.index = e.index => d.id = e.id
<1> DEFINE m == s.dep.m
           E == Eligible(s)
<1>1. /\ m.mode \in Modes \cup {"absent"}
      /\ m.replicas \in 1 .. MaxReplicas
  BY DEF Snapshot, Deployment, Manifest
<1>2. E \in SUBSET Hosts /\ IsFiniteSet(E)
  BY EligibleType
<1>3. CASE m.mode = "absent"
  BY <1>3 DEF Wanted
<1>4. CASE m.mode = "global"
  <2>1. \A h \in E : Rank(E, h) \in Nat
    <3> SUFFICES ASSUME NEW h \in E PROVE Cardinality({g \in E : g < h}) \in Nat
      BY DEF Rank
    <3>1. {g \in E : g < h} \in SUBSET E
      OBVIOUS
    <3> QED BY <3>1, <1>2, FS_Subset, FS_CardinalityType
  <2>2. Wanted(s) = {[id |-> ReplicaIDForHost(h), host |-> h, index |-> Rank(E, h)]
                       : h \in E}
    BY <1>4 DEF Wanted
  <2>3. \A h \in Hosts : ReplicaIDForHost(h) \in Ids
    BY DEF Ids
  <2>4. \A g, h \in E : Rank(E, g) = Rank(E, h) => g = h
    BY <1>2, RankInjective
  <2> QED BY <2>1, <2>2, <2>3, <2>4, <1>2
<1>5. CASE m.mode \notin {"absent", "global"}
  <2>1. ~PlacementError(m, E)
    BY <1>5 DEF CannotPlace
  <2>2. \A i : PlaceReplica(m, E, i, Counts(s.cur)) \in E
    BY <2>1, <1>2, CountsType, PlacementEligible
  <2>3. Wanted(s) = {[id |-> ReplicaID(i), index |-> i,
                      host |-> PlaceReplica(m, E, i, Counts(s.cur))]
                       : i \in 0 .. m.replicas - 1}
    BY <1>5 DEF Wanted
  <2>4. \A i \in 0 .. m.replicas - 1 : i \in Nat /\ ReplicaID(i) \in Ids
    BY <1>1, ConstantsAssumption DEF Ids, Idx
  <2> HIDE DEF m
  <2> QED BY <2>2, <2>3, <2>4
<1> QED BY <1>3, <1>4, <1>5

(* What the scheduler upserts is a replica row, on a host it may use.       *)
LEMMA DesiredReplicaType ==
    ASSUME NEW s \in Snapshot, NEW d, d.id \in Ids, d.host \in Hosts
    PROVE  DesiredReplica(s, d) \in Replica
<1>1. s.dep.m.image \in Images /\ s.dep.m.spec \in Specs
  BY DEF Snapshot, Deployment, Manifest
<1>2. StickyExistingHost(s, d.id) => s.cur[d.id].host \in Hosts
  BY EligibleType DEF StickyExistingHost
<1> QED BY <1>1, <1>2 DEF DesiredReplica, Replica

(* Nothing to submit is a command.                                          *)
LEMMA NoCommandType == NoCommand \in Command
BY DEF NoCommand, Command

(* A batch of rows to write and remove is one.                              *)
LEMMA UpdateType ==
    ASSUME NEW U \in [Ids -> Replica \cup {None}], NEW R \in SUBSET Ids
    PROVE  [NoCommand EXCEPT !.upserts = U, !.removes = R] \in Command
BY Zenon DEF NoCommand, Command

(* A pass submits a well-formed command, whatever it read.                  *)
LEMMA BatchType ==
    ASSUME NEW s \in Snapshot, NEW k
    PROVE  ReconcileBatch(s, k) \in Command
<1>1. CASE CannotPlace(s)
  BY <1>1, ZenonT(40) DEF ReconcileBatch, NoCommand, Command
<1>2. CASE ~CannotPlace(s)
  <2>1. \A d \in Wanted(s) : DesiredReplica(s, d) \in Replica
    BY <1>2, WantedType, EligibleType, DesiredReplicaType
  <2>2. BatchUpserts(s, k) \in [Ids -> Replica \cup {None}]
    BY <2>1 DEF BatchUpserts
  <2>3. BatchRemoves(s) \in SUBSET Ids
    BY DEF BatchRemoves, Present
  <2> QED BY <1>2, <2>2, <2>3, UpdateType, Zenon DEF ReconcileBatch
<1> QED BY <1>1, <1>2

(* The replicas a batch replaces in place, as the pass saw them.            *)
BatchFlips(s, k, id) ==
    /\ s.cur[id] # None
    /\ BatchUpserts(s, k)[id] # None
    /\ BatchUpserts(s, k)[id].host = s.cur[id].host
    /\ BatchUpserts(s, k)[id].image # s.cur[id].image

(* Whatever the rollout step is, the gate lets one such replica through.    *)
LEMMA BatchOneFlip ==
    ASSUME NEW s \in Snapshot, ~CannotPlace(s), NEW k \in Int,
           NEW i \in Ids, NEW j \in Ids, BatchFlips(s, k, i), BatchFlips(s, k, j)
    PROVE  i = j
<1> DEFINE Lets(d, id) == d \in Wanted(s) /\ d.id = id /\ ImageChange(s, d) /\ GateOpen(s, d, k)
<1>1. ASSUME NEW id \in Ids, BatchFlips(s, k, id)
      PROVE  \E d : Lets(d, id)
  <2> DEFINE up == {d \in Wanted(s) : Drifted(s, d) /\ GateOpen(s, d, k)}
             d  == CHOOSE e \in up : e.id = id
  <2>1. /\ \E e \in up : e.id = id
        /\ BatchUpserts(s, k)[id] = DesiredReplica(s, d)
    BY <1>1 DEF BatchFlips, BatchUpserts
  <2>2. d \in up /\ d.id = id
    BY <2>1
  <2> HIDE DEF up, d
  <2>a. DesiredReplica(s, d).image = s.dep.m.image
    BY DEF DesiredReplica
  <2>b. /\ DesiredReplica(s, d).host = s.cur[id].host
        /\ DesiredReplica(s, d).image # s.cur[id].image
    BY <1>1, <2>1 DEF BatchFlips
  <2>3. /\ DesiredReplica(s, d).host = s.cur[id].host
        /\ s.dep.m.image # s.cur[id].image
    BY <2>a, <2>b
  <2>4. IsRollingImageChange(s.cur, s.dep.m.image)
    BY <1>1 DEF IsRollingImageChange, BatchFlips, Present
  <2>5. ImageChange(s, d)
    BY <1>1, <2>2, <2>3, <2>4 DEF ImageChange, BatchFlips
  <2> QED BY <2>2, <2>5, SMTT(40) DEF up
<1>2. PICK d : Lets(d, i)
  BY <1>1
<1>3. PICK e : Lets(e, j)
  BY <1>1
<1>4. d.index \in Nat /\ e.index \in Nat
  BY <1>2, <1>3, WantedType
<1>5. d.index = e.index
  BY <1>2, <1>3, <1>4 DEF GateOpen
<1> QED BY <1>2, <1>3, <1>5, WantedType

-----------------------------------------------------------------------------
(* Type correctness                                                         *)

StoresOK ==
    /\ dep \in Deployment \cup {None}
    /\ plan \in Plan \cup {None}
    /\ desired \in [Ids -> Replica \cup {None}]
    /\ observed \in [Ids -> Observation]
    /\ ctr \in [Ids -> [Hosts -> Container \cup {None}]]

(* Beyond its types: a pass that waits for a plan update or a batch has its *)
(* snapshot, and what it waits to commit is the batch of that snapshot.     *)
PassOK ==
    /\ pc \in {"idle", "abort", "read", "start", "advance", "reread",
               "complete", "commit"}
    /\ cmd \in Command
    /\ snap \in Snapshot \cup {None}
    /\ step \in Int /\ step >= -1
    /\ pc \in {"start", "advance", "reread", "complete", "commit"} => snap \in Snapshot
    /\ pc = "commit" => cmd = ReconcileBatch(snap, step)
    /\ pc # "commit" => cmd.upserts = NoCommand.upserts /\ cmd.removes = {}

RestOK ==
    /\ ready \in SUBSET Hosts
    /\ move \in [id : Ids, rep : Replica] \cup {None}
    /\ calls \in 0 .. MaxCalls /\ moves \in 0 .. MaxMoves
    /\ faults \in 0 .. MaxFaults

(* Applying a well-formed command leaves well-formed rows.                  *)
LEMMA FSMApplyType ==
    ASSUME StoresOK, NEW c \in Command, FSMApply(c)
    PROVE  StoresOK'
<1> USE DEF StoresOK, FSMApply, Command
<1>1. dep' \in Deployment \cup {None}
  BY Zenon DEF Deployment
<1>2. plan' \in Plan \cup {None}
  OBVIOUS
<1>3. desired' \in [Ids -> Replica \cup {None}]
  OBVIOUS
<1>4. observed' \in [Ids -> Observation]
  BY DEF Observation
<1>5. ctr' \in [Ids -> [Hosts -> Container \cup {None}]]
  <2>1. \A x \in Container : [x EXCEPT !.current = FALSE] \in Container
    BY Zenon DEF Container
  <2>2. ASSUME NEW id \in Ids, NEW h \in Hosts
        PROVE  (IF ctr[id][h] # None /\ c.upserts[id] # None
                THEN [ctr[id][h] EXCEPT !.current = FALSE] ELSE ctr[id][h])
                  \in Container \cup {None}
    <3>1. ctr[id][h] \in Container \cup {None}
      BY <2>2
    <3> QED BY <2>1, <3>1
  <2> QED BY <2>2
<1> QED BY <1>1, <1>2, <1>3, <1>4, <1>5

(* A pass that ends leaves nothing behind.                                  *)
LEMMA IdlePass ==
    ASSUME GoIdle
    PROVE  PassOK' /\ cmd' = NoCommand /\ pc' = "idle"
BY NoCommandType DEF GoIdle, PassOK, NoCommand

(* The batch a pass ends with is a well-formed command.                     *)
LEMMA ConcludePass ==
    ASSUME NEW s \in Snapshot, NEW k \in Int, k >= -1, Conclude(s, k)
    PROVE  PassOK' /\ cmd'.plan = None /\ pc' \in {"idle", "commit"}
<1>1. CASE ReconcileBatch(s, k) = NoCommand
  <2>1. GoIdle
    BY <1>1 DEF Conclude
  <2> QED BY <2>1, IdlePass DEF NoCommand
<1>2. CASE ReconcileBatch(s, k) # NoCommand
  <2>1. /\ pc' = "commit" /\ cmd' = ReconcileBatch(s, k)
        /\ snap' = s /\ step' = k
    BY <1>2 DEF Conclude, Submit
  <2>2. cmd' \in Command
    BY <2>1, BatchType
  <2>3. cmd'.plan = None
    BY <2>1 DEF ReconcileBatch, NoCommand
  <2> QED BY <2>1, <2>2, <2>3 DEF PassOK
<1> QED BY <1>1, <1>2

(* What a pass reads is a well-formed snapshot.                             *)
LEMMA ViewType ==
    ASSUME StoresOK, RestOK, dep # None
    PROVE  View \in Snapshot
BY DEF StoresOK, RestOK, View, Snapshot

(* The stores stay typed when a step leaves them alone.                     *)
LEMMA SameStores == StoresOK /\ UNCHANGED fsm => StoresOK'
BY DEF StoresOK, fsm

(* So does the pass.                                                        *)
LEMMA SamePass == PassOK /\ UNCHANGED pass => PassOK'
BY DEF PassOK, pass

(* So does the rest.                                                        *)
LEMMA SameRest == RestOK /\ UNCHANGED <<ready, move, bounds>> => RestOK'
BY DEF RestOK, bounds

(* Faults are counted up to their bound.                                    *)
LEMMA FaultType ==
    ASSUME RestOK, Fault
    PROVE  faults' \in 0 .. MaxFaults
BY ConstantsAssumption DEF RestOK, Fault

(* A pass that submits a plan update keeps its snapshot beside it.          *)
LEMMA SubmitPlanPass ==
    ASSUME NEW c \in Command, c.upserts = NoCommand.upserts, c.removes = {},
           NEW at \in {"start", "advance", "complete"},
           Submit(c, at), snap' \in Snapshot, PassOK, UNCHANGED step
    PROVE  PassOK'
BY DEF Submit, PassOK

(* A plan update is a command that writes no replica.                       *)
LEMMA PlanUpdateType ==
    ASSUME NEW p \in Plan
    PROVE  /\ PlanUpdate(p) \in Command
           /\ PlanUpdate(p).upserts = NoCommand.upserts
           /\ PlanUpdate(p).removes = {}
           /\ PlanUpdate(p).plan = p
           /\ PlanUpdate(p).rollback = 0
BY Zenon DEF PlanUpdate, NoCommand, Command

(* A completed plan is a plan.                                              *)
LEMMA CompletePlanType ==
    ASSUME NEW p \in Plan
    PROVE  [p EXCEPT !.state = "completed", !.expired = FALSE] \in Plan
BY ZenonT(40) DEF Plan

(* So is one that is a step further.                                        *)
LEMMA AdvancePlanType ==
    ASSUME NEW p \in Plan
    PROVE  [p EXCEPT !.step = @ + 1, !.expired = FALSE] \in Plan
<1>1. \A n \in Nat : [p EXCEPT !.step = n, !.expired = FALSE] \in Plan
  BY ZenonT(40) DEF Plan
<1>2. p.step + 1 \in Nat
  BY DEF Plan
<1> QED BY <1>1, <1>2, Zenon

(* A pass resumes in a well-formed state, whether its apply failed or not.  *)
LEMMA AfterApplyPass ==
    ASSUME PassOK, Waiting, NEW ok \in BOOLEAN, AfterApply(ok)
    PROVE  PassOK'
<1>1. CASE pc = "abort"
  <2>1. CASE ok
    BY <1>1, <2>1, IdlePass DEF AfterApply
  <2>2. CASE ~ok
    <3>1. pc' = "read" /\ cmd' = NoCommand /\ UNCHANGED <<snap, step>>
      BY <1>1, <2>2 DEF AfterApply, Submit
    <3> QED BY <3>1, NoCommandType DEF PassOK, NoCommand
  <2> QED BY <2>1, <2>2
<1>2. CASE pc = "start"
  <2>1. Conclude(snap, IF ok THEN 0 ELSE -1)
    BY <1>2 DEF AfterApply
  <2>2. snap \in Snapshot
    BY <1>2 DEF PassOK
  <2> QED BY <2>1, <2>2, ConcludePass
<1>3. CASE pc = "advance"
  <2>1. snap \in Snapshot
    BY <1>3 DEF PassOK
  <2>2. CASE ok
    <3>1. pc' = "reread" /\ cmd' = NoCommand /\ UNCHANGED <<snap, step>>
      BY <1>3, <2>2 DEF AfterApply, Submit
    <3> QED BY <3>1, <2>1, NoCommandType DEF PassOK, NoCommand
  <2>3. CASE ~ok
    BY <1>3, <2>1, <2>3, ConcludePass DEF AfterApply
  <2> QED BY <2>2, <2>3
<1>4. CASE pc = "complete"
  <2>1. snap \in Snapshot /\ Conclude(snap, -1)
    BY <1>4 DEF AfterApply, PassOK
  <2> QED BY <2>1, ConcludePass
<1>5. CASE pc = "commit"
  BY <1>5, IdlePass DEF AfterApply
<1> QED BY <1>1, <1>2, <1>3, <1>4, <1>5 DEF Waiting

(* The initial state is type correct.                                       *)
LEMMA TypeInit == Init => StoresOK /\ PassOK /\ RestOK
<1> SUFFICES ASSUME Init PROVE StoresOK /\ PassOK /\ RestOK
  OBVIOUS
<1>1. StoresOK
  BY DEF Init, StoresOK, Observation
<1>2. PassOK
  BY NoCommandType DEF Init, PassOK, NoCommand
<1>3. RestOK
  BY ConstantsAssumption DEF Init, RestOK
<1> QED BY <1>1, <1>2, <1>3

(* The actions of the leader's pass.                                        *)
LEMMA TypePass ==
    ASSUME StoresOK, PassOK, RestOK, PassStep
    PROVE  StoresOK' /\ PassOK' /\ RestOK'
<1>1. CASE AbortTimedOut
  <2> DEFINE p == [plan EXCEPT !.state = "aborted", !.expired = FALSE]
             r == IF dep = None THEN 0 ELSE dep.previous
             c == [NoCommand EXCEPT !.plan = p, !.rollback = r]
  <2>1. p \in Plan
    BY <1>1, Zenon DEF AbortTimedOut, TimedOut, InProgress, StoresOK, Plan
  <2>2. r \in Nat
    BY DEF StoresOK, Deployment
  <2>3. c \in Command /\ c.upserts = NoCommand.upserts /\ c.removes = {}
    <3> HIDE DEF p, r
    <3> QED BY <2>1, <2>2, ZenonT(40) DEF NoCommand, Command
  <2>4. pc' = "abort" /\ cmd' = c /\ UNCHANGED <<fsm, ready, snap, step, move, bounds>>
    BY <1>1 DEF AbortTimedOut, Submit
  <2> HIDE DEF c
  <2>5. PassOK'
    BY <2>3, <2>4 DEF PassOK
  <2> QED BY <2>4, <2>5, SameStores, SameRest
<1>2. CASE NoDeployment
  BY <1>2, IdlePass, SameStores, SameRest DEF NoDeployment
<1>3. CASE ReconcileDirect
  <2>1. View \in Snapshot
    BY <1>3, ViewType DEF ReconcileDirect
  <2> QED BY <1>3, <2>1, ConcludePass, SameStores, SameRest DEF ReconcileDirect
<1>4. CASE RolloutTerminal
  <2>1. View \in Snapshot
    BY <1>4, ViewType DEF RolloutTerminal, Drives
  <2> QED BY <1>4, <2>1, ConcludePass, SameStores, SameRest DEF RolloutTerminal
<1>5. CASE RolloutStart
  <2> DEFINE p == [state |-> "in_progress", target |-> dep.applied, step |-> 0,
                   total |-> TotalSteps(View), expired |-> FALSE]
  <2>1. View \in Snapshot /\ dep # None
    BY <1>5, ViewType DEF RolloutStart, Drives
  <2>2. dep.applied \in Nat
    BY <2>1 DEF StoresOK, Deployment
  <2>3. p \in Plan
    BY <2>1, <2>2, TotalStepsType DEF Plan
  <2>4. /\ Submit(PlanUpdate(p), "start") /\ snap' = View
        /\ UNCHANGED <<fsm, ready, step, move, bounds>>
    BY <1>5 DEF RolloutStart
  <2> HIDE DEF p
  <2>5. PassOK'
    BY <2>1, <2>3, <2>4, PlanUpdateType, SubmitPlanPass
  <2> QED BY <2>4, <2>5, SameStores, SameRest
<1>6. CASE RolloutComplete
  <2>1. View \in Snapshot /\ plan \in Plan
    BY <1>6, ViewType DEF RolloutComplete, Drives, InProgress, StoresOK
  <2>2. /\ CompletePlan /\ snap' = View
        /\ UNCHANGED <<fsm, ready, step, move, bounds>>
    BY <1>6, SMTT(40) DEF RolloutComplete
  <2>3. PassOK'
    BY <2>1, <2>2, CompletePlanType, PlanUpdateType, SubmitPlanPass, ZenonT(40) DEF CompletePlan
  <2> QED BY <2>2, <2>3, SameStores, SameRest
<1>7. CASE RolloutWait
  <2>1. View \in Snapshot /\ plan \in Plan
    BY <1>7, ViewType DEF RolloutWait, Drives, InProgress, StoresOK
  <2>2. plan.step \in Int /\ plan.step >= -1
    BY <2>1 DEF Plan
  <2> QED BY <1>7, <2>1, <2>2, ConcludePass, SameStores, SameRest, SMTT(40) DEF RolloutWait
<1>8. CASE RolloutAdvance
  <2> DEFINE p == [plan EXCEPT !.step = @ + 1, !.expired = FALSE]
             c == IF NotRunning > 1 THEN NoCommand ELSE PlanUpdate(p)
  <2>1. View \in Snapshot /\ plan \in Plan
    BY <1>8, ViewType, SMTT(40) DEF RolloutAdvance, Drives, InProgress, StoresOK
  <2>2. p \in Plan
    BY <2>1, AdvancePlanType, ZenonT(40)
  <2>3. c \in Command /\ c.upserts = NoCommand.upserts /\ c.removes = {}
    <3>1. NoCommand.removes = {}
      BY DEF NoCommand
    <3> HIDE DEF p
    <3> QED BY <2>2, <3>1, NoCommandType, PlanUpdateType
  <2>4. /\ Submit(c, "advance") /\ snap' = View
        /\ UNCHANGED <<fsm, ready, step, move, bounds>>
    BY <1>8 DEF RolloutAdvance
  <2> HIDE DEF c
  <2>5. PassOK'
    BY <2>1, <2>3, <2>4, SubmitPlanPass
  <2> QED BY <2>4, <2>5, SameStores, SameRest
<1>9. CASE RolloutReread
  <2>1. snap \in Snapshot
    BY <1>9 DEF RolloutReread, PassOK
  <2>2. CASE plan = None
    BY <1>9, <2>1, <2>2, ConcludePass, SameStores, SameRest DEF RolloutReread
  <2>3. CASE plan # None /\ plan.step >= plan.total
    <3>1. plan \in Plan
      BY <2>3 DEF StoresOK
    <3>2. ~(plan.step < plan.total)
      BY <3>1, <2>3 DEF Plan
    <3>3. CompletePlan /\ UNCHANGED <<snap, step>> /\ UNCHANGED <<fsm, ready, move, bounds>>
      BY <1>9, <2>3, <3>2, ZenonT(40) DEF RolloutReread
    <3>4. PassOK'
      BY <2>1, <3>1, <3>3, CompletePlanType, PlanUpdateType, SubmitPlanPass, Zenon DEF CompletePlan
    <3> QED BY <3>3, <3>4, SameStores, SameRest
  <2>4. CASE plan # None /\ ~(plan.step >= plan.total)
    <3>1. plan \in Plan
      BY <2>4 DEF StoresOK
    <3>2. plan.step < plan.total /\ plan.step \in Int /\ plan.step >= -1
      BY <3>1, <2>4 DEF Plan
    <3>3. Conclude(snap, plan.step) /\ UNCHANGED <<fsm, ready, move, bounds>>
      BY <1>9, <2>4, <3>2 DEF RolloutReread
    <3> QED BY <2>1, <3>2, <3>3, ConcludePass, SameStores, SameRest
  <2> QED BY <2>2, <2>3, <2>4
<1>10. CASE ApplyCommits
  <2>1. Waiting /\ FSMApply(cmd) /\ AfterApply(TRUE) /\ UNCHANGED <<ready, move, bounds>>
    BY <1>10, Zenon DEF ApplyCommits
  <2>2. cmd \in Command
    BY DEF PassOK
  <2> QED BY <2>1, <2>2, FSMApplyType, AfterApplyPass, SameRest, ZenonT(40)
<1> QED BY <1>1, <1>2, <1>3, <1>4, <1>5, <1>6, <1>7, <1>8, <1>9, <1>10 DEF PassStep

(* The Deploy API, the rebalancer, the hosts, time and nodes.               *)
LEMMA TypeStep ==
    ASSUME StoresOK, PassOK, RestOK, [Next]_vars
    PROVE  StoresOK' /\ PassOK' /\ RestOK'
<1>1. ASSUME NEW m \in Manifests, DeployApply(m)
      PROVE  StoresOK' /\ PassOK' /\ RestOK'
  <2>1. m \in Manifest
    BY ConstantsAssumption
  <2>2. dep' \in Deployment
    BY <1>1, <2>1 DEF DeployApply, StoresOK, Deployment
  <2>3. StoresOK'
    BY <1>1, <2>2 DEF DeployApply, StoresOK
  <2>4. RestOK'
    BY <1>1, ConstantsAssumption DEF DeployApply, RestOK
  <2> QED BY <1>1, <2>3, <2>4, SamePass DEF DeployApply
<1>2. CASE DeployRollback
  <2>1. dep' \in Deployment
    BY <1>2, ZenonT(40) DEF DeployRollback, StoresOK, Deployment
  <2>2. StoresOK'
    BY <1>2, <2>1 DEF DeployRollback, StoresOK
  <2>3. RestOK'
    BY <1>2, ConstantsAssumption DEF DeployRollback, RestOK
  <2> QED BY <1>2, <2>2, <2>3, SamePass DEF DeployRollback
<1>3. CASE DeployDelete
  <2>1. StoresOK'
    BY <1>3 DEF DeployDelete, StoresOK, Observation
  <2> QED BY <1>3, <2>1, SamePass, SameRest DEF DeployDelete
<1>4. CASE PassStep
  BY <1>4, TypePass
<1>5. CASE ApplyFails
  <2>1. /\ Waiting /\ Fault /\ (FSMApply(cmd) \/ UNCHANGED fsm) /\ AfterApply(FALSE)
        /\ UNCHANGED <<ready, move, calls, moves>>
    BY <1>5, ZenonT(40) DEF ApplyFails
  <2>2. cmd \in Command
    BY DEF PassOK
  <2>3. StoresOK'
    BY <2>1, <2>2, FSMApplyType, SameStores
  <2>4. PassOK'
    BY <2>1, AfterApplyPass, ZenonT(40)
  <2>5. RestOK'
    BY <2>1, FaultType DEF RestOK
  <2> QED BY <2>3, <2>4, <2>5
<1>6. CASE LeaderChange
  <2>1. /\ Fault /\ (FSMApply(cmd) \/ UNCHANGED fsm) /\ GoIdle
        /\ move' = None /\ UNCHANGED <<ready, calls, moves>>
    BY <1>6 DEF LeaderChange
  <2>2. cmd \in Command
    BY DEF PassOK
  <2>3. StoresOK'
    BY <2>1, <2>2, FSMApplyType, SameStores
  <2>4. RestOK'
    BY <2>1, FaultType DEF RestOK
  <2> QED BY <2>1, <2>3, <2>4, IdlePass
<1>7. ASSUME NEW id \in Ids, NEW h \in Hosts, PickMove(id, h)
      PROVE  StoresOK' /\ PassOK' /\ RestOK'
  <2>1. desired[id] \in Replica
    BY <1>7 DEF PickMove, StoresOK
  <2>2. [desired[id] EXCEPT !.host = h] \in Replica
    BY <2>1 DEF Replica
  <2>3. move' \in [id : Ids, rep : Replica]
    BY <1>7, <2>2 DEF PickMove
  <2>4. RestOK'
    BY <1>7, <2>3, ConstantsAssumption DEF PickMove, RestOK
  <2> QED BY <1>7, <2>4, SameStores, SamePass DEF PickMove
<1>8. CASE CommitMove
  <2> DEFINE c == [NoCommand EXCEPT !.upserts[move.id] = move.rep]
  <2>1. move.id \in Ids /\ move.rep \in Replica
    BY <1>8 DEF CommitMove, RestOK
  <2>2. c \in Command
    BY <2>1, Zenon DEF NoCommand, Command
  <2>3. FSMApply(c) /\ move' = None /\ UNCHANGED <<ready, pass, bounds>>
    BY <1>8 DEF CommitMove
  <2>4. RestOK'
    BY <2>3 DEF RestOK, bounds
  <2> HIDE DEF c
  <2> QED BY <2>2, <2>3, <2>4, FSMApplyType, SamePass
<1>9. ASSUME NEW id \in Ids, NEW h \in Hosts, RuntimeStep(id, h) \/ Crash(id, h)
      PROVE  StoresOK' /\ PassOK' /\ RestOK'
  <2>1. \A x \in Container : /\ [x EXCEPT !.healthy = TRUE] \in Container
                             /\ [x EXCEPT !.healthy = FALSE] \in Container
    BY ZenonT(40) DEF Container
  <2>2. [current |-> TRUE, healthy |-> FALSE] \in Container
    BY DEF Container
  <2>3. /\ ctr[id] \in [Hosts -> Container \cup {None}]
        /\ ctr[id][h] \in Container \cup {None}
    BY DEF StoresOK
  <2>4. CASE StopContainer(id, h) \/ StartContainer(id, h)
    <3>1. \E x \in Container \cup {None} : ctr' = [ctr EXCEPT ![id][h] = x]
      BY <2>2, <2>4, ZenonT(40) DEF StopContainer, StartContainer
    <3>2. StoresOK'
      BY <2>4, <3>1 DEF StopContainer, StartContainer, StoresOK
    <3> QED BY <2>4, <3>2, SamePass, SameRest DEF StopContainer, StartContainer
  <2>5. CASE ReportStarting(id, h) \/ Report(id, h)
    <3>1. StoresOK'
      BY <2>5 DEF ReportStarting, Report, StoresOK, Observation
    <3> QED BY <2>5, <3>1, SamePass, SameRest DEF ReportStarting, Report
  <2>6. CASE BecomeHealthy(id, h)
    <3>1. ctr' = [ctr EXCEPT ![id][h] = [ctr[id][h] EXCEPT !.healthy = TRUE]]
      BY <2>6 DEF BecomeHealthy
    <3>2. [ctr[id][h] EXCEPT !.healthy = TRUE] \in Container
      BY <2>1, <2>3, <2>6, ZenonT(40) DEF BecomeHealthy
    <3>3. StoresOK'
      BY <2>6, <3>1, <3>2 DEF BecomeHealthy, StoresOK
    <3> QED BY <2>6, <3>3, SamePass, SameRest DEF BecomeHealthy
  <2>7. CASE Crash(id, h)
    <3>1. ctr' = [ctr EXCEPT ![id][h] = [ctr[id][h] EXCEPT !.healthy = FALSE]]
      BY <2>7 DEF Crash
    <3>2. [ctr[id][h] EXCEPT !.healthy = FALSE] \in Container
      BY <2>1, <2>3, <2>7, ZenonT(40) DEF Crash, Serves
    <3>3. StoresOK'
      BY <2>7, <3>1, <3>2 DEF Crash, StoresOK
    <3>4. RestOK'
      BY <2>7, FaultType DEF Crash, RestOK
    <3> QED BY <2>7, <3>3, <3>4, SamePass DEF Crash
  <2> QED BY <1>9, <2>4, <2>5, <2>6, <2>7 DEF RuntimeStep
<1>10. CASE StepTimeoutPasses
  <2>1. plan \in Plan
    BY <1>10 DEF StepTimeoutPasses, InProgress, StoresOK
  <2>2. \A p \in Plan : [p EXCEPT !.expired = TRUE] \in Plan
    BY ZenonT(40) DEF Plan
  <2>3. StoresOK'
    BY <1>10, <2>1, <2>2 DEF StepTimeoutPasses, StoresOK
  <2>4. faults' \in 0 .. MaxFaults
    BY <1>10, FaultType DEF StepTimeoutPasses, RestOK
  <2>5. RestOK'
    BY <1>10, <2>4 DEF StepTimeoutPasses, RestOK
  <2> QED BY <1>10, <2>3, <2>5, SamePass DEF StepTimeoutPasses
<1>11. ASSUME NEW id \in Ids, HealthGoesStale(id)
       PROVE  StoresOK' /\ PassOK' /\ RestOK'
  <2>1. StoresOK'
    BY <1>11 DEF HealthGoesStale, StoresOK, Observation
  <2>2. RestOK'
    BY <1>11, FaultType DEF HealthGoesStale, RestOK
  <2> QED BY <1>11, <2>1, <2>2, SamePass DEF HealthGoesStale
<1>12. ASSUME NEW h \in Hosts, NodeStatusChange(h)
       PROVE  StoresOK' /\ PassOK' /\ RestOK'
  <2>1. RestOK'
    BY <1>12, FaultType DEF NodeStatusChange, RestOK
  <2> QED BY <1>12, <2>1, SameStores, SamePass DEF NodeStatusChange
<1>13. CASE UNCHANGED vars
  <2>1. UNCHANGED fsm /\ UNCHANGED pass /\ UNCHANGED <<ready, move, bounds>>
    BY <1>13 DEF vars, fsm, pass, bounds
  <2> QED BY <2>1, SameStores, SamePass, SameRest
<1> QED BY <1>1, <1>2, <1>3, <1>4, <1>5, <1>6, <1>7, <1>8, <1>9, <1>10, <1>11,
           <1>12, <1>13, SMTT(40) DEF Next

(* The stores, the pass and the rebalancer keep their types, for every      *)
(* cluster and every interleaving.                                          *)
THEOREM TypeCorrect == Spec => []TypeOK
<1>1. Spec => [](StoresOK /\ PassOK /\ RestOK)
  BY TypeInit, TypeStep, PTL DEF Spec
<1>2. StoresOK /\ PassOK /\ RestOK => TypeOK
  BY DEF StoresOK, PassOK, RestOK, TypeOK
<1> QED BY <1>1, <1>2, PTL

-----------------------------------------------------------------------------
(* The rollout plan                                                         *)

(* What makes PlanForward inductive: the update the pass waits for is a     *)
(* legal move of the plan as it is now, although the API may have removed   *)
(* the plan, and time may have marked it expired, since the pass read it.   *)
PlanInv ==
    /\ plan # None => plan.step <= plan.total
    /\ cmd.plan # None => cmd.plan.step <= cmd.plan.total
    /\ cmd.plan # None /\ plan # None => PlanMoves(plan, cmd.plan)
    /\ pc \in {"advance", "reread"} /\ plan # None => plan.state = "in_progress"
    /\ pc = "advance" /\ cmd.plan # None => cmd.plan.state = "in_progress"

PlanMove == plan # None /\ plan' # None => PlanMoves(plan, plan')

(* A step that leaves the plan alone and clears or keeps the command.       *)
LEMMA PlanKept ==
    ASSUME PlanInv, UNCHANGED plan, cmd'.plan = None \/ UNCHANGED cmd,
           pc' \notin {"advance", "reread"} \/ UNCHANGED pc
    PROVE  PlanInv'
BY DEF PlanInv

(* A plan left alone has not moved back.                                    *)
LEMMA PlanSame ==
    ASSUME StoresOK, PlanInv, UNCHANGED plan
    PROVE  PlanMove
<1> SUFFICES ASSUME plan # None PROVE PlanMoves(plan, plan)
  BY SMTT(40) DEF PlanMove
<1>1. plan \in Plan /\ plan.step <= plan.total
  BY DEF StoresOK, PlanInv
<1> QED BY <1>1 DEF PlanMoves, Plan

(* A resumed pass submits no plan update at once.                           *)
LEMMA AfterApplyCommand ==
    ASSUME PassOK, Waiting, NEW ok \in BOOLEAN, AfterApply(ok)
    PROVE  /\ cmd'.plan = None
           /\ pc' \in {"idle", "commit", "read"} \/ (pc = "advance" /\ pc' = "reread")
<1>1. NoCommand.plan = None
  BY DEF NoCommand
<1>2. pc \in {"start", "advance", "complete"} => snap \in Snapshot
  BY DEF PassOK
<1>3. CASE pc = "abort"
  BY <1>1, <1>3, IdlePass DEF AfterApply, Submit
<1>4. CASE pc = "start"
  BY <1>2, <1>4, ConcludePass DEF AfterApply
<1>5. CASE pc = "advance"
  BY <1>1, <1>2, <1>5, ConcludePass DEF AfterApply, Submit
<1>6. CASE pc = "complete"
  BY <1>2, <1>6, ConcludePass DEF AfterApply
<1>7. CASE pc = "commit"
  BY <1>1, <1>7, IdlePass DEF AfterApply
<1> QED BY <1>3, <1>4, <1>5, <1>6, <1>7 DEF Waiting

(* The command the pass waits for is applied, or is not.                    *)
LEMMA PlanApplied ==
    ASSUME StoresOK, PassOK, PlanInv, FSMApply(cmd) \/ UNCHANGED fsm, cmd'.plan = None,
           pc' \in {"idle", "commit", "read"} \/ (pc = "advance" /\ pc' = "reread")
    PROVE  PlanInv' /\ PlanMove
<1>1. CASE plan' = plan
  <2>1. PlanMove
    BY <1>1, PlanSame, SMTT(40)
  <2>2. PlanInv'
    BY <1>1 DEF PlanInv
  <2> QED BY <2>1, <2>2
<1>2. CASE cmd.plan # None /\ plan' = cmd.plan
  <2>1. PlanMove
    BY <1>2 DEF PlanMove, PlanInv
  <2>2. PlanInv'
    BY <1>2 DEF PlanInv
  <2> QED BY <2>1, <2>2
<1> QED BY <1>1, <1>2 DEF FSMApply, fsm

(* Aborting is a legal move of a plan in progress.                          *)
LEMMA AbortMoves ==
    ASSUME NEW p \in Plan, p.state = "in_progress", p.step <= p.total
    PROVE  LET q == [p EXCEPT !.state = "aborted", !.expired = FALSE]
           IN  q.step <= q.total /\ PlanMoves(p, q)
BY DEF PlanMoves, Plan

(* So is completing it after its last step.                                 *)
LEMMA CompleteMoves ==
    ASSUME NEW p \in Plan, p.state = "in_progress", p.step <= p.total, p.step >= p.total
    PROVE  LET q == [p EXCEPT !.state = "completed", !.expired = FALSE]
           IN  q.step <= q.total /\ PlanMoves(p, q)
BY DEF PlanMoves, Plan

(* So is advancing by one step.                                             *)
LEMMA AdvanceMoves ==
    ASSUME NEW p \in Plan, p.state = "in_progress", p.step < p.total
    PROVE  LET q == [p EXCEPT !.step = @ + 1, !.expired = FALSE]
           IN  q.step <= q.total /\ q.state = "in_progress" /\ PlanMoves(p, q)
BY DEF PlanMoves, Plan

(* So is marking it expired.                                                *)
LEMMA ExpireMoves ==
    ASSUME NEW p \in Plan, p.state = "in_progress", p.step <= p.total
    PROVE  LET q == [p EXCEPT !.expired = TRUE]
           IN  /\ q.step <= q.total /\ q.state = "in_progress" /\ PlanMoves(p, q)
               /\ \A r : PlanMoves(p, r) => PlanMoves(q, r)
BY DEF PlanMoves, Plan

(* Every step of the pass moves the plan forward and keeps PlanInv.         *)
LEMMA PlanPass ==
    ASSUME StoresOK, PassOK, RestOK, PlanInv, PassStep
    PROVE  PlanInv' /\ PlanMove
<1>0. NoCommand.plan = None
  BY DEF NoCommand
<1>1. CASE AbortTimedOut
  <2> DEFINE p == [plan EXCEPT !.state = "aborted", !.expired = FALSE]
  <2>1. plan \in Plan /\ plan.state = "in_progress" /\ plan.step <= plan.total
    BY <1>1 DEF AbortTimedOut, TimedOut, InProgress, StoresOK, PlanInv
  <2>2. UNCHANGED plan /\ pc' = "abort" /\ cmd'.plan = p
    BY <1>1, SMTT(40) DEF AbortTimedOut, Submit, fsm, NoCommand
  <2>3. p.step <= p.total /\ PlanMoves(plan, p)
    BY <2>1, AbortMoves, ZenonT(40)
  <2> HIDE DEF p
  <2>4. PlanInv'
    BY <2>1, <2>2, <2>3 DEF PlanInv
  <2> QED BY <2>2, <2>4, PlanSame
<1>2. CASE NoDeployment
  BY <1>0, <1>2, IdlePass, PlanKept, PlanSame, SMTT(40) DEF NoDeployment, fsm
<1>3. CASE ReconcileDirect
  <2>1. View \in Snapshot
    BY <1>3, ViewType DEF ReconcileDirect
  <2> QED BY <1>3, <2>1, ConcludePass, PlanKept, PlanSame DEF ReconcileDirect, fsm
<1>4. CASE RolloutTerminal
  <2>1. View \in Snapshot
    BY <1>4, ViewType DEF RolloutTerminal, Drives
  <2> QED BY <1>4, <2>1, ConcludePass, PlanKept, PlanSame DEF RolloutTerminal, fsm
<1>5. CASE RolloutStart
  <2> DEFINE p == [state |-> "in_progress", target |-> dep.applied, step |-> 0,
                   total |-> TotalSteps(View), expired |-> FALSE]
  <2>1. TotalSteps(View) \in Nat
    BY <1>5, ViewType, TotalStepsType DEF RolloutStart, Drives
  <2>2. UNCHANGED plan /\ pc' = "start" /\ cmd'.plan = p
    BY <1>5 DEF RolloutStart, Submit, fsm, PlanUpdate, NoCommand
  <2>3. p.step <= p.total
    BY <2>1
  <2>4. plan # None => plan.state # "in_progress" /\ PlanMoves(plan, p)
    BY <1>5, SMTT(40) DEF RolloutStart, InProgress, PlanMoves
  <2> HIDE DEF p
  <2>5. PlanInv'
    BY <2>2, <2>3, <2>4 DEF PlanInv
  <2> QED BY <2>2, <2>5, PlanSame, SMTT(40)
<1>6. CASE RolloutComplete \/ (RolloutReread /\ plan # None /\ plan.step >= plan.total)
  <2> DEFINE p == [plan EXCEPT !.state = "completed", !.expired = FALSE]
  <2>1. plan \in Plan /\ plan.state = "in_progress"
    BY <1>6, ZenonT(40) DEF RolloutComplete, RolloutReread, InProgress, StoresOK, PlanInv
  <2>2. plan.step <= plan.total /\ plan.step >= plan.total
    BY <1>6, <2>1 DEF RolloutComplete, InProgress, PlanInv
  <2>3. ~(plan.step < plan.total) /\ plan # None
    BY <1>6, <2>1, <2>2 DEF Plan, RolloutComplete, InProgress
  <2>4. CompletePlan /\ UNCHANGED plan
    BY <1>6, <2>2, <2>3, ZenonT(40) DEF RolloutComplete, RolloutReread, fsm
  <2>5. pc' = "complete" /\ cmd'.plan = p
    BY <2>4 DEF CompletePlan, Submit, PlanUpdate, NoCommand
  <2>6. p.step <= p.total /\ PlanMoves(plan, p)
    BY <2>1, <2>2, CompleteMoves, Zenon
  <2> HIDE DEF p
  <2>7. PlanInv'
    BY <2>2, <2>4, <2>5, <2>6 DEF PlanInv
  <2> QED BY <2>4, <2>7, PlanSame
<1>7. CASE RolloutWait
  <2>1. View \in Snapshot /\ plan \in Plan
    BY <1>7, ViewType DEF RolloutWait, Drives, InProgress, StoresOK
  <2>2. plan.step \in Int /\ plan.step >= -1
    BY <2>1 DEF Plan
  <2> QED BY <1>7, <2>1, <2>2, ConcludePass, PlanKept, PlanSame, SMTT(40) DEF RolloutWait, fsm
<1>8. CASE RolloutAdvance
  <2> DEFINE p == [plan EXCEPT !.step = @ + 1, !.expired = FALSE]
  <2>1. plan \in Plan /\ plan.state = "in_progress" /\ plan.step < plan.total
    BY <1>8 DEF RolloutAdvance, InProgress, StoresOK
  <2>2. UNCHANGED plan /\ pc' = "advance" /\ (cmd'.plan = p \/ cmd'.plan = None)
    BY <1>8, SMTT(40) DEF RolloutAdvance, Submit, fsm, PlanUpdate, NoCommand
  <2>3. p.step <= p.total /\ p.state = "in_progress" /\ PlanMoves(plan, p)
    BY <2>1, AdvanceMoves, ZenonT(40)
  <2> HIDE DEF p
  <2>4. PlanInv'
    BY <2>1, <2>2, <2>3 DEF PlanInv
  <2> QED BY <2>2, <2>4, PlanSame
<1>9. CASE RolloutReread /\ ~(plan # None /\ plan.step >= plan.total)
  <2>1. snap \in Snapshot /\ UNCHANGED plan
    BY <1>9 DEF RolloutReread, PassOK, fsm
  <2>2. CASE plan = None
    BY <1>9, <2>1, <2>2, ConcludePass, PlanKept, PlanSame DEF RolloutReread
  <2>3. CASE plan # None
    <3>1. plan \in Plan
      BY <2>3 DEF StoresOK
    <3>2. plan.step < plan.total /\ plan.step \in Int /\ plan.step >= -1
      BY <1>9, <2>3, <3>1 DEF Plan
    <3>3. Conclude(snap, plan.step)
      BY <1>9, <2>3, <3>2 DEF RolloutReread
    <3> QED BY <2>1, <3>2, <3>3, ConcludePass, PlanKept, PlanSame
  <2> QED BY <2>2, <2>3
<1>10. CASE ApplyCommits
  BY <1>10, AfterApplyCommand, PlanApplied, ZenonT(40) DEF ApplyCommits
<1> QED BY <1>1, <1>2, <1>3, <1>4, <1>5, <1>6, <1>7, <1>8, <1>9, <1>10, SMTT(40) DEF PassStep

(* Every step of the system does.                                           *)
LEMMA PlanStep ==
    ASSUME StoresOK, PassOK, RestOK, PlanInv, [Next]_vars
    PROVE  PlanInv' /\ PlanMove
<1>1. CASE \E m \in Manifests : DeployApply(m)
  <2>1. UNCHANGED pass /\ (plan' = plan \/ plan' = None)
    BY <1>1 DEF DeployApply
  <2>2. PlanInv'
    BY <2>1 DEF PlanInv, pass
  <2>3. PlanMove
    BY <2>1, PlanSame, SMTT(40) DEF PlanMove
  <2> QED BY <2>2, <2>3
<1>2. CASE DeployDelete
  BY <1>2, ZenonT(40) DEF DeployDelete, PlanInv, PlanMove, pass
<1>3. CASE PassStep
  BY <1>3, PlanPass
<1>4. CASE ApplyFails
  BY <1>4, AfterApplyCommand, PlanApplied, Zenon DEF ApplyFails
<1>5. CASE LeaderChange
  <2>1. cmd'.plan = None /\ pc' = "idle"
    BY <1>5, IdlePass DEF LeaderChange, NoCommand
  <2> QED BY <1>5, <2>1, PlanApplied DEF LeaderChange
<1>6. CASE StepTimeoutPasses
  <2>1. plan \in Plan /\ plan.state = "in_progress" /\ plan.step <= plan.total
    BY <1>6 DEF StepTimeoutPasses, InProgress, StoresOK, PlanInv
  <2>2. UNCHANGED pass /\ plan' = [plan EXCEPT !.expired = TRUE]
    BY <1>6 DEF StepTimeoutPasses
  <2>3. /\ plan'.step <= plan'.total /\ plan'.state = "in_progress"
        /\ PlanMoves(plan, plan')
        /\ \A r : PlanMoves(plan, r) => PlanMoves(plan', r)
    BY <2>1, <2>2, ExpireMoves
  <2>4. plan # None
    BY <1>6 DEF StepTimeoutPasses, InProgress
  <2> QED BY <2>2, <2>3, <2>4, ZenonT(40) DEF PlanInv, PlanMove, pass
<1>7. CASE CommitMove
  <2>1. [NoCommand EXCEPT !.upserts[move.id] = move.rep].plan = None
    BY DEF NoCommand
  <2>2. UNCHANGED plan /\ UNCHANGED pass
    BY <1>7, <2>1 DEF CommitMove, FSMApply
  <2> QED BY <2>2, PlanKept, PlanSame DEF pass
<1>8. CASE UNCHANGED plan /\ UNCHANGED pass
  BY <1>8, PlanKept, PlanSame, SMTT(40) DEF pass
<1>9. ASSUME NEW id \in Ids, NEW h \in Hosts,
             PickMove(id, h) \/ RuntimeStep(id, h) \/ Crash(id, h)
      PROVE  UNCHANGED plan /\ UNCHANGED pass
  BY <1>9 DEF PickMove, RuntimeStep, Crash, StopContainer, StartContainer,
              ReportStarting, BecomeHealthy, Report, fsm
<1>10. DeployRollback \/ (\E id \in Ids : HealthGoesStale(id))
         \/ (\E h \in Hosts : NodeStatusChange(h)) \/ UNCHANGED vars
       => UNCHANGED plan /\ UNCHANGED pass
  BY DEF DeployRollback, HealthGoesStale, NodeStatusChange, fsm, vars, pass
<1> QED BY <1>1, <1>2, <1>3, <1>4, <1>5, <1>6, <1>7, <1>8, <1>9, <1>10 DEF Next

(* Whatever the API, the rebalancer, failed applies and leader changes do   *)
(* while a pass is waiting, a rollout plan only makes the moves the rollout *)
(* package describes.                                                       *)
THEOREM PlanOnlyMovesForward == Spec => PlanForward
<1> DEFINE IInv == StoresOK /\ PassOK /\ RestOK /\ PlanInv
<1>1. Init => IInv
  <2>1. Init => PlanInv
    BY DEF Init, PlanInv, NoCommand
  <2> QED BY <2>1, TypeInit
<1>2. IInv /\ [Next]_vars => IInv' /\ PlanMove
  BY TypeStep, PlanStep
<1>3. PlanMove => [plan # None /\ plan' # None => PlanMoves(plan, plan')]_vars
  BY DEF PlanMove
<1> QED BY <1>1, <1>2, <1>3, PTL DEF Spec, PlanForward

-----------------------------------------------------------------------------
(* The gate                                                                 *)

(* Without rebalancer moves only the pass and the API write replica rows,   *)
(* so what a pass read is still there when it commits, or was deleted.      *)
UnmovedOK ==
    /\ move = None
    /\ snap # None => \A id \in Ids : desired[id] \in {None, snap.cur[id]}

FlipsAtMostOne == \A i, j \in Ids : FlipsInPlace(i) /\ FlipsInPlace(j) => i = j

(* A step that only deletes rows flips none.                                *)
LEMMA NoFlip ==
    ASSUME \A id \in Ids : desired'[id] \in {None, desired[id]}
    PROVE  FlipsAtMostOne
BY DEF FlipsAtMostOne, FlipsInPlace

(* A step that leaves the rows alone keeps the invariant.                   *)
LEMMA SameDesired ==
    ASSUME StoresOK, UnmovedOK, UNCHANGED <<desired, move>>,
           snap' = None \/ snap' = snap \/ snap' = View
    PROVE  UnmovedOK' /\ FlipsAtMostOne
<1>1. UnmovedOK'
  BY DEF UnmovedOK, View
<1> QED BY <1>1, NoFlip, SMTT(40)

(* Committing the batch of the snapshot.                                    *)
LEMMA ApplyFlips ==
    ASSUME StoresOK, PassOK, UnmovedOK, FSMApply(cmd)
    PROVE  /\ FlipsAtMostOne
           /\ pc # "commit" => desired' = desired
<1>1. CASE pc # "commit"
  <2>1. \A id \in Ids : cmd.upserts[id] = None /\ cmd.removes = {}
    BY <1>1 DEF PassOK, NoCommand
  <2>2. desired' = desired
    BY <2>1 DEF FSMApply, StoresOK
  <2> QED BY <2>2, NoFlip, SMTT(40)
<1>2. CASE pc = "commit"
  <2>1. snap \in Snapshot /\ cmd = ReconcileBatch(snap, step) /\ step \in Int
    BY <1>2 DEF PassOK
  <2>2. \A id \in Ids : desired[id] \in {None, snap.cur[id]}
    <3>1. snap # None
      BY <2>1, NoneAssumption
    <3> QED BY <3>1 DEF UnmovedOK
  <2>3. CASE CannotPlace(snap)
    <3>1. \A id \in Ids : cmd.upserts[id] = None
      BY <2>1, <2>3 DEF ReconcileBatch, NoCommand
    <3>2. \A id \in Ids : desired'[id] \in {None, desired[id]}
      BY <3>1 DEF FSMApply
    <3> QED BY <1>2, <3>2, NoFlip
  <2>4. CASE ~CannotPlace(snap)
    <3>1. cmd.upserts = BatchUpserts(snap, step)
      BY <2>1, <2>4, SMTT(40) DEF ReconcileBatch, NoCommand
    <3>2. ASSUME NEW id \in Ids, FlipsInPlace(id)
          PROVE  BatchFlips(snap, step, id)
      <4>1. desired[id] # None /\ desired'[id] # None /\ desired[id] = snap.cur[id]
        BY <2>2, <3>2 DEF FlipsInPlace
      <4>2. desired'[id] = cmd.upserts[id] /\ cmd.upserts[id] # None
        BY <3>2, <4>1 DEF FSMApply, FlipsInPlace
      <4> QED BY <3>1, <3>2, <4>1, <4>2, SMTT(40) DEF FlipsInPlace, BatchFlips
    <3> QED BY <1>2, <2>1, <2>4, <3>2, BatchOneFlip DEF FlipsAtMostOne
  <2> QED BY <2>3, <2>4
<1> QED BY <1>1, <1>2

(* A pass that concludes keeps its snapshot or drops it.                    *)
LEMMA ConcludeSnap ==
    ASSUME NEW s, NEW k, Conclude(s, k)
    PROVE  snap' = None \/ snap' = s
BY DEF Conclude, GoIdle

(* So does one that got its answer, and after the batch it is dropped.      *)
LEMMA AfterApplySnap ==
    ASSUME Waiting, NEW ok \in BOOLEAN, AfterApply(ok)
    PROVE  /\ snap' = None \/ snap' = snap
           /\ pc = "commit" => snap' = None
<1>1. pc \in {"start", "advance", "complete"} => snap' = None \/ snap' = snap
  BY ConcludeSnap, ZenonT(40) DEF AfterApply
<1> QED BY <1>1, Zenon DEF AfterApply, Waiting, GoIdle

(* Every step keeps UnmovedOK and flips at most one replica.                *)
LEMMA FlipStep ==
    ASSUME MaxMoves = 0, StoresOK, PassOK, RestOK, UnmovedOK, [Next]_vars
    PROVE  UnmovedOK' /\ FlipsAtMostOne
<1>1. CASE PassStep
  <2>1. CASE ApplyCommits
    <3>1. /\ FlipsAtMostOne
          /\ pc # "commit" => desired' = desired
      BY <2>1, ApplyFlips DEF ApplyCommits
    <3>2. /\ snap' = None \/ snap' = snap
          /\ pc = "commit" => snap' = None
      BY <2>1, AfterApplySnap, Zenon DEF ApplyCommits
    <3> QED BY <2>1, <3>1, <3>2 DEF ApplyCommits, UnmovedOK
  <2>2. CASE ~ApplyCommits
    <3>1. UNCHANGED <<desired, move>>
      BY <1>1, <2>2, ZenonT(40) DEF PassStep, AbortTimedOut, NoDeployment, ReconcileDirect,
         RolloutTerminal, RolloutStart, RolloutComplete, RolloutWait,
         RolloutAdvance, RolloutReread, fsm
    <3>2. snap' = None \/ snap' = snap \/ snap' = View
      <4>1. CASE ReconcileDirect \/ RolloutTerminal \/ RolloutWait
        BY <4>1, ConcludeSnap DEF ReconcileDirect, RolloutTerminal, RolloutWait
      <4>2. CASE RolloutReread
        <5>1. \/ Conclude(snap, -1)
              \/ UNCHANGED snap
              \/ Conclude(snap, plan.step)
          <6>1. plan # None => plan.step >= plan.total \/ plan.step < plan.total
            BY DEF StoresOK, Plan
          <6> QED BY <4>2, <6>1, Zenon DEF RolloutReread
        <5> QED BY <5>1, ConcludeSnap
      <4>3. CASE AbortTimedOut \/ NoDeployment \/ RolloutStart \/ RolloutComplete
                   \/ RolloutAdvance
        BY <4>3 DEF AbortTimedOut, NoDeployment, RolloutStart, RolloutComplete,
                    RolloutAdvance, GoIdle
      <4> QED BY <1>1, <2>2, <4>1, <4>2, <4>3, SMTT(40) DEF PassStep
    <3> QED BY <3>1, <3>2, SameDesired
  <2> QED BY <2>1, <2>2
<1>2. CASE ApplyFails
  <2>1. /\ snap' = None \/ snap' = snap
        /\ pc = "commit" => snap' = None
        /\ UNCHANGED move
    BY <1>2, AfterApplySnap, ZenonT(40) DEF ApplyFails
  <2>2. CASE FSMApply(cmd)
    <3>1. /\ FlipsAtMostOne
          /\ pc # "commit" => desired' = desired
      BY <2>2, ApplyFlips
    <3> QED BY <2>1, <3>1 DEF UnmovedOK
  <2>3. CASE UNCHANGED fsm
    BY <2>1, <2>3, SameDesired DEF fsm
  <2> QED BY <1>2, <2>2, <2>3 DEF ApplyFails
<1>3. CASE LeaderChange
  <2>1. snap' = None /\ move' = None
    BY <1>3 DEF LeaderChange, GoIdle
  <2>2. UnmovedOK'
    BY <2>1 DEF UnmovedOK
  <2>3. FlipsAtMostOne
    <3>1. CASE FSMApply(cmd)
      BY <3>1, ApplyFlips
    <3>2. CASE UNCHANGED fsm
      BY <3>2, NoFlip, SMTT(40) DEF fsm
    <3> QED BY <1>3, <3>1, <3>2 DEF LeaderChange
  <2> QED BY <2>2, <2>3
<1>4. CASE DeployDelete
  <2>1. \A id \in Ids : desired'[id] = None
    BY <1>4 DEF DeployDelete
  <2>2. UnmovedOK'
    BY <1>4, <2>1 DEF DeployDelete, UnmovedOK
  <2>3. FlipsAtMostOne
    BY <2>1, NoFlip
  <2> QED BY <2>2, <2>3
<1>5. ~CommitMove
  BY DEF CommitMove, UnmovedOK
<1>6. ASSUME NEW id \in Ids, NEW h \in Hosts PROVE ~PickMove(id, h)
  BY DEF PickMove, RestOK
<1>7. ASSUME NEW id \in Ids, NEW h \in Hosts, RuntimeStep(id, h) \/ Crash(id, h)
      PROVE  UNCHANGED <<desired, move, snap>>
  BY <1>7 DEF RuntimeStep, Crash, StopContainer, StartContainer,
              ReportStarting, BecomeHealthy, Report, pass
<1>8. (\E m \in Manifests : DeployApply(m)) \/ DeployRollback \/ StepTimeoutPasses
        \/ (\E id \in Ids : HealthGoesStale(id))
        \/ (\E h \in Hosts : NodeStatusChange(h)) \/ UNCHANGED vars
      => UNCHANGED <<desired, move, snap>>
  BY DEF DeployApply, DeployRollback, StepTimeoutPasses, HealthGoesStale,
         NodeStatusChange, pass, fsm, vars
<1>9. CASE UNCHANGED <<desired, move, snap>>
  BY <1>9, SameDesired
<1> QED BY <1>1, <1>2, <1>3, <1>4, <1>5, <1>6, <1>7, <1>8, <1>9, SMTT(40) DEF Next

(* Without rebalancer moves, no commit replaces two replicas in place, for  *)
(* any number of replicas and hosts, whatever failed, expired or was        *)
(* deleted while the pass was waiting.                                      *)
THEOREM OneReplicaAtATime ==
    ASSUME MaxMoves = 0
    PROVE  Spec => OneFlipPerCommit
<1> DEFINE IInv == StoresOK /\ PassOK /\ RestOK /\ UnmovedOK
<1>1. Init => IInv
  <2>1. Init => UnmovedOK
    BY DEF Init, UnmovedOK
  <2> QED BY <2>1, TypeInit
<1>2. IInv /\ [Next]_vars => IInv' /\ FlipsAtMostOne
  BY TypeStep, FlipStep
<1>3. FlipsAtMostOne =>
        [\A i, j \in Ids : FlipsInPlace(i) /\ FlipsInPlace(j) => i = j]_vars
  BY DEF FlipsAtMostOne
<1> QED BY <1>1, <1>2, <1>3, PTL DEF Spec, OneFlipPerCommit
=============================================================================
