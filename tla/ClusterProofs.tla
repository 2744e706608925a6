---------------------------- MODULE ClusterProofs ----------------------------
(* Proofs about what the nodes of a cluster do together.                    *)
(*                                                                          *)
(* Membership: for all hosts and tokens and any number of crashes, removals *)
(* and lost leaderships.                                                    *)
(*                                                                          *)
(* Rebalance: for all hosts, replicas, services, loads and thresholds.      *)
EXTENDS Membership, TLAPS, FiniteSetTheorems

CONSTANTS Replicas, None, ServiceOf, Footprint, Bases, Placements, TriggerThreshold, ImbalanceGap,
          ReliefFloor, DstCap, ConsecutiveCycles, CooldownReplica, CooldownNode, MaxShifts
VARIABLES base, host, runs, ewma, over, replicaAge, nodeAge, pending, shifts

Moves == INSTANCE Rebalance

-----------------------------------------------------------------------------
(* Forming the cluster and changing its members                             *)

InitStages == {"idle", "stat", "store", "lead", "applied", "open"}
JoinStages == {"idle", "waits", "admitted", "open"}
CallStages == {"idle", "add", "apply"}

(* The part of the types the arguments below need.                          *)
Typed ==
    /\ disk \in [Hosts -> {"empty", "store", "raft"}]
    /\ init \in [Hosts -> InitStages]
    /\ join \in [Hosts -> JoinStages]
    /\ conf \in [Hosts -> {"out", "nonvoter", "voter"}]
    /\ leader \in Hosts \cup {NoHost}
    /\ call \in [Hosts -> [pc : CallStages, by : Hosts \cup {NoHost}, token : Tokens \cup {0}]]

(* A handler past OpenRaft runs on a daemon whose raft is open.             *)
OpenedFirst == \A h \in Hosts : init[h] = "open" \/ join[h] = "open" => h \in open

(* Only the founder runs Init, past the store only with log.db on its disk, *)
(* and the disk outlives the process: once the cluster has its id, an Init  *)
(* that could give it another is neither under way nor admitted.            *)
FoundedOnDisk ==
    \A h \in Hosts :
        /\ init[h] # "idle" => h = Founder
        /\ init[h] \in {"store", "lead", "applied"} => disk[h] # "empty"
        /\ h = Founder /\ cluster # 0 =>
               disk[h] # "empty" /\ init[h] \notin {"stat", "store", "lead"}

IInv == Typed /\ ServesOnlyWithRaft /\ OpenedFirst /\ FoundedOnDisk

(* No daemon has formed or joined anything.                                 *)
LEMMA InitInv == Init => IInv
  BY DEF Init, Fresh, IInv, Typed, ServesOnlyWithRaft, OpenedFirst, FoundedOnDisk, CallIdle,
         InitStages, JoinStages, CallStages

(* Reconfigure takes one of the configurations it is given.                 *)
LEMMA ReconfigureTyped ==
    ASSUME NEW c \in [Hosts -> {"out", "nonvoter", "voter"}], Typed, Reconfigure(c)
    PROVE  conf' \in [Hosts -> {"out", "nonvoter", "voter"}]
  BY DEF Reconfigure, Typed

(* A leader that keeps its majority stays, or there is none.                *)
LEMMA LeadsTyped ==
    ASSUME NEW c, NEW l \in Hosts \cup {NoHost}
    PROVE  Leads(c, l) \in Hosts \cup {NoHost}
  BY DEF Leads

(* Every step keeps the types.                                              *)
LEMMA StepTyped ==
    ASSUME IInv, [Next]_vars
    PROVE  Typed'
<1> USE DEF IInv
<1>1. ASSUME NEW h \in Hosts, InitSteps(h) \/ InitFails(h) PROVE Typed'
  BY ZenonT(40), <1>1 DEF Typed, InitSteps, InitCall, InitStore, InitBootstrap, InitApply, OpenRaft, MarkInitialized,
              InitFails, calls, InitStages, JoinStages
<1>2. ASSUME NEW h \in Hosts, JoinAdd(h) PROVE Typed'
  <2> DEFINE c == AddNonvoter(conf, h)
  <2>1. c \in [Hosts -> {"out", "nonvoter", "voter"}]
    BY DEF Typed, AddNonvoter
  <2> HIDE DEF c
  <2>2. conf' \in [Hosts -> {"out", "nonvoter", "voter"}] /\ leader' \in Hosts \cup {NoHost}
    <3>1. UNCHANGED <<conf, leader>> \/ (Reconfigure(c) /\ leader' = Leads(c, leader))
      BY <1>2, Zenon DEF JoinAdd, c
    <3> QED BY <2>1, <3>1, ReconfigureTyped, LeadsTyped DEF Typed
  <2>3. /\ call' \in [Hosts -> [pc : CallStages, by : Hosts \cup {NoHost}, token : Tokens \cup {0}]]
        /\ join' \in [Hosts -> JoinStages]
    <3>1. Answer(h, "idle") \/ (call' = [call EXCEPT ![h].pc = "apply"] /\ UNCHANGED join)
      BY <1>2, Zenon DEF JoinAdd
    <3>2. CASE Answer(h, "idle")
      BY <3>2 DEF Answer, CallIdle, Typed, CallStages, JoinStages
    <3>3. CASE call' = [call EXCEPT ![h].pc = "apply"] /\ UNCHANGED join
      BY <3>3 DEF Typed, CallStages
    <3> QED BY <3>1, <3>2, <3>3
  <2> QED BY <1>2, <2>2, <2>3 DEF JoinAdd, Typed, node
<1>3. ASSUME NEW h \in Hosts, JoinApply(h) PROVE Typed'
  BY <1>3 DEF Typed, JoinApply, Answer, CallIdle, node, CallStages, JoinStages
<1>4. ASSUME NEW h \in Hosts, JoinFails(h) PROVE Typed'
  BY <1>4 DEF Typed, JoinFails, node, JoinStages
<1>5. ASSUME NEW h \in Hosts, NEW t \in Tokens, Join(h, t) PROVE Typed'
  BY <1>5 DEF Typed, Join, node, CallStages, JoinStages
<1>6. ASSUME NEW h \in Hosts, Crash(h) PROVE Typed'
  BY SMTT(20), Zenon, <1>6 DEF Typed, Crash, CallIdle, CallStages, JoinStages, InitStages
<1>7. ASSUME NEW h \in Hosts, Start(h) \/ Elect(h) \/ NodeRemove(h) \/ TickFollower(h) \/ Settle(h)
      PROVE  Typed'
  BY <1>7 DEF Typed, Start, Elect, NodeRemove, TickFollower, Settle, node, calls
<1>8. ASSUME NEW t \in Tokens, IssueJoinToken(t) PROVE Typed'
  BY SMTT(20), Zenon, <1>8 DEF Typed, IssueJoinToken, node
<1>9. ASSUME PrepareForRemoval \/ RemoveApply \/ StepDown \/ TickRead PROVE Typed'
  BY <1>9 DEF Typed, PrepareForRemoval, RemoveApply, StepDown, TickRead, node, calls
<1>10. ASSUME RemoveDemote PROVE Typed'
  <2>1. PICK c \in [Hosts -> {"out", "nonvoter", "voter"}] :
           \/ UNCHANGED <<conf, leader>>
           \/ Reconfigure(c) /\ leader' = Leads(c, leader)
    BY Zenon, <1>10 DEF RemoveDemote, Typed
  <2>2. conf' \in [Hosts -> {"out", "nonvoter", "voter"}] /\ leader' \in Hosts \cup {NoHost}
    BY <2>1, ReconfigureTyped, LeadsTyped DEF Typed
  <2> QED BY <1>10, <2>2 DEF RemoveDemote, Typed, node
<1>11. ASSUME RemoveServer PROVE Typed'
  <2>1. PICK c \in [Hosts -> {"out", "nonvoter", "voter"}] :
           \/ UNCHANGED <<conf, leader>>
           \/ Reconfigure(c) /\ leader' = Leads(c, leader)
    BY Zenon, <1>11 DEF RemoveServer, Typed
  <2>2. conf' \in [Hosts -> {"out", "nonvoter", "voter"}] /\ leader' \in Hosts \cup {NoHost}
    BY <2>1, ReconfigureTyped, LeadsTyped DEF Typed
  <2> QED BY <1>11, <2>2 DEF RemoveServer, Typed, node
<1>12. ASSUME TickAct PROVE Typed'
  <2>1. PICK c \in [Hosts -> {"out", "nonvoter", "voter"}] :
           \/ UNCHANGED <<conf, leader>>
           \/ Reconfigure(c) /\ leader' = Leads(c, leader)
    BY ZenonT(40), <1>12 DEF TickAct, Typed
  <2>2. conf' \in [Hosts -> {"out", "nonvoter", "voter"}] /\ leader' \in Hosts \cup {NoHost}
    BY <2>1, ReconfigureTyped, LeadsTyped DEF Typed
  <2> QED BY <1>12, <2>2 DEF TickAct, Typed, node, calls
<1>13. ASSUME UNCHANGED vars PROVE Typed'
  BY <1>13 DEF Typed, vars
<1> QED BY SMTT(20), Zenon, <1>1, <1>2, <1>3, <1>4, <1>5, <1>6, <1>7, <1>8, <1>9, <1>10, <1>11, <1>12, <1>13
           DEF Next, JoinSteps, RemoveSteps

(* The gate opens after raft does and closes with it.                       *)
LEMMA StepOpened ==
    ASSUME IInv, [Next]_vars
    PROVE  ServesOnlyWithRaft' /\ OpenedFirst'
<1> USE DEF IInv, ServesOnlyWithRaft, OpenedFirst
<1>1. ASSUME NEW h \in Hosts, InitSteps(h) \/ InitFails(h) PROVE ServesOnlyWithRaft' /\ OpenedFirst'
  BY ZenonT(40), <1>1 DEF Typed, InitSteps, InitCall, InitStore, InitBootstrap, InitApply, OpenRaft, MarkInitialized,
              InitFails, calls
<1>2. ASSUME NEW h \in Hosts, JoinAdd(h) \/ JoinApply(h) \/ JoinFails(h)
      PROVE  ServesOnlyWithRaft' /\ OpenedFirst'
  BY <1>2 DEF Typed, JoinAdd, JoinApply, JoinFails, Answer, node
<1>3. ASSUME NEW h \in Hosts, NEW t \in Tokens, Join(h, t) PROVE ServesOnlyWithRaft' /\ OpenedFirst'
  BY <1>3 DEF Typed, Join, node
<1>4. ASSUME NEW h \in Hosts, Crash(h) PROVE ServesOnlyWithRaft' /\ OpenedFirst'
  BY <1>4 DEF Typed, Crash
<1>5. ASSUME NEW h \in Hosts, Start(h) PROVE ServesOnlyWithRaft' /\ OpenedFirst'
  BY SMTT(20), Zenon, <1>5 DEF Typed, Start, calls
<1>6. ASSUME \/ UNCHANGED vars \/ RemoveSteps \/ StepDown \/ TickRead \/ TickAct
             \/ \E t \in Tokens : IssueJoinToken(t)
             \/ \E h \in Hosts : Elect(h) \/ NodeRemove(h) \/ TickFollower(h) \/ Settle(h)
      PROVE  UNCHANGED <<open, gate, init, join>>
  BY ZenonT(40), <1>6 DEF vars, RemoveSteps, PrepareForRemoval, RemoveDemote, RemoveServer, RemoveApply, StepDown,
              TickRead, TickAct, IssueJoinToken, Elect, NodeRemove, TickFollower, Settle, node, calls
<1> QED BY <1>1, <1>2, <1>3, <1>4, <1>5, <1>6 DEF Next, JoinSteps

(* Init leaves log.db behind before it commits, and looks for it first.     *)
LEMMA StepFounded ==
    ASSUME IInv, [Next]_vars
    PROVE  FoundedOnDisk' /\ (cluster # 0 => cluster' = cluster)
<1> USE DEF IInv, FoundedOnDisk
<1>1. ASSUME NEW h \in Hosts, InitCall(h) \/ InitStore(h) \/ InitBootstrap(h) \/ InitFails(h)
      PROVE  FoundedOnDisk' /\ cluster' = cluster
  BY <1>1 DEF Typed, InitCall, InitStore, InitBootstrap, InitFails
<1>2. ASSUME NEW h \in Hosts, InitApply(h) PROVE FoundedOnDisk' /\ cluster = 0
  BY <1>2 DEF Typed, InitApply
<1>3. ASSUME NEW h \in Hosts, OpenRaft(h) \/ MarkInitialized(h)
      PROVE  FoundedOnDisk' /\ cluster' = cluster
  BY <1>3 DEF Typed, OpenRaft, MarkInitialized
<1>4. ASSUME NEW h \in Hosts, Crash(h) PROVE FoundedOnDisk' /\ cluster' = cluster
  BY SMTT(20), Zenon, <1>4 DEF Typed, Crash
<1>5. ASSUME \/ UNCHANGED vars \/ RemoveSteps \/ StepDown \/ TickRead \/ TickAct
             \/ \E t \in Tokens : IssueJoinToken(t)
             \/ \E h \in Hosts : Elect(h) \/ NodeRemove(h) \/ TickFollower(h) \/ Settle(h) \/ Start(h)
             \/ \E h \in Hosts : JoinSteps(h) \/ JoinFails(h)
             \/ \E h \in Hosts, t \in Tokens : Join(h, t)
      PROVE  UNCHANGED <<disk, init, cluster>>
  BY Zenon, <1>5 DEF vars, RemoveSteps, PrepareForRemoval, RemoveDemote, RemoveServer, RemoveApply, StepDown,
              TickRead, TickAct, IssueJoinToken, Elect, NodeRemove, TickFollower, Settle, Start,
              JoinSteps, JoinAdd, JoinApply, JoinFails, Join, node, calls
<1> QED BY SMTT(20), Zenon, <1>1, <1>2, <1>3, <1>4, <1>5 DEF Next, InitSteps

(* The invariant holds of every behaviour.                                  *)
LEMMA Invariant == Spec => []IInv
<1>1. IInv /\ [Next]_vars => IInv'
  BY StepTyped, StepOpened, StepFounded DEF IInv
<1> QED BY <1>1, InitInv, PTL DEF Spec

(* The InitGate opens only on daemons whose OpenRaft has returned, whatever *)
(* crashed or failed between the steps of Cluster.Init, Join and start-up:  *)
(* no handler past the gate meets a nil raft.                               *)
THEOREM GateImpliesRaft == Spec => []ServesOnlyWithRaft
<1>1. IInv => ServesOnlyWithRaft
  BY DEF IInv
<1> QED BY <1>1, Invariant, PTL

(* bootstrap.Run commits ClusterInit at most once in the life of a founder, *)
(* however often Init is called, fails, or the daemon crashes in it.        *)
THEOREM FormedOnce == Spec => ClusterFormedOnce
<1>1. IInv /\ [Next]_vars => [cluster # 0 => cluster' = cluster]_vars
  BY StepFounded
<1> QED BY <1>1, Invariant, PTL DEF Spec, ClusterFormedOnce

(* A server added as a nonvoter leaves the voters as they are.              *)
LEMMA NonvoterKeepsVoters ==
    ASSUME Typed, NEW h \in Hosts
    PROVE  VotersOf(AddNonvoter(conf, h)) = VotersOf(conf)
  BY DEF Typed, VotersOf, AddNonvoter

(* What NodeJoin's configuration change does to the majority: nothing.      *)
LEMMA StepAdmits ==
    ASSUME IInv, [Next]_vars, NEW h \in Hosts,
           call[h].pc = "add", call'[h].pc # "add", HasQuorum(conf), up' = up
    PROVE  HasQuorum(conf)'
<1> USE DEF IInv
<1>1. JoinAdd(h)
  <2>1. ASSUME NEW g \in Hosts, InitSteps(g) \/ InitFails(g) \/ JoinFails(g) \/ Start(g) \/ Elect(g)
                                \/ NodeRemove(g) \/ TickFollower(g) \/ Settle(g)
        PROVE  call' = call
    BY ZenonT(40), <2>1 DEF InitSteps, InitCall, InitStore, InitBootstrap, InitApply, OpenRaft, MarkInitialized, InitFails,
                JoinFails, Start, Elect, NodeRemove, TickFollower, Settle, calls
  <2>2. ASSUME \/ UNCHANGED vars \/ RemoveSteps \/ StepDown \/ TickRead \/ TickAct
               \/ \E t \in Tokens : IssueJoinToken(t)
        PROVE  call' = call
    BY Zenon, <2>2 DEF vars, RemoveSteps, PrepareForRemoval, RemoveDemote, RemoveServer, RemoveApply, StepDown,
                TickRead, TickAct, IssueJoinToken, calls
  <2>3. ASSUME NEW g \in Hosts, NEW t \in Tokens, Join(g, t) PROVE FALSE
    BY <2>3 DEF Join, Typed, CallIdle
  <2>4. ASSUME NEW g \in Hosts, JoinApply(g) PROVE FALSE
    BY <2>4 DEF JoinApply, Answer, Typed
  <2>5. ASSUME NEW g \in Hosts, Crash(g) PROVE FALSE
    BY <2>5 DEF Crash
  <2>6. ASSUME NEW g \in Hosts, JoinAdd(g), g # h PROVE call'[h] = call[h]
    BY <2>6 DEF JoinAdd, Answer, Typed
  <2> QED BY SMTT(20), Zenon, <2>1, <2>2, <2>3, <2>4, <2>5, <2>6 DEF Next, JoinSteps
<1> DEFINE c == AddNonvoter(conf, h)
<1>2. VotersOf(c) = VotersOf(conf)
  BY NonvoterKeepsVoters
<1>3. HasQuorum(c)
  BY <1>2 DEF HasQuorum
<1>4. conf' = c \/ conf' = conf
  BY <1>1, Zenon DEF JoinAdd, Reconfigure
<1>5. open' = open
  BY <1>1 DEF JoinAdd, node
<1> HIDE DEF c
<1>6. VotersOf(conf') = VotersOf(conf)
  BY <1>2, <1>4
<1> QED BY SMTT(20), Zenon, <1>5, <1>6 DEF HasQuorum

(* Admitting a node costs no majority: NodeJoin adds the joiner without a   *)
(* vote, so a cluster with a quorum has one after it, for any voter set.    *)
THEOREM AdmissionIsSafe == Spec => AdmissionKeepsQuorum
<1> DEFINE A == \A h \in Hosts : call[h].pc = "add" /\ call'[h].pc # "add" /\ HasQuorum(conf)
                                   => up' # up \/ HasQuorum(conf)'
<1>1. IInv /\ [Next]_vars => [A]_vars
  BY StepAdmits
<1> QED BY <1>1, Invariant, PTL DEF Spec, AdmissionKeepsQuorum

-----------------------------------------------------------------------------
(* Moving replicas                                                          *)

(* PlacementKept of the hosts p.                                            *)
Kept(p) ==
    \A r, s \in Replicas :
        /\ ServiceOf[r].placement = "spread" /\ ServiceOf[s].name = ServiceOf[r].name /\ r # s /\ p[r] # None
              => p[r] # p[s]
        /\ ServiceOf[r].placement = "hosts" => p[r] \in ServiceOf[r].hosts \cup {None}

(* Replicas of one service have its spec, and the scheduler placed them     *)
(* accordingly.                                                             *)
PlacedWell ==
    /\ IsFiniteSet(Replicas) /\ None \notin Hosts
    /\ \A r, s \in Replicas : ServiceOf[r].name = ServiceOf[s].name => ServiceOf[r] = ServiceOf[s]
    /\ \A p \in Placements : p \in [Replicas -> Hosts \cup {None}] /\ Kept(p)

(* The destination suits the replica, in the rows as they are.              *)
Suits(r, dst) ==
    /\ ServiceOf[r].placement = "spread" =>
          \A s \in Replicas : ServiceOf[s].name = ServiceOf[r].name => host[s] # dst
    /\ ServiceOf[r].placement = "hosts" => dst \in ServiceOf[r].hosts

(* A move that is about to be committed still suits.                        *)
MoveInv ==
    /\ host \in [Replicas -> Hosts \cup {None}] /\ Kept(host)
    /\ pending # None => pending.replica \in Replicas /\ pending.dst \in Hosts /\ Suits(pending.replica, pending.dst)

(* No move is pending.                                                      *)
LEMMA MoveInit == ASSUME PlacedWell, Moves!Init PROVE MoveInv
  BY DEF Moves!Init, PlacedWell, MoveInv

(* HardFilter counts the replicas of the service on the destination.        *)
LEMMA FilterSuits ==
    ASSUME PlacedWell, NEW r \in Replicas, NEW dst, Moves!antiAffinityOK(r, dst)
    PROVE  Suits(r, dst)
<1>1. CASE ServiceOf[r].placement = "spread"
  <2> DEFINE S == {s \in Replicas : host[s] = dst /\ ServiceOf[s].name = ServiceOf[r].name}
  <2>0. Moves!PerHostCount(r, dst) = 0
    BY <1>1 DEF Moves!antiAffinityOK
  <2>1. Cardinality(S) = 0
    BY <2>0, Zenon DEF Moves!PerHostCount, Moves!Cardinality, Cardinality, Moves!IsFiniteSet, IsFiniteSet
  <2>2. IsFiniteSet(S)
    BY FS_Subset DEF PlacedWell
  <2>3. S = {}
    BY <2>1, <2>2, FS_EmptySet
  <2> QED BY <1>1, <2>3 DEF Suits
<1>2. CASE ServiceOf[r].placement # "spread"
  BY <1>2 DEF Moves!antiAffinityOK, Suits
<1> QED BY <1>1, <1>2

(* A cycle picks a move that passed HardFilter.                             *)
LEMMA CycleStep ==
    ASSUME PlacedWell, MoveInv, Moves!Cycle PROVE MoveInv'
<1>1. host' = host
  BY SMTT(20), Zenon DEF Moves!Cycle
<1>2. pending' = None \/ \E P, avg, count, ages, nages : pending' \in Moves!Candidates(P, avg, count, ages, nages)
  BY DEF Moves!Cycle
<1>3. CASE pending' = None
  BY <1>1, <1>3 DEF MoveInv
<1>4. ASSUME NEW P, NEW avg, NEW count, NEW ages, NEW nages,
             pending' \in Moves!Candidates(P, avg, count, ages, nages)
      PROVE  MoveInv'
  <2>1. pending'.replica \in Replicas /\ pending'.dst \in Hosts
    BY SMTT(20), Zenon, <1>4 DEF Moves!Candidates, Moves!Sampled
  <2>2. Moves!antiAffinityOK(pending'.replica, pending'.dst)
    BY <1>4 DEF Moves!Candidates, Moves!Survives
  <2>3. Suits(pending'.replica, pending'.dst)
    BY <2>1, <2>2, FilterSuits
  <2> QED BY SMTT(20), Zenon, <1>1, <2>1, <2>3 DEF MoveInv, Suits
<1> QED BY SMTT(20), Zenon, <1>2, <1>3, <1>4

(* commitMove writes a destination that suits.                              *)
LEMMA CommitStep ==
    ASSUME PlacedWell, MoveInv, Moves!Commit PROVE MoveInv'
<1> DEFINE r == pending.replica
           dst == pending.dst
<1>1. r \in Replicas /\ dst \in Hosts /\ Suits(r, dst) /\ dst # None
  BY DEF Moves!Commit, MoveInv, PlacedWell
<1>2. host' = [host EXCEPT ![r] = dst] /\ pending' = None
  BY DEF Moves!Commit
<1> HIDE DEF r, dst
<1>3. host'[r] = dst /\ \A s \in Replicas \ {r} : host'[s] = host[s]
  BY SMTT(20), Zenon, <1>1, <1>2 DEF MoveInv
<1>4. Kept(host')
  BY <1>1, <1>3 DEF Kept, Suits, MoveInv, PlacedWell
<1> QED BY <1>1, <1>2, <1>4 DEF MoveInv

(* A row that is removed in between only frees its host.                    *)
LEMMA RemoveStep ==
    ASSUME PlacedWell, MoveInv, NEW r \in Replicas, Moves!Remove(r) PROVE MoveInv'
<1>1. host' = [host EXCEPT ![r] = None] /\ pending' = pending
  BY DEF Moves!Remove
<1>2. host'[r] = None /\ \A s \in Replicas \ {r} : host'[s] = host[s]
  BY SMTT(20), Zenon, <1>1 DEF MoveInv
<1>3. Kept(host')
  BY <1>2 DEF Kept, MoveInv
<1>4. host' \in [Replicas -> Hosts \cup {None}]
  BY <1>1 DEF MoveInv
<1>5. pending' # None => Suits(pending.replica, pending.dst)'
  BY <1>1, <1>2 DEF Suits, MoveInv, PlacedWell
<1> QED BY <1>1, <1>3, <1>4, <1>5 DEF MoveInv

(* Every step keeps the invariant.                                          *)
LEMMA MoveStep ==
    ASSUME PlacedWell, MoveInv, [Moves!Next]_(Moves!vars) PROVE MoveInv'
<1>1. CASE \/ UNCHANGED Moves!vars \/ Moves!LoadShift \/ Moves!Failover
           \/ \E r \in Replicas : Moves!Migrate(r)
  <2>1. host' = host /\ pending' \in {pending, None}
    BY <1>1 DEF Moves!vars, Moves!LoadShift, Moves!Failover, Moves!Migrate
  <2> QED BY <2>1 DEF MoveInv, Suits
<1> QED BY <1>1, CycleStep, CommitStep, RemoveStep DEF Moves!Next

(* PlacementKept for any hosts, services, loads and thresholds: no move     *)
(* puts two replicas of a spread service on one host or a pinned one        *)
(* outside its list, although rows are removed between a cycle and its      *)
(* commit.                                                                  *)
THEOREM MovesKeepPlacement ==
    ASSUME PlacedWell PROVE Moves!Spec => []Moves!PlacementKept
<1>1. MoveInv => Moves!PlacementKept
  BY DEF MoveInv, Kept, Moves!PlacementKept
<1> QED BY <1>1, MoveInit, MoveStep, PTL DEF Moves!Spec
=============================================================================
