------------------------- MODULE ReplicatedFSMProofs -------------------------
(* Proofs about ReplicatedFSM, for every set of nodes and of log entries.   *)
EXTENDS ReplicatedFSM, ControlStateProofs

(* The strengthening: each state of hist follows from the one before by the *)
(* entry in between, and a clean snapshot is the state of its index.        *)
HistoryOK ==
    \A i \in 1 .. Len(log) : After(i) = ApplyEntry(After(i - 1), log[i], i)
SnapshotsOK ==
    \A n \in Nodes : ~snap[n].mixed => snap[n].state = After(snap[n].index)
HistTyped == hist \in Seq({hist[i] : i \in DOMAIN hist})
StatesOK  == \A i \in 0 .. Len(log) : StateOK(After(i))

IInv == TypeOK /\ HistTyped /\ StatesOK /\ Agreement /\ HistoryOK /\ SnapshotsOK

(* Such a state is given back by a snapshot of it, and its routes are owned. *)
LEMMA StatesExact == StatesOK => SnapshotExact
  BY RestoreGivesBack DEF StatesOK, StateOK, SnapshotExact

(* And its routes are those of deployments it has.                          *)
LEMMA StatesOwned ==
    ASSUME TypeOK, StatesOK
    PROVE  RoutesOwned
<1>1. Len(log) \in 0 .. Len(log)
  BY DEF TypeOK
<1> QED BY <1>1 DEF StatesOK, StateOK, RoutesHaveOwner, RoutesOwned

(* A commit extends the history and leaves its past as it was.              *)
LEMMA HistoryGrows ==
    ASSUME TypeOK, HistTyped, NEW e, Commit(e)
    PROVE  /\ \A i \in 0 .. Len(log) : hist'[i + 1] = hist[i + 1]
           /\ hist'[Len(log) + 2] = ApplyEntry(After(Len(log)), e, Len(log) + 1)
           /\ Len(hist') = Len(hist) + 1
           /\ HistTyped'
<1> DEFINE new == ApplyEntry(After(Len(log)), e, Len(log) + 1)
           S   == {hist[i] : i \in DOMAIN hist} \cup {new}
<1> HIDE DEF new
<1>1. hist \in Seq(S) /\ new \in S
  BY DEF HistTyped
<1>2. hist' = Append(hist, new)
  BY DEF Commit, new
<1>3. /\ hist' \in Seq(S)
      /\ Len(hist') = Len(hist) + 1
      /\ \A i \in 1 .. Len(hist) : hist'[i] = hist[i]
      /\ hist'[Len(hist) + 1] = new
  BY <1>1, <1>2, AppendProperties
<1>4. Len(log) \in Nat /\ Len(hist) = Len(log) + 1
  BY DEF TypeOK
<1>5. HistTyped'
  <2>1. hist' \in Seq({hist'[i] : i \in DOMAIN hist'})
    BY <1>3, SeqDef
  <2> QED BY <2>1 DEF HistTyped
<1>6. \A i \in 0 .. Len(log) : hist'[i + 1] = hist[i + 1]
  BY <1>3, <1>4
<1>7. hist'[Len(log) + 2] = new
  BY <1>3, <1>4
<1> QED BY <1>3, <1>5, <1>6, <1>7 DEF new

(* And it extends the log likewise.                                         *)
LEMMA LogGrows ==
    ASSUME TypeOK, NEW e \in Entries, Commit(e)
    PROVE  /\ log' \in Seq(Entries)
           /\ Len(log') = Len(log) + 1 /\ Len(log) \in Nat
           /\ \A i \in 1 .. Len(log) : log'[i] = log[i]
           /\ log'[Len(log) + 1] = e
  BY AppendProperties DEF TypeOK, Commit

(* A commit keeps the invariant.                                            *)
LEMMA CommitStep ==
    ASSUME IInv, NEW e \in Entries, Commit(e)
    PROVE  IInv'
<1> USE ReplicationAssumption
<1>1. TypeOK'
  <2>1. /\ log' \in Seq(Entries) /\ Len(log') = Len(log) + 1 /\ Len(log) \in Nat
        /\ Len(hist') = Len(log') + 1
    BY LogGrows, HistoryGrows DEF IInv, TypeOK
  <2> QED BY <2>1 DEF Commit, IInv, TypeOK
<1>2. \A i \in 0 .. Len(log) : After(i)' = After(i)
  BY HistoryGrows DEF IInv, After
<1>3. Agreement'
  <2>1. \A n \in Nodes : applied[n] \in 0 .. Len(log)
    BY DEF IInv, TypeOK
  <2> QED BY <1>2, <2>1, HistoryGrows, Zenon DEF Commit, IInv, Agreement, After
<1>4. SnapshotsOK'
  <2>1. \A n \in Nodes : snap[n].index \in 0 .. Len(log)
    BY DEF IInv, TypeOK
  <2> QED BY <2>1, HistoryGrows, Zenon DEF Commit, IInv, SnapshotsOK, After
<1>5. HistoryOK'
  <2> SUFFICES ASSUME NEW i \in 1 .. Len(log')
               PROVE  hist'[i + 1] = ApplyEntry(hist'[i - 1 + 1], log'[i], i)
    BY DEF HistoryOK, After
  <2>0. Len(log) \in Nat /\ Len(log') = Len(log) + 1
    BY LogGrows DEF IInv
  <2>1. CASE i \in 1 .. Len(log)
    <3>1. hist'[i + 1] = hist[i + 1] /\ hist'[i - 1 + 1] = hist[i - 1 + 1]
      <4>1. i \in 0 .. Len(log) /\ i - 1 \in 0 .. Len(log)
        BY <2>0, <2>1
      <4> QED BY <4>1, HistoryGrows, Zenon DEF IInv
    <3>2. log'[i] = log[i]
      BY <2>1, LogGrows DEF IInv
    <3>3. hist[i + 1] = ApplyEntry(hist[i - 1 + 1], log[i], i)
      BY <2>1 DEF IInv, HistoryOK, After
    <3> QED BY <3>1, <3>2, <3>3
  <2>2. CASE i = Len(log) + 1
    <3>1. hist'[i + 1] = ApplyEntry(After(Len(log)), e, Len(log) + 1)
      <4>1. i + 1 = Len(log) + 2
        BY <2>0, <2>2
      <4> QED BY <4>1, HistoryGrows DEF IInv
    <3>2. hist'[i - 1 + 1] = After(Len(log))
      <4>1. i - 1 + 1 = Len(log) + 1 /\ Len(log) \in 0 .. Len(log)
        BY <2>0, <2>2
      <4> QED BY <4>1, HistoryGrows DEF IInv, After
    <3>3. log'[i] = e
      BY <2>2, LogGrows DEF IInv
    <3> QED BY <2>2, <3>1, <3>2, <3>3
  <2> QED BY <2>0, <2>1, <2>2
<1>6. StatesOK'
  <2> SUFFICES ASSUME NEW i \in 0 .. Len(log')
               PROVE  StateOK(hist'[i + 1])
    BY DEF StatesOK, After
  <2>0. Len(log) \in Nat /\ Len(log') = Len(log) + 1
    BY LogGrows DEF IInv
  <2>1. CASE i \in 0 .. Len(log)
    BY <2>1, <1>2 DEF IInv, StatesOK, After
  <2>2. CASE i = Len(log) + 1
    <3>1. StateOK(After(Len(log)))
      BY <2>0 DEF IInv, StatesOK
    <3>2. StateOK(ApplyEntry(After(Len(log)), e, Len(log) + 1))
      BY <2>0, <3>1, ApplyEntryOK
    <3>3. i + 1 = Len(log) + 2
      BY <2>0, <2>2
    <3> QED BY <3>2, <3>3, HistoryGrows DEF IInv
  <2> QED BY <2>0, <2>1, <2>2
<1> QED BY <1>1, <1>3, <1>4, <1>5, <1>6, HistoryGrows DEF IInv

(* So does applying the next entry.                                         *)
LEMMA ApplyStep ==
    ASSUME IInv, NEW n \in Nodes, ApplyNext(n)
    PROVE  IInv'
<1>1. applied[n] \in 0 .. Len(log) /\ applied[n] < Len(log) /\ Len(log) \in Nat
  BY DEF IInv, TypeOK, ApplyNext
<1>2. /\ applied' = [applied EXCEPT ![n] = applied[n] + 1]
      /\ UNCHANGED <<log, hist, snap, mixed, restarts>>
      /\ DOMAIN store' = Nodes
  BY DEF ApplyNext, IInv, TypeOK
<1>3. TypeOK'
  BY <1>1, <1>2 DEF IInv, TypeOK
<1>4. Agreement'
  <2> SUFFICES ASSUME NEW m \in Nodes, m \notin mixed
               PROVE  store'[m] = hist[applied'[m] + 1]
    BY <1>2 DEF Agreement, After
  <2>1. store[m] = hist[applied[m] + 1]
    BY DEF IInv, Agreement, After
  <2>2. CASE m = n
    <3>1. store'[n] = ApplyEntry(store[n], log[applied[n] + 1], applied[n] + 1)
      BY DEF ApplyNext, IInv, TypeOK
    <3>2. applied'[n] = applied[n] + 1
      BY <1>2 DEF IInv, TypeOK
    <3>3. After(applied[n] + 1)
            = ApplyEntry(After(applied[n] + 1 - 1), log[applied[n] + 1], applied[n] + 1)
      BY <1>1 DEF IInv, HistoryOK
    <3>4. applied[n] + 1 - 1 = applied[n]
      BY <1>1
    <3> QED BY <2>1, <2>2, <3>1, <3>2, <3>3, <3>4 DEF After
  <2>3. CASE m # n
    BY <2>1, <2>3, <1>2 DEF ApplyNext, IInv, TypeOK
  <2> QED BY <2>2, <2>3
<1>5. HistoryOK' /\ SnapshotsOK' /\ HistTyped' /\ StatesOK'
  BY <1>2 DEF IInv, HistoryOK, SnapshotsOK, HistTyped, StatesOK, After
<1> QED BY <1>3, <1>4, <1>5 DEF IInv

(* So does taking a snapshot.                                               *)
LEMMA SnapshotStep ==
    ASSUME IInv, NEW n \in Nodes, TakeSnapshot(n)
    PROVE  IInv'
<1>1. /\ UNCHANGED <<log, hist, store, applied, mixed, restarts>>
      /\ snap' = [snap EXCEPT ![n] = [index |-> applied[n], state |-> store[n],
                                      mixed |-> n \in mixed]]
  BY DEF TakeSnapshot
<1>2. TypeOK'
  <2>1. \A m \in Nodes : snap'[m].index \in 0 .. applied[m]
    BY <1>1 DEF IInv, TypeOK
  <2> QED BY <1>1, <2>1 DEF IInv, TypeOK
<1>3. SnapshotsOK'
  BY <1>1, Zenon DEF IInv, TypeOK, SnapshotsOK, Agreement, After
<1> QED BY <1>1, <1>2, <1>3 DEF IInv, HistoryOK, HistTyped, StatesOK, Agreement, After

(* So does receiving a leader's snapshot.                                   *)
LEMMA InstallStep ==
    ASSUME IInv, NEW n \in Nodes, NEW m \in Nodes, InstallSnapshot(n, m)
    PROVE  IInv'
<1>1. /\ UNCHANGED <<log, hist, restarts>>
      /\ snap' = [snap EXCEPT ![n] = snap[m]]
      /\ applied' = [applied EXCEPT ![n] = snap[m].index]
      /\ store' = [store EXCEPT ![n] = Restore(store[n], snap[m].state)]
      /\ mixed' \subseteq Nodes
      /\ mixed \subseteq mixed'
      /\ store[n] # Empty \/ snap[m].mixed => n \in mixed'
  BY DEF InstallSnapshot, IInv, TypeOK
<1>2. snap[m].index \in 0 .. Len(log)
  BY DEF IInv, TypeOK
<1>3. TypeOK'
  <2>1. \A k \in Nodes : snap'[k].index \in 0 .. applied'[k]
    BY <1>1, <1>2 DEF IInv, TypeOK
  <2> QED BY <1>1, <1>2, <2>1 DEF IInv, TypeOK
<1>4. SnapshotsOK'
  BY <1>1 DEF IInv, TypeOK, SnapshotsOK, After
<1>5. Agreement'
  <2> SUFFICES ASSUME NEW k \in Nodes, k \notin mixed'
               PROVE  store'[k] = After(applied'[k])
    BY <1>1 DEF Agreement, After
  <2>1. CASE k = n
    <3>1. store[n] = Empty /\ snap[m].state = After(snap[m].index)
      BY <2>1, <1>1 DEF IInv, SnapshotsOK
    <3>2. Restore(Empty, After(snap[m].index)) = After(snap[m].index)
      BY <1>2, StatesExact DEF IInv, SnapshotExact
    <3> QED BY <1>1, <2>1, <3>1, <3>2 DEF IInv, TypeOK
  <2>2. CASE k # n
    BY <1>1, <2>2 DEF IInv, TypeOK, Agreement
  <2> QED BY <2>1, <2>2
<1> QED BY <1>1, <1>3, <1>4, <1>5 DEF IInv, HistoryOK, HistTyped, StatesOK, After

(* So does a restart from the local snapshot.                               *)
LEMMA RestartStep ==
    ASSUME IInv, NEW n \in Nodes, Restart(n)
    PROVE  IInv'
<1>1. /\ UNCHANGED <<log, hist, snap>>
      /\ applied' = [applied EXCEPT ![n] = snap[n].index]
      /\ store' = [store EXCEPT ![n] = Restore(Empty, snap[n].state)]
      /\ mixed' \subseteq Nodes
      /\ \A k \in Nodes : k # n => (k \in mixed' <=> k \in mixed)
      /\ snap[n].mixed => n \in mixed'
      /\ restarts' \in 0 .. MaxRestarts
  BY ReplicationAssumption DEF Restart, IInv, TypeOK
<1>2. snap[n].index \in 0 .. Len(log)
  BY DEF IInv, TypeOK
<1>3. TypeOK'
  <2>1. \A k \in Nodes : snap'[k].index \in 0 .. applied'[k]
    BY <1>1, <1>2 DEF IInv, TypeOK
  <2> QED BY <1>1, <1>2, <2>1 DEF IInv, TypeOK
<1>4. Agreement'
  <2> SUFFICES ASSUME NEW k \in Nodes, k \notin mixed'
               PROVE  store'[k] = After(applied'[k])
    BY <1>1 DEF Agreement, After
  <2>1. CASE k = n
    <3>1. snap[n].state = After(snap[n].index)
      BY <2>1, <1>1 DEF IInv, SnapshotsOK
    <3>2. Restore(Empty, After(snap[n].index)) = After(snap[n].index)
      BY <1>2, StatesExact DEF IInv, SnapshotExact
    <3> QED BY <1>1, <2>1, <3>1, <3>2 DEF IInv, TypeOK
  <2>2. CASE k # n
    BY <1>1, <2>2 DEF IInv, TypeOK, Agreement
  <2> QED BY <2>1, <2>2
<1> QED BY <1>1, <1>3, <1>4 DEF IInv, HistoryOK, HistTyped, StatesOK, SnapshotsOK, After

(* The invariant holds of every behaviour.                                  *)
LEMMA Invariant == Spec => []IInv
<1>1. Init => IInv
  <2> SUFFICES ASSUME Init PROVE IInv
    OBVIOUS
  <2>1. hist \in Seq({Empty}) /\ Len(hist) = 1 /\ hist[1] = Empty
    BY DEF Init
  <2>2. TypeOK
    BY <2>1, ReplicationAssumption DEF Init, TypeOK
  <2>3. HistTyped
    BY <2>1, SeqDef DEF HistTyped
  <2>4. StatesOK
    <3>1. StateOK(Empty)
      BY EmptyWellFormed DEF StateOK, RoutesHaveOwner, Empty, Kinds
    <3>2. \A i \in 0 .. Len(log) : After(i) = Empty
      BY <2>1 DEF Init, After
    <3> QED BY <3>1, <3>2 DEF StatesOK
  <2> QED BY <2>1, <2>2, <2>3, <2>4 DEF Init, IInv, Agreement, HistoryOK, SnapshotsOK, After
<1>2. IInv /\ [Next]_vars => IInv'
  <2> SUFFICES ASSUME IInv, [Next]_vars PROVE IInv'
    OBVIOUS
  <2>1. CASE UNCHANGED vars
    BY <2>1 DEF vars, IInv, TypeOK, HistTyped, StatesOK, Agreement, HistoryOK, SnapshotsOK, After
  <2>2. CASE Next
    BY <2>2, CommitStep, ApplyStep, SnapshotStep, InstallStep, RestartStep DEF Next
  <2> QED BY <2>1, <2>2
<1> QED BY <1>1, <1>2, PTL DEF Spec

(* fsm.Snapshot loses nothing: every state that any log of any commands and *)
(* batches produces is given back, all kinds and the audit log included, by *)
(* fsm.Restore of its snapshot into empty stores.                           *)
THEOREM SnapshotsLoseNothing == Spec => []SnapshotExact
<1>1. IInv => SnapshotExact
  BY StatesExact DEF IInv
<1> QED BY <1>1, Invariant, PTL

(* Every node that never restored over existing rows agrees with the log,   *)
(* however many nodes, entries, restarts and snapshots there are: FSM.Apply *)
(* from empty, from its own snapshot or from a leader's come to the same.   *)
THEOREM NodesAgree == Spec => []Agreement
<1>1. IInv => Agreement
  BY DEF IInv
<1> QED BY <1>1, Invariant, PTL

(* Whatever applyPayload made of the deployments, in any order and batch, a *)
(* route or a TCP port belongs to a deployment the FSM has.                 *)
THEOREM EveryRouteHasOwner == Spec => []RoutesOwned
<1>1. IInv => RoutesOwned
  BY StatesOwned DEF IInv
<1> QED BY <1>1, Invariant, PTL
=============================================================================
