---------------------------- MODULE ReplicatedFSM ----------------------------
(***************************************************************************)
(* The FSM on every node of the cluster: controlplane/raft on top of       *)
(* hashicorp/raft.  Raft's own promise (one log, its entries applied in    *)
(* order) is taken from the library; what is modelled is what JACO's FSM   *)
(* adds: applying entries, taking snapshots, restoring them at start-up    *)
(* and restoring a leader's snapshot into a running follower that fell     *)
(* behind.                                                                 *)
(***************************************************************************)
EXTENDS ControlState

CONSTANTS Nodes,      \* the cluster's members
          Entries,    \* log entries: sequences of commands
          MaxLog,     \* bound: length of the log
          MaxRestarts \* bound: process restarts

ASSUME ReplicationAssumption ==
    /\ MaxLog \in Nat /\ MaxRestarts \in Nat
    /\ \A e \in Entries : Len(e) \in Nat

VARIABLES
    log,      \* the committed entries
    hist,     \* hist[i + 1]: the state that the first i entries produce
    store,    \* store[n]: the state in n's memory
    applied,  \* applied[n]: how many entries it stands for
    snap,     \* snap[n]: the latest snapshot in n's snapshot directory
    mixed,    \* nodes that restored a snapshot over rows they already had
    restarts

vars == <<log, hist, store, applied, snap, mixed, restarts>>

(* The state after i entries.                                               *)
After(i) == hist[i + 1]

Init ==
    /\ log = << >>
    /\ hist = <<Empty>>
    /\ store = [n \in Nodes |-> Empty]
    /\ applied = [n \in Nodes |-> 0]
    /\ snap = [n \in Nodes |-> [index |-> 0, state |-> Empty, mixed |-> FALSE]]
    /\ mixed = {}
    /\ restarts = 0

(* Some leader's Apply is committed.                                        *)
Commit(e) ==
    /\ Len(log) < MaxLog
    /\ log' = Append(log, e)
    /\ hist' = Append(hist, ApplyEntry(After(Len(log)), e, Len(log) + 1))
    /\ UNCHANGED <<store, applied, snap, mixed, restarts>>

(* FSM.Apply of the next entry.                                             *)
ApplyNext(n) ==
    /\ applied[n] < Len(log)
    /\ applied' = [applied EXCEPT ![n] = @ + 1]
    /\ store' = [store EXCEPT ![n] = ApplyEntry(@, log[applied[n] + 1], applied[n] + 1)]
    /\ UNCHANGED <<log, hist, snap, mixed, restarts>>

(* FSM.Snapshot and Persist.                                                *)
TakeSnapshot(n) ==
    /\ snap[n].index < applied[n]
    /\ snap' = [snap EXCEPT ![n] = [index |-> applied[n], state |-> store[n],
                                    mixed |-> n \in mixed]]
    /\ UNCHANGED <<log, hist, store, applied, mixed, restarts>>

(* The leader m no longer has the entries n needs and sends its snapshot.   *)
InstallSnapshot(n, m) ==
    /\ snap[m].index > applied[n]
    /\ store' = [store EXCEPT ![n] = Restore(@, snap[m].state)]
    /\ applied' = [applied EXCEPT ![n] = snap[m].index]
    /\ snap' = [snap EXCEPT ![n] = snap[m]]
    /\ mixed' = IF store[n] # Empty \/ snap[m].mixed THEN mixed \cup {n} ELSE mixed
    /\ UNCHANGED <<log, hist, restarts>>

(* Restart that restores into the stores the process had.                   *)
RestartKeepsRows(n) ==
    /\ restarts < MaxRestarts
    /\ restarts' = restarts + 1
    /\ store' = [store EXCEPT ![n] = Restore(@, snap[n].state)]
    /\ applied' = [applied EXCEPT ![n] = snap[n].index]
    /\ mixed' = IF snap[n].mixed THEN mixed \cup {n} ELSE mixed \ {n}
    /\ UNCHANGED <<log, hist, snap>>

(* The process starts again: its newest snapshot, restored into new stores. *)
Restart(n) ==
    /\ restarts < MaxRestarts
    /\ restarts' = restarts + 1
    /\ store' = [store EXCEPT ![n] = Restore(Empty, snap[n].state)]
    /\ applied' = [applied EXCEPT ![n] = snap[n].index]
    /\ mixed' = IF snap[n].mixed THEN mixed \cup {n} ELSE mixed \ {n}
    /\ UNCHANGED <<log, hist, snap>>

Next ==
    \/ \E e \in Entries : Commit(e)
    \/ \E n \in Nodes : ApplyNext(n) \/ TakeSnapshot(n) \/ Restart(n)
    \/ \E n, m \in Nodes : InstallSnapshot(n, m)

Spec == Init /\ [][Next]_vars

-----------------------------------------------------------------------------

(* Nobody is ahead of the log or behind its own snapshot: a node that       *)
(* restores (fsm.Restore) and re-applies never skips or invents an entry.   *)
TypeOK ==
    /\ log \in Seq(Entries) /\ Len(log) <= MaxLog
    /\ Len(hist) = Len(log) + 1
    /\ applied \in [Nodes -> 0 .. Len(log)]
    /\ DOMAIN store = Nodes /\ DOMAIN snap = Nodes
    /\ \A n \in Nodes : snap[n].index \in 0 .. applied[n]
    /\ mixed \subseteq Nodes
    /\ restarts \in 0 .. MaxRestarts

(* A node whose stores were only ever filled from empty holds exactly the   *)
(* state its applied index stands for, however it got there: by applying    *)
(* the log, by restoring its own snapshot after a restart and applying the  *)
(* rest, or by receiving a snapshot as a new member.                        *)
Agreement == \A n \in Nodes : n \notin mixed => store[n] = After(applied[n])

(* A snapshot loses nothing: of any state the log can produce, restored     *)
(* into empty stores, it gives that state back, every kind and the audit    *)
(* log included.                                                            *)
SnapshotExact == \A i \in 0 .. Len(log) : Restore(Empty, After(i)) = After(i)

(* Whoever is routed to exists: a route and a TCP port belong to a          *)
(* deployment the FSM has, whatever deployments replaced, took over or      *)
(* deleted.                                                                 *)
RoutesOwned ==
    \A kind \in {"routes", "tcp_routes"} :
       LET s == After(Len(log))
       IN  \A k \in DOMAIN s.rows[kind] : Has(s, "deployments", s.rows[kind][k].dep)

(* snapshot.go: "Restore replaces the entire State": also in a running      *)
(* node, the rows are those of the snapshot's index.                        *)
RestoreReplaces == \A n \in Nodes : store[n].rows = After(applied[n]).rows
=============================================================================
