------------------------------ MODULE Archive -------------------------------
(* Backup and restore.  Cluster.Backup snapshots the leader's FSM, packs it *)
(* with its metadata and streams the archive to `jaco backup`, which writes *)
(* it to a file; `jaco restore` seeds an unused data directory with it.     *)
(*   controlplane/backup, controlplane/grpc/backup.go, cmd/jaco             *)
(* The rows are told apart by the index of the last command in them.        *)
EXTENDS Naturals

CONSTANTS None,
          MaxLog,       \* commands committed
          MaxFaults,    \* broken streams, failed writes, killed commands
          MaxBackups,
          Versions      \* majors of the version in meta.json; None: not stamped

(* The archive in chunks: meta.json, snapshot.bin, the trailer of the gzip  *)
(* stream, which the tar reader never asks for.                             *)
Chunks == 3
Needed == 2

Running == 0            \* major of the restoring binary
Fresh == [log |-> FALSE, snap |-> None, marker |-> FALSE, served |-> FALSE]

VARIABLES log,          \* commands the cluster has committed
          applied,      \* commands the FSM of the node asked has applied
          leader,       \* the node asked is the leader
          audited,      \* indexes of the BACKUP_TAKEN entries
          export,       \* Cluster.Backup: [pc, asked, meta, rows, left]
          cli,          \* `jaco backup`: idle, recv, ok, error
          file,         \* its output
          version,      \* what meta.json is stamped with
          importer,     \* `jaco restore`: [pc, archive]
          dir,          \* the data directory it restores into
          backups, faults

vars == <<log, applied, leader, audited, export, cli, file, version, importer, dir, backups, faults>>
cluster == <<log, applied, leader>>
exporting == <<audited, export, cli, file, backups>>

NoExport == [pc |-> "idle", asked |-> 0, meta |-> 0, rows |-> 0, left |-> 0]
NoImport == [pc |-> "idle", archive |-> None]

Init ==
    /\ log = 1 /\ applied = 1 /\ leader = TRUE /\ audited = {}
    /\ export = NoExport /\ cli = "idle" /\ file = None /\ version \in Versions
    /\ importer = NoImport /\ dir = Fresh /\ backups = 0 /\ faults = 0

Fault == faults < MaxFaults /\ faults' = faults + 1

-----------------------------------------------------------------------------
(* The cluster goes on *)

(* This node's commands, or those of another leader.                        *)
Commit ==
    /\ log < MaxLog
    /\ log' = log + 1
    /\ UNCHANGED <<applied, leader, exporting, version, importer, dir, faults>>

(* The node asked is deposed or elected again; between two backups another  *)
(* one takes over, its FSM possibly behind.                                 *)
LeaderChange ==
    /\ Fault
    /\ leader' = ~leader
    /\ applied' \in IF export.pc = "idle" THEN 0..applied ELSE {applied}
    /\ UNCHANGED <<log, exporting, version, importer, dir>>

FSMApply ==
    /\ applied < log
    /\ applied' = applied + 1
    /\ UNCHANGED <<log, leader, exporting, version, importer, dir, faults>>

-----------------------------------------------------------------------------
(* Cluster.Backup and `jaco backup` *)

(* The leader serves a cluster that has its metadata.                       *)
Served == leader /\ applied > 0

(* os.Create truncates whatever the file held.                              *)
Backup ==
    /\ cli # "recv" /\ export.pc = "idle" /\ importer.pc = "idle" /\ backups < MaxBackups
    /\ backups' = backups + 1
    /\ file' = [asked |-> 0, meta |-> 0, rows |-> 0, parts |-> 0]
    /\ IF Served
       THEN /\ cli' = "recv"
            /\ export' = [NoExport EXCEPT !.pc = "snapshot", !.asked = applied]
       ELSE cli' = "error" /\ UNCHANGED export
    /\ UNCHANGED <<cluster, audited, version, importer, dir, faults>>

ExportStampsLog ==
    /\ export.pc = "snapshot"
    /\ export' = [export EXCEPT !.pc = "pack", !.meta = log, !.rows = applied]
    /\ UNCHANGED <<cluster, audited, cli, file, version, importer, dir, backups, faults>>

(* raft.Snapshot: the rows and the index come from the FSM's own queue.     *)
Export ==
    /\ export.pc = "snapshot"
    /\ export' = [export EXCEPT !.pc = "pack", !.meta = applied, !.rows = applied]
    /\ UNCHANGED <<cluster, audited, cli, file, version, importer, dir, backups, faults>>

(* The audit entry follows the archive, and is not waited for to succeed.   *)
BackupTaken ==
    /\ export.pc = "pack"
    /\ export' = [export EXCEPT !.pc = "send", !.left = Chunks]
    /\ \/ /\ leader /\ log < MaxLog
          /\ log' = log + 1 /\ applied' = log + 1
          /\ audited' = audited \cup {export.meta} /\ UNCHANGED faults
       \/ /\ IF leader THEN Fault ELSE UNCHANGED faults
          /\ UNCHANGED <<log, applied, audited>>
    /\ UNCHANGED <<leader, cli, file, version, importer, dir, backups>>

(* A chunk is sent, received and written to the file.                       *)
SendChunk ==
    /\ export.pc = "send" /\ export.left > 0 /\ cli = "recv"
    /\ export' = [export EXCEPT !.left = @ - 1]
    /\ file' = [asked |-> export.asked, meta |-> export.meta, rows |-> export.rows, parts |-> file.parts + 1]
    /\ UNCHANGED <<cluster, audited, cli, version, importer, dir, backups, faults>>

BackupEOF ==
    /\ export.pc = "send" /\ export.left = 0
    /\ export' = NoExport
    /\ cli' = "ok"
    /\ UNCHANGED <<cluster, audited, file, version, importer, dir, backups, faults>>

(* The export, the stream or a write fails: what was written stays.         *)
BackupBreaks ==
    /\ Fault /\ export.pc # "idle"
    /\ export' = NoExport
    /\ cli' = "error"
    /\ UNCHANGED <<cluster, audited, file, version, importer, dir, backups>>

-----------------------------------------------------------------------------
(* `jaco restore`.  The daemon is not started on the directory meanwhile.   *)

majorVersionsCompatible(a, b) == a = None \/ b = None \/ a = b

untar(f) == f # None /\ f.parts >= Needed

(* Import reads the whole archive before it looks at the directory, and     *)
(* refuses one that already has a log.                                      *)
Import(f) == untar(f) /\ majorVersionsCompatible(version, Running) /\ ~dir.log

Restore ==
    /\ importer.pc = "idle" /\ cli # "recv" /\ file # None /\ Import(file)
    /\ importer' = [pc |-> "store", archive |-> file]
    /\ UNCHANGED <<cluster, exporting, version, dir, faults>>

Goto(next) == importer' = [importer EXCEPT !.pc = next]
ImportStep == UNCHANGED <<cluster, exporting, version, faults>>

NewBoltStore ==
    /\ importer.pc = "store" /\ Goto("sink")
    /\ dir' = [dir EXCEPT !.log = TRUE] /\ ImportStep

(* The snapshot appears in the store when its sink is closed.               *)
CloseSink ==
    /\ importer.pc = "sink" /\ Goto("recover")
    /\ dir' = [dir EXCEPT !.snap = [meta |-> importer.archive.meta, rows |-> importer.archive.rows,
                                    asked |-> importer.archive.asked]]
    /\ ImportStep

(* A throwaway FSM loads the snapshot and writes it again, with the same    *)
(* rows and this node as the only voter.                                    *)
RecoverCluster ==
    /\ importer.pc = "recover" /\ Goto("marker")
    /\ UNCHANGED dir /\ ImportStep

WriteMarker ==
    /\ importer.pc = "marker" /\ importer' = NoImport
    /\ dir' = [dir EXCEPT !.marker = TRUE] /\ ImportStep

(* A step fails or the command is killed: nothing is undone.                *)
ImportFails ==
    /\ importer.pc # "idle" /\ Fault
    /\ importer' = NoImport
    /\ UNCHANGED <<cluster, exporting, version, dir>>

(* The daemon starts on the directory, resuming its log or forming a        *)
(* cluster of its own, and the operator may empty one that never served.    *)
Serve ==
    /\ importer.pc = "idle" /\ ~dir.served
    /\ dir' = [dir EXCEPT !.log = TRUE, !.served = TRUE]
    /\ UNCHANGED <<cluster, exporting, version, importer, faults>>

Wipe ==
    /\ importer.pc = "idle" /\ dir.log /\ ~dir.served
    /\ dir' = Fresh
    /\ UNCHANGED <<cluster, exporting, version, importer, faults>>

Next ==
    \/ Commit \/ LeaderChange \/ FSMApply
    \/ Backup \/ Export \/ BackupTaken \/ SendChunk \/ BackupEOF \/ BackupBreaks
    \/ Restore \/ NewBoltStore \/ CloseSink \/ RecoverCluster \/ WriteMarker \/ ImportFails
    \/ Serve \/ Wipe

Spec == Init /\ [][Next]_vars

-----------------------------------------------------------------------------
(* Properties *)

(* Type invariant.                                                          *)
TypeOK ==
    /\ log \in 0..MaxLog /\ applied \in 0..log /\ leader \in BOOLEAN /\ audited \subseteq 0..MaxLog
    /\ export.pc \in {"idle", "snapshot", "pack", "send"} /\ export.left \in 0..Chunks
    /\ cli \in {"idle", "recv", "ok", "error"}
    /\ file # None => file.parts \in 0..Chunks
    /\ importer.pc \in {"idle", "store", "sink", "recover", "marker"}
    /\ faults \in 0..MaxFaults /\ backups \in 0..MaxBackups

(* What Import puts in a data directory, at any moment of it and whatever   *)
(* broke before, is one whole archive: the rows are exactly those of the    *)
(* index in its metadata, none that the node had applied when the backup    *)
(* was asked for is missing, and the marker is only there with them.  And a *)
(* backup that `jaco backup` reports as written can be restored.            *)
RestoreExact ==
    /\ dir.snap # None => dir.snap.rows = dir.snap.meta /\ dir.snap.rows >= dir.snap.asked /\ dir.snap.rows > 0
    /\ dir.marker => dir.snap # None
    /\ cli = "ok" => untar(file) /\ file.rows = file.meta

(* No restore touches a directory a daemon has served from.                 *)
ServedKept == [][dir.served => dir' = dir]_dir
=============================================================================
