----------------------------- MODULE StateProofs -----------------------------
(* Proofs about what is kept on a host and carried from place to place, for *)
(* every bound.                                                             *)
(*                                                                          *)
(* Archive: the invariant follows the rows from the FSM to the export, the  *)
(* file, the archive in memory and the data directory: each holder that has *)
(* them has them whole.                                                     *)
(*                                                                          *)
(* Registry: for any references, images and passwords.                      *)
(*                                                                          *)
(* Upgrade: for any releases, of which any may be broken.                   *)
EXTENDS Archive, Integers, Sequences, TLAPS, SequenceTheorems, WellFoundedInduction

CONSTANTS Words,        \* the hosts and path segments of references
          Refs, Images, Inputs, MaxWrites, Releases, Broken, MaxRuns
VARIABLES creds, pull, presented, writes,
          latest, got, bin, prev, staged, pc, todo, before, running, systemctl, result, damaged, runs

Pulls == INSTANCE Registry
Swaps == INSTANCE Upgrade

(* A set of natural numbers that is not empty has a least element.          *)
LEMMA LeastElement ==
    ASSUME NEW T, T \subseteq Nat, T # {}
    PROVE  \E x \in T : \A y \in T : x <= y
<1> DEFINE R == OpToRel(<, Nat)
<1>1. IsWellFoundedOn(R, Nat)
  BY Zenon, NatLessThanWellFounded
<1>2. \A x, y \in Nat : y < x => <<y, x>> \in R
  BY DEF OpToRel
<1> HIDE DEF R
<1>3. PICK x \in T : \A y \in T : ~ (<<y, x>> \in R)
  BY Zenon, <1>1, WFMin
<1>4. \A y \in T : x <= y
  <2> SUFFICES ASSUME NEW y \in T PROVE x <= y
    OBVIOUS
  <2>1. ~ (y < x)
    BY Zenon, <1>2, <1>3
  <2> QED BY <2>1
<1> QED BY <1>4

-----------------------------------------------------------------------------
(* Backup and restore                                                       *)

Files == [asked : Nat, meta : Nat, rows : Nat, parts : Nat]
Snaps == [meta : Nat, rows : Nat, asked : Nat]

(* The rows of the index in the metadata, and no fewer than were asked for. *)
Whole(r) == r.rows = r.meta /\ r.rows >= r.asked /\ r.rows > 0

(* None is not one of the records it stands in for.                         *)
NoneApart == None \notin Files /\ None \notin Snaps

Shape ==
    /\ log \in Nat /\ applied \in Nat
    /\ export \in [pc : {"idle", "snapshot", "pack", "send"}, asked : Nat, meta : Nat, rows : Nat, left : Nat]
    /\ file \in Files \cup {None}
    /\ importer \in [pc : {"idle", "store", "sink", "recover", "marker"}, archive : Files \cup {None}]
    /\ dir \in [log : BOOLEAN, snap : Snaps \cup {None}, marker : BOOLEAN, served : BOOLEAN]

(* The export counts the chunks it has left, the command those it wrote.    *)
ExportInv ==
    /\ cli = "recv" <=> export.pc # "idle"
    /\ export.pc # "idle" => file # None
    /\ export.pc = "snapshot" => export.asked > 0 /\ export.asked <= applied
    /\ export.pc \in {"pack", "send"} => Whole(export)
    /\ export.pc \in {"snapshot", "pack"} => file.parts = 0
    /\ export.pc = "send" => file.parts + export.left = Chunks
    /\ file # None /\ file.parts > 0 => Whole(file)
    /\ cli = "ok" => file # None /\ file.parts = Chunks

(* While a command imports, the directory has not been served from.         *)
ImportInv ==
    /\ importer.pc # "idle" => importer.archive # None /\ Whole(importer.archive) /\ ~dir.served
    /\ importer.pc \in {"recover", "marker"} => dir.snap # None
    /\ dir.snap # None => Whole(dir.snap)
    /\ dir.marker => dir.snap # None
    /\ dir.served => dir.log

IInv == Shape /\ ExportInv /\ ImportInv

(* Nothing is exported, written or restored yet.                            *)
LEMMA InitOK ==
    ASSUME NoneApart, Init PROVE IInv
BY DEF Init, IInv, Shape, ExportInv, ImportInv, NoExport, NoImport, Fresh, NoneApart

(* The cluster's own steps move no row that was already exported: the       *)
(* applied index never falls under an export in progress.                   *)
LEMMA ClusterStep ==
    ASSUME IInv, Commit \/ LeaderChange \/ FSMApply PROVE IInv'
<1>1. CASE Commit
  BY <1>1 DEF Commit, IInv, Shape, ExportInv, ImportInv, exporting, Whole
<1>2. CASE LeaderChange
  BY <1>2 DEF LeaderChange, IInv, Shape, ExportInv, ImportInv, exporting, Whole
<1>3. CASE FSMApply
  BY SMTT(20), Zenon, <1>3 DEF FSMApply, IInv, Shape, ExportInv, ImportInv, exporting, Whole
<1> QED BY <1>1, <1>2, <1>3

(* The export: rows and index are read together, a chunk moves from what    *)
(* is left to what is written, and the end is reported with nothing left.   *)
LEMMA ExportStep ==
    ASSUME NoneApart, IInv, Backup \/ Export \/ BackupTaken \/ SendChunk \/ BackupEOF \/ BackupBreaks
    PROVE  IInv'
<1> USE DEF IInv, Shape, ExportInv
<1>0. ASSUME UNCHANGED <<importer, dir>> PROVE ImportInv'
  BY <1>0 DEF ImportInv, Whole
<1>1. CASE Backup
  <2>1. file' \in Files /\ file'.parts = 0
    BY <1>1 DEF Backup, Files
  <2>2. UNCHANGED <<log, applied, importer, dir>>
    BY <1>1 DEF Backup, cluster
  <2>3. CASE Served
    <3>1. /\ cli' = "recv"
          /\ export' = [pc |-> "snapshot", asked |-> applied, meta |-> 0, rows |-> 0, left |-> 0]
      BY ZenonT(40), <1>1, <2>3 DEF Backup, NoExport
    <3> QED BY <2>1, <2>2, <2>3, <3>1, <1>0 DEF Served, NoneApart
  <2>4. CASE ~Served
    BY <1>1, <2>1, <2>2, <2>4, <1>0 DEF Backup, NoneApart
  <2> QED BY <2>3, <2>4
<1>2. CASE Export
  <2>1. PICK a, m, r, l : export = [pc |-> "snapshot", asked |-> a, meta |-> m, rows |-> r, left |-> l]
    BY <1>2 DEF Export
  <2>2. export' = [pc |-> "pack", asked |-> a, meta |-> applied, rows |-> applied, left |-> l]
    BY Zenon, <1>2, <2>1 DEF Export
  <2>3. a \in Nat /\ l \in Nat /\ a > 0 /\ a <= applied
    BY <2>1
  <2>4. UNCHANGED <<log, applied, cli, file, importer, dir>>
    BY <1>2 DEF Export, cluster
  <2> QED BY <2>1, <2>2, <2>3, <2>4, <1>0 DEF Whole
<1>3. CASE BackupTaken
  <2>1. PICK a, m, r, l : export = [pc |-> "pack", asked |-> a, meta |-> m, rows |-> r, left |-> l]
    BY SMTT(20), Zenon, <1>3 DEF BackupTaken
  <2>2. export' = [pc |-> "send", asked |-> a, meta |-> m, rows |-> r, left |-> Chunks]
    BY ZenonT(40), <1>3, <2>1 DEF BackupTaken
  <2>3. a \in Nat /\ m \in Nat /\ r \in Nat /\ r = m /\ r >= a /\ r > 0
    BY <2>1 DEF Whole
  <2>4. UNCHANGED <<cli, file, importer, dir>> /\ log' \in Nat /\ applied' \in Nat
    BY <1>3 DEF BackupTaken
  <2> QED BY SMTT(20), Zenon, <2>1, <2>2, <2>3, <2>4, <1>0 DEF Whole, Chunks, Files
<1>4. CASE SendChunk
  <2>1. PICK a, m, r, l : export = [pc |-> "send", asked |-> a, meta |-> m, rows |-> r, left |-> l]
    BY <1>4 DEF SendChunk
  <2>2. export' = [pc |-> "send", asked |-> a, meta |-> m, rows |-> r, left |-> l - 1]
    BY <1>4, <2>1 DEF SendChunk
  <2>3. a \in Nat /\ m \in Nat /\ r \in Nat /\ r = m /\ r >= a /\ r > 0 /\ l \in Nat /\ l > 0
    BY <1>4, <2>1 DEF Whole, SendChunk
  <2>4. file' = [asked |-> a, meta |-> m, rows |-> r, parts |-> file.parts + 1] /\ file \in Files
    BY <1>4, <2>1 DEF SendChunk
  <2>5. UNCHANGED <<log, applied, cli, importer, dir>> /\ cli = "recv"
    BY <1>4 DEF SendChunk, cluster
  <2>6. file.parts \in Nat /\ file.parts + l = Chunks
    BY <2>1, <2>4 DEF Files
  <2>7. file' \in Files
    BY <2>3, <2>4, <2>6 DEF Files
  <2>8. file'.parts + (l - 1) = Chunks /\ Whole(file') /\ Whole(export')
    BY SMTT(20), Zenon, <2>2, <2>3, <2>4, <2>6 DEF Whole, Chunks
  <2> QED BY <2>2, <2>3, <2>5, <2>7, <2>8, <1>0 DEF NoneApart
<1>5. CASE BackupEOF
  BY <1>5, <1>0 DEF BackupEOF, cluster, NoExport, Whole, Files
<1>6. CASE BackupBreaks
  BY SMTT(20), Zenon, <1>6, <1>0 DEF BackupBreaks, cluster, NoExport, Whole, Files
<1> QED BY Zenon, <1>1, <1>2, <1>3, <1>4, <1>5, <1>6

(* The import: only a whole archive is taken, and only into a directory     *)
(* without a log.                                                           *)
LEMMA ImportSteps ==
    ASSUME NoneApart, IInv,
           \/ Restore \/ NewBoltStore \/ CloseSink \/ RecoverCluster \/ WriteMarker \/ ImportFails
           \/ Serve \/ Wipe
    PROVE  IInv'
<1> USE DEF IInv, Shape, ImportInv
<1>0. UNCHANGED <<log, applied, export, cli, file>>
  BY DEF Restore, NewBoltStore, CloseSink, RecoverCluster, WriteMarker, ImportFails, Serve, Wipe,
         ImportStep, cluster, exporting
<1>a. ExportInv'
  BY <1>0 DEF ExportInv, Whole
<1>1. CASE Restore
  <2>1. file \in Files /\ file.parts > 0 /\ ~dir.log
    BY <1>1 DEF Restore, Import, untar, Needed, Files
  <2>2. Whole(file)
    BY <2>1 DEF ExportInv, NoneApart
  <2> QED BY <1>0, <1>a, <1>1, <2>1, <2>2 DEF Restore, NoneApart
<1>2. CASE NewBoltStore
  BY Zenon, <1>0, <1>a, <1>2 DEF NewBoltStore, Goto
<1>3. CASE CloseSink
  <2> DEFINE f == importer.archive
  <2>1. f \in Files /\ Whole(f)
    BY <1>3 DEF CloseSink
  <2>2. /\ dir' = [log |-> dir.log, snap |-> [meta |-> f.meta, rows |-> f.rows, asked |-> f.asked],
                   marker |-> dir.marker, served |-> dir.served]
        /\ importer' = [pc |-> "recover", archive |-> f]
    BY <1>3 DEF CloseSink, Goto
  <2>3. dir'.snap \in Snaps /\ Whole(dir'.snap)
    BY <2>1, <2>2 DEF Snaps, Files, Whole
  <2>4. importer.pc = "sink"
    BY <1>3 DEF CloseSink
  <2> QED BY <1>0, <1>a, <2>1, <2>2, <2>3, <2>4 DEF NoneApart
<1>4. CASE RecoverCluster
  BY <1>0, <1>a, <1>4 DEF RecoverCluster, Goto
<1>5. CASE WriteMarker
  BY Zenon, <1>0, <1>a, <1>5 DEF WriteMarker, NoImport
<1>6. CASE ImportFails
  BY <1>0, <1>a, <1>6 DEF ImportFails, NoImport
<1>7. CASE Serve
  BY ZenonT(40), <1>0, <1>a, <1>7 DEF Serve
<1>8. CASE Wipe
  BY <1>0, <1>a, <1>8 DEF Wipe, Fresh
<1> QED BY ZenonT(40), <1>1, <1>2, <1>3, <1>4, <1>5, <1>6, <1>7, <1>8

(* Every step keeps the invariant.                                          *)
LEMMA StepOK ==
    ASSUME NoneApart, IInv, [Next]_vars PROVE IInv'
<1>1. CASE UNCHANGED vars
  BY <1>1 DEF vars, IInv, Shape, ExportInv, ImportInv, Whole
<1> QED BY <1>1, ClusterStep, ExportStep, ImportSteps DEF Next

(* RestoreExact for every bound: whatever broke before, what Import puts in *)
(* a data directory is one whole archive with at least the rows applied     *)
(* when the backup was asked for, and a backup reported as written can be   *)
(* restored.                                                                *)
THEOREM RestoresWhole ==
    ASSUME NoneApart PROVE Spec => []RestoreExact
<1>1. IInv => RestoreExact
  BY DEF IInv, Shape, ExportInv, ImportInv, RestoreExact, Whole, untar, Needed, Chunks
<1> QED BY <1>1, InitOK, StepOK, PTL DEF Spec

(* ServedKept for every bound: neither a restore in progress nor a wipe     *)
(* touches a directory a daemon has served from.                            *)
THEOREM ServedStays ==
    ASSUME NoneApart PROVE Spec => ServedKept
<1>1. ASSUME IInv, [Next]_vars PROVE [dir.served => dir' = dir]_dir
  <2>1. CASE UNCHANGED vars
    BY SMTT(20), Zenon, <2>1 DEF vars
  <2>2. CASE Next
    BY Zenon, <1>1, <2>2 DEF Next, IInv, ImportInv, Commit, LeaderChange, FSMApply, Backup, Export, BackupTaken,
       SendChunk, BackupEOF, BackupBreaks, Restore, NewBoltStore, CloseSink, RecoverCluster, WriteMarker,
       ImportFails, Serve, Wipe
  <2> QED BY <1>1, <2>1, <2>2
<1> QED BY <1>1, InitOK, StepOK, PTL DEF Spec, ServedKept

-----------------------------------------------------------------------------
(* Registry credentials                                                     *)

Keys == Seq(Words) \ {<<>>}

(* What is typed has a host and segments, or is a bare name.                *)
TypedWell ==
    /\ {Pulls!Hub, "ghcr.io", "library"} \subseteq Words
    /\ None \notin Seq(Words) /\ None \notin Words
    /\ \A r \in Refs : r.host \in Words /\ r.path \in Seq(Words)
    /\ \A i \in Images : i.host \in Words \cup {None} /\ i.path \in Seq(Words)

(* A host and a path make a key.                                            *)
LEMMA Concatenated ==
    ASSUME NEW h \in Words, NEW p \in Seq(Words)
    PROVE  <<h>> \o p \in Keys
<1>1. <<h>> \in Seq(Words) /\ Len(<<h>>) = 1
  OBVIOUS
<1>2. <<h>> \o p \in Seq(Words) /\ Len(<<h>> \o p) = 1 + Len(p) /\ Len(p) \in Nat
  BY <1>1, ConcatProperties
<1>3. <<h>> \o p # <<>>
  BY <1>2
<1> QED BY <1>2, <1>3 DEF Keys

(* canonicalRegistryKey gives a key, or nothing for a reference without host. *)
LEMMA KeyTyped ==
    ASSUME TypedWell, NEW r \in Refs, Pulls!canonicalRegistryKey(r) # <<>>
    PROVE  Pulls!canonicalRegistryKey(r) \in Keys
  BY Zenon, Concatenated DEF TypedWell, Pulls!canonicalRegistryKey, Pulls!Lower, Pulls!Hub, Pulls!Aliases

(* An image has a repository, with a bare name on Docker Hub.               *)
LEMMA RepoTyped ==
    ASSUME TypedWell, NEW i \in Images
    PROVE  Pulls!CanonicalRepo(i) \in Keys
<1> DEFINE n == Pulls!ParseNormalizedNamed(i)
<1>1. n.host \in Words /\ n.path \in Seq(Words)
  <2>1. CASE i.host = None
    <3>1. \A s \in Seq(Words) : s \o i.path \in Seq(Words)
      BY ConcatProperties DEF TypedWell
    <3>2. <<"library">> \in Seq(Words) /\ <<>> \in Seq(Words)
      BY DEF TypedWell
    <3> QED BY <2>1, <3>1, <3>2 DEF TypedWell, Pulls!ParseNormalizedNamed, Pulls!Hub
  <2>2. CASE i.host # None
    BY <2>2 DEF Pulls!ParseNormalizedNamed, TypedWell
  <2> QED BY <2>1, <2>2
<1>2. Pulls!CanonicalHost(i) \in Words
  BY <1>1 DEF TypedWell, Pulls!CanonicalHost, Pulls!Lower, Pulls!Hub
<1> QED BY <1>1, <1>2, Concatenated DEF Pulls!CanonicalRepo

(* The prefixes of a repository are what covers it.                         *)
LEMMA PrefixCovers ==
    ASSUME NEW repo \in Keys, NEW k \in Keys
    PROVE  /\ k \in Pulls!Prefixes(repo) <=> Pulls!Covers(k, repo)
           /\ Pulls!Covers(k, repo) => k[1] = repo[1] /\ Len(k) \in 1 .. Len(repo)
<1>1. Len(k) \in Nat \ {0} /\ Len(repo) \in Nat
  BY EmptySeq DEF Keys
<1>2. \A n \in 1 .. Len(repo) : Len(SubSeq(repo, 1, n)) = n /\ SubSeq(repo, 1, n)[1] = repo[1]
  BY <1>1, SubSeqProperties DEF Keys
<1> QED BY <1>1, <1>2 DEF Pulls!Prefixes, Pulls!Covers

(* What MatchCredentialKey answers: the longest of the keys that cover the  *)
(* repository, if there is one.                                             *)
LEMMA LongestMatch ==
    ASSUME NEW repo \in Keys, NEW keys \in SUBSET Keys,
           NEW found, found = {k \in keys : Pulls!Covers(k, repo)}, found # {}
    PROVE  LET best == Pulls!MatchCredentialKey(repo, keys)
           IN  best \in found /\ \A k \in found : Len(k) <= Len(best)
<1>1. found = Pulls!Prefixes(repo) \cap keys
  BY PrefixCovers
<1>2. Len(repo) \in Nat
  BY DEF Keys
<1>3. \A k \in found : Len(k) \in 1 .. Len(repo)
  BY PrefixCovers
<1> DEFINE T == {Len(repo) - Len(k) : k \in found}
<1>4. T \subseteq Nat /\ T # {}
  BY <1>2, <1>3
<1>5. \A t \in T : \E k \in found : t = Len(repo) - Len(k)
  OBVIOUS
<1>6. \A k \in found : Len(repo) - Len(k) \in T
  OBVIOUS
<1> HIDE DEF T
<1>7. PICK t \in T : \A u \in T : t <= u
  BY Zenon, <1>4, LeastElement
<1>8. PICK k \in found : t = Len(repo) - Len(k)
  BY <1>5
<1>9. \A j \in found : Len(j) <= Len(k)
  BY <1>2, <1>3, <1>6, <1>7, <1>8
<1>10. Pulls!MatchCredentialKey(repo, keys) = CHOOSE x \in found : \A j \in found : Len(j) <= Len(x)
  BY <1>1 DEF Pulls!MatchCredentialKey
<1> QED BY <1>9, <1>10

(* The choice of a key for a repository, from the keys that were listed.    *)
InScope(repo, keys, key) ==
    LET covering == {k \in keys : Pulls!Covers(k, repo)}
    IN  /\ key # None =>
              /\ key \in keys /\ key[1] = repo[1]
              /\ \/ key \in covering /\ \A k \in covering : Len(k) <= Len(key)
                 \/ covering = {} /\ {k \in keys : k[1] = repo[1]} = {key}
        /\ covering # {} => key # None

(* ResolveCredentialKey: the longest key that covers the repository or,     *)
(* when none does, the one that is alone on its host.                       *)
LEMMA ResolvedInScope ==
    ASSUME TypedWell, NEW repo \in Keys, NEW keys \in SUBSET Keys
    PROVE  InScope(repo, keys, Pulls!ResolveCredentialKey(repo, keys))
<1> DEFINE covering == {k \in keys : Pulls!Covers(k, repo)}
           best == Pulls!MatchCredentialKey(repo, keys)
           onHost == {k \in keys : k[1] = repo[1]}
           key == Pulls!ResolveCredentialKey(repo, keys)
<1>0. None \notin keys
  BY DEF TypedWell, Keys
<1>1. key = IF best # None THEN best
            ELSE IF \E k \in onHost : onHost = {k} THEN CHOOSE k \in onHost : TRUE ELSE None
  BY Zenon DEF Pulls!ResolveCredentialKey, Pulls!RegistryHost
<1>2. covering = {} => best = None
  <2>1. Pulls!Prefixes(repo) \cap keys = covering
    BY PrefixCovers
  <2> QED BY <2>1, Zenon DEF Pulls!MatchCredentialKey
<1>3. covering # {} => best \in covering /\ \A k \in covering : Len(k) <= Len(best)
  BY LongestMatch, Zenon
<1>4. \A k \in covering : k \in keys /\ k[1] = repo[1]
  BY PrefixCovers
<1>5. \A k \in onHost : k \in keys /\ k[1] = repo[1]
  OBVIOUS
<1> HIDE DEF covering, best, onHost, key
<1>6. CASE covering # {}
  <2>1. key = best /\ best # None
    BY <1>0, <1>1, <1>3, <1>4, <1>6
  <2> QED BY <1>3, <1>4, <1>6, <2>1 DEF InScope, covering, key
<1>7. CASE covering = {}
  <2>1. key # None => key \in onHost /\ onHost = {key}
    BY <1>1, <1>2, <1>7
  <2> QED BY <1>5, <1>7, <2>1 DEF InScope, covering, key, onHost
<1> QED BY <1>6, <1>7

(* A pull has chosen among the keys it listed, and remembers every row that *)
(* was stored since.                                                        *)
Chosen(p) ==
    /\ p.image \in Images /\ p.keys \in SUBSET Keys
    /\ p.key = Pulls!ResolveCredentialKey(Pulls!CanonicalRepo(p.image), p.keys)

PullInv ==
    /\ DOMAIN creds \subseteq Keys
    /\ pull # None =>
          /\ pull = [image |-> pull.image, key |-> pull.key, keys |-> pull.keys, stored |-> pull.stored]
          /\ Chosen(pull) /\ Pulls!Rows(creds) \subseteq pull.stored
    /\ presented # None =>
          /\ Chosen(presented.pull)
          /\ presented.auth # Pulls!Anonymous =>
                /\ presented.pull.key # None
                /\ presented.auth.key = <<presented.pull.key[1]>>
                /\ <<presented.pull.key, presented.auth.secret>> \in presented.pull.stored

(* Nothing is stored and no pull is under way.                              *)
LEMMA PullInit == Pulls!Init => PullInv
  BY DEF Pulls!Init, PullInv

(* The record of a pull that remembers more rows.                           *)
LEMMA Remembered ==
    ASSUME NEW i, NEW k, NEW ks, NEW s, NEW p, p = [image |-> i, key |-> k, keys |-> ks, stored |-> s],
           NEW more, NEW q, q = [p EXCEPT !.stored = @ \cup more]
    PROVE  q = [image |-> i, key |-> k, keys |-> ks, stored |-> s \cup more]
  OBVIOUS

(* A login is remembered by the pull in progress.                           *)
LEMMA LoginStep ==
    ASSUME TypedWell, PullInv, NEW r \in Refs, NEW input \in Inputs, Pulls!Login(r, input)
    PROVE  PullInv'
<1>1. DOMAIN creds' \subseteq Keys
  BY KeyTyped DEF Pulls!Login, PullInv
<1>2. presented' = presented
  BY DEF Pulls!Login
<1>3. ASSUME pull' # None
      PROVE  /\ pull' = [image |-> pull'.image, key |-> pull'.key, keys |-> pull'.keys, stored |-> pull'.stored]
             /\ Chosen(pull') /\ Pulls!Rows(creds') \subseteq pull'.stored
  <2>1. pull # None /\ pull' = [pull EXCEPT !.stored = @ \cup Pulls!Rows(creds')]
    BY <1>3 DEF Pulls!Login, Pulls!Remember
  <2>2. PICK i, k, ks, s : pull = [image |-> i, key |-> k, keys |-> ks, stored |-> s]
    BY <2>1 DEF PullInv
  <2>3. pull' = [image |-> i, key |-> k, keys |-> ks, stored |-> s \cup Pulls!Rows(creds')]
    BY SMTT(20), Zenon, <2>1, <2>2, Remembered
  <2>4. Chosen(pull)
    BY <2>1 DEF PullInv
  <2> QED BY <2>2, <2>3, <2>4 DEF Chosen
<1> QED BY <1>1, <1>2, <1>3 DEF PullInv

(* A logout stores nothing.                                                 *)
LEMMA LogoutStep ==
    ASSUME PullInv, NEW r \in Refs, Pulls!Logout(r)
    PROVE  PullInv'
<1>1. DOMAIN creds' \subseteq DOMAIN creds /\ \A k \in DOMAIN creds' : creds'[k] = creds[k]
  BY DEF Pulls!Logout
<1>2. Pulls!Rows(creds') \subseteq Pulls!Rows(creds)
  BY <1>1 DEF Pulls!Rows
<1>3. UNCHANGED <<pull, presented>>
  BY DEF Pulls!Logout
<1> QED BY <1>1, <1>2, <1>3 DEF PullInv

(* A pull lists the keys and chooses one.                                   *)
LEMMA ListStep ==
    ASSUME TypedWell, PullInv, NEW i \in Images, Pulls!ListKeys(i)
    PROVE  PullInv'
<1>1. /\ pull' = [image |-> i, key |-> Pulls!ResolveCredentialKey(Pulls!CanonicalRepo(i), DOMAIN creds),
                  keys |-> DOMAIN creds, stored |-> Pulls!Rows(creds)]
      /\ UNCHANGED <<creds, presented>>
  BY DEF Pulls!ListKeys
<1> QED BY <1>1 DEF PullInv, Chosen

(* And reads that one again: it sends what is stored under it by then, or   *)
(* nothing.                                                                 *)
LEMMA GetStep ==
    ASSUME PullInv, Pulls!GetCredential
    PROVE  PullInv'
<1>1. pull # None /\ pull' = None /\ creds' = creds
  BY DEF Pulls!GetCredential
<1>2. presented' = [pull |-> pull, auth |-> Pulls!BuildRegistryAuth(pull.key, creds)]
  BY DEF Pulls!GetCredential
<1>3. Chosen(pull) /\ Pulls!Rows(creds) \subseteq pull.stored
  BY <1>1 DEF PullInv
<1>4. CASE pull.key = None \/ pull.key \notin DOMAIN creds
  BY <1>1, <1>2, <1>3, <1>4 DEF PullInv, Pulls!BuildRegistryAuth
<1>5. CASE pull.key # None /\ pull.key \in DOMAIN creds
  <2>1. presented' = [pull |-> pull, auth |-> [key |-> <<pull.key[1]>>, secret |-> creds[pull.key]]]
    BY <1>2, <1>5 DEF Pulls!BuildRegistryAuth, Pulls!RegistryHost
  <2>2. <<pull.key, creds[pull.key]>> \in pull.stored
    BY <1>3, <1>5 DEF Pulls!Rows
  <2> QED BY SMTT(20), Zenon, <1>1, <1>3, <1>5, <2>1, <2>2 DEF PullInv
<1> QED BY <1>4, <1>5

(* Every step keeps the invariant.                                          *)
LEMMA PullStep ==
    ASSUME TypedWell, PullInv, [Pulls!Next]_(Pulls!vars)
    PROVE  PullInv'
<1>1. CASE UNCHANGED Pulls!vars
  BY <1>1 DEF Pulls!vars, PullInv
<1> QED BY <1>1, LoginStep, LogoutStep, ListStep, GetStep DEF Pulls!Next

(* authResolver, racing any logins and logouts, sends a password only to    *)
(* the host of its image, one that was stored while it ran, under the most  *)
(* specific key or the only one of that host.                               *)
THEOREM CredentialsStayInScope ==
    ASSUME TypedWell PROVE Pulls!Spec => []Pulls!CredentialInScope
<1>1. PullInv => Pulls!CredentialInScope
  <2> SUFFICES ASSUME PullInv, presented # None PROVE Pulls!CredentialInScope
    BY DEF Pulls!CredentialInScope
  <2> DEFINE p == presented.pull
             repo == Pulls!CanonicalRepo(p.image)
  <2>1. Chosen(p)
    BY DEF PullInv
  <2>2. repo \in Keys
    BY <2>1, RepoTyped DEF Chosen
  <2>3. InScope(repo, p.keys, p.key)
    BY <2>1, <2>2, ResolvedInScope DEF Chosen
  <2>4. presented.auth # Pulls!Anonymous =>
          /\ p.key # None /\ presented.auth.key = <<p.key[1]>>
          /\ <<p.key, presented.auth.secret>> \in p.stored
    BY DEF PullInv
  <2> QED BY SMTT(20), Zenon, <2>3, <2>4 DEF Pulls!CredentialInScope, InScope
<1> QED BY <1>1, PullInit, PullStep, PTL DEF Pulls!Spec

(* The handler's key and the repository of a pull are normalised alike: a   *)
(* login with the host and path of an image covers it.                      *)
THEOREM LoginsAreUsed ==
    ASSUME TypedWell PROVE Pulls!LoginIsUsed
<1> SUFFICES ASSUME NEW r \in Refs, NEW i \in Images, r.host = i.host, r.path = i.path,
                    r.host \notin {"registry-1.docker.io", "registry.docker.io"}
             PROVE  Pulls!Covers(Pulls!canonicalRegistryKey(r), Pulls!CanonicalRepo(i))
  BY DEF Pulls!LoginIsUsed
<1>1. Pulls!CanonicalRepo(i) \in Keys
  BY RepoTyped
<1>2. CASE Pulls!canonicalRegistryKey(r) = <<>>
  <2>1. Len(Pulls!CanonicalRepo(i)) \in Nat /\ SubSeq(Pulls!CanonicalRepo(i), 1, 0) = <<>>
    BY <1>1, SubSeqProperties, EmptySeq DEF Keys
  <2> QED BY <1>2, <2>1 DEF Pulls!Covers
<1>3. CASE Pulls!canonicalRegistryKey(r) # <<>>
  <2>1. Pulls!canonicalRegistryKey(r) = Pulls!CanonicalRepo(i)
    BY Zenon, <1>3 DEF TypedWell, Pulls!canonicalRegistryKey, Pulls!CanonicalRepo, Pulls!CanonicalHost,
       Pulls!ParseNormalizedNamed, Pulls!Lower, Pulls!Hub, Pulls!Aliases
  <2>2. \A s \in Seq(Words) : SubSeq(s, 1, Len(s)) = s /\ Len(s) \in Nat
    OBVIOUS
  <2> QED BY <1>1, <2>1, <2>2 DEF Pulls!Covers, Keys
<1> QED BY <1>2, <1>3

-----------------------------------------------------------------------------
(* Self-upgrade                                                             *)

Two == {"jaco", "jacod"}
Bodies == [release : Releases, whole : BOOLEAN]
Good == {f \in Bodies : f.whole}

(* Releases are numbered, and None is no file.                              *)
ReleasesOK ==
    /\ Releases \subseteq Nat /\ Releases # {}
    /\ None \notin Bodies /\ None # Swaps!Torn /\ None # "ok"

Stages == {"idle", "tarball", "sums", "sig", "verify", "extract", "save", "stage", "jaco", "jacod",
           "restart", "restore", "unhealthy"}

UpTyped ==
    /\ latest \in Releases /\ systemctl \in BOOLEAN /\ damaged \in BOOLEAN
    /\ bin \in [Two -> Good \cup {None}] /\ before \in [Two -> Good \cup {None}]
    /\ prev \in [Two -> Good \cup {None, Swaps!Torn}] /\ staged \in [Two -> Good \cup {None, Swaps!Torn}]
    /\ pc \in Stages /\ todo \subseteq Two

(* What is fetched is a body, and past the verification a whole one.        *)
Fetched ==
    /\ got = [tarball |-> got.tarball, sums |-> got.sums, sig |-> got.sig]
    /\ pc \in {"sums", "sig", "verify"} => got.tarball \in Bodies
    /\ pc \in {"extract", "save", "stage", "jaco", "jacod", "restart", "restore", "unhealthy"} => got.tarball \in Good

(* Before a rename, the .prev of every binary is that binary, and nothing   *)
(* is left of an earlier run where there is none.                           *)
SavedFirst ==
    /\ \A b \in Two : bin[b] = None => prev[b] = None
    /\ pc = "save" => \A b \in Two : IF b \in todo THEN bin[b] # None ELSE prev[b] = bin[b]
    /\ pc \in {"stage", "jaco", "jacod", "restart", "restore"} => prev = before
    /\ pc \in {"stage", "jaco"} => \A b \in Two : (pc = "jaco" \/ b \notin todo) => staged[b] = got.tarball
    /\ pc = "jacod" => staged["jacod"] = got.tarball

(* How far the two binaries are swapped, or swapped back.                   *)
Swapped ==
    /\ pc # "idle" => result = None
    /\ pc \in {"tarball", "sums", "sig", "verify", "extract", "save", "stage", "jaco"} => bin = before
    /\ pc \in {"jacod", "restore"} => bin["jaco"] = got.tarball /\ bin["jacod"] = before["jacod"]
    /\ pc = "restore" => todo = {"jaco"}
    /\ pc = "restart" => bin["jaco"] = got.tarball /\ bin["jacod"] = got.tarball
    /\ pc = "unhealthy" =>
          /\ todo \in {Two, {"jacod"}}
          /\ \A b \in todo : prev[b] = before[b] /\ bin[b] = got.tarball
          /\ \A b \in Two \ todo : before[b] # None => damaged \/ bin[b] = before[b]

UpInv == UpTyped /\ Fetched /\ SavedFirst /\ Swapped /\ Swaps!UpgradeAllOrNothing

(* There is a first release.                                                *)
LEMMA FirstReleased == ASSUME ReleasesOK PROVE Swaps!First \in Releases
  BY Zenon, LeastElement DEF ReleasesOK, Swaps!First

(* The file of a release is whole.                                          *)
LEMMA FilesGood ==
    ASSUME ReleasesOK, NEW r \in Releases
    PROVE  Swaps!File(r) \in Good /\ Swaps!File(r).release = r
  BY DEF Good, Bodies, Swaps!File

(* No binary, or both of the first release, and nothing beside them.        *)
LEMMA UpInit == ASSUME ReleasesOK, Swaps!Init PROVE UpInv
<1>1. bin \in [Two -> Good \cup {None}]
  BY FirstReleased, FilesGood DEF Swaps!Init, Swaps!NoFile, Swaps!Binaries, Two
<1>2. prev = [b \in Two |-> None] /\ staged = [b \in Two |-> None] /\ latest \in Releases
  BY FirstReleased DEF Swaps!Init, Swaps!NoFile, Swaps!Binaries, Two
<1>3. got = [tarball |-> None, sums |-> None, sig |-> None]
  BY DEF Swaps!Init, Swaps!Nothing
<1>4. before = bin /\ pc = "idle" /\ todo = {} /\ systemctl \in BOOLEAN /\ damaged = FALSE /\ result = None
  BY DEF Swaps!Init
<1>5. UpTyped
  BY Zenon, <1>1, <1>2, <1>4 DEF UpTyped, Stages
<1>6. Fetched /\ SavedFirst /\ Swapped
  BY <1>2, <1>3, <1>4 DEF Fetched, SavedFirst, Swapped
<1>7. Swaps!UpgradeAllOrNothing
  BY <1>4 DEF Swaps!UpgradeAllOrNothing, ReleasesOK
<1> QED BY <1>5, <1>6, <1>7 DEF UpInv

(* A run that stops with both binaries as they were, or has damaged.        *)
LEMMA Stopped ==
    ASSUME UpInv, NEW r, r # "ok", Swaps!Stop(r), UpTyped',
           \A b \in Two : bin'[b] = None => prev'[b] = None,
           damaged' \/ (\E b \in Two : before'[b] = None) \/ bin' = before'
    PROVE  UpInv'
<1>1. pc' = "idle" /\ todo' = {} /\ result' = r /\ got' = [tarball |-> None, sums |-> None, sig |-> None]
  BY DEF Swaps!Stop, Swaps!Nothing
<1>2. Fetched' /\ SavedFirst' /\ Swapped'
  BY <1>1 DEF Fetched, SavedFirst, Swapped
<1>3. Swaps!UpgradeAllOrNothing'
  BY SMTT(20), Zenon, <1>1 DEF Swaps!UpgradeAllOrNothing, Swaps!Binaries, Two
<1> QED BY <1>2, <1>3 DEF UpInv

(* A run that goes on.                                                      *)
LEMMA GoesOn ==
    ASSUME ReleasesOK, UpTyped', Fetched', SavedFirst', Swapped', pc' # "idle"
    PROVE  UpInv'
<1>1. result' = None
  BY DEF Swapped
<1> QED BY <1>1 DEF UpInv, Swaps!UpgradeAllOrNothing, ReleasesOK

(* Outside the run: a release, and the start of one.                        *)
LEMMA OutsideStep ==
    ASSUME ReleasesOK, UpInv, Swaps!Release \/ Swaps!Start \/ UNCHANGED Swaps!vars
    PROVE  UpInv'
<1>1. CASE Swaps!Start
  <2>1. /\ pc = "idle" /\ pc' = "tarball" /\ before' = bin /\ todo' = {} /\ result' = None
        /\ UNCHANGED <<latest, got, bin, prev, staged, systemctl, damaged>>
    BY SMTT(20), Zenon, <1>1 DEF Swaps!Start, Swaps!host
  <2>2. UpTyped' /\ Fetched' /\ SavedFirst' /\ Swapped'
    BY SMTT(20), Zenon, <2>1 DEF UpInv, UpTyped, Stages, Fetched, SavedFirst, Swapped
  <2> QED BY <2>1, <2>2, GoesOn
<1>2. CASE Swaps!Release \/ UNCHANGED Swaps!vars
  <2>1. /\ latest' \in Releases
        /\ UNCHANGED <<got, bin, prev, staged, pc, todo, before, running, systemctl, result, damaged>>
    BY <1>2 DEF Swaps!Release, Swaps!vars, Swaps!host, UpInv, UpTyped
  <2> QED BY <2>1 DEF UpInv, UpTyped, Fetched, SavedFirst, Swapped, Swaps!UpgradeAllOrNothing
<1> QED BY <1>1, <1>2

(* Steps 1 to 3: nothing on the host changes.                               *)
LEMMA FetchStep ==
    ASSUME ReleasesOK, UpInv, Swaps!httpFetch
    PROVE  UpInv'
<1>1. UNCHANGED <<bin, prev, staged, running, damaged, latest, before, systemctl>>
  BY SMTT(20), Zenon DEF Swaps!httpFetch, Swaps!host, Swaps!frame
<1>2. pc \in {"tarball", "sums", "sig"}
  BY Zenon DEF Swaps!httpFetch, Swaps!Following
<1>3. CASE Swaps!Stop("fetch")
  <2>1. UpTyped'
    BY SMTT(20), Zenon, <1>1, <1>3 DEF UpInv, UpTyped, Stages, Swaps!Stop
  <2>2. bin' = before' /\ \A b \in Two : bin'[b] = None => prev'[b] = None
    BY <1>1, <1>2 DEF UpInv, SavedFirst, Swapped
  <2> QED BY SMTT(20), Zenon, <1>3, <2>1, <2>2, Stopped
<1>4. CASE ~Swaps!Stop("fetch")
  <2>1. PICK w \in BOOLEAN : got' = [got EXCEPT ![pc] = [release |-> latest, whole |-> w]]
    BY Zenon, <1>4 DEF Swaps!httpFetch, Swaps!File
  <2>2. pc' = Swaps!Following[pc] /\ todo' = todo /\ result' = result
    BY <1>4 DEF Swaps!httpFetch
  <2>3. pc' = CASE pc = "tarball" -> "sums" [] pc = "sums" -> "sig" [] pc = "sig" -> "verify"
    BY <1>2, <2>2 DEF Swaps!Following
  <2>4. [release |-> latest, whole |-> w] \in Bodies
    BY DEF UpInv, UpTyped, Bodies
  <2>5. PICK x, y, z : got = [tarball |-> x, sums |-> y, sig |-> z]
    BY DEF UpInv, Fetched
  <2>6. pc # "tarball" => x \in Bodies
    BY <1>2, <2>5 DEF UpInv, Fetched
  <2>7. Fetched'
    <3>1. CASE pc = "tarball"
      <4>1. got' = [tarball |-> [release |-> latest, whole |-> w], sums |-> y, sig |-> z]
        BY Zenon, <2>1, <2>5, <3>1
      <4> QED BY SMTT(20), Zenon, <2>3, <2>4, <3>1, <4>1 DEF Fetched
    <3>2. CASE pc = "sums"
      <4>1. got' = [tarball |-> x, sums |-> [release |-> latest, whole |-> w], sig |-> z]
        BY Zenon, <2>1, <2>5, <3>2
      <4> QED BY <2>3, <2>6, <3>2, <4>1 DEF Fetched
    <3>3. CASE pc = "sig"
      <4>1. got' = [tarball |-> x, sums |-> y, sig |-> [release |-> latest, whole |-> w]]
        BY ZenonT(40), <2>1, <2>5, <3>3
      <4> QED BY <2>3, <2>6, <3>3, <4>1 DEF Fetched
    <3> QED BY <1>2, <3>1, <3>2, <3>3
  <2>8. UpTyped' /\ SavedFirst' /\ Swapped'
    BY <1>1, <1>2, <2>2, <2>3 DEF UpInv, UpTyped, Stages, SavedFirst, Swapped
  <2> QED BY SMTT(20), Zenon, <1>2, <2>3, <2>7, <2>8, GoesOn
<1> QED BY <1>3, <1>4

(* Only a whole tarball, that the signed checksums name, is unpacked.       *)
LEMMA VerifyStep ==
    ASSUME ReleasesOK, UpInv, Swaps!Verify \/ Swaps!extractTarballEntry
    PROVE  UpInv'
<1>1. UNCHANGED <<bin, prev, staged, running, damaged, latest, before, systemctl>>
  BY DEF Swaps!Verify, Swaps!extractTarballEntry, Swaps!host, Swaps!frame
<1>2. pc \in {"verify", "extract"} /\ bin = before
  BY DEF Swaps!Verify, Swaps!extractTarballEntry, UpInv, Swapped
<1>3. ASSUME NEW r, r # "ok", Swaps!Stop(r) PROVE UpInv'
  <2>1. UpTyped'
    BY SMTT(20), Zenon, <1>1, <1>3 DEF UpInv, UpTyped, Stages, Swaps!Stop
  <2>2. bin' = before' /\ \A b \in Two : bin'[b] = None => prev'[b] = None
    BY SMTT(20), Zenon, <1>1, <1>2 DEF UpInv, SavedFirst
  <2> QED BY SMTT(20), Zenon, <1>3, <2>1, <2>2, Stopped
<1>4. CASE pc = "verify" /\ Swaps!VerifyTarball(got) /\ Swaps!Goto("extract", {})
  <2>1. got.tarball \in Good
    BY <1>4 DEF UpInv, Fetched, Good, Swaps!VerifyTarball, Swaps!verifyChecksum
  <2>2. pc' = "extract" /\ todo' = {} /\ got' = got /\ result' = result
    BY <1>4 DEF Swaps!Goto
  <2> QED BY ZenonT(40), <1>1, <1>2, <1>4, <2>1, <2>2, GoesOn DEF UpInv, UpTyped, Stages, Fetched, SavedFirst, Swapped
<1>5. CASE pc = "extract" /\ Swaps!Goto("save", {b \in Two : bin[b] # None})
  <2>1. pc' = "save" /\ todo' = {b \in Two : bin[b] # None} /\ got' = got /\ result' = result
    BY SMTT(20), Zenon, <1>5 DEF Swaps!Goto
  <2>2. UpTyped' /\ Fetched' /\ Swapped'
    BY SMTT(20), Zenon, <1>1, <1>2, <1>5, <2>1 DEF UpInv, UpTyped, Stages, Fetched, Swapped
  <2>3. SavedFirst'
    BY <1>1, <1>2, <1>5, <2>1 DEF UpInv, SavedFirst
  <2> QED BY <2>1, <2>2, <2>3, GoesOn
<1> QED BY <1>3, <1>4, <1>5 DEF Swaps!Verify, Swaps!extractTarballEntry, Swaps!Binaries, Two

(* Steps 4 and 5: the copies beside the binaries, which stay.               *)
LEMMA SaveStep ==
    ASSUME ReleasesOK, UpInv, Swaps!SavePrev \/ Swaps!Saved
    PROVE  UpInv'
<1>1. pc = "save" /\ UNCHANGED <<bin, staged, running, damaged, latest, before, systemctl>>
  BY DEF Swaps!SavePrev, Swaps!Saved, Swaps!host, Swaps!frame
<1>2. CASE Swaps!SavePrev
  <2> DEFINE b == Swaps!FirstLeft
  <2>0. b \in todo /\ b \in Two /\ todo \subseteq Two
    BY Zenon, <1>2 DEF Swaps!SavePrev, Swaps!FirstLeft, UpInv, UpTyped, Two
  <2>1. \/ prev' = [prev EXCEPT ![b] = bin[b]] /\ Swaps!Goto("save", todo \ {b})
        \/ prev' = [prev EXCEPT ![b] = Swaps!Torn] /\ Swaps!Stop("save")
    BY <1>2 DEF Swaps!SavePrev, Swaps!copyFile, Swaps!Cut
  <2> HIDE DEF b
  <2>2. CASE prev' = [prev EXCEPT ![b] = bin[b]] /\ Swaps!Goto("save", todo \ {b})
    <3>1. pc' = "save" /\ todo' = todo \ {b} /\ got' = got /\ result' = result
      BY <2>2 DEF Swaps!Goto
    <3>2. UpTyped'
      BY SMTT(20), Zenon, <1>1, <2>0, <2>2, <3>1 DEF UpInv, UpTyped, Stages
    <3>3. Fetched' /\ Swapped'
      BY SMTT(20), Zenon, <1>1, <3>1 DEF UpInv, Fetched, Swapped
    <3>4. SavedFirst'
      BY SMTT(20), Zenon, <1>1, <2>0, <2>2, <3>1 DEF UpInv, UpTyped, SavedFirst
    <3> QED BY <3>1, <3>2, <3>3, <3>4, GoesOn
  <2>3. CASE prev' = [prev EXCEPT ![b] = Swaps!Torn] /\ Swaps!Stop("save")
    <3>0. bin[b] # None
      BY SMTT(20), Zenon, <1>1, <1>2, <2>0 DEF UpInv, SavedFirst, UpTyped
    <3>1. UpTyped'
      BY SMTT(20), Zenon, <1>1, <2>0, <2>3 DEF UpInv, UpTyped, Stages, Swaps!Stop
    <3>2. bin' = before'
      BY ZenonT(40), <1>1 DEF UpInv, Swapped
    <3>3. \A x \in Two : bin'[x] = None => prev'[x] = None
      BY SMTT(20), Zenon, <1>1, <2>0, <2>3, <3>0 DEF UpInv, UpTyped, SavedFirst
    <3> QED BY SMTT(20), Zenon, <2>3, <3>1, <3>2, <3>3, Stopped
  <2> QED BY SMTT(20), Zenon, <2>1, <2>2, <2>3
<1>3. CASE Swaps!Saved
  <2>1. todo = {} /\ pc' = "stage" /\ todo' = Two /\ got' = got /\ result' = result /\ prev' = prev
    BY SMTT(20), Zenon, <1>3 DEF Swaps!Saved, Swaps!Goto, Swaps!Binaries, Swaps!host, Two
  <2>2. prev = before
    BY SMTT(20), Zenon, <1>1, <2>1 DEF UpInv, UpTyped, SavedFirst, Swapped
  <2>3. UpTyped' /\ Fetched' /\ Swapped'
    BY SMTT(20), Zenon, <1>1, <2>1 DEF UpInv, UpTyped, Stages, Fetched, Swapped
  <2>4. SavedFirst'
    BY <1>1, <2>1, <2>2 DEF UpInv, SavedFirst
  <2> QED BY SMTT(20), Zenon, <2>1, <2>3, <2>4, GoesOn
<1> QED BY <1>2, <1>3

(* What is staged is the verified tarball's, or cut.                        *)
LEMMA StageStep ==
    ASSUME ReleasesOK, UpInv, NEW b \in Two, Swaps!Stage(b)
    PROVE  UpInv'
<1>1. pc = "stage" /\ b \in todo /\ UNCHANGED <<bin, prev, running, damaged, latest, before, systemctl>>
  BY DEF Swaps!Stage, Swaps!frame
<1>2. got.tarball \in Good /\ bin = before
  BY <1>1 DEF UpInv, Fetched, Swapped
<1>3. CASE /\ staged' = [staged EXCEPT ![b] = got.tarball]
           /\ Swaps!Goto(IF todo = {b} THEN "jaco" ELSE "stage", todo \ {b})
  <2>1. /\ pc' = IF todo = {b} THEN "jaco" ELSE "stage"
        /\ todo' = todo \ {b} /\ got' = got /\ result' = result
    BY SMTT(20), Zenon, <1>3 DEF Swaps!Goto
  <2>2. UpTyped'
    BY SMTT(20), Zenon, <1>1, <1>2, <1>3, <2>1 DEF UpInv, UpTyped, Stages
  <2>3. Fetched' /\ Swapped'
    BY SMTT(20), Zenon, <1>1, <1>2, <2>1 DEF UpInv, Fetched, Swapped
  <2>4. SavedFirst'
    BY SMTT(20), Zenon, <1>1, <1>3, <2>1 DEF UpInv, UpTyped, SavedFirst
  <2> QED BY SMTT(20), Zenon, <2>1, <2>2, <2>3, <2>4, GoesOn
<1>4. CASE staged' = [staged EXCEPT ![b] = Swaps!Torn] /\ Swaps!Stop("stage")
  <2>1. UpTyped'
    BY SMTT(20), Zenon, <1>1, <1>4 DEF UpInv, UpTyped, Stages, Swaps!Stop
  <2>2. bin' = before' /\ \A x \in Two : bin'[x] = None => prev'[x] = None
    BY <1>1, <1>2 DEF UpInv, SavedFirst
  <2> QED BY ZenonT(40), <1>4, <2>1, <2>2, Stopped
<1> QED BY <1>3, <1>4 DEF Swaps!Stage, Swaps!copyFile, Swaps!Cut

(* Step 6: the renames, each of a staged copy of the verified tarball.      *)
LEMMA RenameStep ==
    ASSUME ReleasesOK, UpInv, Swaps!RenameJaco \/ Swaps!RenameJacod
    PROVE  UpInv'
<1>1. pc \in {"jaco", "jacod"} /\ UNCHANGED <<prev, running, damaged, latest, before, systemctl>>
  BY Zenon DEF Swaps!RenameJaco, Swaps!RenameJacod, Swaps!frame
<1>2. got.tarball \in Good /\ got.tarball # None /\ prev = before /\ {"jaco", "jacod"} = Two
  BY <1>1 DEF UpInv, Fetched, SavedFirst, Two, ReleasesOK, Good
<1>3. CASE pc = "jaco"
  <2>1. bin = before /\ \A b \in Two : staged[b] = got.tarball
    BY <1>3 DEF UpInv, SavedFirst, Swapped
  <2>2. CASE Swaps!Swap("jaco") /\ Swaps!Goto("jacod", {})
    <3>1. /\ bin' = [bin EXCEPT !["jaco"] = got.tarball] /\ staged' = [staged EXCEPT !["jaco"] = None]
          /\ pc' = "jacod" /\ todo' = {} /\ got' = got /\ result' = result
      BY ZenonT(40), <1>2, <2>1, <2>2 DEF Swaps!Swap, Swaps!Goto
    <3>2. UpTyped'
      BY <1>1, <1>2, <3>1 DEF UpInv, UpTyped, Stages
    <3>3. Fetched'
      BY <1>3, <3>1 DEF UpInv, Fetched
    <3>4. SavedFirst'
      BY SMTT(20), Zenon, <1>1, <1>2, <1>3, <2>1, <3>1 DEF UpInv, UpTyped, SavedFirst
    <3>5. Swapped'
      BY SMTT(20), Zenon, <1>1, <1>2, <1>3, <2>1, <3>1 DEF UpInv, UpTyped, Swapped
    <3> QED BY SMTT(20), Zenon, <3>1, <3>2, <3>3, <3>4, <3>5, GoesOn
  <2>3. CASE Swaps!Stop("rename jaco") /\ UNCHANGED <<bin, staged>>
    <3>1. UpTyped'
      BY ZenonT(40), <1>1, <2>3 DEF UpInv, UpTyped, Stages, Swaps!Stop
    <3>2. bin' = before' /\ \A x \in Two : bin'[x] = None => prev'[x] = None
      BY ZenonT(40), <1>1, <2>1, <2>3 DEF UpInv, SavedFirst
    <3> QED BY ZenonT(40), <2>3, <3>1, <3>2, Stopped
  <2> QED BY ZenonT(40), <1>3, <2>2, <2>3 DEF Swaps!RenameJaco, Swaps!RenameJacod
<1>4. CASE pc = "jacod"
  <2>1. bin["jaco"] = got.tarball /\ bin["jacod"] = before["jacod"] /\ staged["jacod"] = got.tarball
    BY <1>4 DEF UpInv, SavedFirst, Swapped
  <2>2. CASE Swaps!Swap("jacod") /\ Swaps!Goto("restart", {})
    <3>1. /\ bin' = [bin EXCEPT !["jacod"] = got.tarball] /\ staged' = [staged EXCEPT !["jacod"] = None]
          /\ pc' = "restart" /\ todo' = {} /\ got' = got /\ result' = result
      BY SMTT(20), Zenon, <1>2, <2>1, <2>2 DEF Swaps!Swap, Swaps!Goto
    <3>2. UpTyped'
      BY SMTT(20), Zenon, <1>1, <1>2, <3>1 DEF UpInv, UpTyped, Stages
    <3>3. Fetched'
      BY SMTT(20), Zenon, <1>4, <3>1 DEF UpInv, Fetched
    <3>4. SavedFirst'
      BY SMTT(20), Zenon, <1>1, <1>2, <1>4, <2>1, <3>1 DEF UpInv, UpTyped, SavedFirst
    <3>5. Swapped'
      BY SMTT(20), Zenon, <1>1, <1>2, <1>4, <2>1, <3>1 DEF UpInv, UpTyped, Swapped
    <3> QED BY SMTT(20), Zenon, <3>1, <3>2, <3>3, <3>4, <3>5, GoesOn
  <2>3. CASE Swaps!Goto("restore", {"jaco"}) /\ UNCHANGED <<bin, staged>>
    <3>1. pc' = "restore" /\ todo' = {"jaco"} /\ got' = got /\ result' = result
      BY <2>3 DEF Swaps!Goto
    <3>2. UpTyped' /\ Fetched'
      BY SMTT(20), Zenon, <1>1, <1>2, <1>4, <2>3, <3>1 DEF UpInv, UpTyped, Stages, Fetched
    <3>3. SavedFirst' /\ Swapped'
      BY <1>1, <1>2, <1>4, <2>1, <2>3, <3>1 DEF UpInv, SavedFirst, Swapped
    <3> QED BY <3>1, <3>2, <3>3, GoesOn
  <2> QED BY SMTT(20), Zenon, <1>4, <2>2, <2>3 DEF Swaps!RenameJaco, Swaps!RenameJacod
<1> QED BY <1>1, <1>3, <1>4

(* Renaming back puts the saved binary there again; a rename that fails     *)
(* damages, and a binary that was not there stays swapped.                  *)
LEMMA RollBackStep ==
    ASSUME ReleasesOK, UpInv, Swaps!RollBack
    PROVE  UpInv'
<1> DEFINE b == Swaps!FirstLeft
           rest == todo \ {b}
<1>1. /\ pc \in {"restore", "unhealthy"} /\ todo # {}
      /\ UNCHANGED <<staged, latest, before, systemctl>>
  BY Zenon DEF Swaps!RollBack, Swaps!frame
<1>2. b \in todo /\ b \in Two /\ todo \subseteq Two
  BY ZenonT(40), <1>1 DEF Swaps!FirstLeft, UpInv, UpTyped, Two
<1>3. prev[b] = before[b] /\ bin[b] = got.tarball /\ got.tarball \in Good /\ got.tarball # None
  <2>1. got.tarball \in Good /\ got.tarball # None
    BY <1>1 DEF UpInv, Fetched, ReleasesOK, Good
  <2>2. CASE pc = "unhealthy"
    BY SMTT(20), Zenon, <1>2, <2>1, <2>2 DEF UpInv, Swapped
  <2>3. CASE pc = "restore"
    <3>1. b = "jaco"
      BY SMTT(20), Zenon, <1>2, <2>3 DEF UpInv, Swapped
    <3> QED BY <2>1, <2>3, <3>1 DEF UpInv, SavedFirst, Swapped
  <2> QED BY <1>1, <2>2, <2>3
<1>4. \/ /\ prev[b] # None /\ bin' = [bin EXCEPT ![b] = prev[b]] /\ prev' = [prev EXCEPT ![b] = None]
         /\ damaged' = damaged
      \/ prev[b] = None /\ UNCHANGED <<bin, prev, damaged>>
      \/ prev[b] # None /\ damaged' = TRUE /\ UNCHANGED <<bin, prev>>
  BY ZenonT(40) DEF Swaps!RollBack
<1>5. \/ rest # {} /\ Swaps!Goto(pc, rest)
      \/ rest = {} /\ \E r \in {"rename jacod", "health"} : Swaps!Stop(r)
  BY Zenon DEF Swaps!RollBack
<1>6. \/ todo = {"jaco"} /\ pc = "restore"
      \/ todo \in {Two, {"jacod"}} /\ pc = "unhealthy"
  BY <1>1 DEF UpInv, Swapped
<1>7. rest # {} => pc = "unhealthy" /\ b = "jaco" /\ rest = {"jacod"} /\ todo = Two
  BY <1>6 DEF Swaps!FirstLeft, Two
<1>8. \A x \in Two \ todo : before[x] # None => damaged \/ bin[x] = before[x]
  <2>1. CASE pc = "unhealthy"
    BY <2>1 DEF UpInv, Swapped
  <2>2. CASE pc = "restore"
    BY SMTT(20), Zenon, <1>6, <2>2 DEF UpInv, Swapped, Two
  <2> QED BY <1>1, <2>1, <2>2
<1> HIDE DEF b, rest
<1>9. /\ bin' \in [Two -> Good \cup {None}] /\ prev' \in [Two -> Good \cup {None, Swaps!Torn}]
      /\ damaged' \in BOOLEAN
      /\ \A x \in Two : bin'[x] = None => prev'[x] = None
      /\ \A x \in Two \ {b} : bin'[x] = bin[x] /\ prev'[x] = prev[x]
      /\ before[b] # None => damaged' \/ bin'[b] = before[b]
      /\ damaged => damaged'
  <2>1. CASE /\ prev[b] # None /\ bin' = [bin EXCEPT ![b] = prev[b]] /\ prev' = [prev EXCEPT ![b] = None]
             /\ damaged' = damaged
    BY <1>2, <1>3, <2>1 DEF UpInv, UpTyped, SavedFirst
  <2>2. CASE prev[b] = None /\ UNCHANGED <<bin, prev, damaged>>
    BY SMTT(20), Zenon, <1>2, <1>3, <2>2 DEF UpInv, UpTyped, SavedFirst
  <2>3. CASE prev[b] # None /\ damaged' = TRUE /\ UNCHANGED <<bin, prev>>
    BY <1>2, <1>3, <2>3 DEF UpInv, UpTyped, SavedFirst
  <2> QED BY ZenonT(40), <1>4, <2>1, <2>2, <2>3
<1>10. CASE rest # {} /\ Swaps!Goto(pc, rest)
  <2>1. pc' = "unhealthy" /\ todo' = {"jacod"} /\ got' = got /\ result' = result /\ pc = "unhealthy"
    BY SMTT(20), Zenon, <1>7, <1>10 DEF Swaps!Goto
  <2>2. UpTyped'
    BY SMTT(20), Zenon, <1>1, <1>9, <2>1 DEF UpInv, UpTyped, Stages, Two
  <2>3. Fetched' /\ SavedFirst'
    BY SMTT(20), Zenon, <1>9, <2>1 DEF UpInv, Fetched, SavedFirst
  <2>4. Swapped'
    <3>1. b = "jaco" /\ todo = Two /\ Two = {"jaco", "jacod"}
      BY SMTT(20), Zenon, <1>7, <1>10 DEF Two
    <3>2. prev'["jacod"] = before["jacod"] /\ bin'["jacod"] = got.tarball
      BY SMTT(20), Zenon, <1>9, <2>1, <3>1 DEF UpInv, Swapped
    <3>3. result' = None
      BY SMTT(20), Zenon, <2>1 DEF UpInv, Swapped
    <3>4. before'["jaco"] # None => damaged' \/ bin'["jaco"] = before'["jaco"]
      BY SMTT(20), Zenon, <1>1, <1>9, <3>1
    <3> QED BY SMTT(20), Zenon, <1>1, <2>1, <3>1, <3>2, <3>3, <3>4 DEF Swapped
  <2> QED BY SMTT(20), Zenon, <2>1, <2>2, <2>3, <2>4, GoesOn
<1>11. CASE rest = {} /\ \E r \in {"rename jacod", "health"} : Swaps!Stop(r)
  <2>1. PICK r : r # "ok" /\ Swaps!Stop(r)
    BY ZenonT(40), <1>11
  <2>2. UpTyped'
    BY <1>1, <1>9, <2>1 DEF UpInv, UpTyped, Stages, Swaps!Stop
  <2>3. todo = {b}
    BY ZenonT(40), <1>2, <1>11 DEF rest
  <2>4. \A x \in Two : before[x] # None => damaged' \/ bin'[x] = before[x]
    BY SMTT(20), Zenon, <1>8, <1>9, <2>3
  <2>5. damaged' \/ (\E x \in Two : before'[x] = None) \/ bin' = before'
    BY <1>1, <1>9, <2>4 DEF UpInv, UpTyped
  <2> QED BY <1>9, <2>1, <2>2, <2>5, Stopped
<1> QED BY ZenonT(40), <1>5, <1>10, <1>11

(* Step 7: success only with both binaries swapped.                         *)
LEMMA RestartStep ==
    ASSUME ReleasesOK, UpInv, Swaps!postUpgradeRestart
    PROVE  UpInv'
<1>1. pc = "restart" /\ UNCHANGED <<bin, prev, staged, damaged, latest, before, systemctl>>
  BY SMTT(20), Zenon DEF Swaps!postUpgradeRestart, Swaps!frame
<1>2. got.tarball \in Good /\ bin["jaco"] = got.tarball /\ bin["jacod"] = got.tarball /\ prev = before
  BY <1>1 DEF UpInv, Fetched, SavedFirst, Swapped
<1>3. CASE Swaps!Goto("unhealthy", Two)
  <2>1. pc' = "unhealthy" /\ todo' = Two /\ got' = got /\ result' = result
    BY SMTT(20), Zenon, <1>3 DEF Swaps!Goto
  <2>2. UpTyped' /\ Fetched' /\ SavedFirst'
    BY SMTT(20), Zenon, <1>1, <1>2, <2>1 DEF UpInv, UpTyped, Stages, Fetched, SavedFirst
  <2>3. Swapped'
    BY Zenon, <1>1, <1>2, <2>1 DEF UpInv, Swapped, Two
  <2> QED BY <2>1, <2>2, <2>3, GoesOn
<1>4. CASE /\ Swaps!Stop("ok")
           /\ systemctl => running' = bin["jacod"].release /\ bin["jacod"].release \notin Broken
  <2>1. pc' = "idle" /\ todo' = {} /\ result' = "ok" /\ got' = [tarball |-> None, sums |-> None, sig |-> None]
    BY SMTT(20), Zenon, <1>4 DEF Swaps!Stop, Swaps!Nothing
  <2>2. UpTyped' /\ Fetched' /\ SavedFirst' /\ Swapped'
    BY Zenon, <1>1, <2>1 DEF UpInv, UpTyped, Stages, Fetched, SavedFirst, Swapped
  <2>3. bin["jaco"].release \in Releases
    BY SMTT(20), Zenon, <1>2 DEF Good, Bodies
  <2>4. Swaps!UpgradeAllOrNothing'
    BY SMTT(20), Zenon, <1>1, <1>2, <1>4, <2>1, <2>3 DEF Swaps!UpgradeAllOrNothing
  <2> QED BY <2>2, <2>4 DEF UpInv
<1> QED BY <1>3, <1>4 DEF Swaps!postUpgradeRestart, Swaps!Binaries, Two

(* A command that is killed leaves cut copies, not binaries.                *)
LEMMA KillStep ==
    ASSUME ReleasesOK, UpInv, Swaps!Kill
    PROVE  UpInv'
<1>1. /\ Swaps!Stop("killed") /\ damaged' = TRUE /\ UNCHANGED <<bin, running, latest, before, systemctl>>
      /\ \/ UNCHANGED <<prev, staged>>
         \/ /\ pc = "save" /\ todo # {} /\ prev' = [prev EXCEPT ![Swaps!FirstLeft] = Swaps!Torn]
            /\ staged' = staged
         \/ \E b \in todo : staged' = [staged EXCEPT ![b] = Swaps!Torn] /\ prev' = prev
  BY DEF Swaps!Kill, Swaps!Cut, Swaps!frame
<1>2. todo # {} => Swaps!FirstLeft \in todo
  BY Zenon DEF UpInv, UpTyped, Swaps!FirstLeft, Two
<1>3. UpTyped'
  BY <1>1, <1>2 DEF UpInv, UpTyped, Stages, Swaps!Stop
<1>4. \A x \in Two : bin'[x] = None => prev'[x] = None
  BY <1>1, <1>2 DEF UpInv, UpTyped, SavedFirst
<1> QED BY SMTT(20), Zenon, <1>1, <1>3, <1>4, Stopped

(* Every step keeps the invariant.                                          *)
LEMMA UpStep ==
    ASSUME ReleasesOK, UpInv, [Swaps!Next]_(Swaps!vars)
    PROVE  UpInv'
<1>1. Swaps!Binaries = Two
  BY DEF Swaps!Binaries, Two
<1> QED BY SMTT(20), Zenon, <1>1, OutsideStep, FetchStep, VerifyStep, SaveStep, StageStep, RenameStep, RollBackStep,
           RestartStep, KillStep DEF Swaps!Next

(* InstalledWhole for any releases and faults: whatever is downloaded and   *)
(* wherever the command is killed, a binary in place is a complete,         *)
(* verified file.                                                           *)
THEOREM BinariesStayWhole ==
    ASSUME ReleasesOK PROVE Swaps!Spec => []Swaps!InstalledWhole
<1>1. UpInv => Swaps!InstalledWhole
  BY DEF UpInv, UpTyped, Good, Swaps!InstalledWhole, Swaps!Binaries, Two
<1> QED BY <1>1, UpInit, UpStep, PTL DEF Swaps!Spec

(* UpgradeAllOrNothing likewise: a run over two installed binaries succeeds *)
(* with both swapped, or fails with both as they were, unless it is killed  *)
(* or a rollback cannot rename.                                             *)
THEOREM UpgradesBothOrNeither ==
    ASSUME ReleasesOK PROVE Swaps!Spec => []Swaps!UpgradeAllOrNothing
<1>1. UpInv => Swaps!UpgradeAllOrNothing
  BY DEF UpInv
<1> QED BY <1>1, UpInit, UpStep, PTL DEF Swaps!Spec
=============================================================================
