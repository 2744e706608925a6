------------------------------ MODULE Upgrade -------------------------------
(* `jaco self-upgrade`: fetch a release with its checksums and signature,   *)
(* verify it, and swap the two binaries of a host with a way back.          *)
(*   cmd/jaco/self_upgrade.go, packaging/verify.go                          *)
(* A file is [release, whole]; one that is not whole was cut short or       *)
(* altered.  One upgrade runs at a time.                                    *)
EXTENDS Naturals

CONSTANTS None,
          Releases,     \* release numbers, in the order of publication
          Broken,       \* releases whose jacod does not even print its version
          MaxFaults, MaxRuns

Binaries == {"jaco", "jacod"}
File(r) == [release |-> r, whole |-> TRUE]
Torn == [release |-> None, whole |-> FALSE]
First == CHOOSE r \in Releases : \A q \in Releases : r <= q

VARIABLES latest,       \* the release the URL serves
          got,          \* the three downloads
          bin, prev, staged,   \* <bin>, <bin>.prev, <bin>.upgrading
          pc, todo,     \* step, and binaries left in its loop
          before,       \* ghost: bin when the run began
          running,      \* release of the daemon systemd runs
          systemctl,    \* the host has systemctl
          result,
          damaged,      \* ghost: a run was killed, or a rollback's rename failed
          runs, faults

vars == <<latest, got, bin, prev, staged, pc, todo, before, running, systemctl, result, damaged, runs, faults>>
host == <<bin, prev, staged, running>>
frame == <<latest, before, systemctl, runs>>

NoFile == [b \in Binaries |-> None]
Nothing == [tarball |-> None, sums |-> None, sig |-> None]

Init ==
    /\ latest = First /\ got = Nothing /\ prev = NoFile /\ staged = NoFile
    /\ bin \in {NoFile, [b \in Binaries |-> File(First)]}
    /\ before = bin /\ running = IF bin = NoFile THEN None ELSE First
    /\ pc = "idle" /\ todo = {} /\ systemctl \in BOOLEAN
    /\ result = None /\ damaged = FALSE /\ runs = 0 /\ faults = 0

Fault == faults < MaxFaults /\ faults' = faults + 1

(* What the command did to the host stays; its temporary directory does not.*)
Stop(r) == pc' = "idle" /\ todo' = {} /\ got' = Nothing /\ result' = r
Goto(next, set) == pc' = next /\ todo' = set /\ UNCHANGED <<got, result>>

Release ==
    /\ latest + 1 \in Releases
    /\ latest' = latest + 1
    /\ UNCHANGED <<got, host, pc, todo, before, systemctl, result, damaged, runs, faults>>

Start ==
    /\ pc = "idle" /\ runs < MaxRuns
    /\ runs' = runs + 1 /\ before' = bin
    /\ pc' = "tarball" /\ todo' = {} /\ result' = None
    /\ UNCHANGED <<latest, got, host, systemctl, damaged, faults>>

-----------------------------------------------------------------------------
(* Steps 1 to 3: only the temporary directory changes *)

Following == [tarball |-> "sums", sums |-> "sig", sig |-> "verify"]

(* The three URLs are read one after the other, from whatever release they  *)
(* serve then; a body may be altered on the way, or the request fail.       *)
httpFetch ==
    /\ pc \in DOMAIN Following
    /\ \/ /\ got' = [got EXCEPT ![pc] = File(latest)]
          /\ pc' = Following[pc] /\ UNCHANGED <<todo, result, faults>>
       \/ /\ Fault
          /\ got' = [got EXCEPT ![pc] = [release |-> latest, whole |-> FALSE]]
          /\ pc' = Following[pc] /\ UNCHANGED <<todo, result>>
       \/ Fault /\ Stop("fetch")
    /\ UNCHANGED <<host, damaged, frame>>

(* The signature covers the checksums, the checksum the tarball's bytes.    *)
verifySignature(sums, sig) == sums = sig /\ sums.whole
verifyChecksum(tarball, sums) == tarball.whole /\ tarball.release = sums.release

VerifySums(g) == verifySignature(g.sums, g.sig)

VerifyTarball(g) == verifySignature(g.sums, g.sig) /\ verifyChecksum(g.tarball, g.sums)

Verify ==
    /\ pc = "verify"
    /\ IF VerifyTarball(got) THEN Goto("extract", {}) ELSE Stop("upgrade_verification_failed")
    /\ UNCHANGED <<host, damaged, frame, faults>>

extractTarballEntry ==
    /\ pc = "extract"
    /\ \/ Goto("save", {b \in Binaries : bin[b] # None}) /\ UNCHANGED faults
       \/ Fault /\ Stop("extract")
    /\ UNCHANGED <<host, damaged, frame>>

-----------------------------------------------------------------------------
(* Steps 4 and 5: the copies *)

(* The target is truncated first: a copy that fails leaves it cut.          *)
copyFile(f, b, src) == f' = [f EXCEPT ![b] = src]
Cut(f, b) == f' = [f EXCEPT ![b] = Torn]

FirstLeft == IF "jaco" \in todo THEN "jaco" ELSE "jacod"

SavePrev ==
    /\ pc = "save" /\ todo # {}
    /\ LET b == FirstLeft
       IN \/ copyFile(prev, b, bin[b]) /\ Goto("save", todo \ {b}) /\ UNCHANGED faults
          \/ Fault /\ Cut(prev, b) /\ Stop("save")
    /\ UNCHANGED <<bin, staged, running, damaged, frame>>

Saved ==
    /\ pc = "save" /\ todo = {}
    /\ Goto("stage", Binaries)
    /\ UNCHANGED <<host, damaged, frame, faults>>

(* A Go map: the two are staged in either order.                            *)
Stage(b) ==
    /\ pc = "stage" /\ b \in todo
    /\ \/ /\ copyFile(staged, b, got.tarball) /\ UNCHANGED faults
          /\ Goto(IF todo = {b} THEN "jaco" ELSE "stage", todo \ {b})
       \/ Fault /\ Cut(staged, b) /\ Stop("stage")
    /\ UNCHANGED <<bin, prev, running, damaged, frame>>

-----------------------------------------------------------------------------
(* Step 6: the renames *)

Swap(b) == bin' = [bin EXCEPT ![b] = staged[b]] /\ staged' = [staged EXCEPT ![b] = None]

RenameJaco ==
    /\ pc = "jaco"
    /\ \/ Swap("jaco") /\ Goto("jacod", {}) /\ UNCHANGED faults
       \/ Fault /\ Stop("rename jaco") /\ UNCHANGED <<bin, staged>>
    /\ UNCHANGED <<prev, running, damaged, frame>>

RenameJacod ==
    /\ pc = "jacod"
    /\ \/ Swap("jacod") /\ Goto("restart", {}) /\ UNCHANGED faults
       \/ Fault /\ Goto("restore", {"jaco"}) /\ UNCHANGED <<bin, staged>>
    /\ UNCHANGED <<prev, running, damaged, frame>>

(* Renames back what has a .prev, the command line first; errors are        *)
(* ignored.  After a failed health check jacod is then started once more.   *)
RollBack ==
    /\ pc \in {"restore", "unhealthy"} /\ todo # {}
    /\ LET b == FirstLeft
           rest == todo \ {b}
       IN /\ \/ /\ prev[b] # None
                /\ bin' = [bin EXCEPT ![b] = prev[b]] /\ prev' = [prev EXCEPT ![b] = None]
                /\ UNCHANGED <<damaged, faults>>
             \/ prev[b] = None /\ UNCHANGED <<bin, prev, damaged, faults>>
             \/ Fault /\ prev[b] # None /\ damaged' = TRUE /\ UNCHANGED <<bin, prev>>
          /\ IF rest # {} THEN Goto(pc, rest) /\ UNCHANGED running
             ELSE IF pc = "restore" THEN Stop("rename jacod") /\ UNCHANGED running
             ELSE /\ Stop("health")
                  /\ running' \in {running} \cup {f.release : f \in {bin'["jacod"]} \ {None}}
    /\ UNCHANGED <<staged, frame>>

-----------------------------------------------------------------------------
(* Step 7 *)

(* The poll asks the new binary for its version, not the daemon.            *)
postUpgradeRestart ==
    /\ pc = "restart"
    /\ IF ~systemctl THEN Stop("ok") /\ UNCHANGED <<running, faults>>
       ELSE \/ /\ running' = bin["jacod"].release /\ UNCHANGED faults
               /\ IF bin["jacod"].release \in Broken THEN Goto("unhealthy", Binaries) ELSE Stop("ok")
            \/ Fault /\ Goto("unhealthy", Binaries) /\ UNCHANGED running
    /\ UNCHANGED <<bin, prev, staged, damaged, frame>>

(* The command is killed, or the host goes down, perhaps within a copy.     *)
Kill ==
    /\ pc # "idle" /\ Fault
    /\ Stop("killed") /\ damaged' = TRUE
    /\ \/ UNCHANGED <<prev, staged>>
       \/ pc = "save" /\ todo # {} /\ Cut(prev, FirstLeft) /\ UNCHANGED staged
       \/ pc = "stage" /\ (\E b \in todo : Cut(staged, b)) /\ UNCHANGED prev
    /\ UNCHANGED <<bin, running, frame>>

Next ==
    \/ Release \/ Start \/ httpFetch \/ Verify \/ extractTarballEntry
    \/ SavePrev \/ Saved \/ (\E b \in Binaries : Stage(b)) \/ RenameJaco \/ RenameJacod
    \/ RollBack \/ postUpgradeRestart \/ Kill

Spec == Init /\ [][Next]_vars

-----------------------------------------------------------------------------
(* Properties *)

Files == {None, Torn} \cup [release : Releases, whole : BOOLEAN]

(* Type invariant.                                                          *)
TypeOK ==
    /\ latest \in Releases /\ running \in Releases \cup {None}
    /\ bin \in [Binaries -> Files] /\ prev \in [Binaries -> Files] /\ staged \in [Binaries -> Files]
    /\ todo \subseteq Binaries /\ faults \in 0..MaxFaults /\ runs \in 0..MaxRuns

(* At no moment, whatever is downloaded and wherever the command is killed, *)
(* is a binary in place anything but a complete, verified file: cut copies  *)
(* are only ever in .prev and .upgrading, and are never renamed.            *)
InstalledWhole == \A b \in Binaries : bin[b] # None => bin[b].whole

(* A run over two installed binaries either succeeds, with both of the      *)
(* verified release and the daemon restarted on it, or fails with both as   *)
(* they were, unless it is killed or a rollback cannot rename.  A success   *)
(* pairs the binaries whatever earlier runs left behind.                    *)
UpgradeAllOrNothing ==
    /\ result = "ok" => /\ bin["jaco"] = bin["jacod"] /\ bin["jaco"].release \in Releases \ (IF systemctl THEN Broken ELSE {})
                        /\ systemctl => running = bin["jacod"].release
    /\ pc = "idle" /\ result \notin {None, "ok"} /\ ~damaged /\ (\A b \in Binaries : before[b] # None) => bin = before
=============================================================================
