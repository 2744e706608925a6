----------------------------- MODULE CertStorage -----------------------------
(***************************************************************************)
(* The cluster-wide lock under which CertMagic obtains certificates:       *)
(* ingress/storage's Lock, Unlock and auto-renewer on every node, and the  *)
(* CertLock and CertUnlock commands of the FSM.  One lock name.            *)
(*                                                                         *)
(* Time is relative: `left' is what remains of the lease and `due' what    *)
(* remains until a renewer's next tick, so time itself needs no bound.     *)
(* A node's clock may be ahead: it stamps its commands with its own time.  *)
(* An apply returns within one unit of time or counts as failed, and a     *)
(* follower's stores catch up within one.                                  *)
(***************************************************************************)
EXTENDS Integers, Sequences

CONSTANTS Nodes,   \* the lessees
          None,    \* no lessee
          TTL,     \* LockTTL
          Renew,   \* RenewInterval
          Skew,    \* Skew[n]: how far n's clock is ahead
          MaxLost, \* bound: renewals that fail one after another
          MaxLag,  \* bound: commands a follower's stores may be behind
          MaxTries \* bound: Lock calls of a node within one unit of time

ASSUME LeaseConstants ==
    /\ None \notin Nodes
    /\ TTL \in Nat /\ Renew \in Nat \ {0}
    /\ Skew \in [Nodes -> Nat]
    /\ MaxLost \in Nat /\ MaxLag \in Nat /\ MaxTries \in Nat

VARIABLES
    row,     \* the Cert row: lessee, and left until lock_until
    behind,  \* behind[n]: lessees n's stores have yet to go through, the
             \* first being the one n reads now
    pc,      \* what CertMagic does on each node
    renewer, \* the auto-renew goroutine
    due,     \* its ticker
    lost,    \* renewals that failed since the last good one
    late,    \* a CertLock in flight that nobody waits for any more
    tries    \* Lock calls since the last unit of time passed

vars == <<row, behind, pc, renewer, due, lost, late, tries>>

-----------------------------------------------------------------------------
(* The FSM                                                                  *)

(* CertLock that does not look at the lessee it replaces.                   *)
LockRowAnyway(n) == [lessee |-> n, left |-> TTL + Skew[n]]

(* CertLock: refused while another lessee's lease runs by n's own clock.    *)
LockRow(n) ==
    IF row.lessee \notin {None, n} /\ row.left > Skew[n] THEN row
    ELSE [lessee |-> n, left |-> TTL + Skew[n]]

(* CertUnlock: the name alone, whoever holds the lock.                      *)
UnlockRow == [lessee |-> None, left |-> 0]

(* A command commits; every node's stores follow, MaxLag commands later at  *)
(* most.                                                                    *)
Lagging(q, x) == IF Len(q) > MaxLag THEN Append(Tail(q), x) ELSE Append(q, x)

Commit(r) ==
    /\ row' = r
    /\ behind' = [n \in Nodes |-> Lagging(behind[n], r.lessee)]

(* An apply that failed may have committed all the same.                    *)
CommitOrNot(r) == Commit(r) \/ UNCHANGED <<row, behind>>

-----------------------------------------------------------------------------
(* Lock                                                                     *)

LockStart(n) ==
    /\ pc[n] = "idle" /\ tries[n] < MaxTries
    /\ pc' = [pc EXCEPT ![n] = "locking"]
    /\ tries' = [tries EXCEPT ![n] = @ + 1]
    /\ UNCHANGED <<row, behind, renewer, due, lost, late>>

LockCommits(n) ==
    /\ pc[n] = "locking"
    /\ Commit(LockRow(n))
    /\ pc' = [pc EXCEPT ![n] = "verifying"]
    /\ UNCHANGED <<renewer, due, lost, late, tries>>

LockFails(n) ==
    /\ pc[n] = "locking"
    /\ CommitOrNot(LockRow(n))
    /\ pc' = [pc EXCEPT ![n] = "idle"]
    /\ UNCHANGED <<renewer, due, lost, late, tries>>

(* StartRenewer with a ticker of twice the interval.                        *)
StartRenewerSlow(n) ==
    /\ renewer' = [renewer EXCEPT ![n] = "wait"]
    /\ due' = [due EXCEPT ![n] = 2 * Renew]
    /\ lost' = [lost EXCEPT ![n] = 0]

(* startRenewer                                                             *)
StartRenewer(n) ==
    /\ renewer' = [renewer EXCEPT ![n] = "wait"]
    /\ due' = [due EXCEPT ![n] = Renew]
    /\ lost' = [lost EXCEPT ![n] = 0]

(* LockVerify that goes on to Unlock when the lock is held.                 *)
LockDefersUnlock(n) ==
    /\ pc[n] = "verifying"
    /\ IF Head(behind[n]) = n
       THEN StartRenewer(n) /\ pc' = [pc EXCEPT ![n] = "holding"]
       ELSE UNCHANGED <<renewer, due, lost>> /\ pc' = [pc EXCEPT ![n] = "unlocking"]
    /\ UNCHANGED <<row, behind, late, tries>>

(* Lock reads its own node's stores, which may have caught up in between,   *)
(* and returns ErrLockHeld when the lessee is not itself.                   *)
LockVerify(n) ==
    /\ pc[n] = "verifying"
    /\ \E k \in 1 .. Len(behind[n]) :
          /\ behind' = [behind EXCEPT ![n] = SubSeq(@, k, Len(@))]
          /\ IF behind[n][k] = n
             THEN /\ StartRenewer(n)
                  /\ pc' = [pc EXCEPT ![n] = "holding"]
             ELSE /\ pc' = [pc EXCEPT ![n] = "idle"]
                  /\ UNCHANGED <<renewer, due, lost>>
    /\ UNCHANGED <<row, late, tries>>

-----------------------------------------------------------------------------
(* Unlock                                                                   *)

(* UnlockStart that leaves the renewer running.                             *)
UnlockKeepsRenewer(n) ==
    /\ pc[n] = "holding"
    /\ pc' = [pc EXCEPT ![n] = "unlocking"]
    /\ UNCHANGED <<row, behind, renewer, due, lost, late, tries>>

(* stopRenewer cancels the goroutine, not the apply it may be waiting for.  *)
UnlockStart(n) ==
    /\ pc[n] = "holding"
    /\ pc' = [pc EXCEPT ![n] = "unlocking"]
    /\ late' = [late EXCEPT ![n] = @ \/ renewer[n] = "applying"]
    /\ renewer' = [renewer EXCEPT ![n] = "off"]
    /\ UNCHANGED <<row, behind, due, lost, tries>>

UnlockCommits(n) ==
    /\ pc[n] = "unlocking"
    /\ Commit(UnlockRow)
    /\ pc' = [pc EXCEPT ![n] = "idle"]
    /\ UNCHANGED <<renewer, due, lost, late, tries>>

UnlockFails(n) ==
    /\ pc[n] = "unlocking"
    /\ CommitOrNot(UnlockRow)
    /\ pc' = [pc EXCEPT ![n] = "idle"]
    /\ UNCHANGED <<renewer, due, lost, late, tries>>

-----------------------------------------------------------------------------
(* renewLoop                                                                *)

RenewDue(n) ==
    /\ renewer[n] = "wait" /\ due[n] = 0
    /\ renewer' = [renewer EXCEPT ![n] = "applying"]
    /\ UNCHANGED <<row, behind, pc, due, lost, late, tries>>

RenewCommits(n) ==
    /\ renewer[n] = "applying"
    /\ Commit(LockRow(n))
    /\ StartRenewer(n)
    /\ UNCHANGED <<pc, late, tries>>

(* The error is dropped; the loop waits for its next tick.                  *)
RenewFails(n) ==
    /\ renewer[n] = "applying"
    /\ lost[n] < MaxLost
    /\ CommitOrNot(LockRow(n))
    /\ renewer' = [renewer EXCEPT ![n] = "wait"]
    /\ due' = [due EXCEPT ![n] = Renew]
    /\ lost' = [lost EXCEPT ![n] = @ + 1]
    /\ UNCHANGED <<pc, late, tries>>

LateRenew(n) ==
    /\ late[n]
    /\ CommitOrNot(LockRow(n))
    /\ late' = [late EXCEPT ![n] = FALSE]
    /\ UNCHANGED <<pc, renewer, due, lost, tries>>

-----------------------------------------------------------------------------

(* The daemon dies and restarts; a CertLock it sent may still commit.       *)
Crash(n) ==
    /\ pc[n] # "idle"
    /\ late' = [late EXCEPT ![n] = @ \/ pc[n] = "locking" \/ renewer[n] = "applying"]
    /\ pc' = [pc EXCEPT ![n] = "idle"]
    /\ renewer' = [renewer EXCEPT ![n] = "off"]
    /\ UNCHANGED <<row, behind, due, lost, tries>>

(* One unit of time passes, with no apply in flight and no renewal due.     *)
InFlight(n) == \/ pc[n] \in {"locking", "verifying", "unlocking"}
               \/ renewer[n] = "applying" \/ late[n]
               \/ renewer[n] = "wait" /\ due[n] = 0

Tick ==
    /\ \A n \in Nodes : ~InFlight(n)
    /\ row' = [row EXCEPT !.left = IF @ > 0 THEN @ - 1 ELSE 0]
    /\ due' = [n \in Nodes |-> IF renewer[n] = "wait" THEN due[n] - 1 ELSE due[n]]
    /\ behind' = [n \in Nodes |-> <<row.lessee>>]
    /\ tries' = [n \in Nodes |-> 0]
    /\ UNCHANGED <<pc, renewer, lost, late>>

Init ==
    /\ row = UnlockRow
    /\ behind = [n \in Nodes |-> <<None>>]
    /\ pc = [n \in Nodes |-> "idle"]
    /\ renewer = [n \in Nodes |-> "off"]
    /\ due = [n \in Nodes |-> 0]
    /\ lost = [n \in Nodes |-> 0]
    /\ late = [n \in Nodes |-> FALSE]
    /\ tries = [n \in Nodes |-> 0]

Apply(n) ==
    \/ LockCommits(n) \/ LockFails(n) \/ LockVerify(n)
    \/ UnlockCommits(n) \/ UnlockFails(n)
    \/ RenewDue(n) \/ RenewCommits(n) \/ RenewFails(n) \/ LateRenew(n)

Next ==
    \/ \E n \in Nodes : LockStart(n) \/ UnlockStart(n) \/ Apply(n) \/ Crash(n)
    \/ Tick

Spec == Init /\ [][Next]_vars

(* Applies return and time passes.                                          *)
FairSpec == Spec /\ WF_vars(Tick) /\ \A n \in Nodes : WF_vars(Apply(n))

-----------------------------------------------------------------------------
(* Properties                                                               *)

(* The lock row, the stores' backlog and every node's renewer are well      *)
(* formed, and a ticker never runs past its renewal.                        *)
TypeOK ==
    /\ row \in [lessee : Nodes \cup {None}, left : Nat]
    /\ behind \in [Nodes -> Seq(Nodes \cup {None})]
    /\ pc \in [Nodes -> {"idle", "locking", "verifying", "holding", "unlocking"}]
    /\ renewer \in [Nodes -> {"off", "wait", "applying"}]
    /\ due \in [Nodes -> 0 .. Renew]
    /\ lost \in [Nodes -> 0 .. MaxLost]
    /\ late \in [Nodes -> BOOLEAN]
    /\ tries \in [Nodes -> 0 .. MaxTries]

(* A lease outlives MaxLost failed renewals and the clocks' differences.    *)
(* With LockTTL 5m and RenewInterval 2m, one failure and 59s of skew.       *)
LeaseLongEnough ==
    \A m, n \in Nodes : TTL + Skew[n] - (MaxLost + 1) * Renew > Skew[m]

(* Single flight: two nodes are never both between Lock and Unlock, through *)
(* renewals, crashes, failed and late applies (fsm.go's CertLock).          *)
Exclusive ==
    \A m, n \in Nodes : pc[m] = "holding" /\ pc[n] = "holding" => m = n

(* CertUnlock carries no lessee: still, an Unlock never ends a lease that   *)
(* another node has.                                                        *)
UnlockFreesOwn ==
    [][\A n \in Nodes :
         pc[n] = "unlocking" /\ row' = UnlockRow /\ row' # row => row.lessee = n]_vars

(* A lease whose lessee is gone (crashed, failed to unlock, or renewed once *)
(* more after its Unlock) ends: somebody can have the lock again.           *)
FreesUp ==
    \A m \in Nodes : []<>(row.lessee # m \/ pc[m] # "idle" \/ row.left = 0)
=============================================================================
