-------------------------- MODULE CertStorageProofs --------------------------
(***************************************************************************)
(* Mutual exclusion of the cert lock, for any number of nodes, any lease   *)
(* and renewal times, any clock skews and any number of failed renewals    *)
(* that LeaseLongEnough admits, provided a node's stores are up to date    *)
(* when Lock reads them (MaxLag = 0).                                      *)
(*                                                                         *)
(* The invariant: whoever is past Lock's check is the row's lessee, and    *)
(* what is left of its lease covers the renewals it may still lose.        *)
(***************************************************************************)
EXTENDS CertStorage, SequenceTheorems, TLAPS

(* No other node's clock takes the lease for expired.                       *)
Safe == \A m \in Nodes : row.left > Skew[m]

(* A holder's lease: what is left of it and what passed since it was last   *)
(* extended make up the whole.                                              *)
Covered(n) == row.left + lost[n] * Renew + (Renew - due[n]) >= TTL + Skew[n]

NodeInv(n) ==
    /\ pc[n] = "verifying" /\ row.lessee = n => row.left = TTL + Skew[n]
    /\ pc[n] = "holding" => /\ row.lessee = n
                            /\ renewer[n] # "off"
                            /\ renewer[n] = "applying" => due[n] = 0
                            /\ Covered(n)
    /\ pc[n] = "unlocking" => row.lessee = n /\ Safe
    /\ renewer[n] # "off" => pc[n] = "holding"

HolderInv == \A n \in Nodes : NodeInv(n)

UpToDate == behind = [n \in Nodes |-> <<row.lessee>>]

Inv == TypeOK /\ UpToDate /\ HolderInv

-----------------------------------------------------------------------------
(* Arithmetic                                                               *)

(* Products of natural numbers are monotone; the provers need it spelled out. *)
LEMMA LossesBounded ==
    ASSUME NEW k \in Nat, NEW b \in Nat, k <= b, NEW r \in Nat
    PROVE  /\ k * r <= b * r
           /\ k * r \in Nat /\ b * r \in Nat
           /\ (k + 1) * r = k * r + r
           /\ (b + 1) * r = b * r + r
<1>1. k * r \in Nat /\ b * r \in Nat
  BY SMT
<1>2. (k + 1) * r = k * r + r /\ (b + 1) * r = b * r + r
  BY SMT
<1>3. PICK d \in Nat : b = k + d
  <2>1. b - k \in Nat /\ b = k + (b - k)
    OBVIOUS
  <2> QED BY <2>1
<1>4. d * r \in Nat /\ b * r = k * r + d * r
  BY <1>3, SMT
<1> QED BY <1>1, <1>2, <1>4, SMT

(* A holder's lease is safe from every other node.                          *)
LEMMA HolderSafe ==
    ASSUME TypeOK, LeaseLongEnough, NEW n \in Nodes, Covered(n)
    PROVE  Safe
<1> SUFFICES ASSUME NEW m \in Nodes PROVE row.left > Skew[m]
  BY DEF Safe
<1>1. /\ row.left \in Nat /\ lost[n] \in Nat /\ lost[n] <= MaxLost
      /\ due[n] \in Nat /\ due[n] <= Renew
  BY LeaseConstants DEF TypeOK
<1>2. /\ TTL \in Nat /\ Renew \in Nat /\ Skew[n] \in Nat /\ Skew[m] \in Nat
      /\ MaxLost \in Nat
  BY LeaseConstants
<1>3. /\ lost[n] * Renew <= MaxLost * Renew
      /\ lost[n] * Renew \in Nat /\ MaxLost * Renew \in Nat
      /\ (MaxLost + 1) * Renew = MaxLost * Renew + Renew
  BY <1>1, <1>2, LossesBounded
<1>4. TTL + Skew[n] - (MaxLost + 1) * Renew > Skew[m]
  BY DEF LeaseLongEnough
<1>5. row.left + lost[n] * Renew + (Renew - due[n]) >= TTL + Skew[n]
  BY DEF Covered
<1> HIDE DEF Covered
<1> DEFINE P == lost[n] * Renew
           Q == MaxLost * Renew
           R == (MaxLost + 1) * Renew
<1> HIDE DEF P, Q, R
<1>6. P <= Q /\ P \in Nat /\ Q \in Nat /\ R = Q + Renew
  BY <1>3 DEF P, Q, R
<1>7. TTL + Skew[n] - R > Skew[m]
  BY <1>4 DEF R
<1>8. row.left + P + (Renew - due[n]) >= TTL + Skew[n]
  BY <1>5 DEF P
<1> QED BY <1>1, <1>2, <1>6, <1>7, <1>8, SMT

-----------------------------------------------------------------------------
(* The pieces of a step                                                     *)

(* n is past the commit of a CertLock that succeeded.                       *)
Owner(n) == pc[n] \in {"verifying", "holding", "unlocking"} /\ row.lessee = n

(* A lease that was just granted outlives every clock in the cluster.       *)
LEMMA FullLeaseSafe ==
    ASSUME LeaseLongEnough, NEW n \in Nodes
    PROVE  \A m \in Nodes : TTL + Skew[n] > Skew[m]
<1>1. (MaxLost + 1) * Renew \in Nat
  BY LeaseConstants, LossesBounded
<1>2. ASSUME NEW m \in Nodes PROVE TTL + Skew[n] > Skew[m]
  <2>1. TTL + Skew[n] - (MaxLost + 1) * Renew > Skew[m]
    BY DEF LeaseLongEnough
  <2>2. TTL \in Nat /\ Skew[n] \in Nat /\ Skew[m] \in Nat
    BY LeaseConstants
  <2> DEFINE R == (MaxLost + 1) * Renew
  <2> HIDE DEF R
  <2>3. R \in Nat /\ TTL + Skew[n] - R > Skew[m]
    BY <1>1, <2>1 DEF R
  <2> QED BY <2>2, <2>3, SMT
<1> QED BY <1>2

(* So does the lease of a holder, whatever renewals it lost.                *)
LEMMA OwnerSafe ==
    ASSUME Inv, LeaseLongEnough, NEW n \in Nodes, Owner(n)
    PROVE  Safe
<1>1. CASE pc[n] = "verifying"
  <2>1. row.left = TTL + Skew[n]
    BY <1>1 DEF Owner, Inv, HolderInv, NodeInv
  <2> QED BY <2>1, FullLeaseSafe DEF Safe
<1>2. CASE pc[n] = "holding"
  BY <1>2, HolderSafe DEF Inv, HolderInv, NodeInv
<1>3. CASE pc[n] = "unlocking"
  BY <1>3 DEF Inv, HolderInv, NodeInv
<1> QED BY <1>1, <1>2, <1>3 DEF Owner

(* CertLock of another node leaves an owner's row as it is.                 *)
LEMMA OthersRefused ==
    ASSUME Inv, LeaseLongEnough, NEW n \in Nodes, Owner(n), NEW m \in Nodes, m # n
    PROVE  LockRow(m) = row
<1>1. row.lessee = n /\ n # None
  BY LeaseConstants DEF Owner
<1>2. row.left > Skew[m]
  BY OwnerSafe DEF Safe
<1> QED BY <1>1, <1>2 DEF LockRow

(* What CertLock and CertUnlock leave behind is a lock row.                 *)
LEMMA RowType ==
    ASSUME TypeOK, NEW n \in Nodes
    PROVE  /\ LockRow(n) \in [lessee : Nodes \cup {None}, left : Nat]
           /\ UnlockRow \in [lessee : Nodes \cup {None}, left : Nat]
<1>1. TTL + Skew[n] \in Nat
  BY LeaseConstants
<1>2. [lessee |-> n, left |-> TTL + Skew[n]] \in [lessee : Nodes \cup {None}, left : Nat]
  BY <1>1
<1>3. row \in [lessee : Nodes \cup {None}, left : Nat]
  BY DEF TypeOK
<1> QED BY <1>2, <1>3 DEF LockRow, UnlockRow

(* With MaxLag = 0 every commit is seen at once.                            *)
LEMMA CommitSeen ==
    ASSUME MaxLag = 0, UpToDate, NEW r, Commit(r)
    PROVE  row' = r /\ UpToDate'
<1>1. ASSUME NEW n \in Nodes PROVE Lagging(behind[n], r.lessee) = <<r.lessee>>
  <2>1. behind[n] = <<row.lessee>>
    BY DEF UpToDate
  <2>2. Len(<<row.lessee>>) = 1 /\ Tail(<<row.lessee>>) = << >>
    OBVIOUS
  <2>3. Append(<< >>, r.lessee) = <<r.lessee>>
    OBVIOUS
  <2> QED BY <2>1, <2>2, <2>3, MaxLag = 0 DEF Lagging
<1> QED BY <1>1 DEF Commit, UpToDate

(* So is a commit that may not have happened: the row is the new one or the *)
(* old one.                                                                 *)
LEMMA MaybeSeen ==
    ASSUME MaxLag = 0, UpToDate, NEW r, CommitOrNot(r)
    PROVE  (row' = r \/ row' = row) /\ UpToDate'
<1>1. CASE Commit(r)
  BY <1>1, CommitSeen
<1>2. CASE UNCHANGED <<row, behind>>
  BY <1>2 DEF UpToDate
<1> QED BY <1>1, <1>2 DEF CommitOrNot

(* A step of n leaves the other nodes' part of the invariant alone.         *)
LEMMA OthersKeep ==
    ASSUME Inv, LeaseLongEnough, NEW n \in Nodes, NEW m \in Nodes, m # n,
           \/ row' = row \/ row' = LockRow(n)
           \/ row' = UnlockRow /\ Owner(n),
           pc'[m] = pc[m], renewer'[m] = renewer[m],
           due'[m] = due[m], lost'[m] = lost[m]
    PROVE  NodeInv(m)'
<1>1. NodeInv(m)
  BY DEF Inv, HolderInv
<1>2. CASE Owner(m)
  <2>1. row' = row
    <3>1. LockRow(n) = row
      BY <1>2, OthersRefused
    <3>2. ~Owner(n)
      BY <1>2 DEF Owner
    <3> QED BY <3>1, <3>2
  <2> QED BY <1>1, <2>1 DEF NodeInv, Covered, Safe
<1>3. CASE ~Owner(m)
  <2>1. pc[m] \notin {"holding", "unlocking"}
    BY <1>1, <1>3 DEF NodeInv, Owner
  <2>2. pc[m] = "verifying" => row'.lessee # m
    <3>1. pc[m] = "verifying" => row.lessee # m
      BY <1>3 DEF Owner
    <3>2. row' = LockRow(n) => row' = row \/ row'.lessee = n
      BY DEF LockRow
    <3>3. row' = UnlockRow => row'.lessee # m
      BY LeaseConstants DEF UnlockRow
    <3> QED BY <3>1, <3>2, <3>3
  <2> QED BY <1>1, <2>1, <2>2 DEF NodeInv
<1> QED BY <1>2, <1>3

(* The same for all other nodes at once.                                    *)
LEMMA StepKeeps ==
    ASSUME Inv, LeaseLongEnough, NEW n \in Nodes,
           \/ row' = row \/ row' = LockRow(n)
           \/ row' = UnlockRow /\ Owner(n),
           \A m \in Nodes \ {n} : /\ pc'[m] = pc[m] /\ renewer'[m] = renewer[m]
                                  /\ due'[m] = due[m] /\ lost'[m] = lost[m],
           NodeInv(n)'
    PROVE  HolderInv'
<1>1. ASSUME NEW m \in Nodes, m # n PROVE NodeInv(m)'
  <2>1. /\ pc'[m] = pc[m] /\ renewer'[m] = renewer[m]
        /\ due'[m] = due[m] /\ lost'[m] = lost[m]
    BY <1>1
  <2> QED BY <1>1, <2>1, OthersKeep
<1> QED BY <1>1 DEF HolderInv

-----------------------------------------------------------------------------
(* The actions                                                              *)

(* An empty cluster satisfies the invariant.                                *)
LEMMA InvInit == Init /\ LeaseLongEnough => Inv
<1> SUFFICES ASSUME Init PROVE Inv
  OBVIOUS
<1>1. TypeOK
  BY LeaseConstants DEF Init, TypeOK, UnlockRow
<1>2. UpToDate
  BY DEF Init, UpToDate, UnlockRow
<1>3. HolderInv
  BY DEF Init, HolderInv, NodeInv
<1> QED BY <1>1, <1>2, <1>3 DEF Inv

(* Whatever an apply leaves of the row and the backlogs is well formed.     *)
LEMMA TypeStep ==
    ASSUME TypeOK, UpToDate', NEW n \in Nodes,
           \/ row' = row \/ row' = LockRow(n) \/ row' = UnlockRow
    PROVE  /\ row' \in [lessee : Nodes \cup {None}, left : Nat]
           /\ behind' \in [Nodes -> Seq(Nodes \cup {None})]
<1>1. row' \in [lessee : Nodes \cup {None}, left : Nat]
  BY RowType DEF TypeOK
<1>2. row'.lessee \in Nodes \cup {None}
  BY <1>1
<1>3. <<row'.lessee>> \in Seq(Nodes \cup {None})
  BY <1>2
<1> QED BY <1>1, <1>3 DEF UpToDate

(* Asking for the lock changes no lease.                                    *)
LEMMA LockStartKeeps ==
    ASSUME MaxLag = 0, LeaseLongEnough, Inv, NEW n \in Nodes, LockStart(n)
    PROVE  Inv'
<1>1. (row' = row) /\ UpToDate'
  BY DEF Inv, UpToDate, LockStart
<1>2. TypeOK'
  <2>1. /\ row' \in [lessee : Nodes \cup {None}, left : Nat]
        /\ behind' \in [Nodes -> Seq(Nodes \cup {None})]
    BY <1>1, TypeStep DEF Inv
  <2>2. tries[n] + 1 \in 0 .. MaxTries
    BY LeaseConstants, SMTT(40) DEF Inv, TypeOK, LockStart
  <2> QED BY <2>1, <2>2, SMTT(40) DEF Inv, TypeOK, LockStart
<1>3. NodeInv(n)'
  BY <1>1 DEF Inv, HolderInv, NodeInv, TypeOK, LockStart
<1>4. HolderInv'
  <2>1. \A m \in Nodes \ {n} : /\ pc'[m] = pc[m] /\ renewer'[m] = renewer[m]
                                /\ due'[m] = due[m] /\ lost'[m] = lost[m]
    BY DEF Inv, TypeOK, LockStart
  <2> QED BY <1>1, <1>3, <2>1, StepKeeps
<1> QED BY <1>1, <1>2, <1>4 DEF Inv

(* The FSM grants only free or expired leases, so no holder loses its own.  *)
LEMMA LockCommitsKeeps ==
    ASSUME MaxLag = 0, LeaseLongEnough, Inv, NEW n \in Nodes, LockCommits(n)
    PROVE  Inv'
<1>1. (row' = LockRow(n)) /\ UpToDate'
  BY CommitSeen DEF Inv, LockCommits
<1>2. TypeOK'
  <2>1. /\ row' \in [lessee : Nodes \cup {None}, left : Nat]
        /\ behind' \in [Nodes -> Seq(Nodes \cup {None})]
    BY <1>1, TypeStep DEF Inv
  <2> QED BY <2>1, LeaseConstants, Zenon DEF Inv, TypeOK, LockCommits
<1>3. NodeInv(n)'
  <2>1. pc'[n] = "verifying" /\ renewer[n] = "off" /\ renewer'[n] = "off"
    BY DEF Inv, HolderInv, NodeInv, TypeOK, LockCommits
  <2>2. row'.lessee = n => row'.left = TTL + Skew[n]
    <3>1. row' = row => row.lessee \notin {None, n} \/ row'.left = TTL + Skew[n]
      BY <1>1 DEF LockRow
    <3> QED BY <1>1, <3>1 DEF LockRow
  <2> QED BY <2>1, <2>2 DEF NodeInv
<1>4. HolderInv'
  <2>1. \A m \in Nodes \ {n} : /\ pc'[m] = pc[m] /\ renewer'[m] = renewer[m]
                                /\ due'[m] = due[m] /\ lost'[m] = lost[m]
    BY DEF Inv, TypeOK, LockCommits
  <2> QED BY <1>1, <1>3, <2>1, StepKeeps
<1> QED BY <1>1, <1>2, <1>4 DEF Inv

(* A CertLock that errors may be granted, to a node that does not hold.     *)
LEMMA LockFailsKeeps ==
    ASSUME MaxLag = 0, LeaseLongEnough, Inv, NEW n \in Nodes, LockFails(n)
    PROVE  Inv'
<1>1. (row' = LockRow(n) \/ row' = row) /\ UpToDate'
  BY MaybeSeen DEF Inv, LockFails
<1>2. TypeOK'
  <2>1. /\ row' \in [lessee : Nodes \cup {None}, left : Nat]
        /\ behind' \in [Nodes -> Seq(Nodes \cup {None})]
    BY <1>1, TypeStep DEF Inv
  <2> QED BY <2>1, LeaseConstants, Zenon DEF Inv, TypeOK, LockFails
<1>3. NodeInv(n)'
  <2>1. pc'[n] = "idle" /\ renewer[n] = "off" /\ renewer'[n] = "off"
    BY DEF Inv, HolderInv, NodeInv, TypeOK, LockFails
  <2> QED BY <2>1 DEF NodeInv
<1>4. HolderInv'
  <2>1. \A m \in Nodes \ {n} : /\ pc'[m] = pc[m] /\ renewer'[m] = renewer[m]
                                /\ due'[m] = due[m] /\ lost'[m] = lost[m]
    BY DEF Inv, TypeOK, LockFails
  <2> QED BY <1>1, <1>3, <2>1, StepKeeps
<1> QED BY <1>1, <1>2, <1>4 DEF Inv

(* Up-to-date stores name the lessee, so only the lessee goes on to hold.   *)
LEMMA LockVerifyKeeps ==
    ASSUME MaxLag = 0, LeaseLongEnough, Inv, NEW n \in Nodes, LockVerify(n)
    PROVE  Inv'
<1>0. behind[n] = <<row.lessee>> /\ Len(behind[n]) = 1 /\ behind[n][1] = row.lessee
  BY DEF Inv, UpToDate
<1>1. (row' = row) /\ UpToDate'
  <2>1. SubSeq(behind[n], 1, Len(behind[n])) = behind[n]
    <3>1. behind[n] \in Seq(Nodes \cup {None})
      BY DEF Inv, TypeOK
    <3> QED BY <3>1, SubSeqFull
  <2>2. behind' = [behind EXCEPT ![n] = SubSeq(behind[n], 1, Len(behind[n]))]
    <3>1. PICK k \in 1 .. Len(behind[n]) :
             behind' = [behind EXCEPT ![n] = SubSeq(behind[n], k, Len(behind[n]))]
      BY Zenon DEF LockVerify
    <3>2. k = 1
      BY <1>0
    <3> QED BY <3>1, <3>2
  <2>3. behind' = behind /\ row' = row
    BY <2>1, <2>2 DEF Inv, TypeOK, LockVerify
  <2> QED BY <2>3 DEF Inv, UpToDate
<1>2. NodeInv(n)' /\ TypeOK' /\ \A m \in Nodes \ {n} :
         /\ pc'[m] = pc[m] /\ renewer'[m] = renewer[m]
         /\ due'[m] = due[m] /\ lost'[m] = lost[m]
  <2>1. /\ row' \in [lessee : Nodes \cup {None}, left : Nat]
        /\ behind' \in [Nodes -> Seq(Nodes \cup {None})]
        /\ late' = late /\ tries' = tries
    BY <1>1, TypeStep DEF Inv, LockVerify
  <2>2. CASE row.lessee = n
    <3>1. pc' = [pc EXCEPT ![n] = "holding"] /\ StartRenewer(n)
      BY <1>0, <2>2 DEF LockVerify
    <3>2. /\ pc'[n] = "holding" /\ renewer'[n] = "wait"
          /\ due'[n] = Renew /\ lost'[n] = 0
      BY <3>1 DEF Inv, TypeOK, StartRenewer
    <3>3. row.left = TTL + Skew[n]
      BY <2>2 DEF Inv, HolderInv, NodeInv, LockVerify
    <3>4. Covered(n)'
      BY <1>1, <3>2, <3>3, LeaseConstants DEF Covered
    <3>5. NodeInv(n)'
      BY <1>1, <2>2, <3>2, <3>4 DEF NodeInv
    <3>6. TypeOK'
      <4>1. Renew \in 0 .. Renew /\ 0 \in 0 .. MaxLost
        BY LeaseConstants
      <4>2. due' \in [Nodes -> 0 .. Renew] /\ lost' \in [Nodes -> 0 .. MaxLost]
        BY <3>1, <4>1, Zenon DEF Inv, TypeOK, StartRenewer
      <4>3. /\ pc' \in [Nodes -> {"idle", "locking", "verifying", "holding", "unlocking"}]
            /\ renewer' \in [Nodes -> {"off", "wait", "applying"}]
        BY <3>1 DEF Inv, TypeOK, StartRenewer
      <4> QED BY <2>1, <4>2, <4>3, Zenon DEF Inv, TypeOK
    <3>7. \A m \in Nodes \ {n} :
             /\ pc'[m] = pc[m] /\ renewer'[m] = renewer[m]
             /\ due'[m] = due[m] /\ lost'[m] = lost[m]
      BY <3>1 DEF Inv, TypeOK, StartRenewer
    <3> QED BY <3>5, <3>6, <3>7
  <2>3. CASE row.lessee # n
    <3>1. pc' = [pc EXCEPT ![n] = "idle"] /\ UNCHANGED <<renewer, due, lost>>
      BY <1>0, <2>3 DEF LockVerify
    <3>2. renewer[n] = "off"
      BY DEF Inv, HolderInv, NodeInv, LockVerify
    <3>3. NodeInv(n)'
      BY <3>1, <3>2 DEF Inv, TypeOK, NodeInv
    <3>4. TypeOK'
      BY <2>1, <3>1 DEF Inv, TypeOK
    <3>5. \A m \in Nodes \ {n} :
             /\ pc'[m] = pc[m] /\ renewer'[m] = renewer[m]
             /\ due'[m] = due[m] /\ lost'[m] = lost[m]
      BY <3>1 DEF Inv, TypeOK
    <3> QED BY <3>3, <3>4, <3>5
  <2> QED BY <2>2, <2>3
<1>3. HolderInv'
  BY <1>1, <1>2, StepKeeps
<1> QED BY <1>1, <1>2, <1>3 DEF Inv

(* Unlock stops the renewer while the lease is still safe.                  *)
LEMMA UnlockStartKeeps ==
    ASSUME MaxLag = 0, LeaseLongEnough, Inv, NEW n \in Nodes, UnlockStart(n)
    PROVE  Inv'
<1>1. (row' = row) /\ UpToDate'
  BY DEF Inv, UpToDate, UnlockStart
<1>2. TypeOK'
  <2>1. /\ row' \in [lessee : Nodes \cup {None}, left : Nat]
        /\ behind' \in [Nodes -> Seq(Nodes \cup {None})]
    BY <1>1, TypeStep DEF Inv
  <2> QED BY <2>1, LeaseConstants, Zenon DEF Inv, TypeOK, UnlockStart
<1>3. NodeInv(n)'
  <2>1. pc'[n] = "unlocking" /\ renewer'[n] = "off"
    BY DEF Inv, TypeOK, UnlockStart
  <2>2. Owner(n)
    BY DEF Inv, HolderInv, NodeInv, Owner, UnlockStart
  <2>3. Safe'
    BY <1>1, <2>2, OwnerSafe DEF Safe
  <2> QED BY <1>1, <2>1, <2>2, <2>3 DEF NodeInv, Owner
<1>4. HolderInv'
  <2>1. \A m \in Nodes \ {n} : /\ pc'[m] = pc[m] /\ renewer'[m] = renewer[m]
                                /\ due'[m] = due[m] /\ lost'[m] = lost[m]
    BY DEF Inv, TypeOK, UnlockStart
  <2> QED BY <1>1, <1>3, <2>1, StepKeeps
<1> QED BY <1>1, <1>2, <1>4 DEF Inv

(* The lease CertUnlock removes is that of the node that unlocks.           *)
LEMMA UnlockCommitsKeeps ==
    ASSUME MaxLag = 0, LeaseLongEnough, Inv, NEW n \in Nodes, UnlockCommits(n)
    PROVE  Inv'
<1>0. Owner(n)
  BY DEF Inv, HolderInv, NodeInv, Owner, UnlockCommits
<1>1. (row' = UnlockRow) /\ UpToDate'
  BY CommitSeen DEF Inv, UnlockCommits
<1>2. TypeOK'
  <2>1. /\ row' \in [lessee : Nodes \cup {None}, left : Nat]
        /\ behind' \in [Nodes -> Seq(Nodes \cup {None})]
    BY <1>1, TypeStep DEF Inv
  <2> QED BY <2>1, LeaseConstants, Zenon DEF Inv, TypeOK, UnlockCommits
<1>3. NodeInv(n)'
  <2>1. pc'[n] = "idle" /\ renewer'[n] = renewer[n] /\ renewer[n] = "off"
    BY DEF Inv, HolderInv, NodeInv, TypeOK, UnlockCommits
  <2> QED BY <2>1 DEF NodeInv
<1>4. HolderInv'
  <2>1. \A m \in Nodes \ {n} : /\ pc'[m] = pc[m] /\ renewer'[m] = renewer[m]
                                /\ due'[m] = due[m] /\ lost'[m] = lost[m]
    BY DEF Inv, TypeOK, UnlockCommits
  <2> QED BY <1>0, <1>1, <1>3, <2>1, StepKeeps
<1> QED BY <1>1, <1>2, <1>4 DEF Inv

(* An Unlock that errors leaves the lease, or frees it.                     *)
LEMMA UnlockFailsKeeps ==
    ASSUME MaxLag = 0, LeaseLongEnough, Inv, NEW n \in Nodes, UnlockFails(n)
    PROVE  Inv'
<1>0. Owner(n)
  BY DEF Inv, HolderInv, NodeInv, Owner, UnlockFails
<1>1. (row' = UnlockRow \/ row' = row) /\ UpToDate'
  BY MaybeSeen DEF Inv, UnlockFails
<1>2. TypeOK'
  <2>1. /\ row' \in [lessee : Nodes \cup {None}, left : Nat]
        /\ behind' \in [Nodes -> Seq(Nodes \cup {None})]
    BY <1>1, TypeStep DEF Inv
  <2> QED BY <2>1, LeaseConstants, Zenon DEF Inv, TypeOK, UnlockFails
<1>3. NodeInv(n)'
  <2>1. pc'[n] = "idle" /\ renewer'[n] = renewer[n] /\ renewer[n] = "off"
    BY DEF Inv, HolderInv, NodeInv, TypeOK, UnlockFails
  <2> QED BY <2>1 DEF NodeInv
<1>4. HolderInv'
  <2>1. \A m \in Nodes \ {n} : /\ pc'[m] = pc[m] /\ renewer'[m] = renewer[m]
                                /\ due'[m] = due[m] /\ lost'[m] = lost[m]
    BY DEF Inv, TypeOK, UnlockFails
  <2> QED BY <1>0, <1>1, <1>3, <2>1, StepKeeps
<1> QED BY <1>1, <1>2, <1>4 DEF Inv

(* The ticker fires only at the end of its interval.                        *)
LEMMA RenewDueKeeps ==
    ASSUME MaxLag = 0, LeaseLongEnough, Inv, NEW n \in Nodes, RenewDue(n)
    PROVE  Inv'
<1>1. (row' = row) /\ UpToDate'
  BY DEF Inv, UpToDate, RenewDue
<1>2. TypeOK'
  <2>1. /\ row' \in [lessee : Nodes \cup {None}, left : Nat]
        /\ behind' \in [Nodes -> Seq(Nodes \cup {None})]
    BY <1>1, TypeStep DEF Inv
  <2> QED BY <2>1, LeaseConstants, Zenon DEF Inv, TypeOK, RenewDue
<1>3. NodeInv(n)'
  BY <1>1 DEF Inv, HolderInv, NodeInv, TypeOK, RenewDue, Covered
<1>4. HolderInv'
  <2>1. \A m \in Nodes \ {n} : /\ pc'[m] = pc[m] /\ renewer'[m] = renewer[m]
                                /\ due'[m] = due[m] /\ lost'[m] = lost[m]
    BY DEF Inv, TypeOK, RenewDue
  <2> QED BY <1>1, <1>3, <2>1, StepKeeps
<1> QED BY <1>1, <1>2, <1>4 DEF Inv

(* A renewal extends the holder's lease to its full length.                 *)
LEMMA RenewCommitsKeeps ==
    ASSUME MaxLag = 0, LeaseLongEnough, Inv, NEW n \in Nodes, RenewCommits(n)
    PROVE  Inv'
<1>1. (row' = LockRow(n)) /\ UpToDate'
  BY CommitSeen DEF Inv, RenewCommits
<1>2. TypeOK'
  <2>1. /\ row' \in [lessee : Nodes \cup {None}, left : Nat]
        /\ behind' \in [Nodes -> Seq(Nodes \cup {None})]
    BY <1>1, TypeStep DEF Inv
  <2>2. 0 \in 0 .. MaxLost /\ Renew \in 0 .. Renew
    BY LeaseConstants DEF Inv, TypeOK, RenewFails
  <2>3. /\ due' \in [Nodes -> 0 .. Renew] /\ lost' \in [Nodes -> 0 .. MaxLost]
        /\ renewer' \in [Nodes -> {"off", "wait", "applying"}]
    BY <2>2 DEF Inv, TypeOK, RenewCommits, StartRenewer
  <2> QED BY <2>1, <2>3, ZenonT(40) DEF Inv, TypeOK, RenewCommits
<1>3. NodeInv(n)'
  <2>1. pc[n] = "holding" /\ row.lessee = n /\ due[n] = 0 /\ Covered(n)
    BY DEF Inv, HolderInv, NodeInv, TypeOK, RenewCommits
  <2>2. row' = [lessee |-> n, left |-> TTL + Skew[n]]
    BY <1>1, <2>1 DEF LockRow
  <2>3. /\ pc'[n] = "holding" /\ renewer'[n] = "wait"
        /\ due'[n] = Renew /\ lost'[n] = 0
    BY <2>1 DEF Inv, TypeOK, RenewCommits, StartRenewer
  <2>4. Covered(n)'
    BY <2>2, <2>3, LeaseConstants DEF Covered
  <2> QED BY <2>2, <2>3, <2>4 DEF NodeInv
<1>4. HolderInv'
  <2>1. \A m \in Nodes \ {n} : /\ pc'[m] = pc[m] /\ renewer'[m] = renewer[m]
                                /\ due'[m] = due[m] /\ lost'[m] = lost[m]
    BY DEF Inv, TypeOK, RenewCommits, StartRenewer
  <2> QED BY <1>1, <1>3, <2>1, StepKeeps
<1> QED BY <1>1, <1>2, <1>4 DEF Inv

(* A failed renewal counts as lost, and the lease covers MaxLost of them.   *)
LEMMA RenewFailsKeeps ==
    ASSUME MaxLag = 0, LeaseLongEnough, Inv, NEW n \in Nodes, RenewFails(n)
    PROVE  Inv'
<1>1. (row' = LockRow(n) \/ row' = row) /\ UpToDate'
  BY MaybeSeen DEF Inv, RenewFails
<1>2. TypeOK'
  <2>1. /\ row' \in [lessee : Nodes \cup {None}, left : Nat]
        /\ behind' \in [Nodes -> Seq(Nodes \cup {None})]
    BY <1>1, TypeStep DEF Inv
  <2>2. lost[n] + 1 \in 0 .. MaxLost /\ Renew \in 0 .. Renew
    BY LeaseConstants DEF Inv, TypeOK, RenewFails
  <2>3. /\ due' \in [Nodes -> 0 .. Renew] /\ lost' \in [Nodes -> 0 .. MaxLost]
        /\ renewer' \in [Nodes -> {"off", "wait", "applying"}]
    BY <2>2 DEF Inv, TypeOK, RenewFails
  <2> QED BY <2>1, <2>3, Zenon DEF Inv, TypeOK, RenewFails
<1>3. NodeInv(n)'
  <2>1. pc[n] = "holding" /\ row.lessee = n /\ due[n] = 0 /\ Covered(n)
    BY DEF Inv, HolderInv, NodeInv, TypeOK, RenewFails
  <2>2. row' = [lessee |-> n, left |-> TTL + Skew[n]] \/ row' = row
    BY <1>1, <2>1 DEF LockRow
  <2>3. /\ pc'[n] = "holding" /\ renewer'[n] = "wait"
        /\ due'[n] = Renew /\ lost'[n] = lost[n] + 1
    BY <2>1 DEF Inv, TypeOK, RenewFails
  <2>4. Covered(n)'
    <3>1. /\ lost[n] \in Nat /\ row.left \in Nat /\ Skew[n] \in Nat
          /\ TTL \in Nat /\ Renew \in Nat /\ MaxLost \in Nat /\ lost[n] <= MaxLost
      BY LeaseConstants DEF Inv, TypeOK
    <3>2. (lost[n] + 1) * Renew = lost[n] * Renew + Renew /\ lost[n] * Renew \in Nat
      BY <3>1, LossesBounded
    <3>3. row.left + lost[n] * Renew + Renew >= TTL + Skew[n]
      BY <2>1, <3>1, <3>2 DEF Covered
    <3> DEFINE P == lost[n] * Renew
    <3>4. (lost[n] + 1) * Renew = P + Renew /\ P \in Nat
          /\ row.left + P + Renew >= TTL + Skew[n]
      BY <3>2, <3>3
    <3> HIDE DEF P
    <3>5. row'.left + (P + Renew) >= TTL + Skew[n]
      <4>1. CASE row' = row
        BY <4>1, <3>1, <3>4
      <4>2. CASE row' = [lessee |-> n, left |-> TTL + Skew[n]]
        BY <4>2, <3>1, <3>4
      <4> QED BY <2>2, <4>1, <4>2
    <3>6. row'.left + lost'[n] * Renew >= TTL + Skew[n]
      BY <2>3, <3>4, <3>5
    <3>7. Renew - due'[n] = 0
      BY <2>3, <3>1
    <3>8. row'.left \in Nat /\ lost'[n] * Renew \in Nat
      <4>1. row'.left \in Nat
        BY <1>2 DEF TypeOK
      <4>2. P + Renew \in Nat
        BY <3>1, <3>4
      <4> QED BY <4>1, <4>2, <2>3, <3>4
    <3> DEFINE L == lost'[n] * Renew
               D == Renew - due'[n]
    <3>9. row'.left + L >= TTL + Skew[n] /\ D = 0 /\ row'.left \in Nat /\ L \in Nat
      BY <3>6, <3>7, <3>8
    <3> HIDE DEF L, D
    <3>10. row'.left + L + D >= TTL + Skew[n]
      BY <3>1, <3>9
    <3> QED BY <3>10 DEF L, D, Covered
  <2> QED BY <2>1, <2>2, <2>3, <2>4 DEF NodeInv
<1>4. HolderInv'
  <2>1. \A m \in Nodes \ {n} : /\ pc'[m] = pc[m] /\ renewer'[m] = renewer[m]
                                /\ due'[m] = due[m] /\ lost'[m] = lost[m]
    BY DEF Inv, TypeOK, RenewFails
  <2> QED BY <1>1, <1>3, <2>1, StepKeeps
<1> QED BY <1>1, <1>2, <1>4 DEF Inv

(* A cancelled renewer's apply takes no lease from a holder.                *)
LEMMA LateRenewKeeps ==
    ASSUME MaxLag = 0, LeaseLongEnough, Inv, NEW n \in Nodes, LateRenew(n)
    PROVE  Inv'
<1>1. (row' = LockRow(n) \/ row' = row) /\ UpToDate'
  BY MaybeSeen DEF Inv, LateRenew
<1>2. TypeOK'
  <2>1. /\ row' \in [lessee : Nodes \cup {None}, left : Nat]
        /\ behind' \in [Nodes -> Seq(Nodes \cup {None})]
    BY <1>1, TypeStep DEF Inv
  <2> QED BY <2>1, LeaseConstants, ZenonT(40) DEF Inv, TypeOK, LateRenew
<1>3. NodeInv(n)'
  <2>1. /\ pc'[n] = pc[n] /\ renewer'[n] = renewer[n]
        /\ due'[n] = due[n] /\ lost'[n] = lost[n] /\ NodeInv(n)
    BY DEF Inv, HolderInv, LateRenew
  <2>2. CASE row' = row
    BY <2>1, <2>2 DEF NodeInv, Covered, Safe
  <2>3. CASE row' = [lessee |-> n, left |-> TTL + Skew[n]] /\ row.lessee = n
    <3>1. row'.lessee = n /\ row'.left = TTL + Skew[n]
      BY <2>3
    <3>2. /\ TTL \in Nat /\ Skew[n] \in Nat /\ Renew \in Nat /\ MaxLost \in Nat
          /\ lost[n] \in Nat /\ lost[n] <= MaxLost /\ due[n] \in Nat /\ due[n] <= Renew
      BY LeaseConstants DEF Inv, TypeOK
    <3>3. lost[n] * Renew \in Nat
      BY <3>2, LossesBounded
    <3>4. Covered(n)'
      <4> DEFINE P == lost[n] * Renew
      <4>1. P \in Nat
        BY <3>3
      <4> HIDE DEF P
      <4>2. TTL + Skew[n] + P + (Renew - due[n]) >= TTL + Skew[n]
        BY <3>2, <4>1
      <4> QED BY <2>1, <3>1, <4>2 DEF P, Covered
    <3>5. Safe'
      <4>1. TypeOK' /\ LeaseLongEnough'
        BY <1>2 DEF LeaseLongEnough
      <4> QED BY <3>1, <3>2, FullLeaseSafe DEF Safe
    <3> QED BY <2>1, <3>1, <3>4, <3>5 DEF NodeInv
  <2>4. CASE row.lessee # n /\ row' = [lessee |-> n, left |-> TTL + Skew[n]]
    BY <2>1, <2>4 DEF NodeInv
  <2> QED BY <1>1, <2>2, <2>3, <2>4 DEF LockRow
<1>4. HolderInv'
  <2>1. \A m \in Nodes \ {n} : /\ pc'[m] = pc[m] /\ renewer'[m] = renewer[m]
                                /\ due'[m] = due[m] /\ lost'[m] = lost[m]
    BY DEF Inv, TypeOK, LateRenew
  <2> QED BY <1>1, <1>3, <2>1, StepKeeps
<1> QED BY <1>1, <1>2, <1>4 DEF Inv

(* A crash ends a lease or none: the row stays until it expires.            *)
LEMMA CrashKeeps ==
    ASSUME MaxLag = 0, LeaseLongEnough, Inv, NEW n \in Nodes, Crash(n)
    PROVE  Inv'
<1>1. (row' = row) /\ UpToDate'
  BY DEF Inv, UpToDate, Crash
<1>2. TypeOK'
  <2>1. /\ row' \in [lessee : Nodes \cup {None}, left : Nat]
        /\ behind' \in [Nodes -> Seq(Nodes \cup {None})]
    BY <1>1, TypeStep DEF Inv
  <2> QED BY <2>1, LeaseConstants, Zenon DEF Inv, TypeOK, Crash
<1>3. NodeInv(n)'
  <2>1. pc'[n] = "idle" /\ renewer'[n] = "off"
    BY DEF Inv, TypeOK, Crash
  <2> QED BY <2>1 DEF NodeInv
<1>4. HolderInv'
  <2>1. \A m \in Nodes \ {n} : /\ pc'[m] = pc[m] /\ renewer'[m] = renewer[m]
                                /\ due'[m] = due[m] /\ lost'[m] = lost[m]
    BY DEF Inv, TypeOK, Crash
  <2> QED BY <1>1, <1>3, <2>1, StepKeeps
<1> QED BY <1>1, <1>2, <1>4 DEF Inv

(* A unit of time shortens the lease and every ticker alike.                *)
LEMMA TickKeeps == ASSUME Inv, LeaseLongEnough, Tick PROVE Inv'
<1>1. /\ row'.lessee = row.lessee
      /\ row'.left = IF row.left > 0 THEN row.left - 1 ELSE 0
      /\ row' \in [lessee : Nodes \cup {None}, left : Nat]
  <2>1. row \in [lessee : Nodes \cup {None}, left : Nat]
    BY DEF Inv, TypeOK
  <2> DEFINE x == IF row.left > 0 THEN row.left - 1 ELSE 0
  <2>2. x \in Nat
    BY <2>1
  <2>3. row' = [row EXCEPT !.left = x]
    BY DEF Tick
  <2> HIDE DEF x
  <2>4. row'.lessee = row.lessee /\ row'.left = x
        /\ row' \in [lessee : Nodes \cup {None}, left : Nat]
    BY <2>1, <2>2, <2>3
  <2> QED BY <2>4 DEF x
<1>2. UpToDate'
  BY <1>1 DEF UpToDate, Tick
<1>3. \A n \in Nodes : /\ pc[n] \in {"idle", "holding"}
                       /\ renewer[n] # "applying"
                       /\ renewer[n] = "wait" => due[n] > 0
  <2> TAKE n \in Nodes
  <2>1. ~InFlight(n)
    BY DEF Tick
  <2>2. /\ pc[n] \in {"idle", "locking", "verifying", "holding", "unlocking"}
        /\ due[n] \in 0 .. Renew
    BY DEF Inv, TypeOK
  <2>3. due[n] # 0 => due[n] > 0
    BY <2>2, LeaseConstants
  <2> QED BY <2>1, <2>2, <2>3 DEF InFlight
<1>4. TypeOK'
  <2>1. \A n \in Nodes : due'[n] \in 0 .. Renew
    <3> TAKE n \in Nodes
    <3>1. due'[n] = IF renewer[n] = "wait" THEN due[n] - 1 ELSE due[n]
      BY DEF Tick
    <3>2. due[n] \in 0 .. Renew
      BY DEF Inv, TypeOK
    <3>3. renewer[n] = "wait" => due[n] > 0
      BY <1>3
    <3> QED BY <3>1, <3>2, <3>3, LeaseConstants
  <2>2. due' \in [Nodes -> 0 .. Renew]
    BY <2>1 DEF Tick
  <2>3. behind' \in [Nodes -> Seq(Nodes \cup {None})]
    <3>1. <<row.lessee>> \in Seq(Nodes \cup {None})
      BY DEF Inv, TypeOK
    <3> QED BY <3>1 DEF Tick
  <2>4. tries' \in [Nodes -> 0 .. MaxTries]
    BY LeaseConstants DEF Tick
  <2> QED BY <1>1, <2>2, <2>3, <2>4 DEF Inv, TypeOK, Tick
<1>5. ASSUME NEW n \in Nodes PROVE NodeInv(n)'
  <2>1. pc' = pc /\ renewer' = renewer /\ lost' = lost
    BY DEF Tick
  <2>2. CASE pc[n] = "idle"
    BY <2>1, <2>2 DEF NodeInv, Inv, HolderInv
  <2>3. CASE pc[n] = "holding"
    <3>1. row.lessee = n /\ renewer[n] = "wait" /\ due[n] > 0 /\ Covered(n)
      BY <1>3, <2>3 DEF NodeInv, Inv, HolderInv, TypeOK
    <3>2. row.left > Skew[n]
      BY <3>1, HolderSafe DEF Safe, Inv
    <3>3. /\ Skew[n] \in Nat /\ TTL \in Nat /\ Renew \in Nat /\ MaxLost \in Nat
          /\ row.left \in Nat /\ due[n] \in Nat
          /\ lost[n] \in Nat /\ lost[n] <= MaxLost
      BY LeaseConstants DEF Inv, TypeOK
    <3>4. row'.left = row.left - 1 /\ due'[n] = due[n] - 1
      BY <1>1, <3>1, <3>2, <3>3 DEF Tick
    <3>5. Covered(n)'
      <4> DEFINE P == lost[n] * Renew
      <4>1. P \in Nat /\ row.left + P + (Renew - due[n]) >= TTL + Skew[n]
        BY <3>1, <3>3, LossesBounded DEF Covered
      <4> HIDE DEF P
      <4>2. (row.left - 1) + P + (Renew - (due[n] - 1)) >= TTL + Skew[n]
        BY <3>3, <4>1
      <4> QED BY <2>1, <3>4, <4>2 DEF P, Covered
    <3> QED BY <1>1, <2>1, <2>3, <3>1, <3>5 DEF NodeInv
  <2> QED BY <1>3, <2>2, <2>3
<1> QED BY <1>2, <1>4, <1>5 DEF Inv, HolderInv

(* Every step keeps the invariant.                                          *)
LEMMA InvNext == ASSUME MaxLag = 0, LeaseLongEnough, Inv, [Next]_vars PROVE Inv'
<1>1. ASSUME NEW n \in Nodes,
             LockStart(n) \/ UnlockStart(n) \/ Apply(n) \/ Crash(n)
      PROVE  Inv'
  BY <1>1, LockStartKeeps, LockCommitsKeeps, LockFailsKeeps, LockVerifyKeeps,
     UnlockStartKeeps, UnlockCommitsKeeps, UnlockFailsKeeps, RenewDueKeeps,
     RenewCommitsKeeps, RenewFailsKeeps, LateRenewKeeps, CrashKeeps DEF Apply
<1>2. CASE Tick
  BY <1>2, TickKeeps
<1>3. CASE UNCHANGED vars
  BY <1>3 DEF vars, Inv, TypeOK, UpToDate, HolderInv, NodeInv, Covered, Safe
<1> QED BY <1>1, <1>2, <1>3 DEF Next

-----------------------------------------------------------------------------
(* Results                                                                  *)

(* Single flight: at most one node is between Lock and Unlock.              *)
THEOREM SingleFlight ==
    ASSUME MaxLag = 0, LeaseLongEnough
    PROVE  Spec => []Exclusive
<1>1. Init => Inv
  BY InvInit
<1>2. Inv /\ [Next]_vars => Inv'
  BY InvNext
<1>3. Inv => Exclusive
  BY DEF Inv, HolderInv, NodeInv, Exclusive
<1> QED BY <1>1, <1>2, <1>3, PTL DEF Spec

(* An Unlock only ever ends the lease of the node that calls it.            *)
THEOREM UnlocksItsOwn ==
    ASSUME MaxLag = 0, LeaseLongEnough
    PROVE  Spec => UnlockFreesOwn
<1>1. Init => Inv
  BY InvInit
<1>2. Inv /\ [Next]_vars => Inv'
  BY InvNext
<1>3. Inv => [\A n \in Nodes :
                pc[n] = "unlocking" /\ row' = UnlockRow /\ row' # row
                   => row.lessee = n]_vars
  BY DEF Inv, HolderInv, NodeInv
<1> QED BY <1>1, <1>2, <1>3, PTL DEF Spec, UnlockFreesOwn

(* The lock row, the renewers and their tickers stay well formed.           *)
THEOREM LockTypeCorrect ==
    ASSUME MaxLag = 0, LeaseLongEnough
    PROVE  Spec => []TypeOK
<1>1. Init => Inv
  BY InvInit
<1>2. Inv /\ [Next]_vars => Inv'
  BY InvNext
<1> QED BY <1>1, <1>2, PTL DEF Spec, Inv
=============================================================================
