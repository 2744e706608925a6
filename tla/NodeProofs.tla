----------------------------- MODULE NodeProofs -----------------------------
(* Proofs about what runs for one node.                                     *)
(*                                                                          *)
(* AuditStream: Audit.Query implements the tail of the log it follows, for  *)
(* every buffer, every set of event types and every length of the log.      *)
(* That it keeps sending (the fairness of the tail) is left to the model    *)
(* checker.                                                                 *)
(*                                                                          *)
(* Restarter: what one crash loop can cost, for every number of nodes and   *)
(* of leaderships.                                                          *)
EXTENDS AuditStream, TLAPS, SequenceTheorems, FiniteSetTheorems

CONSTANTS Nodes, MaxConsecutiveFailures, MaxFlips, MaxTerms, MaxBehind
VARIABLES container, observed, failures, issued, channel, decided, leader, flips, terms, behind

Policy == INSTANCE Restarter

-----------------------------------------------------------------------------
(* Following the audit log                                                  *)

Last == Abstract!Last

Event == [kind : {"resync", "added"}, key : Nat \cup {None}, before : {None}, after : Types \cup {None}]

Typed ==
    /\ log \in Seq(Types) /\ sent \in Seq(Nat) /\ queue \in Seq(Event) /\ Len(queue) <= Buffer
    /\ lastIdx \in 0 .. Len(log) /\ list \in 0 .. Len(log) /\ cursor \in 1 .. list + 1
    /\ phase \in {"new", "subscribed", "history", "follow", "resync"}
    /\ lossy \in BOOLEAN

(* The watermark is not behind what was sent, and a pass over the history   *)
(* has looked at exactly what it covers.                                    *)
Watermark ==
    /\ Last \in 0 .. lastIdx
    /\ phase = "new" => queue = << >>
    /\ phase \in {"new", "subscribed"} => lastIdx = 0
    /\ phase = "history" => lastIdx = cursor - 1

(* What the channel carries is in the log.                                  *)
QueueInLog == \A i \in 1 .. Len(queue) : queue[i].kind = "added" => queue[i].key \in 1 .. Len(log)

(* While nothing was dropped, the channel holds the end of the log, without *)
(* a hole towards what was listed or looked at, and nothing that matches    *)
(* lies between what was sent and the watermark.                            *)
Lossless ==
    /\ phase # "resync"
    /\ \A i \in 1 .. Len(queue) : queue[i].kind = "added" /\ queue[i].key = Len(log) - Len(queue) + i
    /\ phase = "history" => Len(log) - Len(queue) <= list
    /\ phase = "follow" => Len(log) - Len(queue) <= lastIdx
    /\ \A j \in Last + 1 .. lastIdx : log[j] \notin Matches

IInv == Typed /\ Watermark /\ QueueInLog /\ (~lossy => Lossless)

ConstantsOK == Buffer \in Nat \ {0} /\ Matches \subseteq Types /\ Matches # {}

(* Nothing is logged, listed or sent yet.                                   *)
LEMMA InitInv == ConstantsOK /\ Init => IInv
<1> SUFFICES ASSUME ConstantsOK, Init PROVE IInv
  OBVIOUS
<1> DEFINE first == CHOOSE t \in Matches : TRUE
<1>1. first \in Types /\ log \in {<< >>, <<first>>}
  BY DEF ConstantsOK, Init
<1> HIDE DEF first
<1>2. log \in Seq(Types)
  <2>1. CASE log = << >>
    BY <2>1
  <2>2. CASE log = <<first>>
    BY <1>1, <2>2
  <2> QED BY <1>1, <2>1, <2>2
<1>3. Last = 0
  BY DEF Init, Last, Abstract!Last
<1>4. Typed
  <2>1. /\ queue = << >> /\ sent = << >> /\ phase = "new" /\ list = 0 /\ cursor = 1 /\ lastIdx = 0
        /\ lossy = FALSE
    BY DEF Init
  <2>2. Len(log) \in Nat /\ Len(queue) = 0 /\ Buffer \in Nat
    BY <1>2, <2>1 DEF ConstantsOK
  <2>3. queue \in Seq(Event) /\ sent \in Seq(Nat)
    BY <2>1
  <2>4. /\ Len(queue) <= Buffer /\ lastIdx \in 0 .. Len(log) /\ list \in 0 .. Len(log)
        /\ cursor \in 1 .. list + 1
    BY <2>1, <2>2
  <2> QED BY <1>2, <2>1, <2>3, <2>4, Zenon DEF Typed
<1>5. Watermark /\ QueueInLog /\ Lossless
  BY <1>2, <1>3 DEF Init, Watermark, QueueInLog, Lossless
<1> QED BY <1>4, <1>5 DEF IInv

(* What Forward leaves as the position sent last.                           *)
LEMMA Forwarded ==
    ASSUME Typed, NEW i \in 1 .. Len(log), Forward(i)
    PROVE  /\ sent' \in Seq(Nat)
           /\ log[i] \in Matches => Last' = i
           /\ log[i] \notin Matches => Last' = Last /\ sent' = sent
<1>1. CASE log[i] \in Matches
  <2>1. sent' = Append(sent, i)
    BY <1>1 DEF Forward
  <2>2. sent' \in Seq(Nat) /\ Len(sent') = Len(sent) + 1 /\ sent'[Len(sent) + 1] = i /\ Len(sent) \in Nat
    BY <2>1 DEF Typed
  <2>3. sent' # << >>
    BY <2>2
  <2> QED BY <1>1, <2>2, <2>3 DEF Last, Abstract!Last
<1>2. CASE log[i] \notin Matches
  BY <1>2 DEF Forward, Typed, Last, Abstract!Last
<1> QED BY <1>1, <1>2

(* Looking at the next position, or at a later one once something was lost, *)
(* is a step of the tail, or none.                                          *)
LEMMA LookedAt ==
    ASSUME IInv, NEW i \in 1 .. Len(log), i > lastIdx, ~lossy => i = lastIdx + 1,
           Forward(i), lastIdx' = i, UNCHANGED <<log, lossy>>
    PROVE  /\ Abstract!TailNext \/ UNCHANGED Abstract!tail
           /\ sent' \in Seq(Nat) /\ Last' \in 0 .. lastIdx'
           /\ ~lossy => \A j \in Last' + 1 .. lastIdx' : log[j] \notin Matches
<1>1. Last \in 0 .. lastIdx /\ lastIdx \in Nat /\ Len(log) \in Nat
  BY DEF IInv, Typed, Watermark
<1>2. ASSUME log[i] \in Matches
      PROVE  Abstract!Send(i)
  <2>1. i \in Last + 1 .. Len(log)
    BY <1>1
  <2>2. lossy \/ \A j \in Last + 1 .. i - 1 : log[j] \notin Matches
    BY <1>1 DEF IInv, Lossless
  <2>3. sent' = Append(sent, i)
    BY <1>2 DEF Forward
  <2> QED BY <1>2, <2>1, <2>2, <2>3 DEF Abstract!Send, Last
<1>3. i \in DOMAIN log
  BY DEF IInv, Typed
<1>4. Abstract!TailNext \/ UNCHANGED Abstract!tail
  <2>1. CASE log[i] \in Matches
    BY <1>2, <1>3, <2>1 DEF Abstract!TailNext
  <2>2. CASE log[i] \notin Matches
    BY <2>2, Forwarded DEF IInv, Abstract!tail
  <2> QED BY <2>1, <2>2
<1>5. sent' \in Seq(Nat) /\ Last' \in 0 .. lastIdx'
  BY <1>1, Forwarded DEF IInv
<1>6. ASSUME ~lossy PROVE \A j \in Last' + 1 .. lastIdx' : log[j] \notin Matches
  <2>1. CASE log[i] \in Matches
    BY <1>1, <2>1, Forwarded DEF IInv
  <2>2. CASE log[i] \notin Matches
    BY <1>1, <1>6, <2>2, Forwarded DEF IInv, Lossless
  <2> QED BY <2>1, <2>2
<1> QED BY Zenon, <1>4, <1>5, <1>6

(* AuditEvents.Append is a record of the tail, lossy when the channel is    *)
(* full.                                                                    *)
LEMMA AppendStep ==
    ASSUME ConstantsOK, IInv, NEW t \in Types, AppendEvent(t)
    PROVE  IInv' /\ Abstract!TailNext
<1>1. /\ log' \in Seq(Types) /\ Len(log') = Len(log) + 1 /\ Len(log) \in Nat
      /\ \A i \in 1 .. Len(log) : log'[i] = log[i]
  BY DEF AppendEvent, IInv, Typed
<1>2. Last' = Last /\ UNCHANGED <<phase, list, cursor, lastIdx, sent>>
  BY DEF AppendEvent, Last, Abstract!Last
<1>3. Abstract!TailNext
  <2>1. lossy' \in {lossy, TRUE}
    BY Zenon DEF AppendEvent, IInv, Typed
  <2> QED BY Zenon, <2>1 DEF AppendEvent, Abstract!TailNext, Abstract!Record
<1>4. CASE ~Subscribed
  <2>1. UNCHANGED <<queue, lossy>> /\ phase = "new" /\ queue = << >>
    BY <1>4 DEF AppendEvent, Subscribed, IInv, Typed, Watermark
  <2>2. Typed' /\ Watermark' /\ QueueInLog'
    BY <1>1, <1>2, <2>1 DEF IInv, Typed, Watermark, QueueInLog
  <2>3. ASSUME ~lossy PROVE Lossless'
    BY <1>1, <1>2, <2>1, <2>3 DEF IInv, Typed, Watermark, Lossless
  <2> QED BY <1>3, <2>1, <2>2, <2>3 DEF IInv
<1>5. CASE Subscribed /\ Len(queue) < Buffer
  <2> DEFINE e == Added(Len(log) + 1, t)
  <2>1. e \in Event /\ e.kind = "added" /\ e.key = Len(log) + 1
    BY <1>1 DEF Added, Event
  <2>2. queue' = Append(queue, e) /\ lossy' = lossy
    BY <1>5 DEF AppendEvent, Publish, IInv, Typed, ConstantsOK
  <2> HIDE DEF e
  <2>3. /\ queue' \in Seq(Event) /\ Len(queue') = Len(queue) + 1 /\ Len(queue) \in Nat
        /\ \A i \in 1 .. Len(queue) : queue'[i] = queue[i]
        /\ queue'[Len(queue) + 1] = e
    BY <2>1, <2>2 DEF IInv, Typed
  <2>4. Typed' /\ Watermark'
    BY <1>1, <1>2, <1>5, <2>2, <2>3 DEF IInv, Typed, Watermark, Subscribed, ConstantsOK
  <2>5. QueueInLog'
    BY <1>1, <2>1, <2>3 DEF IInv, QueueInLog
  <2>6. ASSUME ~lossy PROVE Lossless'
    <3>1. Len(log') - Len(queue') = Len(log) - Len(queue)
      BY <1>1, <2>3
    <3>2. \A i \in 1 .. Len(queue') : queue'[i].kind = "added" /\ queue'[i].key = Len(log') - Len(queue') + i
      <4> SUFFICES ASSUME NEW i \in 1 .. Len(queue')
                   PROVE  queue'[i].kind = "added" /\ queue'[i].key = Len(log) - Len(queue) + i
        BY SMTT(20), Zenon, <3>1
      <4>1. CASE i \in 1 .. Len(queue)
        BY <2>3, <2>6, <4>1 DEF IInv, Lossless
      <4>2. CASE i = Len(queue) + 1
        BY <1>1, <2>1, <2>3, <4>2
      <4> QED BY <2>3, <4>1, <4>2
    <3>3. \A j \in Last' + 1 .. lastIdx' : log'[j] \notin Matches
      <4> SUFFICES ASSUME NEW j \in Last + 1 .. lastIdx
                   PROVE  log'[j] \notin Matches
        BY <1>2
      <4>1. log[j] \notin Matches
        BY <2>6 DEF IInv, Lossless
      <4>2. j \in 1 .. Len(log)
        BY <1>1 DEF IInv, Typed, Watermark
      <4> QED BY <1>1, <4>1, <4>2
    <3> QED BY SMTT(20), Zenon, <1>2, <2>6, <3>1, <3>2, <3>3 DEF IInv, Lossless
  <2> QED BY <1>3, <2>2, <2>4, <2>5, <2>6 DEF IInv
<1>6. CASE Subscribed /\ Len(queue) = Buffer
  <2>1. Resync \in Event /\ Resync.kind = "resync"
    BY DEF Resync, Event
  <2>2. queue' = Append(Tail(queue), Resync) /\ lossy'
    <3>1. ~(Len(queue) < Buffer)
      BY <1>6 DEF ConstantsOK
    <3> QED BY <1>6, <3>1, Zenon DEF AppendEvent, Publish
  <2>3. queue # << >> /\ Len(queue) \in Nat \ {0}
    BY <1>6 DEF ConstantsOK, IInv, Typed
  <2> DEFINE rest == Tail(queue)
  <2>4. /\ rest \in Seq(Event) /\ Len(rest) = Len(queue) - 1
        /\ \A i \in 1 .. Len(rest) : rest[i] = queue[i + 1]
    BY <2>3 DEF IInv, Typed
  <2> HIDE DEF rest
  <2>5. /\ queue' \in Seq(Event) /\ Len(queue') = Len(queue)
        /\ \A i \in 1 .. Len(rest) : queue'[i] = rest[i]
        /\ queue'[Len(rest) + 1] = Resync
    BY <2>1, <2>2, <2>3, <2>4 DEF rest
  <2>6. Typed' /\ Watermark'
    BY <1>1, <1>2, <1>6, <2>2, <2>5 DEF IInv, Typed, Watermark, Subscribed, ConstantsOK
  <2>7. QueueInLog'
    <3> SUFFICES ASSUME NEW i \in 1 .. Len(queue'), queue'[i].kind = "added"
                 PROVE  queue'[i].key \in 1 .. Len(log')
      BY DEF QueueInLog
    <3>1. i \in 1 .. Len(rest) /\ i + 1 \in 1 .. Len(queue)
      BY <2>1, <2>3, <2>4, <2>5
    <3>2. queue'[i] = queue[i + 1]
      BY <2>4, <2>5, <3>1
    <3> QED BY <1>1, <3>1, <3>2 DEF IInv, QueueInLog
  <2> QED BY <1>3, <2>2, <2>6, <2>7 DEF IInv
<1> QED BY <1>4, <1>5, <1>6 DEF IInv, Typed, ConstantsOK

(* Subscribing and listing send nothing.                                    *)
LEMMA StartStep ==
    ASSUME IInv, Subscribe \/ ListHistory
    PROVE  IInv' /\ UNCHANGED Abstract!tail
<1>1. UNCHANGED <<log, queue, lastIdx, sent, lossy>> /\ Last' = Last
  BY DEF Subscribe, ListHistory, Last, Abstract!Last
<1>2. Typed' /\ Watermark'
  BY <1>1 DEF Subscribe, ListHistory, IInv, Typed, Watermark
<1>3. ASSUME ~lossy PROVE Lossless'
  BY <1>1, <1>3 DEF Subscribe, ListHistory, IInv, Typed, Watermark, Lossless
<1> QED BY <1>1, <1>2, <1>3 DEF IInv, QueueInLog, Abstract!tail

(* An entry of the list is looked at once.                                  *)
LEMMA ListedStep ==
    ASSUME IInv, SendListed
    PROVE  IInv' /\ (Abstract!TailNext \/ UNCHANGED Abstract!tail)
<1>1. UNCHANGED <<log, queue, list, lossy>>
  BY DEF SendListed
<1>2. CASE cursor > list
  <2>1. phase' = "follow" /\ UNCHANGED <<sent, lastIdx, cursor>> /\ Last' = Last
    BY <1>2 DEF SendListed, IInv, Typed, Last, Abstract!Last
  <2>2. Typed' /\ Watermark'
    BY <1>1, <2>1 DEF IInv, Typed, Watermark
  <2>3. ASSUME ~lossy PROVE Lossless'
    BY SMTT(20), Zenon, <1>1, <1>2, <2>1, <2>3 DEF SendListed, IInv, Typed, Watermark, Lossless
  <2> QED BY <1>1, <2>1, <2>2, <2>3 DEF IInv, QueueInLog, Abstract!tail
<1>3. CASE cursor <= list /\ phase = "resync" /\ cursor <= lastIdx
  <2>1. UNCHANGED <<phase, sent, lastIdx>> /\ cursor' = cursor + 1 /\ Last' = Last
    BY <1>3 DEF SendListed, Scan, Last, Abstract!Last
  <2>2. Typed' /\ Watermark'
    BY <1>1, <1>3, <2>1 DEF IInv, Typed, Watermark
  <2>3. lossy
    BY <1>3 DEF IInv, Lossless
  <2> QED BY <1>1, <2>1, <2>2, <2>3 DEF IInv, QueueInLog, Abstract!tail
<1>4. CASE cursor <= list /\ ~(phase = "resync" /\ cursor <= lastIdx)
  <2>1. Forward(cursor) /\ lastIdx' = cursor /\ cursor' = cursor + 1 /\ phase' = phase
    BY <1>4 DEF SendListed, Scan
  <2>2. cursor \in 1 .. Len(log) /\ cursor > lastIdx
    BY <1>4 DEF SendListed, IInv, Typed, Watermark
  <2>3. ~lossy => cursor = lastIdx + 1
    BY <1>4 DEF SendListed, IInv, Typed, Watermark, Lossless
  <2>4. /\ Abstract!TailNext \/ UNCHANGED Abstract!tail
        /\ sent' \in Seq(Nat) /\ Last' \in 0 .. lastIdx'
        /\ ~lossy => \A j \in Last' + 1 .. lastIdx' : log[j] \notin Matches
    BY SMTT(20), Zenon, <1>1, <2>1, <2>2, <2>3, LookedAt
  <2>5. Typed' /\ Watermark'
    BY SMTT(20), Zenon, <1>1, <1>4, <2>1, <2>2, <2>4 DEF SendListed, IInv, Typed, Watermark
  <2>6. ASSUME ~lossy PROVE Lossless'
    BY ZenonT(40), <1>1, <1>4, <2>1, <2>4, <2>6 DEF SendListed, IInv, Typed, Lossless
  <2> QED BY SMTT(20), Zenon, <1>1, <2>4, <2>5, <2>6 DEF IInv, QueueInLog
<1> QED BY <1>2, <1>3, <1>4 DEF IInv, Typed

(* So is an event from the channel.                                         *)
LEMMA FollowStep ==
    ASSUME ConstantsOK, IInv, Follow
    PROVE  IInv' /\ (Abstract!TailNext \/ UNCHANGED Abstract!tail)
<1> DEFINE e == Head(queue)
<1>1. phase = "follow" /\ queue # << >> /\ queue' = Tail(queue) /\ UNCHANGED <<log, lossy>> /\ Deliver(e)
  BY DEF Follow
<1>2. /\ Len(queue) \in Nat \ {0} /\ queue' \in Seq(Event) /\ Len(queue') = Len(queue) - 1
      /\ \A i \in 1 .. Len(queue') : queue'[i] = queue[i + 1]
      /\ e = queue[1]
  BY <1>1 DEF IInv, Typed
<1>3. QueueInLog' /\ Len(queue') <= Buffer
  BY <1>1, <1>2 DEF IInv, Typed, QueueInLog, ConstantsOK
<1>4. ASSUME ~lossy
      PROVE  /\ e.kind = "added" /\ e.key = Len(log) - Len(queue) + 1 /\ e.key <= lastIdx + 1
             /\ \A i \in 1 .. Len(queue') :
                   queue'[i].kind = "added" /\ queue'[i].key = Len(log) - Len(queue') + i
  BY <1>1, <1>2, <1>4 DEF IInv, Typed, Lossless
<1>5. e.kind = "added" => e.key \in 1 .. Len(log)
  BY <1>2 DEF IInv, QueueInLog
<1> HIDE DEF e
<1>6. CASE e.kind = "resync"
  <2>1. phase' = "resync" /\ list' = Len(log) /\ cursor' = 1 /\ UNCHANGED <<sent, lastIdx>> /\ Last' = Last
    BY <1>1, <1>6 DEF Deliver, Last, Abstract!Last
  <2>2. lossy
    BY <1>4, <1>6
  <2>3. Typed' /\ Watermark'
    BY SMTT(20), Zenon, <1>1, <1>2, <1>3, <2>1 DEF IInv, Typed, Watermark
  <2> QED BY SMTT(20), Zenon, <1>1, <1>3, <2>1, <2>2, <2>3 DEF IInv, Abstract!tail
<1>7. CASE e.kind = "added" /\ e.key > lastIdx
  <2>1. Forward(e.key) /\ lastIdx' = e.key /\ UNCHANGED <<phase, list, cursor>>
    BY <1>1, <1>5, <1>7 DEF Deliver, IInv, Typed
  <2>2. ~lossy => e.key = lastIdx + 1
    BY SMTT(20), Zenon, <1>4, <1>5, <1>7 DEF IInv, Typed
  <2>3. /\ Abstract!TailNext \/ UNCHANGED Abstract!tail
        /\ sent' \in Seq(Nat) /\ Last' \in 0 .. lastIdx'
        /\ ~lossy => \A j \in Last' + 1 .. lastIdx' : log[j] \notin Matches
    BY SMTT(20), Zenon, <1>1, <1>5, <1>7, <2>1, <2>2, LookedAt
  <2>4. Typed' /\ Watermark'
    BY SMTT(20), Zenon, <1>1, <1>2, <1>3, <1>5, <1>7, <2>1, <2>3 DEF IInv, Typed, Watermark
  <2>5. ASSUME ~lossy PROVE Lossless'
    <3>1. Len(log') - Len(queue') <= lastIdx'
      BY <1>1, <1>2, <1>4, <2>1, <2>5 DEF IInv, Typed
    <3> QED BY ZenonT(40), <1>1, <1>4, <2>1, <2>3, <2>5, <3>1 DEF Lossless
  <2> QED BY SMTT(20), Zenon, <1>1, <1>3, <2>3, <2>4, <2>5 DEF IInv
<1>8. CASE e.kind = "added" /\ e.key <= lastIdx
  <2>1. UNCHANGED <<phase, list, cursor, sent, lastIdx>> /\ Last' = Last
    BY SMTT(20), Zenon, <1>1, <1>5, <1>8 DEF Deliver, Last, Abstract!Last, IInv, Typed
  <2>2. Typed' /\ Watermark'
    BY SMTT(20), Zenon, <1>1, <1>2, <1>3, <2>1 DEF IInv, Typed, Watermark
  <2>3. ASSUME ~lossy PROVE Lossless'
    BY SMTT(20), Zenon, <1>1, <1>2, <1>4, <1>8, <2>1, <2>3 DEF IInv, Typed, Lossless
  <2> QED BY SMTT(20), Zenon, <1>1, <1>3, <2>1, <2>2, <2>3 DEF IInv, Abstract!tail
<1> QED BY <1>1, <1>6, <1>7, <1>8 DEF Deliver

(* Every step of Query is a step of the tail or leaves it alone.            *)
LEMMA StepRefines ==
    ASSUME ConstantsOK, IInv, [Next]_vars
    PROVE  IInv' /\ [Abstract!TailNext]_(Abstract!tail)
<1>1. CASE UNCHANGED vars
  BY <1>1 DEF vars, IInv, Typed, Watermark, QueueInLog, Lossless, Last, Abstract!Last, Abstract!tail
<1>2. CASE Next
  BY <1>2, AppendStep, StartStep, ListedStep, FollowStep DEF Next, Handler
<1> QED BY <1>1, <1>2

(* Audit.Query with follow implements the safety of the tail: the client    *)
(* gets matching entries in log order and none twice, whatever of history,  *)
(* live events and resync passes overlaps, and while the broker dropped     *)
(* nothing it skips none.                                                   *)
THEOREM QueryIsTail ==
    ASSUME ConstantsOK
    PROVE  Spec => Abstract!TailSafe
<1>1. Init => Abstract!TailInit
  BY DEF Init, Abstract!TailInit
<1>2. IInv /\ [Next]_vars => IInv' /\ [Abstract!TailNext]_(Abstract!tail)
  BY StepRefines
<1>3. Init => IInv
  BY InitInv
<1> QED BY <1>1, <1>2, <1>3, PTL DEF Spec, Abstract!TailSafe

-----------------------------------------------------------------------------
(* The restart policy                                                       *)

(* Restarts decided on and not yet committed, and those of them that are    *)
(* not the leader's.                                                        *)
Restarting == {n \in Nodes : decided[n] = "restart"}
Deposed == Restarting \ {leader}

(* A change of leader leaves at most one decision behind, and the counter a *)
(* leader decides on stands for all but the decisions left behind.          *)
RestartInv ==
    /\ decided \in [Nodes -> Policy!Decisions] /\ leader \in Nodes
    /\ failures \in Nat /\ issued = failures /\ terms \in Nat
    /\ IsFiniteSet(Restarting)
    /\ Cardinality(Deposed) <= terms
    /\ failures + Cardinality(Restarting) < MaxConsecutiveFailures + terms

(* The policy gives up at some failure.                                     *)
PolicyOK == MaxConsecutiveFailures \in Nat \ {0} /\ Nodes # {}

(* Nothing has failed yet.                                                  *)
LEMMA RestartInit ==
    ASSUME PolicyOK, Policy!Init PROVE RestartInv
<1>1. Restarting = {} /\ Deposed = {}
  BY DEF Policy!Init, Restarting, Deposed
<1> QED BY <1>1, FS_EmptySet DEF Policy!Init, RestartInv, Policy!Decisions, PolicyOK

(* The numbers of decisions are numbers, and one of them is the leader's.   *)
LEMMA RestartCounts ==
    ASSUME RestartInv
    PROVE  /\ IsFiniteSet(Deposed) /\ Cardinality(Deposed) \in Nat /\ Cardinality(Restarting) \in Nat
           /\ leader \in Restarting => Cardinality(Deposed) = Cardinality(Restarting) - 1
           /\ leader \notin Restarting => Deposed = Restarting
  BY FS_RemoveElement, FS_CardinalityType DEF RestartInv, Deposed

(* Fewer decisions are not counted as more.                                 *)
LEMMA FewerRestarts ==
    ASSUME PolicyOK, RestartInv, decided' \in [Nodes -> Policy!Decisions], leader' \in Nodes,
           Restarting' \subseteq Restarting, leader' = leader, terms' = terms,
           failures' \in Nat, issued' = failures', failures' <= failures
    PROVE  RestartInv'
<1>1. IsFiniteSet(Restarting') /\ Cardinality(Restarting') <= Cardinality(Restarting) /\ Cardinality(Restarting') \in Nat
  BY SMTT(20), Zenon, FS_Subset, FS_CardinalityType DEF RestartInv
<1>2. IsFiniteSet(Deposed') /\ Cardinality(Deposed') <= Cardinality(Deposed) /\ Cardinality(Deposed') \in Nat
  <2>1. Deposed' \subseteq Deposed
    BY DEF Deposed
  <2> QED BY SMTT(20), Zenon, <2>1, RestartCounts, FS_Subset, FS_CardinalityType
<1> QED BY SMTT(20), Zenon, <1>1, <1>2, RestartCounts DEF RestartInv, PolicyOK

(* Receive counts for the leader only and against the counter it reads;     *)
(* Commit turns a decision into a restart; LeaderChange leaves a decision   *)
(* behind and raises the bound.                                             *)
LEMMA RestartStep ==
    ASSUME PolicyOK, RestartInv, [Policy!Next]_(Policy!vars)
    PROVE  RestartInv'
<1> USE DEF PolicyOK
<1>1. CASE UNCHANGED Policy!vars \/ Policy!Flip \/ Policy!Poll
  <2>1. UNCHANGED <<decided, leader, terms, failures, issued>>
    BY <1>1 DEF Policy!vars, Policy!Flip, Policy!Poll
  <2> QED BY <2>1 DEF RestartInv, Restarting, Deposed
<1>2. CASE Policy!LeaderChange
  <2>1. UNCHANGED <<decided, failures, issued>> /\ leader' \in Nodes /\ terms' = terms + 1
    BY <1>2 DEF Policy!LeaderChange
  <2>2. Restarting' = Restarting
    BY <2>1 DEF Restarting
  <2>3. Cardinality(Deposed') <= terms + 1 
    <3>1. Deposed' \subseteq Restarting /\ IsFiniteSet(Restarting)
      BY <2>2 DEF Deposed, RestartInv
    <3>2. Cardinality(Deposed') <= Cardinality(Restarting) /\ Cardinality(Deposed') \in Nat
      BY <3>1, FS_Subset, FS_CardinalityType
    <3> QED BY <3>2, RestartCounts DEF RestartInv
  <2> QED BY <2>1, <2>2, <2>3, RestartCounts DEF RestartInv
<1>3. ASSUME NEW n \in Nodes, Policy!Receive(n) PROVE RestartInv'
  <2>1. UNCHANGED <<leader, terms, failures, issued>>
    BY <1>3 DEF Policy!Receive
  <2>2. decided' \in [Nodes -> Policy!Decisions]
    BY <1>3 DEF Policy!Receive, Policy!Decisions, Policy!Handle, Policy!handleFailure, Policy!handleDegraded,
                Policy!handleRunning, RestartInv
  <2>3. decided[n] = "idle" /\ \A m \in Nodes : m # n => decided'[m] = decided[m]
    BY <1>3 DEF Policy!Receive, RestartInv
  <2>4. CASE decided'[n] # "restart"
    <3>1. Restarting' \subseteq Restarting
      BY <2>3, <2>4 DEF Restarting
    <3> QED BY SMTT(20), Zenon, <2>1, <2>2, <3>1, FewerRestarts DEF RestartInv
  <2>5. CASE decided'[n] = "restart"
    <3>1. n = leader /\ failures + 1 < MaxConsecutiveFailures
      BY <1>3, <2>5 DEF Policy!Receive, Policy!Handle, Policy!handleFailure, Policy!handleDegraded,
                Policy!handleRunning, RestartInv
    <3>2. leader \notin Restarting /\ Restarting' = Restarting \cup {leader}
      BY <2>3, <2>5, <3>1 DEF Restarting
    <3>3. Deposed' = Deposed /\ Deposed = Restarting
      BY SMTT(20), Zenon, <2>1, <3>2, RestartCounts DEF Deposed
    <3>4. IsFiniteSet(Restarting') /\ Cardinality(Restarting') = Cardinality(Restarting) + 1
      BY <3>2, FS_AddElement DEF RestartInv
    <3> QED BY SMTT(20), Zenon, <2>1, <2>2, <3>1, <3>3, <3>4, RestartCounts DEF RestartInv
  <2> QED BY <2>4, <2>5
<1>4. ASSUME NEW n \in Nodes, Policy!Commit(n) PROVE RestartInv'
  <2>1. UNCHANGED <<leader, terms>> /\ decided' = [decided EXCEPT ![n] = "idle"]
    BY <1>4 DEF Policy!Commit
  <2>2. decided' \in [Nodes -> Policy!Decisions]
    BY <2>1 DEF Policy!Decisions, RestartInv
  <2>3. Restarting' = Restarting \ {n}
    BY SMTT(20), Zenon, <2>1 DEF Restarting, RestartInv
  <2>4. CASE decided[n] = "restart"
    <3>1. failures' = failures + 1 /\ issued' = issued + 1
      BY <1>4, <2>4 DEF Policy!Commit
    <3>2. n \in Restarting
      BY <2>4 DEF Restarting
    <3>3. IsFiniteSet(Restarting') /\ Cardinality(Restarting') = Cardinality(Restarting) - 1
      BY <2>3, <3>2, FS_RemoveElement DEF RestartInv
    <3>4. Deposed' \subseteq Deposed
      BY <2>1, <2>3 DEF Deposed
    <3>5. Cardinality(Deposed') <= Cardinality(Deposed) /\ Cardinality(Deposed') \in Nat
      BY SMTT(20), Zenon, <3>4, RestartCounts, FS_Subset, FS_CardinalityType
    <3> QED BY SMTT(20), Zenon, <2>1, <2>2, <3>1, <3>3, <3>5, RestartCounts DEF RestartInv
  <2>5. CASE decided[n] # "restart"
    <3>1. failures' \in {failures, 0} /\ issued' = failures'
      BY <1>4, <2>5 DEF Policy!Commit, RestartInv
    <3> QED BY SMTT(20), Zenon, <2>1, <2>2, <2>3, <3>1, FewerRestarts DEF RestartInv
  <2> QED BY <2>4, <2>5
<1>5. ASSUME NEW n \in Nodes, Policy!Lose(n) PROVE RestartInv'
  <2>1. UNCHANGED <<leader, terms, failures, issued>> /\ decided' = [decided EXCEPT ![n] = "idle"]
    BY <1>5 DEF Policy!Lose
  <2>2. decided' \in [Nodes -> Policy!Decisions] /\ Restarting' \subseteq Restarting
    BY <2>1 DEF Policy!Decisions, RestartInv, Restarting
  <2> QED BY <2>1, <2>2, FewerRestarts DEF RestartInv
<1> QED BY SMTT(20), Zenon, <1>1, <1>2, <1>3, <1>4, <1>5 DEF Policy!Next

(* RestartsBounded for any nodes and leaderships: between two resets        *)
(* handleFailure restarts fewer than MaxConsecutiveFailures times, and once *)
(* more per change of leader.                                               *)
THEOREM RestartsStayBounded ==
    ASSUME PolicyOK PROVE Policy!Spec => []Policy!RestartsBounded
<1>1. RestartInv => Policy!RestartsBounded
  BY RestartCounts DEF RestartInv, Policy!RestartsBounded, PolicyOK
<1> QED BY <1>1, RestartInit, RestartStep, PTL DEF Policy!Spec
=============================================================================
