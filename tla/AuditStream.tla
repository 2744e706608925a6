---------------------------- MODULE AuditStream ----------------------------
(* Audit.Query with follow: the audit log the FSM appends to, the broker's  *)
(* channel, and the handler that sends the history, then what the channel   *)
(* brings, and lists the log again after an overflow.  A raft index is the  *)
(* position of its entry in the log: no command appends two.                *)
EXTENDS Broker, FiniteSets

CONSTANTS Types, Matches, MaxEvents

VARIABLES log,        \* state.AuditEvents: the types, in raft order
          queue,      \* the subscription's channel
          phase,      \* new, history, follow or resync
          list,       \* what List returned: entries 1..list, next to look at
          cursor,
          lastIdx,    \* the dedupe watermark
          sent,       \* what the client received
          lossy       \* history: an entry was dropped from the channel

vars == <<log, queue, phase, list, cursor, lastIdx, sent, lossy>>

Init ==
    /\ log \in {<<>>, <<CHOOSE t \in Matches : TRUE>>} /\ queue = <<>> /\ phase = "new"
    /\ list = 0 /\ cursor = 1 /\ lastIdx = 0 /\ sent = <<>> /\ lossy = FALSE

Subscribed == phase # "new"

(* AuditEvents.Append, then Broker.Publish.                                 *)
AppendEvent(t) ==
    /\ Len(log) < MaxEvents
    /\ log' = Append(log, t)
    /\ queue' = IF Subscribed THEN Publish(queue, Added(Len(log) + 1, t)) ELSE queue
    /\ lossy' = (lossy \/ (Subscribed /\ Len(queue) = Buffer))
    /\ UNCHANGED <<phase, list, cursor, lastIdx, sent>>

(* The handler subscribes before it lists the history.                      *)
Subscribe ==
    /\ phase = "new" /\ phase' = "subscribed"
    /\ UNCHANGED <<log, queue, list, cursor, lastIdx, sent, lossy>>

ListHistory ==
    /\ phase = "subscribed" /\ phase' = "history" /\ list' = Len(log) /\ cursor' = 1
    /\ UNCHANGED <<log, queue, lastIdx, sent, lossy>>

Forward(i) == sent' = IF log[i] \in Matches THEN Append(sent, i) ELSE sent

(* One entry of the list; after the last one the handler follows.           *)
Scan(i) ==
    IF phase = "resync" /\ i <= lastIdx THEN UNCHANGED <<sent, lastIdx>>
    ELSE Forward(i) /\ lastIdx' = i

SendListed ==
    /\ phase \in {"history", "resync"}
    /\ IF cursor <= list
       THEN /\ Scan(cursor) /\ cursor' = cursor + 1 /\ UNCHANGED phase
       ELSE /\ phase' = "follow" /\ UNCHANGED <<sent, lastIdx, cursor>>
    /\ UNCHANGED <<log, queue, list, lossy>>

(* An event from the channel: one that was sent already is skipped, a       *)
(* resync starts another pass over the log.                                 *)
DeliverNoDedupe(e) ==
    IF e.kind = "resync" THEN phase' = "resync" /\ list' = Len(log) /\ cursor' = 1 /\ UNCHANGED <<sent, lastIdx>>
    ELSE Forward(e.key) /\ lastIdx' = e.key /\ UNCHANGED <<phase, list, cursor>>

Deliver(e) ==
    \/ /\ e.kind = "resync" /\ phase' = "resync" /\ list' = Len(log) /\ cursor' = 1
       /\ UNCHANGED <<sent, lastIdx>>
    \/ /\ e.kind = "added" /\ e.key > lastIdx
       /\ Forward(e.key) /\ lastIdx' = e.key /\ UNCHANGED <<phase, list, cursor>>
    \/ /\ e.kind = "added" /\ e.key <= lastIdx
       /\ UNCHANGED <<phase, list, cursor, sent, lastIdx>>

Follow ==
    /\ phase = "follow" /\ queue # <<>>
    /\ Deliver(Head(queue)) /\ queue' = Tail(queue)
    /\ UNCHANGED <<log, lossy>>

Handler == Subscribe \/ ListHistory \/ SendListed \/ Follow

Next == (\E t \in Types : AppendEvent(t)) \/ Handler

(* The handler runs while the client keeps reading.                         *)
Spec == Init /\ [][Next]_vars /\ WF_vars(Handler)

(****************************** properties **********************************)
(* Sent positions and the watermark stay within the log.                    *)
TypeOK ==
    /\ log \in Seq(Types) /\ lastIdx \in 0..Len(log) /\ list \in 0..Len(log) /\ cursor \in 1..list + 1
    /\ Len(queue) <= Buffer /\ phase \in {"new", "subscribed", "history", "follow", "resync"}
    /\ \A i \in DOMAIN sent : sent[i] \in DOMAIN log /\ log[sent[i]] \in Matches

(* Query implements the tail: history, live events and the pass after an    *)
(* overflow overlap in every way and still nothing is sent twice or out of  *)
(* order, nothing is skipped unless the channel dropped an entry, and the   *)
(* handler keeps sending while something is left to send.                   *)
Abstract == INSTANCE EventTail
FollowIsTail == Abstract!TailSpec
=============================================================================
