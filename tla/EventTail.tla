----------------------------- MODULE EventTail -----------------------------
(* What following a log promises: the reader is sent the matching entries   *)
(* in log order, none of them twice, and, as long as nothing was lost on    *)
(* the way, none of them left out.                                          *)
EXTENDS Naturals, Sequences

CONSTANTS Matches,   \* the entry types the reader asked for
          Types

VARIABLES log,       \* the types of the entries, oldest first
          sent,      \* the positions in log of what the reader was sent
          lossy      \* something was lost on the way

tail == <<log, sent, lossy>>

Last == IF sent = <<>> THEN 0 ELSE sent[Len(sent)]

TailInit == log \in {<<>>, <<CHOOSE t \in Matches : TRUE>>} /\ sent = <<>> /\ lossy = FALSE

Record(t) == log' = Append(log, t) /\ UNCHANGED sent /\ lossy' \in {lossy, TRUE}

(* The next matching entry; after a loss, any later one.                    *)
Send(i) ==
    /\ i \in Last + 1 .. Len(log) /\ log[i] \in Matches
    /\ lossy \/ \A j \in Last + 1 .. i - 1 : log[j] \notin Matches
    /\ sent' = Append(sent, i) /\ UNCHANGED <<log, lossy>>

TailNext == (\E t \in Types : Record(t)) \/ (\E i \in DOMAIN log : Send(i))

TailSafe == TailInit /\ [][TailNext]_tail

(* Without a loss, every matching entry is sent in the end.                 *)
TailSpec ==
    /\ TailSafe
    /\ WF_tail(~lossy /\ \E i \in DOMAIN log : Send(i))
=============================================================================
