----------------------------- MODULE LogStream ------------------------------
(* Deploy.Logs: one call fans out to the hosts of a service, every host     *)
(* streams the containers it runs, and all lines meet in one client stream. *)
(*   daemon/grpc/deploy_logs.go, runtime/logs/logs.go, cmd/jaco/logs.go     *)
(* A frame of Docker's multiplexed output ends some lines of one stream and *)
(* may leave a line open; a line is [replica, stream, n].                   *)
EXTENDS Naturals, Sequences, FiniteSets

CONSTANTS Hosts, Local, Replicas, HostOf, None,
          Frames,      \* replica -> sequence of [stream, ends, open]
          Buffer,      \* capacity of a line channel and of a peer's connection
          MaxFaults

Streams == {"stdout", "stderr"}
Peers == Hosts \ {Local}

VARIABLES follow,
          task,        \* host -> its fan-out goroutine
          reader,      \* replica -> the goroutine that forwards its lines
          copy,        \* replica -> the goroutine that copies from Docker
          channel,     \* replica -> its line channel
          conn,        \* peer -> lines on their way to this node
          client,      \* lines the client has received
          errs,        \* hosts and replicas whose goroutine reported an error
          result,      \* what the call returned, or None
          gone,        \* the client has cancelled
          faults

vars == <<follow, task, reader, copy, channel, conn, client, errs, result, gone, faults>>

Idle == [pc |-> "idle", frame |-> 0, left |-> 0, stream |-> None,
         pend |-> [s \in Streams |-> FALSE], sent |-> [s \in Streams |-> 0]]

Init ==
    /\ follow \in BOOLEAN
    /\ \E addressed \in SUBSET Peers :
          task = [h \in Hosts |-> IF h = Local THEN "serve" ELSE IF h \in addressed THEN "dial" ELSE "uncalled"]
    /\ reader = [r \in Replicas |-> "open"]
    /\ copy = [r \in Replicas |-> Idle]
    /\ channel = [r \in Replicas |-> <<>>]
    /\ conn = [h \in Peers |-> <<>>]
    /\ client = <<>> /\ errs = {} /\ result = None /\ gone = FALSE /\ faults = 0

(* The context of the call ends with the client or with the handler; the    *)
(* one of a peer's handler also when this node gives its connection up.     *)
Done == gone \/ result # None
DoneAt(h) == Done \/ (h # Local /\ task[h] = "done")

Over(h) == task[h] \in {"done", "uncalled"}

(* runLogs prints what it receives, in the order of the stream.             *)
runLogs(l) == client' = Append(client, l)

Fault == faults < MaxFaults /\ faults' = faults + 1

-----------------------------------------------------------------------------
(* logs.Stream: StdCopy into the two line sinks *)

Stream(r) == copy' = [copy EXCEPT ![r].pc = "copy"]

(* Docker's reader ends at once without follow, and else with the context.  *)
Write(r) ==
    /\ copy[r].pc = "copy" /\ copy[r].left = 0
    /\ LET c == copy[r]
       IN IF c.frame < Len(Frames[r])
          THEN LET f == Frames[r][c.frame + 1]
               IN copy' = [copy EXCEPT ![r] = [c EXCEPT !.frame = @ + 1, !.left = f.ends, !.stream = f.stream,
                                                        !.pend[f.stream] = f.open \/ f.ends = 0]]
          ELSE /\ ~follow \/ DoneAt(HostOf[r])
               /\ copy' = [copy EXCEPT ![r].pc = "flush"]
    /\ UNCHANGED <<follow, task, reader, channel, conn, client, errs, result, gone, faults>>

(* A full channel blocks the sink until it drains or the context ends.      *)
emit(r, s) ==
    \/ /\ Len(channel[r]) < Buffer
       /\ channel' = [channel EXCEPT ![r] = Append(@, [replica |-> r, stream |-> s, n |-> copy[r].sent[s] + 1])]
    \/ DoneAt(HostOf[r]) /\ UNCHANGED channel

WriteLine(r) ==
    /\ copy[r].pc = "copy" /\ copy[r].left > 0
    /\ LET s == copy[r].stream
       IN /\ emit(r, s)
          /\ copy' = [copy EXCEPT ![r] = IF channel' = channel THEN [@ EXCEPT !.pc = "flush", !.left = 0]
                                         ELSE [@ EXCEPT !.left = @ - 1, !.sent[s] = @ + 1]]
    /\ UNCHANGED <<follow, task, reader, conn, client, errs, result, gone, faults>>

(* What is left of an open line is a line of its own, standard output       *)
(* first; then the channel is closed.                                       *)
flush(r) ==
    /\ copy[r].pc = "flush"
    /\ LET s == IF copy[r].pend["stdout"] THEN "stdout" ELSE "stderr"
       IN IF copy[r].pend[s]
          THEN emit(r, s) /\ copy' = [copy EXCEPT ![r].pend[s] = FALSE, ![r].sent[s] = @ + 1]
          ELSE copy' = [copy EXCEPT ![r].pc = "closed"] /\ UNCHANGED channel
    /\ UNCHANGED <<follow, task, reader, conn, client, errs, result, gone, faults>>

-----------------------------------------------------------------------------
(* streamLocalLogs, on this node and on the peers *)

Serving(h) == IF h = Local THEN task[h] = "serve" ELSE task[h] \in {"recv", "done"}

(* A replica whose container is not there is skipped in silence.            *)
Open(r) ==
    /\ reader[r] = "open" /\ Serving(HostOf[r])
    /\ \/ /\ reader' = [reader EXCEPT ![r] = "read"]
          /\ Stream(r)
          /\ UNCHANGED <<errs, faults>>
       \/ /\ Fault
          /\ reader' = [reader EXCEPT ![r] = "skipped"]
          /\ UNCHANGED <<copy, errs>>
       \/ /\ Fault
          /\ reader' = [reader EXCEPT ![r] = "done"]
          /\ errs' = errs \cup {r}
          /\ UNCHANGED copy
    /\ UNCHANGED <<follow, task, channel, conn, client, result, gone>>

(* A line leaves through the one client stream (the mutex makes a Send one  *)
(* step) or a peer's connection; a Send after the context's end fails.      *)
Read(r) ==
    /\ reader[r] = "read" /\ channel[r] # <<>>
    /\ channel' = [channel EXCEPT ![r] = Tail(@)]
    /\ LET h == HostOf[r]
       IN IF DoneAt(h)
          THEN /\ reader' = [reader EXCEPT ![r] = "done"] /\ errs' = errs \cup {r}
               /\ UNCHANGED <<client, conn>>
          ELSE /\ UNCHANGED <<reader, errs>>
               /\ IF h = Local THEN runLogs(Head(channel[r])) /\ UNCHANGED conn
                  ELSE /\ Len(conn[h]) < Buffer
                       /\ conn' = [conn EXCEPT ![h] = Append(@, Head(channel[r]))] /\ UNCHANGED client
    /\ UNCHANGED <<follow, task, copy, result, gone, faults>>

ReadEnds(r) ==
    /\ reader[r] = "read" /\ channel[r] = <<>> /\ copy[r].pc = "closed"
    /\ reader' = [reader EXCEPT ![r] = "done"]
    /\ UNCHANGED <<follow, task, copy, channel, conn, client, errs, result, gone, faults>>

Readers(h) == {r \in Replicas : HostOf[r] = h}
Served(h) == \A r \in Readers(h) : reader[r] \in {"done", "skipped"}

-----------------------------------------------------------------------------
(* streamDeploymentLogs *)

ServedHere ==
    /\ task[Local] = "serve" /\ Served(Local)
    /\ task' = [task EXCEPT ![Local] = "done"]
    /\ errs' = IF errs \cap Readers(Local) # {} THEN errs \cup {Local} ELSE errs
    /\ UNCHANGED <<follow, reader, copy, channel, conn, client, result, gone, faults>>

Dial(h) ==
    /\ task[h] = "dial"
    /\ \/ ~Done /\ task' = [task EXCEPT ![h] = "recv"] /\ UNCHANGED <<errs, faults>>
       \/ /\ IF Done THEN UNCHANGED faults ELSE Fault
          /\ task' = [task EXCEPT ![h] = "uncalled"] /\ errs' = errs \cup {h}
    /\ UNCHANGED <<follow, reader, copy, channel, conn, client, result, gone>>

Recv(h) ==
    /\ task[h] = "recv" /\ conn[h] # <<>> /\ ~Done
    /\ conn' = [conn EXCEPT ![h] = Tail(@)]
    /\ runLogs(Head(conn[h]))
    /\ UNCHANGED <<follow, task, reader, copy, channel, errs, result, gone, faults>>

(* The peer's handler has returned: end of file, or its error.              *)
RecvEnds(h) ==
    /\ task[h] = "recv" /\ ~Done /\ conn[h] = <<>> /\ Served(h)
    /\ task' = [task EXCEPT ![h] = "done"]
    /\ errs' = IF errs \cap Readers(h) # {} THEN errs \cup {h} ELSE errs
    /\ UNCHANGED <<follow, reader, copy, channel, conn, client, result, gone, faults>>

(* The connection breaks or the context ends.                               *)
RecvFails(h) ==
    /\ task[h] = "recv"
    /\ IF Done THEN UNCHANGED faults ELSE Fault
    /\ task' = [task EXCEPT ![h] = "done"]
    /\ errs' = errs \cup {h}
    /\ UNCHANGED <<follow, reader, copy, channel, conn, client, result, gone>>

(* The handler waits for every goroutine, then reports any error.           *)
Return ==
    /\ result = None /\ \A h \in Hosts : Over(h)
    /\ result' = IF errs \cap Hosts = {} THEN "ok" ELSE "logs_stream"
    /\ UNCHANGED <<follow, task, reader, copy, channel, conn, client, errs, gone, faults>>

Cancel ==
    /\ ~gone /\ result = None
    /\ gone' = TRUE
    /\ UNCHANGED <<follow, task, reader, copy, channel, conn, client, errs, result, faults>>

Step ==
    \/ \E r \in Replicas : Write(r) \/ WriteLine(r) \/ flush(r) \/ Open(r) \/ Read(r) \/ ReadEnds(r)
    \/ \E h \in Peers : Dial(h) \/ Recv(h) \/ RecvEnds(h) \/ RecvFails(h)
    \/ ServedHere \/ Return

Next == Step \/ Cancel

Spec == Init /\ [][Next]_vars

-----------------------------------------------------------------------------
(* Properties *)

(* Type invariant: the channels stay within their capacity and no goroutine *)
(* reports more than the one error its channel has room for.                *)
TypeOK ==
    /\ \A r \in Replicas : Len(channel[r]) <= Buffer /\ reader[r] \in {"open", "read", "skipped", "done"}
    /\ \A h \in Peers : Len(conn[h]) <= Buffer
    /\ task \in [Hosts -> {"serve", "dial", "recv", "done", "uncalled"}]
    /\ errs \subseteq Hosts \cup Replicas
    /\ result \in {None, "ok", "logs_stream"}

Lines(r, s) == SelectSeq(client, LAMBDA l : l.replica = r /\ l.stream = s)

Total(r, s) ==
    LET mine == {i \in DOMAIN Frames[r] : Frames[r][i].stream = s}
        before[i \in 0..Len(Frames[r])] == IF i = 0 THEN 0
              ELSE before[i - 1] + (IF i \in mine THEN Frames[r][i].ends ELSE 0)
        last == CHOOSE i \in mine : \A j \in mine : j <= i
    IN before[Len(Frames[r])] + (IF mine # {} /\ (Frames[r][last].open \/ Frames[r][last].ends = 0) THEN 1 ELSE 0)

(* The client gets the lines of every stream of every container in order    *)
(* and once, whatever frames they were cut into; and when the call returns  *)
(* without an error, all lines of every container that was opened, the      *)
(* unfinished last line included, on the hosts whose address is known.      *)
LogsFaithful ==
    \A r \in Replicas, s \in Streams :
        /\ \A i \in DOMAIN Lines(r, s) : Lines(r, s)[i].n = i
        /\ result = "ok" /\ ~gone /\ reader[r] = "done" => Len(Lines(r, s)) = Total(r, s)

(* Once the client is gone or the call has returned, every goroutine the    *)
(* call started ends, on the peers too: a sink that waits for room in its   *)
(* channel after its reader left is freed by the context.                   *)
LogsEnd ==
    <>[](Done => /\ \A h \in Hosts : Over(h)
                 /\ \A r \in Replicas : reader[r] # "read" /\ copy[r].pc \in {"idle", "closed"})
=============================================================================
