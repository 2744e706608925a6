---------------------------- MODULE WatchStream ----------------------------
(* Watch.Subscribe and its client, jaco status -w: per entity type one      *)
(* subscription and one forwarding goroutine, a merged channel the handler  *)
(* drains into the stream, and a client that prints a snapshot first and    *)
(* fetches another one on every event.                                      *)
EXTENDS Broker, FiniteSets

CONSTANTS Kinds,        \* the entity types the client asked for
          Deployments,
          Filter,       \* deployment_filter; None asks for all
          MergedBuffer, \* capacity of the merged channel (256 in the code)
          MaxWrites     \* bounds the changes of the stores

VARIABLES rows,         \* [Kinds -> [Deployments -> version]]
          queue,        \* [Kinds -> channel of the broker]
          held,         \* [Kinds -> the event a forwarder is sending, or None]
          forwarder,    \* [Kinds -> "off", "running" or "exited"]
          merged,       \* the merged channel
          client,       \* "start", "subscribe", "recv", "fetch" or "gone"
          view,         \* the snapshot printed last
          open,         \* the subscriptions exist; closed by Cancel
          seenChange,   \* history: a matching row changed while subscribed
          writes

vars == <<rows, queue, held, forwarder, merged, client, view, open, seenChange, writes>>
stream == <<queue, held, forwarder, merged, open>>

Keeps(d) == Filter = None \/ d = Filter

(* Deploy.Status with the same filter.                                      *)
Snapshot == [k \in Kinds |-> [d \in {x \in Deployments : Keeps(x)} |-> rows[k][d]]]

Init ==
    /\ rows = [k \in Kinds |-> [d \in Deployments |-> 0]]
    /\ queue = [k \in Kinds |-> <<>>] /\ held = [k \in Kinds |-> None]
    /\ forwarder = [k \in Kinds |-> "off"] /\ merged = <<>>
    /\ client = "start" /\ view = Snapshot /\ open = FALSE /\ seenChange = FALSE /\ writes = 0

(* The FSM changes a row and publishes it.                                  *)
Write(k, d) ==
    /\ writes < MaxWrites /\ writes' = writes + 1
    /\ rows' = [rows EXCEPT ![k][d] = @ + 1]
    /\ queue' = IF open
                THEN [queue EXCEPT ![k] = Publish(@, Updated(d, rows[k][d], rows[k][d] + 1))]
                ELSE queue
    /\ seenChange' = (seenChange \/ (open /\ Keeps(d)))
    /\ UNCHANGED <<held, forwarder, merged, client, view, open>>

(****************************** the server **********************************)
(* A resync names no row, so only a stream without a filter keeps it.       *)
Keep(e) == IF e.kind = "resync" THEN Filter = None ELSE Keeps(e.key)

ForwardTake(k) ==
    /\ forwarder[k] = "running" /\ held[k] = None /\ queue[k] # <<>>
    /\ queue' = [queue EXCEPT ![k] = Tail(@)]
    /\ held' = [held EXCEPT ![k] = IF Keep(Head(queue[k])) THEN Head(queue[k]) ELSE None]
    /\ UNCHANGED <<rows, forwarder, merged, client, view, open, seenChange, writes>>

(* Blocks while the merged channel is full; then looks at done.             *)
ForwardSend(k) ==
    /\ held[k] # None /\ Len(merged) < MergedBuffer
    /\ merged' = Append(merged, held[k]) /\ held' = [held EXCEPT ![k] = None]
    /\ forwarder' = [forwarder EXCEPT ![k] = IF client = "gone" THEN "exited" ELSE @]
    /\ UNCHANGED <<rows, queue, client, view, open, seenChange, writes>>

(* Cancel closed the channel and nothing is left in it.                     *)
ForwardEnd(k) ==
    /\ forwarder[k] = "running" /\ held[k] = None /\ queue[k] = <<>> /\ ~open
    /\ forwarder' = [forwarder EXCEPT ![k] = "exited"]
    /\ UNCHANGED <<rows, queue, held, merged, client, view, open, seenChange, writes>>

SubscribeHandler ==
    /\ client = "subscribe"
    /\ open' = TRUE /\ forwarder' = [k \in Kinds |-> "running"] /\ client' = "recv"
    /\ UNCHANGED <<rows, queue, held, merged, view, seenChange, writes>>

(* The stream ends: the subscriptions are cancelled, done is closed, and    *)
(* nobody reads the merged channel any more.                                *)
EndNoCancel ==
    /\ client \in {"recv", "fetch"} /\ client' = "gone"
    /\ UNCHANGED <<rows, queue, held, forwarder, merged, view, open, seenChange, writes>>

End ==
    /\ client \in {"recv", "fetch"} /\ client' = "gone" /\ open' = FALSE
    /\ UNCHANGED <<rows, queue, held, forwarder, merged, view, seenChange, writes>>

(****************************** the client **********************************)
FetchFirst ==
    /\ client = "start" /\ client' = "subscribe" /\ view' = Snapshot
    /\ UNCHANGED <<rows, stream, seenChange, writes>>

Recv ==
    /\ client = "recv" /\ merged # <<>> /\ merged' = Tail(merged) /\ client' = "fetch"
    /\ UNCHANGED <<rows, queue, held, forwarder, view, open, seenChange, writes>>

Fetch ==
    /\ client = "fetch" /\ client' = "recv" /\ view' = Snapshot
    /\ UNCHANGED <<rows, stream, seenChange, writes>>

Client == FetchFirst \/ SubscribeHandler \/ Recv \/ Fetch
ForwardStep(k) == ForwardTake(k) \/ ForwardSend(k) \/ ForwardEnd(k)

Next ==
    \/ \E k \in Kinds, d \in Deployments : Write(k, d)
    \/ Client \/ End
    \/ \E k \in Kinds : ForwardStep(k)

Spec == Init /\ [][Next]_vars /\ WF_vars(Client) /\ \A k \in Kinds : WF_vars(ForwardStep(k))

(****************************** properties **********************************)
(* Channels stay within their capacity.                                     *)
TypeOK ==
    /\ \A k \in Kinds : Len(queue[k]) <= Buffer /\ forwarder[k] \in {"off", "running", "exited"}
    /\ Len(merged) <= MergedBuffer /\ client \in {"start", "subscribe", "recv", "fetch", "gone"}
    /\ \A k \in Kinds : \A d \in DOMAIN view[k] : view[k][d] <= rows[k][d]

(* Once a row the client asked for changed while it was subscribed, the     *)
(* last snapshot it prints is the final state, also when channels overflow  *)
(* and while fetches and events overlap.                                    *)
ChangeShown == <>[](seenChange /\ client # "gone" => view = Snapshot)

(* After the client leaves, every forwarding goroutine ends, except one     *)
(* that was caught sending into a full merged channel.                      *)
ForwardersEnd ==
    <>[](client = "gone" => \A k \in Kinds : forwarder[k] = "exited" \/ Len(merged) = MergedBuffer)
=============================================================================
