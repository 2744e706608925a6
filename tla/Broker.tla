------------------------------- MODULE Broker -------------------------------
(* The watch broker's channel to one subscriber: a bounded buffer that      *)
(* never blocks the publisher.                                              *)
EXTENDS Naturals, Sequences

CONSTANTS Buffer, None

Resync == [kind |-> "resync", key |-> None, before |-> None, after |-> None]

Added(k, v) == [kind |-> "added", key |-> k, before |-> None, after |-> v]
Updated(k, v, w) == [kind |-> "updated", key |-> k, before |-> v, after |-> w]
Removed(k, v) == [kind |-> "removed", key |-> k, before |-> v, after |-> None]

(* What Store.Apply and Store.Remove publish when the row of a key goes     *)
(* from v to w; removing an absent row publishes nothing.                   *)
EventOf(k, v, w) ==
    CASE v = None /\ w = None -> <<>>
      [] v = None /\ w # None -> <<Added(k, w)>>
      [] v # None /\ w # None -> <<Updated(k, v, w)>>
      [] OTHER                -> <<Removed(k, v)>>

PublishUnbounded(ch, e) == Append(ch, e)

(* A full channel loses its oldest event and the new one, and carries a     *)
(* resync instead.                                                          *)
Publish(ch, e) == IF Len(ch) < Buffer THEN Append(ch, e) ELSE Append(Tail(ch), Resync)

PublishAll(ch, es) == IF es = <<>> THEN ch ELSE Publish(ch, es[1])
=============================================================================
