------------------------------ MODULE Restarter ------------------------------
(***************************************************************************)
(* The restart policy for one replica: the runtime's health watcher polls  *)
(* its container and submits what it sees; every node's Restarter reads    *)
(* the observations from its own broker channel, and the leader's counts   *)
(* failures, issues restarts and gives up at the third.  Reading the       *)
(* counter and committing the decision are two steps: leadership may move  *)
(* in between, and the entry of the old leader may or may not commit.      *)
(*                                                                         *)
(* Restart commands go to the log and are carried out by nothing yet: a    *)
(* container comes back through the engine, as an environment step.        *)
(***************************************************************************)
EXTENDS Naturals, Sequences

CONSTANTS Nodes, Buffer, None,
          MaxConsecutiveFailures,
          MaxFlips,     \* bounds the changes of the container's state
          MaxTerms,     \* bounds the changes of leader
          MaxBehind     \* bounds the polls that find a channel full: with one
                        \* poll a second a Restarter is not behind for ever

VARIABLES
    container,  \* what the engine reports
    observed,   \* state.ReplicasObserved: None, or the row's state
    failures,   \* state.RestartCounters; 0 is no row
    issued,     \* restarts issued for failures since RUNNING was last handled
    channel,    \* channel[n]: the Restarter's subscription at n
    decided,    \* decided[n]: the command n is about to apply
    leader, flips, terms, behind

vars == <<container, observed, failures, issued, channel, decided, leader, flips, terms, behind>>

B == INSTANCE Broker

Observations == {"PENDING", "RUNNING", "DEGRADED", "FAILED", "EXHAUSTED"}
Containers == {"starting", "healthy", "unhealthy", "exited"}
Decisions == {"idle", "restart", "exhaust", "degraded", "reset"}

Init ==
    /\ container = "starting" /\ observed = None /\ failures = 0 /\ issued = 0
    /\ channel = [n \in Nodes |-> <<>>] /\ decided = [n \in Nodes |-> "idle"]
    /\ leader = CHOOSE n \in Nodes : TRUE   \* the nodes are alike
    /\ flips = 0 /\ terms = 0 /\ behind = 0

(* ReplicaObservedUpdate, applied at every node.                            *)
Observe(s) ==
    /\ observed' = s
    /\ channel' = [n \in Nodes |-> B!PublishAll(channel[n], B!EventOf("r", observed, s))]

Flip ==
    /\ flips < MaxFlips /\ flips' = flips + 1
    /\ container' \in Containers \ {container}
    /\ UNCHANGED <<observed, failures, issued, channel, decided, leader, terms, behind>>

classify ==
    CASE container = "exited"    -> "FAILED"
      [] container = "unhealthy" -> "DEGRADED"
      [] container = "healthy"   -> "RUNNING"
      [] OTHER                   -> "PENDING"

(* A poll submits its observation whether or not it is a new one.           *)
Poll ==
    /\ Observe(classify)
    /\ IF \E n \in Nodes : Len(channel[n]) = Buffer
       THEN behind < MaxBehind /\ behind' = behind + 1
       ELSE UNCHANGED behind
    /\ UNCHANGED <<container, failures, issued, decided, leader, flips, terms>>

GivesUpLate == IF failures + 1 > MaxConsecutiveFailures THEN "exhaust" ELSE "restart"

handleFailure == IF failures + 1 >= MaxConsecutiveFailures THEN "exhaust" ELSE "restart"

(* Commands nothing carries out: the counter is left alone.                 *)
handleDegraded == "degraded"

handleRunning == IF failures > 0 THEN "reset" ELSE "idle"

(* Handle: its own restart_exhausted observation is passed over.            *)
Handle(s) ==
    CASE s = "FAILED"   -> handleFailure
      [] s = "DEGRADED" -> handleDegraded
      [] s = "RUNNING"  -> handleRunning
      [] OTHER          -> "idle"

(* A follower and a resync are passed over too.                             *)
Receive(n) ==
    /\ decided[n] = "idle" /\ channel[n] # <<>>
    /\ channel' = [channel EXCEPT ![n] = Tail(@)]
    /\ LET s == Head(channel[n]).after
       IN  decided' = [decided EXCEPT ![n] = IF s # None /\ n = leader THEN Handle(s) ELSE "idle"]
    /\ UNCHANGED <<container, observed, failures, issued, leader, flips, terms, behind>>

(* applyOne and the FSM's part of it.                                       *)
Commit(n) ==
    /\ decided[n] # "idle" /\ decided' = [decided EXCEPT ![n] = "idle"]
    /\ \/ decided[n] = "restart" /\ failures' = failures + 1 /\ issued' = issued + 1
          /\ UNCHANGED <<observed, channel>>
       \/ decided[n] = "exhaust" /\ Observe("EXHAUSTED") /\ UNCHANGED <<failures, issued>>
       \/ decided[n] = "degraded" /\ UNCHANGED <<observed, channel, failures, issued>>
       \/ decided[n] = "reset" /\ failures' = 0 /\ issued' = 0 /\ UNCHANGED <<observed, channel>>
    /\ UNCHANGED <<container, leader, flips, terms, behind>>

(* The apply of a deposed leader fails; the error is only logged.           *)
Lose(n) ==
    /\ decided[n] # "idle" /\ n # leader
    /\ decided' = [decided EXCEPT ![n] = "idle"]
    /\ UNCHANGED <<container, observed, failures, issued, channel, leader, flips, terms, behind>>

LeaderChange ==
    /\ terms < MaxTerms /\ terms' = terms + 1
    /\ leader' \in Nodes \ {leader}
    /\ UNCHANGED <<container, observed, failures, issued, channel, decided, flips, behind>>

Next ==
    \/ Flip \/ Poll \/ LeaderChange
    \/ \E n \in Nodes : Receive(n) \/ Commit(n) \/ Lose(n)

(* The watcher polls for as long as the daemon runs, a Restarter handles    *)
(* what it is sent, and an apply returns.                                   *)
Fairness ==
    /\ WF_vars(Poll)
    /\ \A n \in Nodes : WF_vars(Receive(n)) /\ WF_vars(Commit(n) \/ Lose(n))

Spec == Init /\ [][Next]_vars /\ Fairness

(* The values the variables take.                                           *)
TypeOK ==
    /\ container \in Containers /\ observed \in Observations \cup {None}
    /\ failures \in Nat /\ issued \in Nat /\ decided \in [Nodes -> Decisions]
    /\ \A n \in Nodes : Len(channel[n]) <= Buffer

(* Between two resets at most two restarts are issued for failures, one     *)
(* more for each change of leader: the deposed leader and the new one may   *)
(* decide on the same counter.                                              *)
RestartsBounded == issued < MaxConsecutiveFailures + terms

=============================================================================
