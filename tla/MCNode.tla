------------------------------- MODULE MCNode -------------------------------
(* Small instances of what runs for one node, for one run of TLC: the       *)
(* container runtime, the restart policy and the streams a client reads     *)
(* from it.  A behaviour is one of a single component, which "which" names; *)
(* the others stay in an initial state.                                     *)
EXTENDS NodeRuntime

VARIABLES which, scenario,
    container, seen, failures, issued, channel, decided, leader, flips, terms, behind,
    audit, feed, phase, list, cursor, lastIdx, sent, lossy,
    rows, queue, held, forwarder, merged, client, view, open, seenChange, writes,
    follow, task, reader, copy, lines, conn, printed, errs, result, gone, breaks

restarter == <<container, seen, failures, issued, channel, decided, leader, flips, terms, behind>>
auditing == <<audit, feed, phase, list, cursor, lastIdx, sent, lossy>>
watching == <<rows, queue, held, forwarder, merged, client, view, open, seenChange, writes>>
logging == <<follow, task, reader, copy, lines, conn, printed, errs, result, gone, breaks>>

(* NodeRuntime: one replica that moves while the daemon restarts, two       *)
(* replicas of which one waits for the other, and a probed replica among    *)
(* failures.                                                                *)
Waits == {[of |-> "web", on |-> "db", condition |-> "healthy"]}

Scenarios ==
    [churn   |-> [ids |-> {"api"},       changes |-> 2, faults |-> 0, crashes |-> 1],
     depends |-> [ids |-> {"web", "db"}, changes |-> 2, faults |-> 0, crashes |-> 0],
     failing |-> [ids |-> {"db"},        changes |-> 1, faults |-> 2, crashes |-> 0]]

(* The changes and the stops are bounded by the scenario; neither is fair.  *)
Within ==
    LET b == Scenarios[scenario]
    IN /\ Len(log') <= b.changes /\ crashes' <= b.crashes
       /\ \A i \in DOMAIN log' : log'[i].id \in b.ids

MCInit ==
    /\ scenario \in DOMAIN Scenarios
    /\ InitWith(MaxFaults - Scenarios[scenario].faults)
MCNext == Next /\ Within /\ UNCHANGED scenario
MCVars == <<vars, scenario>>

Daemons == {"n1", "n2"}
RE == INSTANCE Restarter WITH
        Nodes <- Daemons, Buffer <- 2, MaxConsecutiveFailures <- 3,
        MaxFlips <- 2, MaxTerms <- 1, MaxBehind <- 1, observed <- seen

(* More matching entries than the channel holds.                            *)
AU == INSTANCE AuditStream WITH
        Buffer <- 2, Types <- {"apply", "join"}, Matches <- {"apply"}, MaxEvents <- 5,
        log <- audit, queue <- feed

Kinds == {"deployments", "routes"}
WA == INSTANCE WatchStream WITH
        Buffer <- 1, Kinds <- Kinds, Deployments <- {"a"}, Filter <- None,
        MergedBuffer <- 1, MaxWrites <- 4

(* A line cut in two, more lines than the channel holds and text after the  *)
(* last of them, on this node; one line on the peer.                        *)
Frame(s, ends, unfinished) == [stream |-> s, ends |-> ends, open |-> unfinished]

LS == INSTANCE LogStream WITH
        Hosts <- {"n1", "n2"}, Local <- "n1", Replicas <- {"a", "b"},
        HostOf <- [r \in {"a", "b"} |-> IF r = "a" THEN "n1" ELSE "n2"],
        Frames <- [r \in {"a", "b"} |->
                     IF r = "a" THEN <<Frame("stdout", 0, TRUE), Frame("stdout", 2, TRUE)>>
                     ELSE <<Frame("stderr", 1, FALSE)>>],
        Buffer <- 1, MaxFaults <- 1,
        channel <- lines, client <- printed, faults <- breaks

SuiteInit ==
    /\ which \in {"runtime", "restarter", "audit", "watch", "logs"}
    /\ MCInit /\ RE!Init /\ AU!Init /\ WA!Init /\ LS!Init
    /\ which # "logs" => follow /\ task["n2"] = "dial"
    /\ which # "runtime" => scenario = "churn"
    /\ which # "audit" => audit = <<>>

SuiteNext ==
    \/ which = "runtime" /\ MCNext /\ UNCHANGED <<which, restarter, auditing, watching, logging>>
    \/ which = "restarter" /\ RE!Next /\ UNCHANGED <<which, MCVars, auditing, watching, logging>>
    \/ which = "audit" /\ AU!Next /\ UNCHANGED <<which, MCVars, restarter, watching, logging>>
    \/ which = "watch" /\ WA!Next /\ UNCHANGED <<which, MCVars, restarter, auditing, logging>>
    \/ which = "logs" /\ LS!Next /\ UNCHANGED <<which, MCVars, restarter, auditing, watching>>

(* The fairness of the component that runs.                                 *)
Of(c, A) == which = c /\ A

RuntimeFairness ==
    /\ WF_vars(Of("runtime", Tick)) /\ WF_vars(Of("runtime", RemoveContainer \/ orphanSweep))
    /\ WF_vars(Of("runtime", FSMApply \/ Start))
    /\ WF_vars(Of("runtime", \E t \in tasks : ~t.live /\ RunStart(t)))
    /\ (\A id \in Replicas : /\ WF_vars(Of("runtime", \E t \in LiveTasks(id) : RunStart(t)))
                              /\ WF_vars(Of("runtime", Poll(id))))
    /\ (\A id \in Probed : WF_vars(Of("runtime", Probe(id))))

SuiteSpec ==
    /\ SuiteInit /\ [][SuiteNext]_<<which, MCVars, restarter, auditing, watching, logging>>
    /\ RuntimeFairness
    /\ WF_restarter(Of("restarter", RE!Poll))
    /\ (\A n \in Daemons : /\ WF_restarter(Of("restarter", RE!Receive(n)))
                           /\ WF_restarter(Of("restarter", RE!Commit(n) \/ RE!Lose(n))))
    /\ WF_auditing(Of("audit", AU!Handler))
    /\ WF_watching(Of("watch", WA!Client))
    /\ (\A k \in Kinds : WF_watching(Of("watch", WA!ForwardStep(k))))
    /\ WF_logging(Of("logs", LS!Step))

Runs(c) == <>[](which = c)

(* The type invariants of the five components.                              *)
TypesOK == /\ which = "runtime" => TypeOK
           /\ which = "restarter" => RE!TypeOK
           /\ which = "audit" => AU!TypeOK
           /\ which = "watch" => WA!TypeOK
           /\ which = "logs" => LS!TypeOK

(* NodeRuntime: docker ends up with what the cluster wants on this host,    *)
(* and a container that keeps running is reported RUNNING.                  *)
RuntimeConverges == Runs("runtime") => ContainersConverge /\ RunningIsReported

(* Restarter: what one crash loop can cost between two resets.              *)
RestartsBounded == which = "restarter" => RE!RestartsBounded

(* AuditStream: following the audit log implements EventTail.               *)
FollowIsTail == AU!FollowIsTail

(* WatchStream: the last snapshot printed is the final state.  LogStream:   *)
(* the client gets each line once, in order.  Both: no goroutine of a call  *)
(* outlives it.                                                             *)
StreamsSettle ==
    /\ [](which = "logs" => LS!LogsFaithful)
    /\ Runs("watch") => WA!ChangeShown /\ WA!ForwardersEnd
    /\ Runs("logs") => LS!LogsEnd
=============================================================================
