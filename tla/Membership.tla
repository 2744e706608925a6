----------------------------- MODULE Membership -----------------------------
(***************************************************************************)
(* How a daemon gets into a cluster and out of it: Cluster.Init and Join   *)
(* with their crashes (internal/daemon/grpc, controlplane/bootstrap,       *)
(* cmd/jacod), NodeJoin and NodeRemove on the leader, and the voter-set    *)
(* reconciler (controlplane/raft/membership) that runs beside them.        *)
(*                                                                         *)
(* hashicorp/raft is external.  It keeps one configuration, in which a     *)
(* change is in force once the leader has appended it, and commits         *)
(* whatever a majority of the voters in force acknowledges; GetConfig-     *)
(* uration, AddNonvoter, AddVoter, DemoteVoter and RemoveServer are calls  *)
(* with no precondition on the configuration (the code passes prevIndex    *)
(* 0), so what was read before a call may be stale when it is made.        *)
(*                                                                         *)
(* Hostnames are numbers, because the pickers order them.                  *)
(***************************************************************************)
EXTENDS Integers, FiniteSets, FiniteSetsExt

CONSTANTS Hosts,        \* hostnames, a finite set of naturals
          Founder,      \* where the operator runs `jaco cluster init`
          MaxVoters,    \* the cap on the voter set (7 in the code)
          Tokens,       \* join tokens the operator may issue
          MaxRemovals,  \* NodeRemove calls
          MaxCrashes    \* daemon crashes and lost leaderships

NoHost == -1

VARIABLES
    disk,     \* disk[h]: "empty", "store" (log.db exists), "raft" (bootstrapped or joined)
    up,       \* the daemons that run
    open,     \* the daemons whose OpenRaft has returned: raft handle and handlers wired
    gate,     \* the daemons whose InitGate is open
    init,     \* init[h]: where Cluster.Init is on h
    cluster,  \* the cluster id the founder's stores hold, 0 before ClusterInit
    conf,     \* conf[h]: "out", "nonvoter" or "voter" in the raft configuration
    leader,   \* the raft leader, NoHost when there is none
    nodes,    \* state.Nodes
    token,    \* token[t]: "none", "issued" or "consumed"
    join,     \* join[h]: where Cluster.Join is on h
    call,     \* call[h]: the NodeJoin the leader handles for h, at most one at a time
    remove,   \* the NodeRemove call
    tick,     \* the reconciler's pass on the leader: what it has picked
    seen,     \* firstSeen: "no", "new" (for less than PromoteAfter) or "old"
    removals, crashes

vars == <<disk, up, open, gate, init, cluster, conf, leader, nodes, token, join,
          call, remove, tick, seen, removals, crashes>>

node == <<disk, up, open, gate, init, cluster>>
calls == <<token, join, call, remove, removals>>

CallIdle == [pc |-> "idle", by |-> NoHost, token |-> 0]

RemoveNone == [pc |-> "idle", by |-> NoHost, host |-> NoHost, voters |-> {}, excess |-> 0,
               self |-> NoHost]

TickIdle == [pick |-> "none", host |-> NoHost, by |-> NoHost]

-----------------------------------------------------------------------------
(* Raft                                                                     *)

Members == {h \in Hosts : conf[h] # "out"}

VotersOf(c) == {h \in Hosts : c[h] = "voter"}

HasQuorum(c) == 2 * Cardinality(VotersOf(c) \cap open) > Cardinality(VotersOf(c))

(* A change the leader makes.  It is in force at once; when the majority it *)
(* now needs is not there the call fails, the leader steps down, and the    *)
(* change may stay in its log or be dropped by a later leader.              *)
Reconfigure(c) ==
    \/ HasQuorum(c) /\ conf' = c
    \/ ~HasQuorum(c) /\ conf' \in {c, conf}

(* Whoever made the change leads on only with a majority and a vote.        *)
Leads(c, l) == IF HasQuorum(c) /\ c[l] = "voter" THEN l ELSE NoHost

Elect(h) ==
    /\ leader = NoHost /\ h \in open /\ conf[h] = "voter" /\ HasQuorum(conf)
    /\ leader' = h
    /\ UNCHANGED <<node, conf, nodes, calls, tick, seen, crashes>>

StepDown ==
    /\ leader # NoHost
    /\ \/ ~HasQuorum(conf) /\ UNCHANGED crashes
       \/ crashes < MaxCrashes /\ crashes' = crashes + 1
    /\ leader' = NoHost
    /\ UNCHANGED <<node, conf, nodes, calls, tick, seen>>

-----------------------------------------------------------------------------
(* Cluster.Init on the founder: refused behind an open gate or beside an    *)
(* existing log.db; then bootstrap.Run writes the keys, creates the store,  *)
(* bootstraps it, waits to lead and applies ClusterInit; the handler opens  *)
(* raft again and opens the gate last.                                      *)

InitIgnoresDisk(h) ==
    /\ h \in up /\ h = Founder /\ h \notin gate
    /\ init[h] = "idle" /\ join[h] = "idle"
    /\ init' = [init EXCEPT ![h] = "stat"]
    /\ UNCHANGED <<disk, up, open, gate, cluster, conf, leader, nodes, calls, tick, seen, crashes>>

InitCall(h) ==
    /\ h \in up /\ h = Founder /\ h \notin gate /\ disk[h] = "empty"
    /\ init[h] = "idle" /\ join[h] = "idle"
    /\ init' = [init EXCEPT ![h] = "stat"]
    /\ UNCHANGED <<disk, up, open, gate, cluster, conf, leader, nodes, calls, tick, seen, crashes>>

InitStore(h) ==
    /\ init[h] = "stat"
    /\ disk' = [disk EXCEPT ![h] = "store"]
    /\ init' = [init EXCEPT ![h] = "store"]
    /\ UNCHANGED <<up, open, gate, cluster, conf, leader, nodes, calls, tick, seen, crashes>>

InitBootstrap(h) ==
    /\ init[h] = "store"
    /\ disk' = [disk EXCEPT ![h] = "raft"]
    /\ conf' = [conf EXCEPT ![h] = "voter"]
    /\ init' = [init EXCEPT ![h] = "lead"]
    /\ UNCHANGED <<up, open, gate, cluster, leader, nodes, calls, tick, seen, crashes>>

(* The single voter elects itself, and its first command is ClusterInit.    *)
InitApply(h) ==
    /\ init[h] = "lead"
    /\ cluster' = cluster + 1
    /\ nodes' = nodes \cup {h}
    /\ init' = [init EXCEPT ![h] = "applied"]
    /\ UNCHANGED <<disk, up, open, gate, conf, leader, calls, tick, seen, crashes>>

(* A step of bootstrap.Run, or OpenRaft after it, fails: the handler        *)
(* returns, the disk stays and the gate stays closed.                       *)
InitFails(h) ==
    /\ init[h] \in {"stat", "store", "lead", "applied"} /\ crashes < MaxCrashes
    /\ crashes' = crashes + 1
    /\ init' = [init EXCEPT ![h] = "idle"]
    /\ UNCHANGED <<disk, up, open, gate, cluster, conf, leader, nodes, calls, tick, seen>>

OpenRaft(h) ==
    /\ \/ init[h] = "applied" /\ init' = [init EXCEPT ![h] = "open"] /\ UNCHANGED join
       \/ join[h] = "admitted" /\ join' = [join EXCEPT ![h] = "open"] /\ UNCHANGED init
    /\ disk' = [disk EXCEPT ![h] = "raft"]
    /\ open' = open \cup {h}
    /\ UNCHANGED <<up, gate, cluster, conf, leader, nodes, token, call, remove, removals, tick, seen, crashes>>

MarkInitialized(h) ==
    /\ \/ init[h] = "open" /\ init' = [init EXCEPT ![h] = "idle"] /\ UNCHANGED join
       \/ join[h] = "open" /\ join' = [join EXCEPT ![h] = "idle"] /\ UNCHANGED init
    /\ gate' = gate \cup {h}
    /\ UNCHANGED <<disk, up, open, cluster, conf, leader, nodes, token, call, remove, removals, tick, seen, crashes>>

-----------------------------------------------------------------------------
(* A crash (a shutdown takes the same away) and start-up.                   *)

Crash(h) ==
    /\ h \in up /\ crashes < MaxCrashes
    /\ crashes' = crashes + 1
    /\ up' = up \ {h} /\ open' = open \ {h} /\ gate' = gate \ {h}
    /\ init' = [init EXCEPT ![h] = "idle"]
    /\ join' = [g \in Hosts |-> IF g = h \/ (join[g] = "waits" /\ call[g].by = h) THEN "idle" ELSE join[g]]
    /\ call' = [g \in Hosts |-> IF call[g].by = h THEN CallIdle ELSE call[g]]
    /\ remove' = IF remove.by = h THEN RemoveNone ELSE remove
    /\ leader' = IF leader = h THEN NoHost ELSE leader
    /\ tick' = IF tick.by = h THEN TickIdle ELSE tick
    /\ seen' = [seen EXCEPT ![h] = [g \in Hosts |-> "no"]]
    /\ UNCHANGED <<disk, cluster, conf, nodes, token, removals>>

(* run: a daemon that finds log.db opens raft and then the gate before it   *)
(* serves; if OpenRaft fails it serves uninitialized.                       *)
Start(h) ==
    /\ h \notin up
    /\ up' = up \cup {h}
    /\ \/ disk[h] = "empty" /\ UNCHANGED <<open, gate, crashes>>
       \/ disk[h] # "empty" /\ open' = open \cup {h} /\ gate' = gate \cup {h} /\ UNCHANGED crashes
       \/ /\ disk[h] # "empty" /\ crashes < MaxCrashes
          /\ crashes' = crashes + 1 /\ UNCHANGED <<open, gate>>
    /\ UNCHANGED <<disk, init, cluster, conf, leader, nodes, calls, tick, seen>>

-----------------------------------------------------------------------------
(* Join, and NodeJoin on the leader                                         *)

(* The gate lets a call through to the leader's handler.                    *)
Serves(h) == h # NoHost /\ h \in gate

IssueJoinToken(t) ==
    /\ Serves(leader) /\ HasQuorum(conf)
    /\ token[t] = "none"
    /\ token' = [token EXCEPT ![t] = "issued"]
    /\ UNCHANGED <<node, conf, leader, nodes, join, call, remove, removals, tick, seen, crashes>>

(* The leader's test of the token and of the cluster's CA in NodeJoin.      *)
Admits(t) == Serves(leader) /\ token[t] = "issued" /\ cluster # 0

(* The joiner's checks, its call and the leader's answer to its token.      *)
Join(h, t) ==
    /\ h \in up /\ h \notin gate /\ disk[h] = "empty" /\ h # Founder
    /\ init[h] = "idle" /\ join[h] = "idle" /\ call[h] = CallIdle
    /\ Admits(t)
    /\ join' = [join EXCEPT ![h] = "waits"]
    /\ call' = [call EXCEPT ![h] = [pc |-> "add", by |-> leader, token |-> t]]
    /\ UNCHANGED <<node, conf, leader, nodes, token, remove, removals, tick, seen, crashes>>

(* NodeJoin answers the joiner, if it still waits.                          *)
Answer(h, result) ==
    /\ call' = [call EXCEPT ![h] = CallIdle]
    /\ join' = IF join[h] = "waits" THEN [join EXCEPT ![h] = result] ELSE join

AddAsVoter(c, h) == [c EXCEPT ![h] = "voter"]

(* AddNonvoter keeps a server that is a voter already.                      *)
AddNonvoter(c, h) == IF c[h] = "voter" THEN c ELSE [c EXCEPT ![h] = "nonvoter"]

JoinAdd(h) ==
    /\ call[h].pc = "add"
    /\ IF leader = call[h].by
       THEN LET c == AddNonvoter(conf, h)
            IN  /\ Reconfigure(c)
                /\ leader' = Leads(c, leader)
                /\ IF HasQuorum(c) THEN call' = [call EXCEPT ![h].pc = "apply"] /\ UNCHANGED join
                   ELSE Answer(h, "idle")
       ELSE Answer(h, "idle") /\ UNCHANGED <<conf, leader>>
    /\ UNCHANGED <<node, nodes, token, remove, removals, tick, seen, crashes>>

(* One batch consumes the token, writes the node and makes it READY.        *)
JoinApply(h) ==
    /\ call[h].pc = "apply"
    /\ IF leader = call[h].by /\ HasQuorum(conf)
       THEN /\ token' = [token EXCEPT ![call[h].token] = "consumed"]
            /\ nodes' = nodes \cup {h}
            /\ Answer(h, "admitted")
       ELSE Answer(h, "idle") /\ UNCHANGED <<token, nodes>>
    /\ UNCHANGED <<node, conf, leader, remove, removals, tick, seen, crashes>>

(* The call outlives the 30 seconds the joiner waits, its answer is lost,   *)
(* or persistJoin or OpenRaft fails.  The leader carries on regardless.     *)
JoinFails(h) ==
    /\ join[h] \in {"waits", "admitted"} /\ crashes < MaxCrashes
    /\ crashes' = crashes + 1
    /\ join' = [join EXCEPT ![h] = "idle"]
    /\ UNCHANGED <<node, conf, leader, nodes, token, call, remove, removals, tick, seen>>

-----------------------------------------------------------------------------
(* The voter-set policy                                                     *)

TargetEven(members) == IF members >= MaxVoters THEN MaxVoters ELSE members

Target(members) ==
    CASE members <= 0         -> 0
      [] members >= MaxVoters -> MaxVoters
      [] members % 2 = 1      -> members
      [] OTHER                -> members - 1

PickPromote(nonvoters, eligible) ==
    IF nonvoters \cap eligible = {} THEN NoHost ELSE Min(nonvoters \cap eligible)

PickDemote(voters, self) ==
    IF voters \ {self} = {} THEN NoHost ELSE Max(voters \ {self})

-----------------------------------------------------------------------------
(* NodeRemove on the leader.  A graceful one has drained the host first;    *)
(* what remains is the same.                                                *)

NodeRemove(h) ==
    /\ remove.pc = "idle" /\ removals < MaxRemovals
    /\ Serves(leader)
    /\ removals' = removals + 1
    /\ remove' = [remove EXCEPT !.pc = "prepare", !.by = leader, !.host = h]
    /\ UNCHANGED <<node, conf, leader, nodes, token, join, call, tick, seen, crashes>>

(* Without the early return when nothing is in excess.                      *)
PrepareUnchecked ==
    /\ remove.pc = "prepare"
    /\ LET rest   == Members \ {remove.host}
           voters == VotersOf(conf) \ {remove.host}
       IN  remove' = [remove EXCEPT !.pc = "demote", !.voters = voters, !.self = leader,
                                    !.excess = Cardinality(voters) - Target(Cardinality(rest))]
    /\ UNCHANGED <<node, conf, leader, nodes, token, join, call, removals, tick, seen, crashes>>

(* prepareForRemoval reads the configuration and who leads.                 *)
PrepareForRemoval ==
    /\ remove.pc = "prepare"
    /\ LET rest   == Members \ {remove.host}
           voters == VotersOf(conf) \ {remove.host}
           excess == Cardinality(voters) - Target(Cardinality(rest))
       IN  remove' = [remove EXCEPT !.pc = IF excess > 0 THEN "demote" ELSE "drop",
                                    !.voters = voters, !.excess = excess, !.self = leader]
    /\ UNCHANGED <<node, conf, leader, nodes, token, join, call, removals, tick, seen, crashes>>

(* One demotion of the working set; the loop ends after excess of them.     *)
RemoveDemote ==
    /\ remove.pc = "demote"
    /\ LET pick == PickDemote(remove.voters, remove.self)
           c    == IF conf[pick] = "voter" THEN [conf EXCEPT ![pick] = "nonvoter"] ELSE conf
       IN  CASE pick = NoHost ->
                    remove' = [remove EXCEPT !.pc = "drop"] /\ UNCHANGED <<conf, leader>>
             [] pick # NoHost /\ (leader # remove.by \/ VotersOf(c) = {}) ->
                    remove' = RemoveNone /\ UNCHANGED <<conf, leader>>
             [] OTHER ->
                    /\ Reconfigure(c)
                    /\ leader' = Leads(c, leader)
                    /\ remove' = IF ~HasQuorum(c) THEN RemoveNone
                                 ELSE [remove EXCEPT !.voters = @ \ {pick}, !.excess = @ - 1,
                                           !.pc = IF remove.excess > 1 THEN @ ELSE "drop"]
    /\ UNCHANGED <<node, nodes, token, join, call, removals, tick, seen, crashes>>

RemoveServer ==
    /\ remove.pc = "drop"
    /\ LET c == [conf EXCEPT ![remove.host] = "out"]
       IN  IF leader # remove.by \/ VotersOf(c) = {}
           THEN remove' = RemoveNone /\ UNCHANGED <<conf, leader>>
           ELSE /\ Reconfigure(c)
                /\ leader' = Leads(c, leader)
                /\ remove' = IF HasQuorum(c) THEN [remove EXCEPT !.pc = "apply"] ELSE RemoveNone
    /\ UNCHANGED <<node, nodes, token, join, call, removals, tick, seen, crashes>>

(* A leader that removed itself no longer leads, and the command fails.     *)
RemoveApply ==
    /\ remove.pc = "apply"
    /\ nodes' = IF leader = remove.by /\ HasQuorum(conf) THEN nodes \ {remove.host} ELSE nodes
    /\ remove' = RemoveNone
    /\ UNCHANGED <<node, conf, leader, token, join, call, removals, tick, seen, crashes>>

-----------------------------------------------------------------------------
(* The reconciler's Tick.  On a follower it forgets what it has seen.       *)

TickFollower(h) ==
    /\ h \in open /\ h # leader /\ \E g \in Hosts : seen[h][g] # "no"
    /\ seen' = [seen EXCEPT ![h] = [g \in Hosts |-> "no"]]
    /\ UNCHANGED <<node, conf, leader, nodes, calls, tick, crashes>>

(* Read the configuration, stamp new servers, forget departed ones, pick.   *)
TickRead ==
    /\ leader # NoHost /\ tick.pick = "none"
    /\ LET l      == leader
           mine   == [g \in Hosts |-> IF g \notin Members THEN "no"
                                      ELSE IF seen[l][g] = "no" THEN "new" ELSE seen[l][g]]
           target == Target(Cardinality(Members))
           actual == Cardinality(VotersOf(conf))
           up1    == PickPromote(Members \ VotersOf(conf), {g \in Hosts : mine[g] = "old"})
           down1  == PickDemote(VotersOf(conf), l)
       IN  /\ seen' = [seen EXCEPT ![l] = mine]
           /\ tick' = CASE actual < target /\ up1 # NoHost   -> [pick |-> "up", host |-> up1, by |-> l]
                        [] actual > target /\ down1 # NoHost -> [pick |-> "down", host |-> down1, by |-> l]
                        [] OTHER                             -> TickIdle
           /\ <<seen', tick'>> # <<seen, tick>>
    /\ UNCHANGED <<node, conf, leader, nodes, calls, crashes>>

(* AddVoter or DemoteVoter; a failure is retried on the next tick.          *)
TickAct ==
    /\ tick.pick # "none"
    /\ LET c == IF tick.pick = "up" THEN [conf EXCEPT ![tick.host] = "voter"]
                ELSE IF conf[tick.host] = "voter" THEN [conf EXCEPT ![tick.host] = "nonvoter"]
                ELSE conf
       IN  IF leader # tick.by \/ VotersOf(c) = {} THEN UNCHANGED <<conf, leader>>
           ELSE Reconfigure(c) /\ leader' = Leads(c, leader)
    /\ tick' = TickIdle
    /\ UNCHANGED <<node, nodes, calls, seen, crashes>>

(* PromoteAfter goes by since the leader first saw its servers; while a     *)
(* deposed leader does not act on them their age makes no difference.       *)
Settle(l) ==
    /\ l = leader
    /\ \E g \in Hosts : seen[l][g] = "new"
    /\ seen' = [seen EXCEPT ![l] = [g \in Hosts |-> IF @[g] = "new" THEN "old" ELSE @[g]]]
    /\ UNCHANGED <<node, conf, leader, nodes, calls, tick, crashes>>

-----------------------------------------------------------------------------
(* Daemons that have been started and hold nothing.                         *)
Fresh ==
    /\ disk = [h \in Hosts |-> "empty"]
    /\ up = Hosts /\ open = {} /\ gate = {}
    /\ init = [h \in Hosts |-> "idle"]
    /\ cluster = 0
    /\ conf = [h \in Hosts |-> "out"]
    /\ leader = NoHost /\ nodes = {}
    /\ token = [t \in Tokens |-> "none"]
    /\ join = [h \in Hosts |-> "idle"]
    /\ call = [h \in Hosts |-> CallIdle]
    /\ remove = RemoveNone
    /\ tick = TickIdle
    /\ seen = [h \in Hosts |-> [g \in Hosts |-> "no"]]
    /\ crashes = 0

Init == Fresh /\ removals = 0

InitSteps(h) ==
    InitCall(h) \/ InitStore(h) \/ InitBootstrap(h) \/ InitApply(h) \/ OpenRaft(h) \/ MarkInitialized(h)

JoinSteps(h) == JoinAdd(h) \/ JoinApply(h)

RemoveSteps == PrepareForRemoval \/ RemoveDemote \/ RemoveServer \/ RemoveApply

Next ==
    \/ \E h \in Hosts : \/ InitSteps(h) \/ InitFails(h)
                        \/ JoinSteps(h) \/ JoinFails(h) \/ (\E t \in Tokens : Join(h, t))
                        \/ Crash(h) \/ Start(h) \/ Elect(h) \/ NodeRemove(h)
                        \/ TickFollower(h) \/ Settle(h)
    \/ \E t \in Tokens : IssueJoinToken(t)
    \/ RemoveSteps \/ StepDown \/ TickRead \/ TickAct

(* Handlers run to their end, the reconciler ticks every three seconds and  *)
(* voters elect a leader while they have a majority.                        *)
Fairness ==
    /\ \A h \in Hosts : WF_vars(OpenRaft(h)) /\ WF_vars(MarkInitialized(h)) /\ WF_vars(JoinSteps(h))
    /\ WF_vars(\E h \in Hosts : Elect(h))
    /\ WF_vars(\E h \in Hosts : Settle(h)) /\ WF_vars(RemoveSteps)
    /\ WF_vars(TickRead) /\ WF_vars(TickAct)

Spec == Init /\ [][Next]_vars

FairSpec == Spec /\ Fairness

-----------------------------------------------------------------------------
(* The values the variables take. *)
TypeOK ==
    /\ disk \in [Hosts -> {"empty", "store", "raft"}]
    /\ up \subseteq Hosts /\ open \subseteq up /\ gate \subseteq up
    /\ conf \in [Hosts -> {"out", "nonvoter", "voter"}]
    /\ leader \in open \cup {NoHost}
    /\ nodes \subseteq Hosts
    /\ join \in [Hosts -> {"idle", "waits", "admitted", "open"}]
    /\ remove.pc \in {"idle", "prepare", "demote", "drop", "apply"}
    /\ remove.pc = "demote" => remove.excess \in 1..Cardinality(remove.voters)
    /\ tick.pick \in {"none", "up", "down"}

(* Past the gate a handler finds raft open and its delegate wired, whatever *)
(* crashed in Init, Join or start-up (MarkInitialized comes after OpenRaft).*)
ServesOnlyWithRaft == gate \subseteq open

(* The cluster is formed once: no crash, failed Init and restart lets a     *)
(* second ClusterInit replace the id, the CA and the operator token.        *)
ClusterFormedOnce == [][cluster # 0 => cluster' = cluster]_vars

(* Admitting a node never costs the cluster its majority, although the      *)
(* joiner's raft is not up yet and may never be.                            *)
AdmissionKeepsQuorum ==
    [][\A h \in Hosts : call[h].pc = "add" /\ call'[h].pc # "add" /\ HasQuorum(conf)
                         => up' # up \/ HasQuorum(conf)']_vars

(* What docs/concepts says of the voter set: the odd count that fits.       *)
OddFit(n) == Max({0} \cup {k \in 1..MaxVoters : k <= n /\ k % 2 = 1})

(* However joins, removals, demotions and leader changes interleave with    *)
(* its two-part passes, once every member stays up the reconciler brings    *)
(* the voters to the target and leaves them there.                          *)
VotersSettle ==
    <>[](Members \subseteq open) =>
        <>[](Cardinality(VotersOf(conf)) = OddFit(Cardinality(Members)))
=============================================================================
