------------------------------ MODULE Resolver ------------------------------
(* The DNS responder of one bridge network and the forwarder behind it: a   *)
(* container asks for one name, under several types at once, while the      *)
(* service map is replaced and upstream resolvers lose packets.             *)
EXTENDS Naturals, Sequences, SequencesExt, FiniteSets

CONSTANTS
    Deployment,     \* the deployment of the responder's scope
    Services,       \* the services of that deployment
    Overlay,        \* the overlay addresses of their replicas
    Names,          \* the names asked for, as sequences of labels
    Qtypes,         \* the types asked for: A, AAAA and others
    Addresses,      \* what the world knows: Names -> [v4, v6] of address sets
    Forwarders,     \* the values of dns.forwarders
    ResolvConfs,    \* the contents of /etc/resolv.conf; None when unreadable
    None,
    MaxSwaps,       \* bound: replacements of the service map
    MaxQueries      \* bound: questions asked

VARIABLES
    upstreams,      \* the forwarder's chain; None when the daemon refused to start
    services,       \* the responder's snapshot, service -> addresses
    name,           \* the name asked for
    legs,           \* per question, the lookup's two legs towards the upstreams
    reply,          \* per question, what was answered
    sent,           \* the names the upstreams saw
    swaps           \* replacements so far

vars == <<upstreams, services, name, legs, reply, sent, swaps>>

Families == {"v4", "v6"}

-----------------------------------------------------------------------------
(* The chain of upstreams.                                                  *)

ensurePort(a) == IF a.port = 0 THEN [a EXCEPT !.port = 53] ELSE a

isBridgeGatewayIP(a) ==
    /\ a.kind = "v4"
    /\ a.octets[1] = 10 /\ a.octets[2] = 244 /\ a.octets[4] = 1

EmbeddedResolver(a) == a.kind = "v4" /\ a.octets[1] = 127 /\ a.octets[4] = 11

(* What the operator lists is refused as a whole.                           *)
ValidateUpstreams(as) ==
    \A i \in 1..Len(as) :
        LET a == ensurePort(as[i]) IN
        /\ a.kind # "malformed"
        /\ a.kind = "hostname" \/ ~(EmbeddedResolver(a) \/ isBridgeGatewayIP(a))

(* What the host's file lists is filtered line by line.                     *)
ReadHostResolvers(lines) ==
    LET usable == SelectSeq(lines, LAMBDA l : /\ l.key = "nameserver"
                                              /\ l.addr.kind \in {"v4", "v6"}
                                              /\ ~EmbeddedResolver(l.addr)
                                              /\ ~isBridgeGatewayIP(l.addr))
    IN  [i \in 1..Len(usable) |-> ensurePort(usable[i].addr)]

NewForwarder(as) == [i \in 1..Len(as) |-> ensurePort(as[i])]

(* The wiring at boot: the configured list, or else the host's.             *)
Chain(conf, file) ==
    IF ~ValidateUpstreams(conf) THEN None
    ELSE IF conf # <<>> THEN NewForwarder(conf)
    ELSE IF file = None THEN <<>> ELSE NewForwarder(ReadHostResolvers(file))

-----------------------------------------------------------------------------
(* Names.                                                                   *)

Suffix == <<"jaco", "internal">>

(* TrimSuffix(name, ".jaco.internal"): a label must precede the suffix.     *)
Stripped(n) == IF Len(n) > 2 /\ IsSuffix(Suffix, n) THEN SubSeq(n, 1, Len(n) - 2) ELSE n

(* The service a name of this scope stands for; None for an external name.  *)
parseInScopeName(n) ==
    LET m == Stripped(n) IN
    CASE Len(m) = 1                             -> m[1]
      [] Len(m) # 1 /\ Tail(m) = <<Deployment>> -> m[1]
      [] OTHER                                  -> None

InScope(n) == parseInScopeName(n) # None

lookup(s) == IF s \in DOMAIN services THEN services[s] ELSE {}

-----------------------------------------------------------------------------
(* The forwarder.  A leg is the position in the chain of its next exchange, *)
(* or how it ended: with the upstream's addresses of its family, or failed. *)

Walking(i) == [st |-> "walking", at |-> i, ips |-> {}]
Answered(ips) == [st |-> "answered", at |-> 0, ips |-> ips]
Failed == [st |-> "failed", at |-> 0, ips |-> {}]

FailsQuietly(leg) == IF leg.at < Len(upstreams) THEN Walking(leg.at + 1) ELSE Answered({})

(* An upstream that does not answer, or answers SERVFAIL, REFUSED or        *)
(* NOTIMP: the next one is tried.                                           *)
NextUpstream(leg) == IF leg.at < Len(upstreams) THEN Walking(leg.at + 1) ELSE Failed

(* One exchange of queryAcrossUpstreams; NXDOMAIN and NODATA answer with    *)
(* no addresses.                                                            *)
queryAcrossUpstreams(q, f) ==
    LET leg == legs[q][f] IN
    /\ leg.st = "walking"
    /\ \/ legs' = [legs EXCEPT ![q][f] = Answered(Addresses[name][f])]
       \/ legs' = [legs EXCEPT ![q][f] = NextUpstream(leg)]
    /\ sent' = sent \cup {name}
    /\ UNCHANGED <<upstreams, services, name, reply, swaps>>

Joined(q) == \A f \in Families : legs[q][f].st \in {"answered", "failed"}

(* What Lookup returns once both legs are in.                               *)
Lookup(q) ==
    LET ips == UNION {legs[q][f].ips : f \in Families}
    IN  [ips |-> ips, err |-> ips = {} /\ \E f \in Families : legs[q][f].st = "failed"]

-----------------------------------------------------------------------------
(* The responder.                                                           *)

(* Handle's code for a question: what it answers, whether the name exists,  *)
(* whether the upstreams failed.                                            *)
Reply(answer, exists, failed) ==
    [answer |-> answer,
     rcode |-> CASE answer # {} \/ exists -> "success"
                 [] answer = {} /\ ~exists /\ failed -> "servfail"
                 [] OTHER -> "nxdomain"]

(* A name of the scope: the overlay has A records only.                     *)
AnswerInScope(q) ==
    LET ips == lookup(parseInScopeName(name))
    IN  Reply(IF q = "A" THEN ips ELSE {}, ips # {}, FALSE)

(* An external name: the addresses of the family asked for; the failure     *)
(* reaches the client for A and AAAA only (nameResolvable drops it).        *)
AnswerExternal(q, found) ==
    LET answer == CASE q = "A"    -> legs[q]["v4"].ips
                    [] q = "AAAA" -> legs[q]["v6"].ips
                    [] OTHER      -> {}
    IN  Reply(answer, ~found.err /\ found.ips # {}, q \in {"A", "AAAA"} /\ found.err)

-----------------------------------------------------------------------------
Unasked == [answer |-> {}, rcode |-> None]
Idle == [f \in Families |-> [st |-> "idle", at |-> 0, ips |-> {}]]

Init ==
    /\ \E conf \in Forwarders, file \in ResolvConfs : upstreams = Chain(conf, file)
    /\ services \in [Services -> SUBSET Overlay]
    /\ name \in Names
    /\ legs = [q \in Qtypes |-> Idle]
    /\ reply = [q \in Qtypes |-> Unasked]
    /\ sent = {} /\ swaps = 0

New(q) == reply[q] = Unasked /\ legs[q] = Idle

Asked == {q \in Qtypes : ~New(q)}

(* Handle: a question arrives; without upstreams the lookup fails at once.  *)
Handle(q) ==
    /\ upstreams # None /\ New(q) /\ Cardinality(Asked) < MaxQueries
    /\ IF InScope(name)
       THEN /\ reply' = [reply EXCEPT ![q] = AnswerInScope(q)]
            /\ UNCHANGED legs
       ELSE /\ legs' = [legs EXCEPT ![q] = [f \in Families |->
                            IF upstreams = <<>> THEN Failed ELSE Walking(1)]]
            /\ UNCHANGED reply
    /\ UNCHANGED <<upstreams, services, name, sent, swaps>>

(* The rest of Handle, once Lookup returns.                                 *)
Return(q) ==
    /\ reply[q] = Unasked /\ Joined(q)
    /\ reply' = [reply EXCEPT ![q] = AnswerExternal(q, Lookup(q))]
    /\ UNCHANGED <<upstreams, services, name, legs, sent, swaps>>

(* The manager replaces the snapshot as a whole.                            *)
SetServices(m) ==
    /\ swaps < MaxSwaps /\ m # services
    /\ services' = m
    /\ swaps' = swaps + 1
    /\ UNCHANGED <<upstreams, name, legs, reply, sent>>

Next ==
    \/ \E q \in Qtypes : Handle(q) \/ Return(q) \/ \E f \in Families : queryAcrossUpstreams(q, f)
    \/ \E m \in [Services -> SUBSET Overlay] : SetServices(m)

-----------------------------------------------------------------------------
TypeOK ==
    /\ services \in [Services -> SUBSET Overlay]
    /\ name \in Names
    /\ DOMAIN legs = Qtypes /\ DOMAIN reply = Qtypes
    /\ \A q \in Qtypes : reply[q].rcode \in {None, "success", "servfail", "nxdomain"}
    /\ swaps \in 0..MaxSwaps

World(n) == UNION {Addresses[n][f] : f \in Families}

(* An address question about an external name is answered NXDOMAIN only     *)
(* when the name has no address at all: a lost packet or a failing upstream *)
(* gives SERVFAIL, which resolvers do not cache.                            *)
NegativeIsTrue ==
    \A q \in Qtypes \cap {"A", "AAAA"} :
        ~InScope(name) /\ reply[q].rcode = "nxdomain" => World(name) = {}

(* The questions a dual-stack client asks about one name agree: one is not  *)
(* answered NXDOMAIN while the other has addresses, unless the service map  *)
(* was replaced in between.                                                 *)
DualStackAgrees ==
    swaps = 0 => \A p, q \in Qtypes \cap {"A", "AAAA"} :
                     reply[p].rcode = "nxdomain" => reply[q].answer = {}

(* The names of the scope, in each of their forms, are not disclosed to an  *)
(* upstream, and no upstream is one of the cluster's own responders or the  *)
(* resolver of Docker that forwards to them.                                *)
InScopeStays ==
    /\ \A n \in sent : ~\E s \in Services : n \in {<<s>>, <<s, Deployment>>, <<s>> \o Suffix,
                                                   <<s, Deployment>> \o Suffix}
    /\ upstreams # None => \A i \in 1..Len(upstreams) :
           ~isBridgeGatewayIP(upstreams[i]) /\ ~EmbeddedResolver(upstreams[i])
=============================================================================
