---------------------------- MODULE MCControlAPI ----------------------------
(* Small instances of ControlAPI, one kind of traffic at a time: manifests  *)
(* that share a port, tokens with a privileged manifest, subnets,           *)
(* submissions, and registry credentials.                                   *)
EXTENDS ControlAPI

VARIABLE traffic

(* What each kind of traffic calls, how long its log gets and how many      *)
(* leaderships end.                                                         *)
Traffic ==
    [deploy   |-> [kinds |-> {"apply", "audit", "rollback", "delete"}, log |-> 4, terms |-> 0],
     failover |-> [kinds |-> {"apply", "audit", "delete"}, log |-> 3, terms |-> 1],
     tokens   |-> [kinds |-> {"token", "apply", "audit"}, log |-> 3, terms |-> 0],
     subnets  |-> [kinds |-> {"ensure", "purge", "delete"}, log |-> 4, terms |-> 1],
     submit   |-> [kinds |-> {"submit", "delete"}, log |-> 4, terms |-> 1],
     registry |-> [kinds |-> {"registry"}, log |-> 3, terms |-> 0]]

MCInit == Init /\ leader = "n1" /\ traffic \in DOMAIN Traffic

(* Behaviours end with the first handler that relies on stores that lag:    *)
(* the properties about the stores say nothing of what follows.             *)
MCNext ==
    /\ ~behind /\ Next
    /\ \A c \in Clients : call'[c] # Idle => call'[c].kind \in Traffic[traffic].kinds
    /\ Len(log') <= Traffic[traffic].log /\ terms' <= Traffic[traffic].terms
    /\ traffic # "subnets" => UNCHANGED purged
    /\ UNCHANGED traffic
=============================================================================
