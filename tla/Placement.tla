------------------------------ MODULE Placement ------------------------------
(***************************************************************************)
(* Host selection for one service: internal/scheduler/placement.           *)
(*                                                                         *)
(* Hosts are natural numbers and stand for hostnames in lexical order, so  *)
(* "sorted" means "ascending".  A service spec is a record whose field     *)
(* mode is the ServiceSpec placement mode, hosts the pinned host list and  *)
(* replicas the replica count.  SpreadHash stands for the FNV-1a hash of   *)
(* "<deployment>-<service>-<index>": any function of the index.            *)
(***************************************************************************)
EXTENDS Integers, FiniteSets

CONSTANTS Hosts,       \* every host of the cluster, as numbers
          SpreadHash   \* replica index -> hash value

ASSUME HostsAssumption == Hosts \subseteq Nat /\ IsFiniteSet(Hosts)

Modes == {"spread", "pack", "hosts", "global"}

(* EligibleHosts: READY nodes, intersected with the pins in HOSTS mode      *)
(* (an empty pin list does not filter).                                     *)
EligibleHosts(spec, ready) ==
    IF spec.mode = "hosts" /\ spec.hosts # {} THEN ready \cap spec.hosts
    ELSE ready

(* Position of h in the ascending order of E.                               *)
Rank(E, h) == Cardinality({g \in E : g < h})

(* sortedEligible[r]; for an r that is no position, some element of E.      *)
NthHost(E, r) ==
    CHOOSE h \in E : (\E g \in E : Rank(E, g) = r) => Rank(E, h) = r

PickSpreadHost(E, index) == NthHost(E, SpreadHash[index] % Cardinality(E))

(* Fewest current replicas first, hostname as the tie-break.                *)
PickPackHost(E, counts) ==
    CHOOSE h \in E : \A g \in E : \/ counts[h] < counts[g]
                                  \/ counts[h] = counts[g] /\ h <= g

(* PlaceReplica returns an error instead of a host in these cases.          *)
PlacementError(spec, E) ==
    \/ E = {}
    \/ spec.mode = "hosts" /\ spec.replicas > Cardinality(E)

PlaceReplica(spec, E, index, counts) ==
    CASE spec.mode = "hosts" -> NthHost(E, index % Cardinality(E))
      [] spec.mode = "pack"  -> PickPackHost(E, counts)
      [] OTHER               -> PickSpreadHost(E, index)
=============================================================================
