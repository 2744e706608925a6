------------------------------ MODULE Registry ------------------------------
(* Registry credentials, from `jaco registry login` to the header of a      *)
(* pull: keys are stored canonical, and the runtime picks the most specific *)
(* one for an image.                                                        *)
(*   cmd/jaco/registry.go, controlplane/grpc/registry_credential.go,        *)
(*   controlplane/fsm, runtime/pull/auth.go, runtime/reconciler             *)
(* A reference is what is typed, [host, path] with the path in segments; a  *)
(* key is the sequence of a host and the segments of a namespace.           *)
EXTENDS Naturals, Sequences

CONSTANTS None,
          Refs,         \* what operators type at login and logout
          Images,       \* what manifests name; host None: a bare name
          Inputs,       \* passwords as typed; "" is blank
          MaxWrites

Hub == "docker.io"
Aliases == {"index.docker.io", "registry-1.docker.io", "registry.docker.io"}
Lower(h) == IF h = "GHCR.IO" THEN "ghcr.io" ELSE h

VARIABLES creds,        \* key -> password
          pull,         \* a pull in progress, or None
          presented,    \* what the last pull sent
          writes

vars == <<creds, pull, presented, writes>>

Anonymous == [key |-> None, secret |-> None]

Init ==
    /\ creds = << >> /\ pull = None /\ presented = None /\ writes = 0

-----------------------------------------------------------------------------
(* Keys *)

(* The handler and the FSM have the same function; "" is refused.           *)
canonicalRegistryKey(r) ==
    LET host == Lower(r.host)
    IN IF host = "" THEN <<>> ELSE <<IF host \in Aliases THEN Hub ELSE host>> \o r.path

(* distribution/reference: a bare name is a library image of Docker Hub.    *)
ParseNormalizedNamed(i) ==
    IF i.host = None THEN [host |-> Hub, path |-> (IF Len(i.path) = 1 THEN <<"library">> ELSE <<>>) \o i.path]
    ELSE i

CanonicalHost(i) ==
    LET host == Lower(ParseNormalizedNamed(i).host)
    IN IF host = "index.docker.io" THEN Hub ELSE host

CanonicalRepo(i) == <<CanonicalHost(i)>> \o ParseNormalizedNamed(i).path

Prefixes(repo) == {SubSeq(repo, 1, n) : n \in 1..Len(repo)}

MatchShortest(repo, keys) ==
    LET found == Prefixes(repo) \cap keys
    IN IF found = {} THEN None ELSE CHOOSE k \in found : \A j \in found : Len(k) <= Len(j)

MatchCredentialKey(repo, keys) ==
    LET found == Prefixes(repo) \cap keys
    IN IF found = {} THEN None ELSE CHOOSE k \in found : \A j \in found : Len(j) <= Len(k)

RegistryHost(key) == key[1]

(* With no match, a credential that is alone on its host covers it all.     *)
ResolveCredentialKey(repo, keys) ==
    LET best == MatchCredentialKey(repo, keys)
        onHost == {k \in keys : RegistryHost(k) = RegistryHost(repo)}
    IN IF best # None THEN best
       ELSE IF \E k \in onHost : onHost = {k} THEN CHOOSE k \in onHost : TRUE ELSE None

-----------------------------------------------------------------------------
(* Writing credentials *)

(* A blank password is refused; spaces and the line end are cut off.        *)
readRegistryPassword(input) == IF input = "" THEN None ELSE input

Bounded == writes < MaxWrites /\ writes' = writes + 1

Rows(c) == {<<k, c[k]>> : k \in DOMAIN c}

(* A pull in progress remembers what was stored while it ran.               *)
Remember(c) ==
    pull' = IF pull = None THEN None ELSE [pull EXCEPT !.stored = @ \cup Rows(c)]

Login(r, input) ==
    LET key == canonicalRegistryKey(r)
        secret == readRegistryPassword(input)
    IN /\ Bounded /\ secret # None /\ key # <<>>
       /\ creds' = [k \in DOMAIN creds \cup {key} |-> IF k = key THEN secret ELSE creds[k]]
       /\ Remember(creds')
       /\ UNCHANGED presented

Logout(r) ==
    LET key == canonicalRegistryKey(r)
    IN /\ Bounded /\ key # <<>>
       /\ creds' = [k \in DOMAIN creds \ {key} |-> creds[k]]
       /\ UNCHANGED <<pull, presented>>

-----------------------------------------------------------------------------
(* authResolver: the keys are listed, then one is read again *)

ListKeys(i) ==
    /\ pull = None
    /\ pull' = [image |-> i, key |-> ResolveCredentialKey(CanonicalRepo(i), DOMAIN creds),
                keys |-> DOMAIN creds, stored |-> Rows(creds)]
    /\ UNCHANGED <<creds, presented, writes>>

BuildRegistryAuth(key, c) ==
    IF key = None \/ key \notin DOMAIN c THEN Anonymous
    ELSE [key |-> <<RegistryHost(key)>>, secret |-> c[key]]

GetCredential ==
    /\ pull # None
    /\ presented' = [pull |-> pull, auth |-> BuildRegistryAuth(pull.key, creds)]
    /\ pull' = None
    /\ UNCHANGED <<creds, writes>>

Next ==
    \/ \E r \in Refs : Logout(r) \/ \E input \in Inputs : Login(r, input)
    \/ \E i \in Images : ListKeys(i)
    \/ GetCredential

Spec == Init /\ [][Next]_vars

-----------------------------------------------------------------------------
(* Properties *)

(* Type invariant: no key is empty and no stored password is blank.         *)
TypeOK ==
    /\ \A k \in DOMAIN creds : k # <<>> /\ creds[k] \in Inputs \ {""}
    /\ pull # None => pull.image \in Images /\ writes \in 0..MaxWrites

Covers(key, repo) == Len(key) <= Len(repo) /\ SubSeq(repo, 1, Len(key)) = key

(* A pull that races logins and logouts sends only a password that was      *)
(* stored while it ran, under the key it chose, to the host of the image;   *)
(* the key is the longest that covers the image of those stored when it     *)
(* looked, or alone on its host; and an image with a key that covers it is  *)
(* pulled anonymously only if that key was removed meanwhile.               *)
CredentialInScope ==
    presented # None =>
        LET p == presented.pull
            auth == presented.auth
            repo == CanonicalRepo(p.image)
            covering == {k \in p.keys : Covers(k, repo)}
        IN /\ auth # Anonymous => /\ <<p.key, auth.secret>> \in p.stored /\ auth.key = <<repo[1]>>
                                  /\ \/ p.key \in covering /\ \A k \in covering : Len(k) <= Len(p.key)
                                     \/ covering = {} /\ {k \in p.keys : k[1] = repo[1]} = {p.key}
           /\ covering # {} => p.key # None

(* A credential stored for a reference covers the image named by the same   *)
(* host and path, whichever way the host is spelled: both sides normalise   *)
(* alike.  The two aliases of Docker Hub that only the stored key folds are *)
(* left out.                                                                *)
LoginIsUsed ==
    \A r \in Refs, i \in Images :
        r.host = i.host /\ r.path = i.path /\ r.host \notin {"registry-1.docker.io", "registry.docker.io"}
            => Covers(canonicalRegistryKey(r), CanonicalRepo(i))
=============================================================================
