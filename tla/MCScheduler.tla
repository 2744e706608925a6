----------------------------- MODULE MCScheduler -----------------------------
(* Small instances of Scheduler for TLC.                                    *)
EXTENDS Scheduler

CONSTANTS ImgA, ImgB, EnvA, EnvB

MCHash == [i \in Idx |-> 2 * i + 1]

Service(image, spec, n, mode, pins) ==
    [image |-> image, spec |-> spec, replicas |-> n, mode |-> mode, hosts |-> pins]

(* Two images, same shape.                                                  *)
ImageBump == {Service(i, EnvA, MaxReplicas, "spread", {}) : i \in {ImgA, ImgB}}

Daemonset == {Service(i, EnvA, 1, "global", {}) : i \in {ImgA, ImgB}}

(* A service pinned to all hosts; applying it again starts another plan.    *)
Pinned == {Service(ImgA, EnvA, 1, "hosts", Hosts)}

(* From positional to host-keyed replica ids and back.                      *)
Renaming == {Service(ImgA, EnvA, 1, "spread", {}),
             Service(ImgB, EnvA, 1, "global", {})}
=============================================================================
