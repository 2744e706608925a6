---------------------------- MODULE MCCertStorage ----------------------------
(* Small instances of CertStorage for TLC, in half-minutes.                 *)
EXTENDS CertStorage

CONSTANTS A, B, C

(* A's clock is ahead of the others'.                                       *)
FastA == [n \in Nodes |-> IF n = A THEN 1 ELSE 0]

(* The instance that must be exclusive meets the condition of the proof.     *)
ASSUME InstanceLongEnough == MaxLag = 0 => LeaseLongEnough
=============================================================================
