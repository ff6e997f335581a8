-------------------------- MODULE MCRegistryConsul --------------------------
(* A process that watches, and one that runs a service. *)
EXTENDS RegistryConsul, TLC

CONSTANTS p1, p2, i1, s1

MCOwner == i1 :> p2
MCServiceOf == i1 :> s1
=============================================================================
