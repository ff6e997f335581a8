-------------------------- MODULE MCRegistryRedis --------------------------
(* Two processes that run one service each, under the same name. *)
EXTENDS RegistryRedis, TLC

CONSTANTS p1, p2, i1, i2, s1

MCOwner == (i1 :> p1) @@ (i2 :> p2)
MCServiceOf == (i1 :> s1) @@ (i2 :> s1)
=============================================================================
