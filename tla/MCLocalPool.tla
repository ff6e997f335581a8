---------------------------- MODULE MCLocalPool ----------------------------
(***************************************************************************)
(* Instances for TLC of the local registry, with two processes that run    *)
(* one service each under the same name, and of the pool inside a process. *)
(* Every behaviour is one of one of the two, which `part' names; the other *)
(* one stays in its initial state.                                         *)
(***************************************************************************)
EXTENDS RegistryLocal, PoolUse, TLC

CONSTANTS p1, p2, i1, i2, s1, s2

VARIABLE part

MCOwner == (i1 :> p1) @@ (i2 :> p2)
MCServiceOf == (i1 :> s1) @@ (i2 :> s1)

LocalPoolInit == part \in {"local", "use"} /\ Init /\ UseInit

LocalMoves == part = "local" /\ Next /\ UNCHANGED <<useVars, part>>

UseMoves == part = "use" /\ UseNext /\ UNCHANGED <<vars, part>>

LocalPoolSpec == LocalPoolInit /\ [][LocalMoves \/ UseMoves]_<<vars, useVars, part>>
=============================================================================
