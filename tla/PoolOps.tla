------------------------------ MODULE PoolOps ------------------------------
(***************************************************************************)
(* The value of a pool of registry/pool.go, and how PurgePool makes one.   *)
(* A pool maps the names of the services it knows to their instances.  A   *)
(* nil pool answers every lookup as an empty one does.                     *)
(***************************************************************************)
CONSTANTS
    Instances,   \* service instances; each incarnation of a service has a fresh uuid
    Services,    \* service names
    ServiceOf    \* the service name of an instance

ASSUME ServiceAssumption == ServiceOf \in [Instances -> Services]

Pools == UNION {[S -> SUBSET Instances] : S \in SUBSET Services}

NewPool == [s \in {} |-> {}]

PurgePool(loaded) ==
    [s \in {ServiceOf[i] : i \in loaded} |-> {i \in loaded : ServiceOf[i] = s}]
=============================================================================
