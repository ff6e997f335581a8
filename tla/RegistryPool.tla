---------------------------- MODULE RegistryPool ----------------------------
(***************************************************************************)
(* The part of service discovery that every registry backend shares: the   *)
(* pool of registry/pool.go that each process keeps of the instances all   *)
(* processes registered, the two goroutines of a process that refill it    *)
(* (the backend's watcher, and the purge ticker of sicky.Run), and the     *)
(* start and stop sequence of Run around them.                             *)
(*                                                                         *)
(* A refill is never atomic in the code: it is begun by a notification or  *)
(* by a tick, Load reads the registry, and PurgePool replaces the pool by  *)
(* what Load returned.  The three steps are separate here, so refills of   *)
(* the two goroutines overlap, and a store change falls between any two.   *)
(*                                                                         *)
(* RegistryRedis, RegistryLocal and RegistryConsul EXTEND this module with *)
(* their store, their notifications, Register, Deregister, Load and Watch. *)
(***************************************************************************)
EXTENDS PoolOps, Naturals, FiniteSets

CONSTANTS
    Procs,       \* processes that run sicky.Run
    Observers,   \* those whose refills are followed; pools of two processes never meet
    Owner,       \* the process an instance belongs to
    MaxMishaps   \* bound on the process ends (and failing file operations) explored

ASSUME OwnerAssumption == Owner \in [Instances -> Procs]
ASSUME ObserverAssumption == Observers \subseteq Procs
ASSUME MishapAssumption == MaxMishaps \in Nat

VARIABLES
    phase,    \* how far Run is, per process
    ins,      \* how far the registration of an instance is
    lpc,      \* step of each refilling goroutine
    snap,     \* what its latest Load has returned
    kept,     \* history: registered throughout the refill in flight
    seen,     \* history: registered at some time during that refill
    pool,     \* currentPool of each process
    mishaps

poolVars == <<phase, ins, lpc, snap, kept, seen, pool, mishaps>>

\* The watcher, the purge ticker, and the watch that Run starts on consul ahead of both.
Loaders == {"watch", "tick", "early"}

Phases == {"off",        \* not running
           "ticking",    \* the purge ticker runs, the pool is not made yet
           "pooled",     \* InitPool has run, the watcher has not
           "running",    \* services are started, or run
           "stopping",   \* the stop loop deregisters the services
           "stopped"}    \* Run is about to return; the process still lives

InsStates == {"new", "set", "up", "failed", "deleted", "gone", "left", "orphan"}

LoaderSteps == {"idle", "begun", "reading", "loaded"}

PoolTypeOK ==
    /\ phase \in [Procs -> Phases]
    /\ ins \in [Instances -> InsStates]
    /\ lpc \in [Procs -> [Loaders -> LoaderSteps]]
    /\ snap \in [Procs -> [Loaders -> SUBSET Instances]]
    /\ kept \in [Procs -> [Loaders -> SUBSET Instances]]
    /\ seen \in [Procs -> [Loaders -> SUBSET Instances]]
    /\ pool \in [Procs -> Pools]
    /\ mishaps \in 0..MaxMishaps

NoLoads == [l \in Loaders |-> {}]

PoolInit ==
    /\ phase = [p \in Procs |-> "off"]
    /\ ins = [i \in Instances |-> "new"]
    /\ lpc = [p \in Procs |-> [l \in Loaders |-> "idle"]]
    /\ snap = [p \in Procs |-> NoLoads]
    /\ kept = [p \in Procs |-> NoLoads]
    /\ seen = [p \in Procs |-> NoLoads]
    /\ pool = [p \in Procs |-> NewPool]
    /\ mishaps = 0

-----------------------------------------------------------------------------
(* What the backends build their Register and Deregister from.             *)

\* Run calls Register and Deregister one service at a time.
Busy(p) == \E i \in Instances : Owner[i] = p /\ ins[i] \in {"set", "deleted"}

MayRegister(i) ==
    /\ ins[i] = "new"
    /\ phase[Owner[i]] = "running"
    /\ ~Busy(Owner[i])

\* The stop loop deregisters every service, registered or not.
MayDeregister(i) ==
    /\ ins[i] \in {"up", "failed"}
    /\ phase[Owner[i]] = "stopping"
    /\ ~Busy(Owner[i])

InsStep(i, to) == ins' = [ins EXCEPT ![i] = to]

\* i becomes visible in the store, or ceases to be.
Appears(i) ==
    /\ seen' = [p \in Procs |-> [l \in Loaders |->
                   IF lpc[p][l] = "idle" THEN seen[p][l] ELSE seen[p][l] \cup {i}]]
    /\ UNCHANGED kept

Vanishes(i) ==
    /\ kept' = [p \in Procs |-> [l \in Loaders |-> kept[p][l] \ {i}]]
    /\ UNCHANGED seen

-----------------------------------------------------------------------------
(* Run brings up the ticker goroutine, then the pool, then the watcher.    *)

\* The ticker is started before the pool is made.
StartTicker(p) ==
    /\ phase[p] = "off"
    /\ phase' = [phase EXCEPT ![p] = "ticking"]
    /\ UNCHANGED <<ins, lpc, snap, kept, seen, pool, mishaps>>

InitPool(p) ==
    /\ phase[p] = "ticking"
    /\ phase' = [phase EXCEPT ![p] = "pooled"]
    /\ pool' = [pool EXCEPT ![p] = NewPool]
    /\ UNCHANGED <<ins, lpc, snap, kept, seen, mishaps>>

\* The backend starts its watcher goroutine and Run goes on to the services.
StartWatch(p) ==
    /\ phase[p] = "pooled"
    /\ phase' = [phase EXCEPT ![p] = "running"]
    /\ UNCHANGED <<ins, lpc, snap, kept, seen, pool, mishaps>>

\* A signal ends the wait; the services were started one after the other before it.
SignalStop(p) ==
    /\ phase[p] = "running"
    /\ ~Busy(p)
    /\ phase' = [phase EXCEPT ![p] = "stopping"]
    /\ UNCHANGED <<ins, lpc, snap, kept, seen, pool, mishaps>>

\* Mutant: Run returns before every service was deregistered.
StoppedEarly(p) ==
    /\ phase[p] = "stopping"
    /\ phase' = [phase EXCEPT ![p] = "stopped"]
    /\ UNCHANGED <<ins, lpc, snap, kept, seen, pool, mishaps>>

\* The stop loop is through: registry.Stop changes nothing, rgTicker.Stop ends the ticks.
Stopped(p) ==
    /\ phase[p] = "stopping"
    /\ \A i \in Instances : Owner[i] = p => ins[i] \notin {"up", "failed", "deleted"}
    /\ phase' = [phase EXCEPT ![p] = "stopped"]
    /\ UNCHANGED <<ins, lpc, snap, kept, seen, pool, mishaps>>

Mishap ==
    /\ mishaps < MaxMishaps
    /\ mishaps' = mishaps + 1

\* The process ends, wherever it is; another incarnation starts with fresh instances.
Crash(p) ==
    /\ phase[p] # "off"
    /\ Mishap
    /\ phase' = [phase EXCEPT ![p] = "off"]
    /\ ins' = [i \in Instances |->
                  IF Owner[i] = p /\ ins[i] \in {"set", "up", "failed", "deleted"}
                  THEN "orphan" ELSE ins[i]]
    /\ lpc' = [lpc EXCEPT ![p] = [l \in Loaders |-> "idle"]]
    /\ snap' = [snap EXCEPT ![p] = NoLoads]
    /\ kept' = [kept EXCEPT ![p] = NoLoads]
    /\ seen' = [seen EXCEPT ![p] = NoLoads]
    /\ pool' = [pool EXCEPT ![p] = NewPool]

-----------------------------------------------------------------------------
(* The refill of the pool, begun by the watcher or by the ticker.          *)

\* A refill begins while the store shows the instances `registered'.
Begin(p, l, registered) ==
    /\ p \in Observers
    /\ lpc[p][l] = "idle"
    /\ lpc' = [lpc EXCEPT ![p][l] = "begun"]
    /\ kept' = [kept EXCEPT ![p][l] = registered]
    /\ seen' = [seen EXCEPT ![p][l] = registered]
    /\ UNCHANGED <<phase, ins, snap, pool, mishaps>>

\* `for range rgTicker.C' takes a tick; none comes after rgTicker.Stop.
TickBegin(p, registered) ==
    /\ phase[p] \in {"ticking", "pooled", "running", "stopping"}
    /\ Begin(p, "tick", registered)

Ended(p, l) ==
    /\ lpc' = [lpc EXCEPT ![p][l] = "idle"]
    /\ kept' = [kept EXCEPT ![p][l] = {}]
    /\ seen' = [seen EXCEPT ![p][l] = {}]

\* Mutant: the goroutine returns on the first error.
LoadFailsQuits(p, l) ==
    /\ lpc[p][l] = "begun"
    /\ lpc' = [lpc EXCEPT ![p][l] = "quit"]
    /\ UNCHANGED <<phase, ins, snap, kept, seen, pool, mishaps>>

\* Load returned an error: it is logged, the goroutine waits for its next turn.
LoadFails(p, l) ==
    /\ lpc[p][l] = "begun"
    /\ Ended(p, l)
    /\ UNCHANGED <<phase, ins, snap, pool, mishaps>>

\* What the watcher has found last is kept as history; another list is dropped.
Forgets(p, l) == snap' = IF l = "watch" THEN snap ELSE [snap EXCEPT ![p][l] = {}]

\* PurgePool swaps the whole pool for one made of what Load returned.
Purge(p, l) ==
    /\ lpc[p][l] = "loaded"
    /\ pool' = [pool EXCEPT ![p] = PurgePool(snap[p][l])]
    /\ Ended(p, l)
    /\ Forgets(p, l)
    /\ UNCHANGED <<phase, ins, mishaps>>
=============================================================================
