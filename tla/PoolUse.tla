------------------------------- MODULE PoolUse -------------------------------
(***************************************************************************)
(* The pool of registry/pool.go inside one process, as its users see it.   *)
(* Refills (PurgePool) build a pool and swap it in, InitPool puts an empty *)
(* one in its place, the package's helpers change the current pool under   *)
(* poolLock, and three kinds of reader walk over a pool without any lock:  *)
(* PurgePool prints what it has installed, the manager's handler encodes   *)
(* the current pool for a client, and a caller of GetInstances is handed   *)
(* the live map.  A map that is changed while it is walked over may kill   *)
(* the process, or not.                                                    *)
(*                                                                         *)
(* The lock inside a Pool is only taken by those who hold poolLock, or by  *)
(* PurgePool on a pool nobody else knows: it never makes anyone wait.      *)
(***************************************************************************)
EXTENDS PoolOps, Naturals, FiniteSets

CONSTANTS
    Helpers,    \* goroutines of the application that change the pool
    Refillers,  \* goroutines that call PurgePool
    Clients,    \* the manager's requests in flight, and callers of GetInstances
    MaxPools,   \* bound on the pools made
    MaxCalls    \* bound on the calls of helpers

ASSUME UsersAssumption ==
    Helpers \cap Refillers = {} /\ Helpers \cap Clients = {} /\ Refillers \cap Clients = {}
ASSUME BoundsAssumption == MaxPools \in Nat /\ MaxCalls \in Nat

VARIABLES
    lock,      \* the helper that holds poolLock, or none: {} or one helper
    cur,       \* currentPool: 0 is nil
    made,      \* pools made so far
    pools,     \* the pools, and how the unmade ones start
    retired,   \* history: pools that SetPool has replaced
    target,    \* the pool a helper has found current
    calls,     \* calls of helpers so far
    reader,    \* the walk of each reader
    dead       \* the runtime has found a map changed under a walk

useVars == <<lock, cur, made, pools, retired, target, calls, reader, dead>>

PoolIds == 1..MaxPools

Readers == Refillers \cup Clients

\* at: "services" or "instances", the map it walks over, or between two of them; it walks
\* over the instances of svc.  todo are the services it has still to look into, held those of
\* them that were replaced in the pool meanwhile; out is what it has read, in the pool of.
\* touched: a helper has changed that pool since.
IdleReader ==
    [at |-> "idle", of |-> 0, svc |-> {}, todo |-> {}, held |-> NewPool, out |-> NewPool,
     touched |-> FALSE]

ReaderTypeOK(r) ==
    /\ r.at \in {"idle", "installed", "services", "between", "instances", "done"}
    /\ r.of \in 0..MaxPools
    /\ r.svc \subseteq Services /\ Cardinality(r.svc) <= 1
    /\ r.todo \subseteq Services
    /\ r.held \in Pools
    /\ r.out \in Pools
    /\ r.touched \in BOOLEAN

UseTypeOK ==
    /\ lock \in SUBSET Helpers /\ Cardinality(lock) <= 1
    /\ cur \in 0..made
    /\ made \in 0..MaxPools
    /\ pools \in [PoolIds -> Pools]
    /\ retired \subseteq 1..made
    /\ target \in [Helpers -> 0..made]
    /\ calls \in 0..MaxCalls
    /\ \A r \in Readers : ReaderTypeOK(reader[r])
    /\ dead \in BOOLEAN

UseInit ==
    /\ lock = {}
    /\ cur = 0
    /\ made = 0
    /\ pools = [p \in PoolIds |-> NewPool]
    /\ retired = {}
    /\ target = [h \in Helpers |-> 0]
    /\ calls = 0
    /\ reader = [r \in Readers |-> IdleReader]
    /\ dead = FALSE

-----------------------------------------------------------------------------
(* Making pools.                                                            *)

\* InitPool assigns currentPool without the lock, whoever holds it.
AssignPool ==
    /\ ~dead
    /\ made < MaxPools
    /\ made' = made + 1
    /\ cur' = made + 1
    /\ UNCHANGED <<lock, pools, retired, target, calls, reader, dead>>

At(r, step) == [reader EXCEPT ![r].at = step]

\* Mutant: PurgePool fills the pool that is there.
InstallInPlace(r, loaded) ==
    /\ ~dead
    /\ lock = {}
    /\ cur # 0
    /\ reader[r].at = "idle"
    /\ pools' = [pools EXCEPT ![cur] =
           [s \in DOMAIN @ \cup DOMAIN PurgePool(loaded) |-> {i \in loaded : ServiceOf[i] = s}]]
    /\ dead' \in {FALSE, \E x \in Readers : reader[x].of = cur /\ reader[x].at = "services"}
    /\ reader' = At(r, "installed")
    /\ UNCHANGED <<lock, cur, made, retired, target, calls>>

\* PurgePool builds a pool of its own from what Load has returned, and SetPool swaps it in.
Install(r, loaded) ==
    /\ ~dead
    /\ lock = {}
    /\ made < MaxPools
    /\ reader[r].at = "idle"
    /\ made' = made + 1
    /\ cur' = made + 1
    /\ pools' = [pools EXCEPT ![made + 1] = PurgePool(loaded)]
    /\ retired' = retired \cup ({cur} \ {0})
    /\ reader' = At(r, "installed")
    /\ UNCHANGED <<lock, target, calls, dead>>

-----------------------------------------------------------------------------
(* The helpers RegisterService, RegisterInstance and UnregisterInstance.    *)

\* Mutant: the helper asks GetPool for the pool and changes that.
EnterUnlocked(h) ==
    /\ ~dead
    /\ target[h] = 0
    /\ cur # 0
    /\ target' = [target EXCEPT ![h] = cur]
    /\ calls < MaxCalls /\ calls' = calls + 1
    /\ UNCHANGED <<lock, cur, made, pools, retired, reader, dead>>

\* poolLock is taken and currentPool looked at: a nil pool ends the call.
Enter(h) ==
    /\ ~dead
    /\ lock = {}
    /\ cur # 0
    /\ lock' = {h}
    /\ target' = [target EXCEPT ![h] = cur]
    /\ calls < MaxCalls /\ calls' = calls + 1
    /\ UNCHANGED <<cur, made, pools, retired, reader, dead>>

\* The call returns, with its pool changed to this; the readers that are walking over a map
\* that was changed may find out.
Leave(h, changed, endangered) ==
    /\ pools' = [pools EXCEPT ![target[h]] = changed]
    /\ lock' = lock \ {h}
    /\ target' = [target EXCEPT ![h] = 0]
    /\ dead' \in {FALSE, endangered # {}}
    /\ UNCHANGED <<cur, made, retired, calls>>

Touched(p) ==
    [r \in Readers |-> [reader[r] EXCEPT !.touched = @ \/ reader[r].of = p]]

\* A service of the application's is put in; a service of that name is replaced, and who has
\* already got hold of that one goes on with it.
RegisterService(h, s) ==
    LET p == target[h] IN
    /\ ~dead
    /\ target[h] # 0
    /\ Leave(h, [t \in DOMAIN pools[p] \cup {s} |-> IF t = s THEN {} ELSE pools[p][t]],
             {r \in Readers : reader[r].of = p /\ reader[r].at = "services"})
    /\ reader' = [r \in Readers |->
         IF reader[r].of = p /\ s \in (reader[r].todo \cup reader[r].svc) \ DOMAIN reader[r].held
         THEN [Touched(p)[r] EXCEPT
                 !.held = [t \in DOMAIN @ \cup {s} |-> IF t = s THEN pools[p][s] ELSE @[t]]]
         ELSE Touched(p)[r]]

Endangered(p, s) ==
    {r \in Readers : /\ reader[r].of = p /\ reader[r].at = "instances"
                     /\ s \in reader[r].svc \ DOMAIN reader[r].held}

\* An instance of a service that the pool does not know is only warned of.
RegisterInstance(h, i) ==
    LET p == target[h]
        s == ServiceOf[i] IN
    /\ ~dead
    /\ target[h] # 0
    /\ IF s \in DOMAIN pools[p]
       THEN /\ Leave(h, [pools[p] EXCEPT ![s] = @ \cup {i}], Endangered(p, s))
            /\ reader' = Touched(p)
       ELSE /\ Leave(h, pools[p], {})
            /\ UNCHANGED reader

UnregisterInstance(h, s, i) ==
    LET p == target[h] IN
    /\ ~dead
    /\ target[h] # 0
    /\ IF s \in DOMAIN pools[p]
       THEN /\ Leave(h, [pools[p] EXCEPT ![s] = @ \ {i}], Endangered(p, s))
            /\ reader' = Touched(p)
       ELSE /\ Leave(h, pools[p], {})
            /\ UNCHANGED reader

-----------------------------------------------------------------------------
(* The readers.                                                             *)

\* GetPool, by the manager's handler or at the end of PurgePool, and the walk over what it
\* returns begins; nil is encoded as null.
GetPool(r) ==
    /\ ~dead
    /\ lock = {}
    /\ cur # 0
    /\ reader[r].at = IF r \in Refillers THEN "installed" ELSE "idle"
    /\ reader' = [reader EXCEPT ![r] = [IdleReader EXCEPT !.at = "services", !.of = cur]]
    /\ UNCHANGED <<lock, cur, made, pools, retired, target, calls, dead>>

\* GetInstances returns the map of a service, which the caller ranges over.
GetInstances(r, s) ==
    /\ ~dead
    /\ lock = {}
    /\ cur # 0
    /\ s \in DOMAIN pools[cur]
    /\ reader[r].at = "idle"
    /\ reader' = [reader EXCEPT ![r] =
           [IdleReader EXCEPT !.at = "instances", !.of = cur, !.svc = {s}]]
    /\ UNCHANGED <<lock, cur, made, pools, retired, target, calls, dead>>

\* The encoder has collected the services of the pool.
ReadServices(r) ==
    /\ ~dead
    /\ reader[r].at = "services"
    /\ reader' = [At(r, "between") EXCEPT ![r].todo = DOMAIN pools[reader[r].of]]
    /\ UNCHANGED <<lock, cur, made, pools, retired, target, calls, dead>>

OpenInstances(r, s) ==
    /\ ~dead
    /\ reader[r].at = "between"
    /\ s \in reader[r].todo
    /\ reader' = [At(r, "instances") EXCEPT ![r].svc = {s}, ![r].todo = @ \ {s}]
    /\ UNCHANGED <<lock, cur, made, pools, retired, target, calls, dead>>

\* It has collected the instances of one service.
ReadInstances(r) ==
    LET x == reader[r] IN
    /\ ~dead
    /\ x.at = "instances"
    /\ reader' = [At(r, "between") EXCEPT
           ![r].svc = {},
           ![r].out = [t \in DOMAIN x.out \cup x.svc |->
                         IF t \notin x.svc THEN x.out[t]
                         ELSE IF t \in DOMAIN x.held THEN x.held[t] ELSE pools[x.of][t]]]
    /\ UNCHANGED <<lock, cur, made, pools, retired, target, calls, dead>>

ReadEnds(r) ==
    /\ ~dead
    /\ reader[r].at = "between" /\ reader[r].todo = {}
    /\ reader' = At(r, "done")
    /\ UNCHANGED <<lock, cur, made, pools, retired, target, calls, dead>>

Return(r) ==
    /\ ~dead
    /\ reader[r].at = "done"
    /\ reader' = [reader EXCEPT ![r] = IdleReader]
    /\ UNCHANGED <<lock, cur, made, pools, retired, target, calls, dead>>

-----------------------------------------------------------------------------

HelperStep(h) ==
    \/ Enter(h)
    \/ \E s \in Services : RegisterService(h, s)
    \/ \E i \in Instances : RegisterInstance(h, i)
    \/ \E i \in Instances, s \in Services : UnregisterInstance(h, s, i)

ReaderStep(r) ==
    \/ GetPool(r)
    \/ r \in Clients /\ \E s \in Services : GetInstances(r, s)
    \/ \E s \in Services : OpenInstances(r, s)
    \/ ReadServices(r) \/ ReadInstances(r) \/ ReadEnds(r) \/ Return(r)

UseNext ==
    \/ AssignPool
    \/ \E r \in Refillers, loaded \in SUBSET Instances : Install(r, loaded)
    \/ \E h \in Helpers : HelperStep(h)
    \/ \E r \in Readers : ReaderStep(r)

UseSpec == UseInit /\ [][UseNext]_useVars

-----------------------------------------------------------------------------
(* Properties.                                                              *)

\* A pool that a refill has replaced never changes again, so whoever still walks over it
\* is safe: the helpers hold poolLock from their look at currentPool to their change
\* (RegisterInstance, UnregisterInstance and RegisterService of registry/pool.go against
\* SetPool).  InitPool, which takes no lock, is the one that can leave a helper behind.
RetiredIsFrozen == [][\A p \in retired : pools'[p] = pools[p]]_useVars

\* What a reader without the lock has gathered when it is done is the pool it began with,
\* whole, whatever refills came meanwhile, unless a helper has changed that pool: a pool is
\* filled before SetPool shows it and never refilled (PurgePool, servicePool of manager.go).
ReadsAreWhole ==
    \A r \in Readers :
        LET x == reader[r] IN
        x.at = "done" /\ ~x.touched =>
            /\ \A s \in DOMAIN x.out : s \in DOMAIN pools[x.of] /\ x.out[s] = pools[x.of][s]
            /\ r \in Refillers => x.out = pools[x.of]

\* The walks without the lock (servicePool of manager.go, the print of PurgePool, the map
\* that GetInstances hands out) kill the process only through a helper that changed the
\* pool under them: refills alone never do, however many readers and refillers there are.
DiesOnlyOfHelpers ==
    dead => \E r \in Readers : reader[r].at \in {"services", "instances"} /\ reader[r].touched

\* Both: a walk without the lock sees one pool, whole, and lives, if no helper changes that
\* pool under it (servicePool of manager.go, PurgePool and GetInstances of pool.go).
ReadersAreSafe == ReadsAreWhole /\ DiesOnlyOfHelpers
=============================================================================
