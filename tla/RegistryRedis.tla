---------------------------- MODULE RegistryRedis ----------------------------
(***************************************************************************)
(* Service discovery over the redis registry (registry/redis/redis.go): a  *)
(* hash holds one entry per instance, a pub/sub channel tells the watcher  *)
(* of every process that the hash has changed.  Register and Deregister    *)
(* change the hash and then publish, two calls that a crash or an error    *)
(* may separate.  Redis pub/sub keeps nothing: a message a subscriber      *)
(* misses is lost, and only the purge ticker repairs that.                 *)
(***************************************************************************)
EXTENDS RegistryPool

CONSTANT MaxMail   \* messages a subscriber holds; go-redis buffers 100, drops the rest

ASSUME MailAssumption == MaxMail \in Nat

VARIABLES
    entries,   \* the fields of the hash at config.InstanceKey
    mail       \* messages of config.NotifyKey that wait in a process's channel

redisVars == <<entries, mail>>
vars == <<poolVars, redisVars>>

TypeOK ==
    /\ PoolTypeOK
    /\ entries \subseteq Instances
    /\ mail \in [Procs -> 0..MaxMail]

Init ==
    /\ PoolInit
    /\ entries = {}
    /\ mail = [p \in Procs |-> 0]

Subscribers == {p \in Observers : phase[p] \in {"running", "stopping", "stopped"}}

\* Every subscriber gets the message, unless it is lost on the way or to a full channel.
Publish ==
    \E got \in SUBSET Subscribers :
        /\ \A p \in got : mail[p] < MaxMail
        /\ mail' = [p \in Procs |-> IF p \in got THEN mail[p] + 1 ELSE mail[p]]

-----------------------------------------------------------------------------
(* Register: HSet, then Publish, whose error is dropped.                    *)

HSet(i) ==
    /\ MayRegister(i)
    /\ entries' = entries \cup {i}
    /\ InsStep(i, "set")
    /\ Appears(i)
    /\ UNCHANGED <<phase, lpc, snap, pool, mishaps, mail>>

PublishRegister(i) ==
    /\ ins[i] = "set"
    /\ InsStep(i, "up")
    /\ Publish
    /\ UNCHANGED <<phase, lpc, snap, kept, seen, pool, mishaps, entries>>

\* HSet returned an error, for a call that was lost or for a reply that was:
\* Run logs it and keeps the service; nobody is told of an entry that got in.
RegisterFails(i) ==
    /\ MayRegister(i)
    /\ InsStep(i, "failed")
    /\ \/ UNCHANGED <<entries, kept, seen>>
       \/ entries' = entries \cup {i} /\ Appears(i)
    /\ UNCHANGED <<phase, lpc, snap, pool, mishaps, mail>>

(* Deregister: HDel, which does not mind a missing field, then Publish.     *)

HDel(i) ==
    /\ MayDeregister(i)
    /\ entries' = entries \ {i}
    /\ InsStep(i, "deleted")
    /\ Vanishes(i)
    /\ UNCHANGED <<phase, lpc, snap, pool, mishaps, mail>>

PublishDeregister(i) ==
    /\ ins[i] = "deleted"
    /\ InsStep(i, "gone")
    /\ Publish
    /\ UNCHANGED <<phase, lpc, snap, kept, seen, pool, mishaps, entries>>

\* HDel returned an error: Run logs it and stops the service; an entry that stays, stays.
DeregisterFails(i) ==
    /\ MayDeregister(i)
    /\ InsStep(i, "left")
    /\ \/ UNCHANGED <<entries, kept, seen>>
       \/ entries' = entries \ {i} /\ Vanishes(i)
    /\ UNCHANGED <<phase, lpc, snap, pool, mishaps, mail>>

-----------------------------------------------------------------------------
(* The watcher, and Load.                                                   *)

\* Subscribe; the goroutine does not load anything before the first message.
Watch(p) ==
    /\ StartWatch(p)
    /\ mail' = [mail EXCEPT ![p] = 0]
    /\ UNCHANGED entries

\* The select takes a message.  Stop cancels a context nobody waits on: it goes on.
Receive(p) ==
    /\ phase[p] \in {"running", "stopping", "stopped"}
    /\ mail[p] > 0
    /\ mail' = [mail EXCEPT ![p] = @ - 1]
    /\ Begin(p, "watch", entries)
    /\ UNCHANGED entries

\* Mutant: a result that was read before is served again.
HGetAllCached(p, l) ==
    /\ lpc[p][l] = "begun"
    /\ lpc' = [lpc EXCEPT ![p][l] = "loaded"]
    /\ snap' = [snap EXCEPT ![p][l] = IF @ = {} THEN entries ELSE @]
    /\ UNCHANGED <<phase, ins, kept, seen, pool, mishaps, redisVars>>

\* Load is one HGetAll.
HGetAll(p, l) ==
    /\ lpc[p][l] = "begun"
    /\ lpc' = [lpc EXCEPT ![p][l] = "loaded"]
    /\ snap' = [snap EXCEPT ![p][l] = entries]
    /\ UNCHANGED <<phase, ins, kept, seen, pool, mishaps, redisVars>>

ProcessEnds(p) ==
    /\ Crash(p)
    /\ mail' = [mail EXCEPT ![p] = 0]
    /\ UNCHANGED entries

InstanceStep(i) ==
    \/ HSet(i) \/ PublishRegister(i) \/ RegisterFails(i)
    \/ HDel(i) \/ PublishDeregister(i) \/ DeregisterFails(i)

LoaderStep(p, l) ==
    \/ HGetAll(p, l)
    \/ LoadFails(p, l) /\ UNCHANGED redisVars
    \/ Purge(p, l) /\ UNCHANGED redisVars

ProcessStep(p) ==
    \/ StartTicker(p) /\ UNCHANGED redisVars
    \/ InitPool(p) /\ UNCHANGED redisVars
    \/ Watch(p)
    \/ SignalStop(p) /\ UNCHANGED redisVars
    \/ Stopped(p) /\ UNCHANGED redisVars
    \/ ProcessEnds(p)
    \/ Receive(p)
    \/ TickBegin(p, entries) /\ UNCHANGED redisVars

Next ==
    \/ \E i \in Instances : InstanceStep(i)
    \/ \E p \in Procs : ProcessStep(p)
    \/ \E p \in Procs, l \in Loaders : LoaderStep(p, l)

Spec == Init /\ [][Next]_vars

\* The runtime fires a running ticker and resumes a goroutine that has something to
\* do; redis may fail any call of Load, but not every one from some point on.
Fairness ==
    \A p \in Observers :
        /\ WF_vars(TickBegin(p, entries) /\ UNCHANGED redisVars)
        /\ SF_vars(HGetAll(p, "tick"))
        /\ \A l \in Loaders : WF_vars(Purge(p, l) /\ UNCHANGED redisVars)

FairSpec == Spec /\ Fairness

-----------------------------------------------------------------------------
(* Properties.                                                              *)

\* An instance that is absent from the pool of a process was not registered at some
\* time during the last refill, and one it lists was registered at some time during
\* it, whatever the other goroutine and the other processes did in between: Load's
\* result is bounded by what held throughout and what held at all (Load of
\* registry/redis/redis.go, used by Watch and by the purge ticker of sicky.go).
LoadIsRegular ==
    \A p \in Procs, l \in Loaders :
        lpc[p][l] = "loaded" => /\ kept[p][l] \subseteq snap[p][l]
                                /\ snap[p][l] \subseteq seen[p][l]

\* What makes it so, with what holds of the refills that have not loaded yet: the store
\* always lies between the two histories.
RefillsBounded ==
    \A p \in Procs, l \in Loaders :
        /\ lpc[p][l] = "idle" => kept[p][l] = {} /\ seen[p][l] = {}
        /\ lpc[p][l] # "idle" =>
              kept[p][l] \subseteq entries /\ entries \subseteq seen[p][l]
        /\ lpc[p][l] = "loaded" =>
              kept[p][l] \subseteq snap[p][l] /\ snap[p][l] \subseteq seen[p][l]

\* A pool has no service without instances, no instance under a name that is not its
\* own, and no instance whose Register never reached the store (PurgePool, pool.go).
PoolSound ==
    \A p \in Procs : \A s \in DOMAIN pool[p] :
        /\ pool[p][s] # {}
        /\ \A i \in pool[p][s] : ServiceOf[i] = s /\ ins[i] # "new"

\* Both: nothing comes into a Load or a pool, and nothing is missing from a Load, but what
\* registrations during the refill explain (Load, PurgePool).
CacheIsSound == LoadIsRegular /\ PoolSound

\* Of a process that went through its stop loop the hash holds only what failed:
\* entries whose HDel returned an error, and those of incarnations that crashed.
CleanStopLeavesNothing ==
    \A i \in entries : phase[Owner[i]] = "stopped" => ins[i] \in {"left", "orphan"}

\* A refill during which the store did not change leaves exactly the store in the
\* pool, even if it started, or another one ended, in the middle of something else.
QuietRefillIsExact ==
    [][\A p \in Procs, l \in Loaders :
          Purge(p, l) /\ kept[p][l] = seen[p][l] => pool'[p] = PurgePool(entries)]_vars

\* Once registrations end, the pool of every process that stays up comes to equal the
\* store and stays so, though messages are lost, loads fail and a stale Load may have
\* overwritten a newer one: the purge ticker sees to that.
Converges == <>[](\A p \in Observers : phase[p] = "running" => pool[p] = PurgePool(entries))

\* Every process's pool is a regular cache of the store.
View == INSTANCE RegistryView
            WITH registered <- entries, view <- pool,
                 open <- [p \in Procs |-> {l \in Loaders : lpc[p][l] # "idle"}]
ImplementsView == View!Spec
=============================================================================
