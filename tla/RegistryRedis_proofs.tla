------------------------ MODULE RegistryRedis_proofs ------------------------
(***************************************************************************)
(* Proofs about RegistryRedis: its type invariant, its safety invariants,  *)
(* and that a refill that nothing disturbs is exact.                       *)
(***************************************************************************)
EXTENDS RegistryRedis, TLAPS

\* What PurgePool makes is a pool.
LEMMA PurgePoolType ==
    ASSUME NEW loaded, loaded \subseteq Instances
    PROVE  PurgePool(loaded) \in Pools
<1> DEFINE D == {ServiceOf[i] : i \in loaded}
<1>1. D \in SUBSET Services
  BY ServiceAssumption
<1>2. PurgePool(loaded) \in [D -> SUBSET Instances]
  BY DEF PurgePool
<1> QED BY <1>1, <1>2 DEF Pools

LEMMA NewPoolType == NewPool \in Pools
<1>1. NewPool \in [{} -> SUBSET Instances]
  BY DEF NewPool
<1>2. {} \in SUBSET Services
  OBVIOUS
<1> QED BY <1>1, <1>2 DEF Pools

-----------------------------------------------------------------------------
(* Type correctness.                                                        *)

LEMMA InitTypeOK == Init => TypeOK
BY NewPoolType, MishapAssumption, MailAssumption
DEF Init, PoolInit, TypeOK, PoolTypeOK, NoLoads, Loaders, Phases, InsStates, LoaderSteps

LEMMA PublishType ==
    ASSUME TypeOK, Publish
    PROVE  mail' \in [Procs -> 0..MaxMail]
BY MailAssumption DEF TypeOK, Publish

LEMMA InstanceStepTypeOK ==
    ASSUME TypeOK, NEW i \in Instances, InstanceStep(i)
    PROVE  TypeOK'
<1> USE DEF TypeOK, PoolTypeOK, InsStates, InsStep, Appears, Vanishes
<1>1. CASE HSet(i)
  BY <1>1 DEF HSet
<1>2. CASE PublishRegister(i)
  BY <1>2, PublishType DEF PublishRegister
<1>3. CASE RegisterFails(i)
  <2>1. CASE UNCHANGED <<entries, kept, seen>>
    BY <1>3, <2>1 DEF RegisterFails
  <2>2. CASE entries' = entries \cup {i} /\ Appears(i)
    BY <1>3, <2>2 DEF RegisterFails
  <2> QED BY <1>3, <2>1, <2>2 DEF RegisterFails
<1>4. CASE HDel(i)
  BY <1>4 DEF HDel
<1>5. CASE PublishDeregister(i)
  BY <1>5, PublishType DEF PublishDeregister
<1>6. CASE DeregisterFails(i)
  BY <1>6 DEF DeregisterFails
<1> QED BY <1>1, <1>2, <1>3, <1>4, <1>5, <1>6, InstanceStep(i) DEF InstanceStep

\* A list is kept or dropped, and no other list changes.
LEMMA ForgetsList ==
    ASSUME TypeOK, NEW p \in Procs, NEW l \in Loaders, Forgets(p, l)
    PROVE  /\ snap' \in [Procs -> [Loaders -> SUBSET Instances]]
           /\ \A q \in Procs, k \in Loaders :
                 \/ snap'[q][k] = snap[q][k]
                 \/ q = p /\ k = l /\ snap'[q][k] = {}
<1> USE DEF TypeOK, PoolTypeOK
<1>1. CASE l = "tick"
  <2>1. snap' = [snap EXCEPT ![p][l] = {}]
    BY <1>1 DEF Forgets
  <2> QED BY <2>1
<1>2. CASE l # "tick"
  BY <1>2 DEF Forgets
<1> QED BY <1>1, <1>2

LEMMA LoaderStepTypeOK ==
    ASSUME TypeOK, NEW p \in Procs, NEW l \in Loaders, LoaderStep(p, l)
    PROVE  TypeOK'
<1> USE DEF TypeOK, PoolTypeOK, LoaderSteps, redisVars
<1>1. CASE HGetAll(p, l)
  BY <1>1 DEF HGetAll
<1>2. CASE LoadFails(p, l) /\ UNCHANGED redisVars
  BY <1>2 DEF LoadFails, Ended
<1>3. CASE Purge(p, l) /\ UNCHANGED redisVars
  <2>1. PurgePool(snap[p][l]) \in Pools
    BY PurgePoolType
  <2>2. snap' \in [Procs -> [Loaders -> SUBSET Instances]]
    BY <1>3, ForgetsList DEF Purge
  <2> QED BY <1>3, <2>1, <2>2 DEF Purge, Ended
<1> QED BY <1>1, <1>2, <1>3, LoaderStep(p, l) DEF LoaderStep

LEMMA ProcessStepTypeOK ==
    ASSUME TypeOK, NEW p \in Procs, ProcessStep(p)
    PROVE  TypeOK'
<1> USE DEF TypeOK, PoolTypeOK, Phases, redisVars
<1>1. CASE StartTicker(p) /\ UNCHANGED redisVars
  BY <1>1 DEF StartTicker
<1>2. CASE InitPool(p) /\ UNCHANGED redisVars
  BY <1>2, NewPoolType DEF InitPool
<1>3. CASE Watch(p)
  BY <1>3, MailAssumption DEF Watch, StartWatch
<1>4. CASE SignalStop(p) /\ UNCHANGED redisVars
  BY <1>4 DEF SignalStop
<1>5. CASE Stopped(p) /\ UNCHANGED redisVars
  BY <1>5 DEF Stopped
<1>6. CASE ProcessEnds(p)
  BY <1>6, NewPoolType, MishapAssumption, MailAssumption
  DEF ProcessEnds, Crash, Mishap, NoLoads, InsStates, LoaderSteps
<1>7. CASE Receive(p)
  BY <1>7, MailAssumption DEF Receive, Begin, Loaders, LoaderSteps
<1>8. CASE TickBegin(p, entries) /\ UNCHANGED redisVars
  BY <1>8 DEF TickBegin, Begin, Loaders, LoaderSteps
<1> QED BY <1>1, <1>2, <1>3, <1>4, <1>5, <1>6, <1>7, <1>8, ProcessStep(p) DEF ProcessStep

LEMMA StutterTypeOK == TypeOK /\ UNCHANGED vars => TypeOK'
BY DEF TypeOK, PoolTypeOK, vars, poolVars, redisVars

\* Every reachable state of the redis registry is well typed: phases, registrations,
\* refills, pools and messages keep their ranges, for any processes and instances.
THEOREM TypeCorrect == Spec => []TypeOK
<1>1. Init => TypeOK
  BY InitTypeOK
<1>2. TypeOK /\ [Next]_vars => TypeOK'
  BY InstanceStepTypeOK, LoaderStepTypeOK, ProcessStepTypeOK, StutterTypeOK DEF Next
<1> QED BY <1>1, <1>2, PTL DEF Spec

-----------------------------------------------------------------------------
(* Refills.  The histories of a refill in flight bound the store from both  *)
(* sides, hence also what HGetAll reads from it.                            *)

LEMMA InitRefills == Init => RefillsBounded
BY DEF Init, PoolInit, RefillsBounded, NoLoads

\* A change of the store that touches only one instance keeps the bounds.
LEMMA AppearsRefills ==
    ASSUME TypeOK, RefillsBounded, NEW i \in Instances,
           entries' = entries \cup {i}, Appears(i), UNCHANGED <<lpc, snap>>
    PROVE  RefillsBounded'
BY DEF TypeOK, PoolTypeOK, RefillsBounded, Appears

LEMMA VanishesRefills ==
    ASSUME TypeOK, RefillsBounded, NEW i \in Instances,
           entries' = entries \ {i}, Vanishes(i), UNCHANGED <<lpc, snap>>
    PROVE  RefillsBounded'
BY DEF TypeOK, PoolTypeOK, RefillsBounded, Vanishes

LEMMA QuietRefills ==
    ASSUME RefillsBounded, UNCHANGED <<entries, lpc, snap, kept, seen>>
    PROVE  RefillsBounded'
BY DEF RefillsBounded

LEMMA InstanceStepRefills ==
    ASSUME TypeOK, RefillsBounded, NEW i \in Instances, InstanceStep(i)
    PROVE  RefillsBounded'
<1>1. CASE HSet(i)
  BY <1>1, AppearsRefills DEF HSet
<1>2. CASE PublishRegister(i)
  BY <1>2, QuietRefills DEF PublishRegister
<1>3. CASE RegisterFails(i)
  BY <1>3, AppearsRefills, QuietRefills DEF RegisterFails
<1>4. CASE HDel(i)
  BY <1>4, VanishesRefills DEF HDel
<1>5. CASE PublishDeregister(i)
  BY <1>5, QuietRefills DEF PublishDeregister
<1>6. CASE DeregisterFails(i)
  BY <1>6, VanishesRefills, QuietRefills DEF DeregisterFails
<1> QED BY <1>1, <1>2, <1>3, <1>4, <1>5, <1>6, InstanceStep(i) DEF InstanceStep

LEMMA LoaderStepRefills ==
    ASSUME TypeOK, RefillsBounded, NEW p \in Procs, NEW l \in Loaders, LoaderStep(p, l)
    PROVE  RefillsBounded'
<1> USE DEF TypeOK, PoolTypeOK, RefillsBounded, redisVars
<1>1. CASE HGetAll(p, l)
  BY <1>1 DEF HGetAll
<1>2. CASE LoadFails(p, l) /\ UNCHANGED redisVars
  BY <1>2 DEF LoadFails, Ended
<1>3. CASE Purge(p, l) /\ UNCHANGED redisVars
  <2>1. \A q \in Procs, k \in Loaders : snap'[q][k] = snap[q][k] \/ (q = p /\ k = l)
    BY <1>3, ForgetsList DEF Purge
  <2> QED BY <1>3, <2>1 DEF Purge, Ended
<1> QED BY <1>1, <1>2, <1>3, LoaderStep(p, l) DEF LoaderStep

LEMMA BeginRefills ==
    ASSUME TypeOK, RefillsBounded, NEW p \in Procs, NEW l \in Loaders,
           Begin(p, l, entries), UNCHANGED entries
    PROVE  RefillsBounded'
BY DEF TypeOK, PoolTypeOK, RefillsBounded, Begin

LEMMA ProcessStepRefills ==
    ASSUME TypeOK, RefillsBounded, NEW p \in Procs, ProcessStep(p)
    PROVE  RefillsBounded'
<1> USE DEF redisVars
<1>1. CASE StartTicker(p) /\ UNCHANGED redisVars
  BY <1>1, QuietRefills DEF StartTicker
<1>2. CASE InitPool(p) /\ UNCHANGED redisVars
  BY <1>2, QuietRefills DEF InitPool
<1>3. CASE Watch(p)
  BY <1>3, QuietRefills DEF Watch, StartWatch
<1>4. CASE SignalStop(p) /\ UNCHANGED redisVars
  BY <1>4, QuietRefills DEF SignalStop
<1>5. CASE Stopped(p) /\ UNCHANGED redisVars
  BY <1>5, QuietRefills DEF Stopped
<1>6. CASE ProcessEnds(p)
  BY <1>6 DEF ProcessEnds, Crash, NoLoads, TypeOK, PoolTypeOK, RefillsBounded
<1>7. CASE Receive(p)
  BY <1>7, BeginRefills DEF Receive, Loaders
<1>8. CASE TickBegin(p, entries) /\ UNCHANGED redisVars
  BY <1>8, BeginRefills DEF TickBegin, Loaders
<1> QED BY <1>1, <1>2, <1>3, <1>4, <1>5, <1>6, <1>7, <1>8, ProcessStep(p) DEF ProcessStep

LEMMA RefillsInvariant == Spec => [](TypeOK /\ RefillsBounded)
<1>1. Init => TypeOK /\ RefillsBounded
  BY InitTypeOK, InitRefills
<1>2. TypeOK /\ RefillsBounded /\ [Next]_vars => RefillsBounded'
  <2> SUFFICES ASSUME TypeOK, RefillsBounded, [Next]_vars PROVE RefillsBounded'
    OBVIOUS
  <2>1. CASE UNCHANGED vars
    BY <2>1, QuietRefills DEF vars, poolVars, redisVars
  <2> QED BY <2>1, InstanceStepRefills, LoaderStepRefills, ProcessStepRefills DEF Next
<1> QED BY <1>1, <1>2, TypeCorrect, PTL DEF Spec

\* Whatever crashes, messages lost, and overlaps of the two refilling goroutines: what
\* a Load has read lies between what was registered throughout its refill and what was
\* registered at some time during it (LoadIsRegular, of Load, Watch and the ticker).
THEOREM LoadsAreRegular == Spec => []LoadIsRegular
<1>1. RefillsBounded => LoadIsRegular
  BY DEF RefillsBounded, LoadIsRegular
<1> QED BY <1>1, RefillsInvariant, PTL

\* A refill during which the store did not change leaves exactly the store in the pool
\* (QuietRefillIsExact): kept, the store and seen are then the same set.
THEOREM QuietRefillsAreExact == Spec => QuietRefillIsExact
<1> DEFINE Exact == \A p \in Procs, l \in Loaders :
               Purge(p, l) /\ kept[p][l] = seen[p][l] => pool'[p] = PurgePool(entries)
<1>1. TypeOK /\ RefillsBounded => Exact
  <2> SUFFICES ASSUME TypeOK, RefillsBounded, NEW p \in Procs, NEW l \in Loaders,
                      Purge(p, l), kept[p][l] = seen[p][l]
               PROVE  pool'[p] = PurgePool(entries)
    OBVIOUS
  <2>1. snap[p][l] = entries
    BY DEF Purge, RefillsBounded
  <2> QED BY <2>1 DEF Purge, TypeOK, PoolTypeOK
<1>2. TypeOK /\ RefillsBounded /\ [Next]_vars => [Exact]_vars
  BY <1>1
<1> QED BY <1>2, RefillsInvariant, PTL DEF Spec, QuietRefillIsExact

-----------------------------------------------------------------------------
(* Pools hold what was registered, and a clean stop leaves nothing.         *)

\* Nothing in the store, in a Load's result or in a pool is an unregistered instance.
Recorded ==
    /\ \A i \in entries : ins[i] # "new"
    /\ \A p \in Procs, l \in Loaders : \A i \in snap[p][l] : ins[i] # "new"
    /\ PoolSound

\* An entry is that of an instance that is, or failed to be, registered or deregistered,
\* and a process gets to the end of its stop loop only when it has none to deregister.
Dropped ==
    /\ \A i \in entries : ins[i] \in {"set", "up", "failed", "left", "orphan"}
    /\ \A i \in Instances :
          /\ phase[Owner[i]] = "stopping" => ins[i] # "set"
          /\ phase[Owner[i]] = "stopped" => ins[i] \notin {"set", "up", "failed", "deleted"}

\* PurgePool files every instance it was given, and no other, under its own name.
LEMMA PurgePoolSound ==
    ASSUME NEW loaded, loaded \subseteq Instances, NEW s \in DOMAIN PurgePool(loaded)
    PROVE  /\ PurgePool(loaded)[s] # {}
           /\ \A i \in PurgePool(loaded)[s] : i \in loaded /\ ServiceOf[i] = s
BY DEF PurgePool

LEMMA InitStore == Init => Recorded /\ Dropped
BY OwnerAssumption DEF Init, PoolInit, NoLoads, NewPool, Recorded, Dropped, PoolSound

LEMMA InstanceStepStore ==
    ASSUME TypeOK, Recorded, Dropped, NEW i \in Instances, InstanceStep(i)
    PROVE  Recorded' /\ Dropped'
<1> USE OwnerAssumption
    DEF TypeOK, PoolTypeOK, Recorded, Dropped, PoolSound, InsStep, MayRegister, MayDeregister
<1>1. CASE HSet(i)
  BY <1>1 DEF HSet
<1>2. CASE PublishRegister(i)
  BY <1>2 DEF PublishRegister
<1>3. CASE RegisterFails(i)
  <2>1. CASE UNCHANGED <<entries, kept, seen>>
    BY <1>3, <2>1 DEF RegisterFails
  <2>2. CASE entries' = entries \cup {i} /\ Appears(i)
    BY <1>3, <2>2 DEF RegisterFails
  <2> QED BY <1>3, <2>1, <2>2 DEF RegisterFails
<1>4. CASE HDel(i)
  BY <1>4 DEF HDel
<1>5. CASE PublishDeregister(i)
  BY <1>5 DEF PublishDeregister
<1>6. CASE DeregisterFails(i)
  <2>1. CASE UNCHANGED <<entries, kept, seen>>
    BY <1>6, <2>1 DEF DeregisterFails
  <2>2. CASE entries' = entries \ {i} /\ Vanishes(i)
    BY <1>6, <2>2 DEF DeregisterFails
  <2> QED BY <1>6, <2>1, <2>2 DEF DeregisterFails
<1> QED BY <1>1, <1>2, <1>3, <1>4, <1>5, <1>6, InstanceStep(i) DEF InstanceStep

LEMMA LoaderStepStore ==
    ASSUME TypeOK, Recorded, Dropped, NEW p \in Procs, NEW l \in Loaders, LoaderStep(p, l)
    PROVE  Recorded' /\ Dropped'
<1> USE DEF TypeOK, PoolTypeOK, Recorded, Dropped, PoolSound, redisVars
<1>1. CASE HGetAll(p, l)
  BY <1>1 DEF HGetAll
<1>2. CASE LoadFails(p, l) /\ UNCHANGED redisVars
  BY <1>2 DEF LoadFails
<1>3. CASE Purge(p, l) /\ UNCHANGED redisVars
  <2>1. PoolSound'
    <3> SUFFICES ASSUME NEW q \in Procs, NEW s \in DOMAIN pool'[q]
                 PROVE  /\ pool'[q][s] # {}
                        /\ \A i \in pool'[q][s] : ServiceOf[i] = s /\ ins'[i] # "new"
      OBVIOUS
    <3>1. CASE q = p
      <4>1. pool'[p] = PurgePool(snap[p][l]) /\ ins' = ins
        BY <1>3 DEF Purge
      <4>2. /\ snap[p][l] \subseteq Instances
            /\ \A i \in snap[p][l] : ins[i] # "new"
        OBVIOUS
      <4>3. s \in DOMAIN PurgePool(snap[p][l])
        BY <3>1, <4>1
      <4>4. /\ PurgePool(snap[p][l])[s] # {}
            /\ \A i \in PurgePool(snap[p][l])[s] : i \in snap[p][l] /\ ServiceOf[i] = s
        <5> HIDE DEF TypeOK, PoolTypeOK, Recorded, Dropped, PoolSound
        <5> QED BY <4>2, <4>3, PurgePoolSound
      <4>5. /\ pool'[q][s] = PurgePool(snap[p][l])[s]
            /\ ins' = ins
        BY <3>1, <4>1
      <4> HIDE DEF TypeOK, PoolTypeOK, Recorded, Dropped, PoolSound
      <4> QED BY <4>2, <4>4, <4>5
    <3>2. CASE q # p
      BY <1>3, <3>2 DEF Purge
    <3> QED BY <3>1, <3>2
  <2>2. \A q \in Procs, k \in Loaders : snap'[q][k] \subseteq snap[q][k]
    BY <1>3, ForgetsList DEF Purge
  <2> QED BY <1>3, <2>1, <2>2 DEF Purge
<1> QED BY <1>1, <1>2, <1>3, LoaderStep(p, l) DEF LoaderStep

LEMMA ProcessStepStore ==
    ASSUME TypeOK, Recorded, Dropped, NEW p \in Procs, ProcessStep(p)
    PROVE  Recorded' /\ Dropped'
<1> USE OwnerAssumption DEF TypeOK, PoolTypeOK, Recorded, Dropped, PoolSound, redisVars
<1>1. CASE StartTicker(p) /\ UNCHANGED redisVars
  BY <1>1 DEF StartTicker
<1>2. CASE InitPool(p) /\ UNCHANGED redisVars
  BY <1>2 DEF InitPool, NewPool
<1>3. CASE Watch(p)
  BY <1>3 DEF Watch, StartWatch
<1>4. CASE SignalStop(p) /\ UNCHANGED redisVars
  BY <1>4 DEF SignalStop, Busy
<1>5. CASE Stopped(p) /\ UNCHANGED redisVars
  BY <1>5 DEF Stopped
<1>6. CASE ProcessEnds(p)
  <2>1. /\ \A i \in Instances : (ins'[i] = ins[i] \/ ins'[i] = "orphan")
        /\ \A i \in Instances : ins'[i] = "new" => ins[i] = "new"
        /\ \A i \in Instances : Owner[i] = p => ins'[i] \notin {"set", "up", "failed", "deleted"}
        /\ entries' = entries
    BY <1>6 DEF ProcessEnds, Crash, InsStates
  <2>2. \A q \in Procs : /\ q # p => snap'[q] = snap[q] /\ pool'[q] = pool[q]
                         /\ q = p => snap'[q] = NoLoads /\ pool'[q] = NewPool
    BY <1>6 DEF ProcessEnds, Crash
  <2>3. Recorded'
    <3>1. \A i \in entries' : ins'[i] # "new"
      BY <2>1
    <3>2. \A q \in Procs, l \in Loaders : \A i \in snap'[q][l] : ins'[i] # "new"
      <4> SUFFICES ASSUME NEW q \in Procs, NEW l \in Loaders, NEW i \in snap'[q][l]
                   PROVE  ins'[i] # "new"
        OBVIOUS
      <4>1. q # p /\ snap'[q] = snap[q]
        BY <2>2 DEF NoLoads
      <4>2. i \in snap[q][l] /\ i \in Instances
        BY <4>1
      <4> QED BY <4>2, <2>1
    <3>3. PoolSound'
      <4> SUFFICES ASSUME NEW q \in Procs, NEW s \in DOMAIN pool'[q]
                   PROVE  /\ pool'[q][s] # {}
                          /\ \A i \in pool'[q][s] : ServiceOf[i] = s /\ ins'[i] # "new"
        OBVIOUS
      <4>1. q # p /\ pool'[q] = pool[q]
        BY <2>2 DEF NewPool
      <4>2. pool[q] \in Pools
        OBVIOUS
      <4>3. pool[q][s] \subseteq Instances
        BY <4>1, <4>2 DEF Pools
      <4> QED BY <4>1, <4>3, <2>1
    <3> QED BY <3>1, <3>2, <3>3
  <2>4. Dropped'
    BY <1>6, <2>1 DEF ProcessEnds, Crash
  <2> QED BY <2>3, <2>4
<1>7. CASE Receive(p)
  BY <1>7 DEF Receive, Begin
<1>8. CASE TickBegin(p, entries) /\ UNCHANGED redisVars
  BY <1>8 DEF TickBegin, Begin
<1> QED BY <1>1, <1>2, <1>3, <1>4, <1>5, <1>6, <1>7, <1>8, ProcessStep(p) DEF ProcessStep

LEMMA StoreInvariant == Spec => [](TypeOK /\ Recorded /\ Dropped)
<1>1. Init => TypeOK /\ Recorded /\ Dropped
  BY InitTypeOK, InitStore
<1>2. TypeOK /\ Recorded /\ Dropped /\ [Next]_vars => Recorded' /\ Dropped'
  <2> SUFFICES ASSUME TypeOK, Recorded, Dropped, [Next]_vars PROVE Recorded' /\ Dropped'
    OBVIOUS
  <2>1. CASE UNCHANGED vars
    BY <2>1 DEF vars, poolVars, redisVars, Recorded, Dropped, PoolSound
  <2> QED BY <2>1, InstanceStepStore, LoaderStepStore, ProcessStepStore DEF Next
<1> QED BY <1>1, <1>2, TypeCorrect, PTL DEF Spec

\* A pool never lists an instance that was not registered, nor under a wrong name, nor
\* a service without instances (PoolSound, of PurgePool).
THEOREM PoolsAreSound == Spec => []PoolSound
<1>1. Recorded => PoolSound
  BY DEF Recorded
<1> QED BY <1>1, StoreInvariant, PTL

\* Both together: what a Load returns and what a pool lists is explained by registrations,
\* for any number of processes, services and instances (CacheIsSound, of Load, PurgePool).
THEOREM CachesAreSound == Spec => []CacheIsSound
<1>1. LoadIsRegular /\ PoolSound => CacheIsSound
  BY DEF CacheIsSound
<1> QED BY <1>1, LoadsAreRegular, PoolsAreSound, PTL

\* The stop loop of Run leaves entries behind only where HDel failed, or where an
\* earlier incarnation of the process crashed (CleanStopLeavesNothing).
THEOREM CleanStops == Spec => []CleanStopLeavesNothing
<1>1. TypeOK /\ Dropped => CleanStopLeavesNothing
  BY DEF TypeOK, Dropped, CleanStopLeavesNothing
<1> QED BY <1>1, StoreInvariant, PTL

-----------------------------------------------------------------------------
(* The redis registry implements the abstract view.                         *)

LEMMA InitImplements == Init => View!Init
BY DEF Init, PoolInit, View!Init, NoLoads, Loaders, NewPool, View!NewPool

LEMMA AppearsImplements ==
    ASSUME TypeOK, NEW i \in Instances, entries' = entries \cup {i}, Appears(i),
           UNCHANGED <<lpc, pool>>
    PROVE  View!Add(i)
BY DEF TypeOK, PoolTypeOK, Appears, View!Add

LEMMA VanishesImplements ==
    ASSUME TypeOK, NEW i \in Instances, entries' = entries \ {i}, Vanishes(i),
           UNCHANGED <<lpc, pool>>
    PROVE  View!Remove(i)
BY DEF TypeOK, PoolTypeOK, Vanishes, View!Remove

LEMMA InstanceStepImplements ==
    ASSUME TypeOK, NEW i \in Instances, InstanceStep(i)
    PROVE  View!Next \/ UNCHANGED View!viewVars
<1> USE DEF View!Next, View!viewVars
<1>1. CASE HSet(i)
  BY <1>1, AppearsImplements DEF HSet
<1>2. CASE PublishRegister(i)
  BY <1>2 DEF PublishRegister
<1>3. CASE RegisterFails(i)
  BY <1>3, AppearsImplements DEF RegisterFails
<1>4. CASE HDel(i)
  BY <1>4, VanishesImplements DEF HDel
<1>5. CASE PublishDeregister(i)
  BY <1>5 DEF PublishDeregister
<1>6. CASE DeregisterFails(i)
  BY <1>6, VanishesImplements DEF DeregisterFails
<1> QED BY <1>1, <1>2, <1>3, <1>4, <1>5, <1>6, InstanceStep(i) DEF InstanceStep

LEMMA BeginImplements ==
    ASSUME TypeOK, NEW p \in Procs, NEW l \in Loaders, Begin(p, l, entries),
           UNCHANGED entries
    PROVE  View!Open(p, l)
<1> DEFINE Open(q) == {k \in Loaders : lpc[q][k] # "idle"}
           OpenNext(q) == {k \in Loaders : lpc'[q][k] # "idle"}
<1>0. /\ lpc \in [Procs -> [Loaders -> LoaderSteps]]
      /\ lpc' = [lpc EXCEPT ![p][l] = "begun"]
      /\ lpc[p][l] = "idle"
  BY DEF TypeOK, PoolTypeOK, Begin
<1>1. OpenNext(p) = Open(p) \cup {l} /\ l \notin Open(p)
  BY <1>0
<1>2. ASSUME NEW q \in Procs, q # p PROVE OpenNext(q) = Open(q)
  <2>1. lpc'[q] = lpc[q]
    BY <1>0, <1>2
  <2> QED BY <2>1
<1> HIDE DEF Open, OpenNext
<1>3. [q \in Procs |-> OpenNext(q)]
         = [[q \in Procs |-> Open(q)] EXCEPT ![p] = @ \cup {l}]
  BY <1>1, <1>2
<1>4. l \notin [q \in Procs |-> Open(q)][p]
  BY <1>1
<1> QED BY <1>3, <1>4 DEF View!Open, Begin, Open, OpenNext

LEMMA EndedImplements ==
    ASSUME TypeOK, NEW p \in Procs, NEW l \in Loaders, lpc[p][l] # "idle", Ended(p, l),
           UNCHANGED entries
    PROVE  View!Close(p, l)
BY DEF TypeOK, PoolTypeOK, Ended, View!Close

LEMMA LoaderStepImplements ==
    ASSUME TypeOK, RefillsBounded, NEW p \in Procs, NEW l \in Loaders, LoaderStep(p, l)
    PROVE  View!Next \/ UNCHANGED View!viewVars
<1>1. CASE HGetAll(p, l)
  <2>1. \A q \in Procs, k \in Loaders : lpc'[q][k] = "idle" <=> lpc[q][k] = "idle"
    BY <1>1 DEF HGetAll, TypeOK, PoolTypeOK
  <2> QED BY <1>1, <2>1 DEF HGetAll, View!viewVars, redisVars
<1>2. CASE LoadFails(p, l) /\ UNCHANGED redisVars
  <2>1. View!Abandon(p, l)
    BY <1>2, EndedImplements DEF LoadFails, View!Abandon, redisVars
  <2> QED BY <2>1 DEF View!Next
<1>3. CASE Purge(p, l) /\ UNCHANGED redisVars
  <2>1. View!Close(p, l)
    BY <1>3, EndedImplements DEF Purge, redisVars
  <2>2. /\ snap[p][l] \in SUBSET Instances
        /\ kept[p][l] \subseteq snap[p][l] /\ snap[p][l] \subseteq seen[p][l]
    BY <1>3 DEF Purge, RefillsBounded, TypeOK, PoolTypeOK
  <2>3. pool' = [pool EXCEPT ![p] = View!PurgePool(snap[p][l])]
    BY <1>3 DEF Purge, PurgePool, View!PurgePool
  <2>4. View!Install(p, l)
    BY <2>1, <2>2, <2>3 DEF View!Install
  <2> QED BY <2>4 DEF View!Next
<1> QED BY <1>1, <1>2, <1>3, LoaderStep(p, l) DEF LoaderStep

LEMMA ProcessStepImplements ==
    ASSUME TypeOK, NEW p \in Procs, ProcessStep(p)
    PROVE  View!Next \/ UNCHANGED View!viewVars
<1> USE DEF View!viewVars, redisVars
<1>1. CASE StartTicker(p) /\ UNCHANGED redisVars
  BY <1>1 DEF StartTicker
<1>2. CASE InitPool(p) /\ UNCHANGED redisVars
  <2>1. View!Empty(p)
    BY <1>2 DEF InitPool, View!Empty, NewPool, View!NewPool
  <2> QED BY <2>1 DEF View!Next
<1>3. CASE Watch(p)
  BY <1>3 DEF Watch, StartWatch
<1>4. CASE SignalStop(p) /\ UNCHANGED redisVars
  BY <1>4 DEF SignalStop
<1>5. CASE Stopped(p) /\ UNCHANGED redisVars
  BY <1>5 DEF Stopped
<1>6. CASE ProcessEnds(p)
  <2>1. View!Empty(p)
    BY <1>6 DEF ProcessEnds, Crash, View!Empty, NewPool, View!NewPool, NoLoads, Loaders,
                TypeOK, PoolTypeOK
  <2> QED BY <2>1 DEF View!Next
<1>7. CASE Receive(p)
  <2>1. View!Open(p, "watch")
    BY <1>7, BeginImplements DEF Receive, Loaders
  <2> QED BY <2>1 DEF View!Next, Loaders
<1>8. CASE TickBegin(p, entries) /\ UNCHANGED redisVars
  <2>1. View!Open(p, "tick")
    BY <1>8, BeginImplements DEF TickBegin, Loaders
  <2> QED BY <2>1 DEF View!Next, Loaders
<1> QED BY <1>1, <1>2, <1>3, <1>4, <1>5, <1>6, <1>7, <1>8, ProcessStep(p) DEF ProcessStep

\* Every behaviour of the redis registry is one of RegistryView: a process's pool is a
\* regular cache of the store, for any number of processes, instances and crashes.
THEOREM Implements == Spec => ImplementsView
<1>1. Init => View!Init
  BY InitImplements
<1>2. TypeOK /\ RefillsBounded /\ [Next]_vars => [View!Next]_(View!viewVars)
  <2> SUFFICES ASSUME TypeOK, RefillsBounded, [Next]_vars
               PROVE  View!Next \/ UNCHANGED View!viewVars
    OBVIOUS
  <2>1. CASE UNCHANGED vars
    BY <2>1 DEF vars, poolVars, redisVars, View!viewVars
  <2> QED BY <2>1, InstanceStepImplements, LoaderStepImplements, ProcessStepImplements
          DEF Next
<1> QED BY <1>1, <1>2, RefillsInvariant, PTL DEF Spec, ImplementsView, View!Spec
=============================================================================
