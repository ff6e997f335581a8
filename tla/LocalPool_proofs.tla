------------------------- MODULE LocalPool_proofs -------------------------
(***************************************************************************)
(* Proofs about RegistryLocal, the registry that is a directory of files,  *)
(* and about PoolUse, the pool inside one process.                         *)
(*                                                                         *)
(* RegistryLocal: a Load reads the directory file by file, so what it has  *)
(* gathered need never have been there.  Refills says what every one of    *)
(* its steps keeps: what was there all the time has been read or is still  *)
(* to be read.  Awake is about the watcher: as long as no event waits for  *)
(* it, the files are those that its Load finds.                            *)
(*                                                                         *)
(* PoolUse: RetiredIsFrozen is an action property; it needs to know that   *)
(* the pool a helper is about to change is not retired.  HelperInv says    *)
(* why: a helper inside a call holds poolLock, SetPool waits for it, and   *)
(* the only other writer of currentPool, InitPool, retires nothing and     *)
(* never puts an old pool back.                                            *)
(***************************************************************************)
EXTENDS RegistryLocal, PoolUse, FiniteSetTheorems, TLAPS

-----------------------------------------------------------------------------
(* The local registry.                                                      *)

\* TypeOK without the bound on the events that wait.
Typed ==
    /\ PoolTypeOK
    /\ file \in [Instances -> {"none", "partial", "full"}]
    /\ events \in [Procs -> Nat]
    /\ todo \in [Procs -> [Loaders -> SUBSET Instances]]
    /\ told \in [Procs -> BOOLEAN]

\* An instance that Run has not come to has no file.
Unwritten == \A i \in Instances : ins[i] = "new" => file[i] = "none"

\* Where a refill in flight stands between its two histories.
Refill(p, l) ==
    /\ lpc[p][l] # "idle" => kept[p][l] \subseteq Registered /\ Registered \subseteq seen[p][l]
    /\ lpc[p][l] \in {"reading", "loaded"} => snap[p][l] \subseteq seen[p][l]
    /\ lpc[p][l] = "reading" => kept[p][l] \subseteq snap[p][l] \cup todo[p][l]
    /\ lpc[p][l] = "loaded" => kept[p][l] \subseteq snap[p][l]

Refills == \A p \in Procs, l \in Loaders : Refill(p, l)

\* What the watcher of p has read, and will read, is what is there.
Found(p) ==
    LET step == lpc[p]["watch"] IN
    /\ step \in {"idle", "loaded"} => snap[p]["watch"] = Registered
    /\ step = "reading" => /\ snap[p]["watch"] \subseteq Registered
                           /\ Registered \subseteq snap[p]["watch"] \cup todo[p]["watch"]

\* Only a watcher is told of events, and while none waits, it finds what is there.
Awake(p) ==
    /\ told[p] => Watching(p)
    /\ told[p] /\ events[p] = 0 => Found(p)

AllAwake == \A p \in Observers : Awake(p)

\* What PurgePool makes is a pool.
LEMMA PurgePoolType ==
    ASSUME NEW loaded, loaded \subseteq Instances
    PROVE  PurgePool(loaded) \in Pools
<1> DEFINE D == {ServiceOf[i] : i \in loaded}
<1>1. D \in SUBSET Services
  BY ServiceAssumption
<1>2. PurgePool(loaded) \in [D -> SUBSET Instances]
  BY DEF PurgePool
<1> QED BY <1>1, <1>2 DEF Pools

LEMMA NewPoolType == NewPool \in Pools
<1>1. NewPool \in [{} -> SUBSET Instances]
  BY DEF NewPool
<1>2. {} \in SUBSET Services
  OBVIOUS
<1> QED BY <1>1, <1>2 DEF Pools

LEMMA WatchLoads == "watch" \in Loaders /\ "tick" \in Loaders
BY DEF Loaders

\* A call that leaves every file as it is.
Unnoticed == UNCHANGED <<file, events, told, kept, seen>>

\* A call that changes the file of i, and every watcher is told.
Noticed(i) ==
    /\ Notify
    /\ \E content \in {"none", "partial", "full"} : file' = [file EXCEPT ![i] = content]
    /\ \/ Registered' = Registered /\ UNCHANGED <<kept, seen>>
       \/ Registered' = Registered \cup {i} /\ Appears(i)
       \/ Registered' = Registered \ {i} /\ Vanishes(i)

LEMMA InstanceStepFiles ==
    ASSUME Typed, Unwritten, NEW i \in Instances, InstanceStep(i)
    PROVE  /\ UNCHANGED <<phase, lpc, snap, pool, todo>>
           /\ mishaps' \in 0..MaxMishaps
           /\ \E to \in InsStates \ {"new"} : InsStep(i, to)
           /\ Unnoticed \/ Noticed(i)
<1> USE MishapAssumption DEF Typed, PoolTypeOK, InsStates, Mishap, localVars
<1>1. CASE CreateFile(i)
  <2>1. file[i] = "none"
    BY <1>1 DEF CreateFile, MayRegister, Unwritten
  <2>2. Registered' = Registered
    BY <1>1, <2>1 DEF CreateFile, Registered
  <2> QED BY <1>1, <2>2 DEF CreateFile, Noticed
<1>2. CASE WriteFile(i)
  <2>1. Registered' = Registered \cup {i}
    BY <1>2 DEF WriteFile, Registered
  <2> QED BY <1>2, <2>1 DEF WriteFile, Noticed
<1>3. CASE RegisterFails(i)
  BY <1>3 DEF RegisterFails, Unnoticed
<1>4. CASE RemoveFile(i)
  <2>1. Registered' = Registered \ {i}
    BY <1>4 DEF RemoveFile, Registered
  <2> QED BY <1>4, <2>1 DEF RemoveFile, Noticed
<1>5. CASE DeregisterFails(i)
  BY <1>5 DEF DeregisterFails, Unnoticed
<1> QED BY <1>1, <1>2, <1>3, <1>4, <1>5, InstanceStep(i) DEF InstanceStep

\* A step of one refill leaves the other ones, and the files, alone.
LEMMA LoaderStepFrame ==
    ASSUME Typed, NEW p \in Procs, NEW l \in Loaders, LoaderStep(p, l)
    PROVE  /\ UNCHANGED <<phase, ins, file, events>>
           /\ \A q \in Procs, k \in Loaders :
                 q # p \/ k # l => /\ lpc'[q][k] = lpc[q][k] /\ snap'[q][k] = snap[q][k]
                                   /\ kept'[q][k] = kept[q][k] /\ seen'[q][k] = seen[q][k]
                                   /\ todo'[q][k] = todo[q][k]
<1> USE DEF Typed, PoolTypeOK, localVars
<1>1. CASE ReadDir(p, l)
  BY <1>1 DEF ReadDir, Reading
<1>2. CASE \E i \in Instances : ReadFile(p, l, i)
  BY <1>2 DEF ReadFile, Reading
<1>3. CASE \E i \in Instances : SkipFile(p, l, i)
  BY <1>3 DEF SkipFile, Reading
<1>4. CASE ReadDirFails(p, l)
  BY <1>4 DEF ReadDirFails, LoadFails, Ended
<1>5. CASE Purge(p, l) /\ UNCHANGED localVars
  <2>1. CASE l = "watch"
    BY <1>5, <2>1 DEF Purge, Ended, Forgets
  <2>2. CASE l # "watch"
    <3>1. snap' = [snap EXCEPT ![p][l] = {}]
      BY <1>5, <2>2 DEF Purge, Forgets
    <3> QED BY <1>5, <3>1 DEF Purge, Ended
  <2> QED BY <2>1, <2>2
<1> QED BY <1>1, <1>2, <1>3, <1>4, <1>5, LoaderStep(p, l) DEF LoaderStep

-----------------------------------------------------------------------------
(* Type correctness of the local registry.                                  *)

LEMMA InitTyped == Init => Typed
BY NewPoolType, MishapAssumption
DEF Init, PoolInit, Typed, PoolTypeOK, NoLoads, Loaders, Phases, InsStates, LoaderSteps

LEMMA InstanceStepTyped ==
    ASSUME Typed, Unwritten, NEW i \in Instances, InstanceStep(i)
    PROVE  Typed' /\ Unwritten'
<1>1. /\ UNCHANGED <<phase, lpc, snap, pool, todo>>
      /\ mishaps' \in 0..MaxMishaps
      /\ Unnoticed \/ Noticed(i)
  BY InstanceStepFiles
<1>2. PICK to \in InsStates \ {"new"} : InsStep(i, to)
  BY InstanceStepFiles
<1> USE DEF Typed, PoolTypeOK
<1>3. ins' \in [Instances -> InsStates] /\ ins'[i] # "new"
  BY <1>2 DEF InsStep
<1>4. \A j \in Instances : j # i => ins'[j] = ins[j]
  BY <1>2 DEF InsStep
<1>5. CASE Unnoticed
  BY <1>1, <1>3, <1>4, <1>5 DEF Unnoticed, Unwritten
<1>6. CASE Noticed(i)
  <2>1. /\ file' \in [Instances -> {"none", "partial", "full"}]
        /\ \A j \in Instances : j # i => file'[j] = file[j]
    BY <1>6 DEF Noticed
  <2>2. /\ events' \in [Procs -> Nat]
        /\ told' \in [Procs -> BOOLEAN]
    BY <1>6 DEF Noticed, Notify, Watching
  <2>3. /\ kept' \in [Procs -> [Loaders -> SUBSET Instances]]
        /\ seen' \in [Procs -> [Loaders -> SUBSET Instances]]
    BY <1>6 DEF Noticed, Appears, Vanishes
  <2> QED BY <1>1, <1>3, <1>4, <2>1, <2>2, <2>3 DEF Unwritten
<1> QED BY <1>1, <1>5, <1>6

LEMMA ReadingType ==
    ASSUME Typed, NEW p \in Procs, NEW l \in Loaders, NEW rest \in SUBSET Instances,
           Reading(p, l, rest)
    PROVE  /\ todo' \in [Procs -> [Loaders -> SUBSET Instances]]
           /\ lpc' \in [Procs -> [Loaders -> LoaderSteps]]
           /\ todo'[p][l] = rest
           /\ lpc'[p][l] = IF rest = {} THEN "loaded" ELSE "reading"
<1> DEFINE next == IF rest = {} THEN "loaded" ELSE "reading"
<1>1. next \in LoaderSteps
  BY DEF LoaderSteps
<1>2. lpc' = [lpc EXCEPT ![p][l] = next] /\ todo' = [todo EXCEPT ![p][l] = rest]
  BY DEF Reading
<1> HIDE DEF next
<1>3. lpc' \in [Procs -> [Loaders -> LoaderSteps]] /\ lpc'[p][l] = next
  BY <1>1, <1>2 DEF Typed, PoolTypeOK
<1>4. todo' \in [Procs -> [Loaders -> SUBSET Instances]] /\ todo'[p][l] = rest
  BY <1>2 DEF Typed
<1> QED BY <1>3, <1>4 DEF next

LEMMA LoaderStepTyped ==
    ASSUME Typed, NEW p \in Procs, NEW l \in Loaders, LoaderStep(p, l)
    PROVE  Typed'
<1>1. CASE ReadDir(p, l)
  <2>1. Reading(p, l, {i \in Instances : file[i] # "none"})
    BY <1>1 DEF ReadDir
  <2> QED BY <1>1, <2>1, ReadingType DEF ReadDir, Typed, PoolTypeOK
<1>2. CASE \E i \in Instances : ReadFile(p, l, i)
  <2> PICK i \in Instances : ReadFile(p, l, i)
    BY <1>2
  <2>1. todo[p][l] \ {i} \in SUBSET Instances /\ Reading(p, l, todo[p][l] \ {i})
    BY DEF Typed, ReadFile
  <2> DEFINE found == IF file[i] = "full" THEN snap[p][l] \cup {i} ELSE snap[p][l]
  <2>2. found \in SUBSET Instances
    BY DEF Typed, PoolTypeOK
  <2>3. snap' = [snap EXCEPT ![p][l] = found]
    BY DEF ReadFile
  <2> HIDE DEF found
  <2> QED BY <2>1, <2>2, <2>3, ReadingType DEF ReadFile, Typed, PoolTypeOK
<1>3. CASE \E i \in Instances : SkipFile(p, l, i)
  <2> PICK i \in Instances : SkipFile(p, l, i)
    BY <1>3
  <2>1. todo[p][l] \ {i} \in SUBSET Instances /\ Reading(p, l, todo[p][l] \ {i})
    BY DEF Typed, SkipFile
  <2>2. kept' \in [Procs -> [Loaders -> SUBSET Instances]]
    BY DEF SkipFile, Typed, PoolTypeOK
  <2>3. told' \in [Procs -> BOOLEAN]
    BY DEF SkipFile, Misses, Typed
  <2>4. mishaps' \in 0..MaxMishaps
    BY MishapAssumption DEF SkipFile, Mishap, Typed, PoolTypeOK
  <2> QED BY <2>1, <2>2, <2>3, <2>4, ReadingType DEF SkipFile, Typed, PoolTypeOK
<1>4. CASE ReadDirFails(p, l)
  <2>1. told' \in [Procs -> BOOLEAN]
    BY <1>4 DEF ReadDirFails, Misses, Typed
  <2> QED BY <1>4, <2>1 DEF ReadDirFails, LoadFails, Ended, Typed, PoolTypeOK, LoaderSteps
<1>5. CASE Purge(p, l) /\ UNCHANGED localVars
  <2>1. PurgePool(snap[p][l]) \in Pools
    BY PurgePoolType DEF Typed, PoolTypeOK
  <2>2. snap' \in [Procs -> [Loaders -> SUBSET Instances]]
    <3>1. CASE l = "watch"
      BY <1>5, <3>1 DEF Purge, Forgets, Typed, PoolTypeOK
    <3>2. CASE l # "watch"
      <4>1. snap' = [snap EXCEPT ![p][l] = {}]
        BY <1>5, <3>2 DEF Purge, Forgets
      <4> QED BY <4>1 DEF Typed, PoolTypeOK
    <3> QED BY <3>1, <3>2
  <2> QED BY <1>5, <2>1, <2>2 DEF Purge, Ended, Typed, PoolTypeOK, LoaderSteps, localVars
<1> QED BY <1>1, <1>2, <1>3, <1>4, <1>5, LoaderStep(p, l) DEF LoaderStep

LEMMA ProcessStepTyped ==
    ASSUME Typed, Unwritten, NEW p \in Procs, ProcessStep(p)
    PROVE  Typed' /\ Unwritten'
<1> USE DEF Typed, PoolTypeOK, Phases, localVars, Unwritten
<1>1. CASE StartTicker(p) /\ UNCHANGED localVars
  BY <1>1 DEF StartTicker
<1>2. CASE InitPool(p) /\ UNCHANGED localVars
  BY <1>2, NewPoolType DEF InitPool
<1>3. CASE Watch(p)
  BY <1>3 DEF Watch, StartWatch
<1>4. CASE SignalStop(p) /\ UNCHANGED localVars
  BY <1>4 DEF SignalStop
<1>5. CASE Stopped(p) /\ UNCHANGED localVars
  BY <1>5 DEF Stopped
<1>6. CASE ProcessEnds(p)
  BY <1>6, NewPoolType, MishapAssumption
  DEF ProcessEnds, Crash, Mishap, NoLoads, InsStates, LoaderSteps
<1>7. CASE Receive(p)
  BY <1>7 DEF Receive, Begin, Loaders, LoaderSteps, Registered
<1>8. CASE TickBegin(p, Registered) /\ UNCHANGED localVars
  BY <1>8 DEF TickBegin, Begin, Loaders, LoaderSteps, Registered
<1> QED BY <1>1, <1>2, <1>3, <1>4, <1>5, <1>6, <1>7, <1>8, ProcessStep(p) DEF ProcessStep

\* Every reachable state of the local registry is well typed, and an instance that was not
\* registered has no file, for any processes and instances (Register of local.go).
THEOREM LocalTypeCorrect == Spec => [](Typed /\ Unwritten)
<1>1. Init => Typed /\ Unwritten
  BY InitTyped DEF Init, PoolInit, Unwritten
<1>2. Typed /\ Unwritten /\ UNCHANGED vars => Typed' /\ Unwritten'
  BY DEF Typed, PoolTypeOK, Unwritten, vars, poolVars, localVars
<1>3. ASSUME Typed, Unwritten, NEW p \in Procs, NEW l \in Loaders, LoaderStep(p, l)
      PROVE  Unwritten'
  BY <1>3, LoaderStepFrame DEF Unwritten
<1>4. Typed /\ Unwritten /\ [Next]_vars => Typed' /\ Unwritten'
  BY <1>2, <1>3, InstanceStepTyped, LoaderStepTyped, ProcessStepTyped DEF Next
<1> QED BY <1>1, <1>4, PTL DEF Spec

-----------------------------------------------------------------------------
(* Loads of the local registry are regular.                                 *)

LEMMA InitRefills == Init => Refills
BY DEF Init, PoolInit, Refills, Refill

LEMMA RefillUntouched ==
    ASSUME NEW p, NEW l, Refill(p, l), Registered' = Registered,
           lpc'[p][l] = lpc[p][l], snap'[p][l] = snap[p][l], kept'[p][l] = kept[p][l],
           seen'[p][l] = seen[p][l], todo'[p][l] = todo[p][l]
    PROVE  Refill(p, l)'
BY DEF Refill

LEMMA InstanceStepRefills ==
    ASSUME Typed, Unwritten, Refills, NEW i \in Instances, InstanceStep(i)
    PROVE  Refills'
<1> SUFFICES ASSUME NEW p \in Procs, NEW l \in Loaders PROVE Refill(p, l)'
  BY DEF Refills
<1>1. Refill(p, l)
  BY DEF Refills
<1>2. UNCHANGED <<lpc, snap, todo>>
  BY InstanceStepFiles
<1>3. CASE Registered' = Registered /\ UNCHANGED <<kept, seen>>
  BY <1>1, <1>2, <1>3, RefillUntouched
<1>4. CASE Registered' = Registered \cup {i} /\ Appears(i)
  <2>1. /\ kept'[p][l] = kept[p][l]
        /\ seen'[p][l] = IF lpc[p][l] = "idle" THEN seen[p][l] ELSE seen[p][l] \cup {i}
    BY <1>4 DEF Appears
  <2> QED BY <1>1, <1>2, <1>4, <2>1 DEF Refill
<1>5. CASE Registered' = Registered \ {i} /\ Vanishes(i)
  <2>1. kept'[p][l] = kept[p][l] \ {i} /\ seen'[p][l] = seen[p][l]
    BY <1>5 DEF Vanishes
  <2> QED BY <1>1, <1>2, <1>5, <2>1 DEF Refill
<1> QED BY <1>3, <1>4, <1>5, InstanceStepFiles DEF Unnoticed, Noticed, Registered

LEMMA LoaderStepRefills ==
    ASSUME Typed, Refills, NEW p \in Procs, NEW l \in Loaders, LoaderStep(p, l)
    PROVE  Refills'
<1>1. Registered' = Registered
  BY LoaderStepFrame DEF Registered
<1>2. ASSUME NEW q \in Procs, NEW k \in Loaders, q # p \/ k # l PROVE Refill(q, k)'
  BY <1>1, <1>2, LoaderStepFrame, RefillUntouched DEF Refills
<1>3. Refill(p, l)
  BY DEF Refills
<1>4. Refill(p, l)'
  <2>1. CASE ReadDir(p, l)
    <3> DEFINE listed == {i \in Instances : file[i] # "none"}
    <3>1. /\ Reading(p, l, listed)
          /\ UNCHANGED <<kept, seen>>
          /\ snap'[p][l] = {}
          /\ lpc[p][l] = "begun"
      BY <2>1 DEF ReadDir, Typed, PoolTypeOK
    <3>2. Registered \subseteq listed
      BY DEF Registered
    <3>3. /\ todo'[p][l] = listed
          /\ lpc'[p][l] = IF listed = {} THEN "loaded" ELSE "reading"
      BY <3>1, ReadingType
    <3> HIDE DEF listed
    <3> QED BY <1>1, <1>3, <3>1, <3>2, <3>3 DEF Refill
  <2>2. CASE \E i \in Instances : ReadFile(p, l, i)
    <3> PICK i \in Instances : ReadFile(p, l, i)
      BY <2>2
    <3> DEFINE rest == todo[p][l] \ {i}
               found == IF file[i] = "full" THEN snap[p][l] \cup {i} ELSE snap[p][l]
    <3>1. rest \in SUBSET Instances
      BY DEF Typed
    <3>2. /\ Reading(p, l, rest)
          /\ UNCHANGED <<kept, seen>>
          /\ snap' = [snap EXCEPT ![p][l] = found]
          /\ lpc[p][l] = "reading"
      BY DEF ReadFile
    <3>3. /\ todo'[p][l] = rest
          /\ lpc'[p][l] = IF rest = {} THEN "loaded" ELSE "reading"
      BY <3>1, <3>2, ReadingType
    <3>4. snap'[p][l] = found
      <4> HIDE DEF found
      <4> QED BY <3>2 DEF Typed, PoolTypeOK
    <3>5. /\ found \subseteq snap[p][l] \cup Registered
          /\ snap[p][l] \subseteq found
          /\ i \in Registered => i \in found
      BY DEF Registered
    <3>6. kept[p][l] \subseteq found \cup rest
      BY <1>3, <3>2, <3>5 DEF Refill
    <3>7. found \subseteq seen[p][l]
      BY <1>3, <3>2, <3>5 DEF Refill
    <3> HIDE DEF rest, found
    <3> QED BY <1>1, <1>3, <3>2, <3>3, <3>4, <3>6, <3>7 DEF Refill
  <2>3. CASE \E i \in Instances : SkipFile(p, l, i)
    <3> PICK i \in Instances : SkipFile(p, l, i)
      BY <2>3
    <3> DEFINE rest == todo[p][l] \ {i}
    <3>1. rest \in SUBSET Instances
      BY DEF Typed
    <3>2. /\ Reading(p, l, rest)
          /\ UNCHANGED <<snap, seen>>
          /\ kept'[p][l] = kept[p][l] \ {i}
          /\ lpc[p][l] = "reading"
      <4>1. kept \in [Procs -> [Loaders -> SUBSET Instances]]
        BY DEF Typed, PoolTypeOK
      <4>2. kept' = [kept EXCEPT ![p][l] = kept[p][l] \ {i}]
        BY DEF SkipFile
      <4>3. kept'[p][l] = kept[p][l] \ {i}
        BY <4>1, <4>2
      <4> QED BY <4>3 DEF SkipFile
    <3>3. /\ todo'[p][l] = rest
          /\ lpc'[p][l] = IF rest = {} THEN "loaded" ELSE "reading"
      <4> HIDE DEF rest
      <4> QED BY <3>1, <3>2, ReadingType
    <3>4. kept'[p][l] \subseteq snap[p][l] \cup rest
      BY <1>3, <3>2 DEF Refill
    <3> HIDE DEF rest
    <3> QED BY <1>1, <1>3, <3>2, <3>3, <3>4 DEF Refill
  <2>4. CASE ReadDirFails(p, l) \/ Purge(p, l)
    <3>1. lpc'[p][l] = "idle"
      BY <2>4 DEF ReadDirFails, LoadFails, Purge, Ended, Typed, PoolTypeOK
    <3> QED BY <3>1 DEF Refill
  <2> QED BY <2>1, <2>2, <2>3, <2>4, LoaderStep(p, l) DEF LoaderStep
<1> QED
  <2> SUFFICES ASSUME NEW q \in Procs, NEW k \in Loaders PROVE Refill(q, k)'
    BY DEF Refills
  <2>1. CASE q = p /\ k = l
    BY <1>4, <2>1
  <2> QED BY <1>2, <2>1

LEMMA BeginRefills ==
    ASSUME Typed, Refills, NEW p \in Procs, NEW l \in Loaders,
           Begin(p, l, Registered), UNCHANGED <<file, todo>>
    PROVE  Refills'
BY DEF Typed, PoolTypeOK, Refills, Refill, Begin, Registered

LEMMA QuietRefills ==
    ASSUME Refills, UNCHANGED <<file, todo, lpc, snap, kept, seen>>
    PROVE  Refills'
BY DEF Refills, Refill, Registered

LEMMA ProcessStepRefills ==
    ASSUME Typed, Refills, NEW p \in Procs, ProcessStep(p)
    PROVE  Refills'
<1> USE DEF localVars
<1>1. CASE StartTicker(p) /\ UNCHANGED localVars
  BY <1>1, QuietRefills DEF StartTicker
<1>2. CASE InitPool(p) /\ UNCHANGED localVars
  BY <1>2, QuietRefills DEF InitPool
<1>3. CASE Watch(p)
  BY <1>3, QuietRefills DEF Watch, StartWatch
<1>4. CASE SignalStop(p) /\ UNCHANGED localVars
  BY <1>4, QuietRefills DEF SignalStop
<1>5. CASE Stopped(p) /\ UNCHANGED localVars
  BY <1>5, QuietRefills DEF Stopped
<1>6. CASE ProcessEnds(p)
  BY <1>6 DEF ProcessEnds, Crash, NoLoads, Typed, PoolTypeOK, Refills, Refill, Registered
<1>7. CASE Receive(p)
  BY <1>7, BeginRefills, WatchLoads DEF Receive
<1>8. CASE TickBegin(p, Registered) /\ UNCHANGED localVars
  BY <1>8, BeginRefills, WatchLoads DEF TickBegin
<1> QED BY <1>1, <1>2, <1>3, <1>4, <1>5, <1>6, <1>7, <1>8, ProcessStep(p) DEF ProcessStep

LEMMA RefillsAlways == Spec => []Refills
<1>1. Typed /\ Unwritten /\ Refills /\ [Next]_vars => Refills'
  <2>1. Refills /\ UNCHANGED vars => Refills'
    BY QuietRefills DEF vars, poolVars, localVars
  <2> QED BY <2>1, InstanceStepRefills, LoaderStepRefills, ProcessStepRefills DEF Next
<1> QED BY <1>1, InitRefills, LocalTypeCorrect, PTL DEF Spec

-----------------------------------------------------------------------------
(* No wake-up of the local registry's watcher is lost.                      *)

LEMMA InitAwake == Init => AllAwake
BY ObserverAssumption DEF Init, AllAwake, Awake

\* Nothing that Awake speaks of has changed for p.
LEMMA AwakeUntouched ==
    ASSUME NEW p, Awake(p), Registered' = Registered, told'[p] => told[p],
           Watching(p) => Watching(p)', events'[p] = events[p],
           lpc'[p]["watch"] = lpc[p]["watch"], snap'[p]["watch"] = snap[p]["watch"],
           todo'[p]["watch"] = todo[p]["watch"]
    PROVE  Awake(p)'
BY DEF Awake, Found

LEMMA InstanceStepAwake ==
    ASSUME Typed, Unwritten, AllAwake, NEW i \in Instances, InstanceStep(i)
    PROVE  AllAwake'
<1> SUFFICES ASSUME NEW p \in Observers PROVE Awake(p)'
  BY DEF AllAwake
<1>1. Awake(p) /\ p \in Procs
  BY ObserverAssumption DEF AllAwake
<1>2. UNCHANGED <<phase, lpc, snap, todo>>
  BY InstanceStepFiles
<1>3. Watching(p)' = Watching(p)
  BY <1>2 DEF Watching
<1>4. CASE Unnoticed
  BY <1>1, <1>2, <1>3, <1>4, AwakeUntouched DEF Unnoticed, Registered
<1>5. CASE Noticed(i)
  <2>1. /\ events'[p] = IF Watching(p) THEN events[p] + 1 ELSE events[p]
        /\ told'[p] = (told[p] \/ Watching(p))
    BY <1>1, <1>5 DEF Noticed, Notify
  <2>2. CASE Watching(p)
    <3>1. events'[p] # 0
      BY <1>1, <2>1, <2>2 DEF Typed
    <3> QED BY <1>3, <2>2, <3>1 DEF Awake
  <2>3. CASE ~Watching(p)
    BY <1>1, <2>1, <2>3 DEF Awake
  <2> QED BY <2>2, <2>3
<1> QED BY <1>4, <1>5, InstanceStepFiles

LEMMA LoaderStepAwake ==
    ASSUME Typed, AllAwake, NEW p \in Procs, NEW l \in Loaders, LoaderStep(p, l)
    PROVE  AllAwake'
<1> SUFFICES ASSUME NEW q \in Observers PROVE Awake(q)'
  BY DEF AllAwake
<1>1. Awake(q) /\ q \in Procs
  BY ObserverAssumption DEF AllAwake
<1>2. Registered' = Registered /\ events' = events /\ Watching(q)' = Watching(q)
  BY LoaderStepFrame DEF Registered, Watching
<1>3. told'[q] => told[q]
  BY <1>1 DEF LoaderStep, ReadDir, ReadFile, SkipFile, ReadDirFails, Misses, localVars, Typed
<1>4. CASE q # p \/ l # "watch"
  BY <1>1, <1>2, <1>3, <1>4, LoaderStepFrame, AwakeUntouched, WatchLoads
<1>5. CASE q = p /\ l = "watch"
  <2>1. CASE ReadDir(p, l)
    <3> DEFINE listed == {i \in Instances : file[i] # "none"}
    <3>1. Reading(p, l, listed) /\ snap'[p][l] = {}
      BY <2>1 DEF ReadDir, Typed, PoolTypeOK
    <3>2. Registered \subseteq listed
      BY DEF Registered
    <3>3. /\ todo'[p][l] = listed
          /\ lpc'[p][l] = IF listed = {} THEN "loaded" ELSE "reading"
      BY <3>1, ReadingType
    <3> HIDE DEF listed
    <3>4. Found(q)'
      BY <1>2, <1>5, <3>1, <3>2, <3>3 DEF Found
    <3> QED BY <1>1, <1>2, <1>3, <3>4 DEF Awake
  <2>2. CASE \E i \in Instances : ReadFile(p, l, i)
    <3> PICK i \in Instances : ReadFile(p, l, i)
      BY <2>2
    <3> DEFINE rest == todo[p][l] \ {i}
               found == IF file[i] = "full" THEN snap[p][l] \cup {i} ELSE snap[p][l]
    <3>1. rest \in SUBSET Instances
      BY DEF Typed
    <3>2. /\ Reading(p, l, rest)
          /\ snap' = [snap EXCEPT ![p][l] = found]
          /\ lpc[p][l] = "reading"
      BY DEF ReadFile
    <3>3. /\ todo'[p][l] = rest
          /\ lpc'[p][l] = IF rest = {} THEN "loaded" ELSE "reading"
      BY <3>1, <3>2, ReadingType
    <3>4. snap'[p][l] = found
      <4> HIDE DEF found
      <4> QED BY <3>2 DEF Typed, PoolTypeOK
    <3>5. ASSUME Found(q) PROVE Found(q)'
      <4>1. /\ snap[p][l] \subseteq Registered
            /\ Registered \subseteq snap[p][l] \cup todo[p][l]
        BY <1>5, <3>2, <3>5 DEF Found
      <4>2. found \subseteq Registered /\ Registered \subseteq found \cup rest
        BY <4>1 DEF Registered
      <4> HIDE DEF found, rest
      <4> QED BY <1>2, <1>5, <3>3, <3>4, <4>2 DEF Found
    <3> QED BY <1>1, <1>2, <1>3, <3>5 DEF Awake
  <2>3. CASE (\E i \in Instances : SkipFile(p, l, i)) \/ ReadDirFails(p, l)
    <3>1. ~told'[q]
      BY <1>1, <1>5, <2>3 DEF SkipFile, ReadDirFails, Misses, Typed
    <3> QED BY <3>1 DEF Awake
  <2>4. CASE Purge(p, l) /\ UNCHANGED localVars
    <3>1. /\ snap' = snap /\ todo' = todo
          /\ lpc[p][l] = "loaded" /\ lpc'[p][l] = "idle"
      BY <1>5, <2>4 DEF Purge, Forgets, Ended, localVars, Typed, PoolTypeOK
    <3>2. Found(q) => Found(q)'
      BY <1>2, <1>5, <3>1 DEF Found
    <3> QED BY <1>1, <1>2, <1>3, <3>2 DEF Awake
  <2> QED BY <2>1, <2>2, <2>3, <2>4, LoaderStep(p, l) DEF LoaderStep
<1> QED BY <1>4, <1>5

LEMMA ProcessStepAwake ==
    ASSUME Typed, AllAwake, NEW p \in Procs, ProcessStep(p)
    PROVE  AllAwake'
<1> SUFFICES ASSUME NEW q \in Observers PROVE Awake(q)'
  BY DEF AllAwake
<1>1. Awake(q) /\ q \in Procs
  BY ObserverAssumption DEF AllAwake
<1> USE WatchLoads DEF localVars
<1>2. CASE StartTicker(p) /\ UNCHANGED localVars
  BY <1>1, <1>2, AwakeUntouched DEF StartTicker, Watching, Registered, Typed, PoolTypeOK
<1>3. CASE InitPool(p) /\ UNCHANGED localVars
  BY <1>1, <1>3, AwakeUntouched DEF InitPool, Watching, Registered, Typed, PoolTypeOK
<1>4. CASE Watch(p)
  <2>1. CASE q = p
    <3>1. ~Watching(q) /\ told' = told
      BY <1>4, <2>1 DEF Watch, StartWatch, Watching
    <3> QED BY <1>1, <3>1 DEF Awake
  <2>2. CASE q # p
    BY <1>1, <1>4, <2>2, AwakeUntouched
    DEF Watch, StartWatch, Watching, Registered, Typed, PoolTypeOK
  <2> QED BY <2>1, <2>2
<1>5. CASE SignalStop(p) /\ UNCHANGED localVars
  BY <1>1, <1>5, AwakeUntouched DEF SignalStop, Watching, Registered, Typed, PoolTypeOK
<1>6. CASE Stopped(p) /\ UNCHANGED localVars
  BY <1>1, <1>6, AwakeUntouched DEF Stopped, Watching, Registered, Typed, PoolTypeOK
<1>7. CASE ProcessEnds(p)
  <2>1. CASE q = p
    BY <1>1, <1>7, <2>1 DEF ProcessEnds, Awake, Typed
  <2>2. CASE q # p
    BY <1>1, <1>7, <2>2, AwakeUntouched
    DEF ProcessEnds, Crash, Watching, Registered, Typed, PoolTypeOK
  <2> QED BY <2>1, <2>2
<1>8. CASE Receive(p)
  <2>1. CASE q = p
    <3>1. lpc'[q]["watch"] = "begun" /\ told' = told /\ Watching(q)' = Watching(q)
      BY <1>1, <1>8, <2>1 DEF Receive, Begin, Watching, Typed, PoolTypeOK
    <3> QED BY <1>1, <3>1 DEF Awake, Found
  <2>2. CASE q # p
    BY <1>1, <1>8, <2>2, AwakeUntouched
    DEF Receive, Begin, Watching, Registered, Typed, PoolTypeOK
  <2> QED BY <2>1, <2>2
<1>9. CASE TickBegin(p, Registered) /\ UNCHANGED localVars
  BY <1>1, <1>9, AwakeUntouched
  DEF TickBegin, Begin, Watching, Registered, Typed, PoolTypeOK
<1> QED BY <1>2, <1>3, <1>4, <1>5, <1>6, <1>7, <1>8, <1>9, ProcessStep(p) DEF ProcessStep

LEMMA AwakeAlways == Spec => []AllAwake
<1>1. AllAwake /\ UNCHANGED vars => AllAwake'
  BY DEF AllAwake, Awake, Found, Watching, Registered, vars, poolVars, localVars
<1>2. Typed /\ Unwritten /\ AllAwake /\ [Next]_vars => AllAwake'
  BY <1>1, InstanceStepAwake, LoaderStepAwake, ProcessStepAwake DEF Next
<1> QED BY <1>2, InitAwake, LocalTypeCorrect, PTL DEF Spec

\* For any processes, instances and failures: a Load over the directory is explained by the
\* files that were there while it ran, although it reads them one by one, and when the
\* watcher waits with no event queued its last Load has found what is there, unless a file
\* operation of it failed (RefillsAreSound, of Load and Watch in local.go).
THEOREM LocalRefillsAreSound == Spec => []RefillsAreSound
<1>1. Typed /\ Refills => LoadIsRegular
  BY DEF Typed, PoolTypeOK, LoaderSteps, Refills, Refill, LoadIsRegular
<1>2. AllAwake => NoMissedChange
  BY DEF AllAwake, Awake, Found, NoMissedChange
<1>3. Typed /\ Refills /\ AllAwake => RefillsAreSound
  BY <1>1, <1>2 DEF RefillsAreSound
<1> QED BY <1>3, RefillsAlways, AwakeAlways, LocalTypeCorrect, PTL

-----------------------------------------------------------------------------
(* The local registry implements the abstract view.                         *)

LEMMA InitImplements == Init => View!Init
<1> SUFFICES ASSUME Init PROVE View!Init
  OBVIOUS
<1>1. Registered = {}
  BY DEF Init, Registered
<1> QED BY <1>1 DEF Init, PoolInit, View!Init, NoLoads, Loaders, NewPool, View!NewPool

LEMMA InstanceStepImplements ==
    ASSUME Typed, Unwritten, NEW i \in Instances, InstanceStep(i)
    PROVE  View!Next \/ UNCHANGED View!viewVars
<1> USE DEF Typed, PoolTypeOK
<1>1. UNCHANGED <<lpc, pool>>
  BY InstanceStepFiles
<1>2. CASE Registered' = Registered /\ UNCHANGED <<kept, seen>>
  BY <1>1, <1>2 DEF View!viewVars
<1>3. CASE Registered' = Registered \cup {i} /\ Appears(i)
  <2>1. View!Add(i)
    BY <1>1, <1>3 DEF Appears, View!Add
  <2> QED BY <2>1 DEF View!Next
<1>4. CASE Registered' = Registered \ {i} /\ Vanishes(i)
  <2>1. View!Remove(i)
    BY <1>1, <1>4 DEF Vanishes, View!Remove
  <2> QED BY <2>1 DEF View!Next
<1> QED BY <1>2, <1>3, <1>4, InstanceStepFiles DEF Unnoticed, Noticed, Registered

LEMMA BeginImplements ==
    ASSUME Typed, NEW p \in Procs, NEW l \in Loaders, Begin(p, l, Registered),
           UNCHANGED file
    PROVE  View!Open(p, l)
<1> USE DEF Typed, PoolTypeOK, Begin
<1> DEFINE Open(q) == {k \in Loaders : lpc[q][k] # "idle"}
           OpenNext(q) == {k \in Loaders : lpc'[q][k] # "idle"}
<1>1. OpenNext(p) = Open(p) \cup {l} /\ l \notin Open(p)
  OBVIOUS
<1>2. \A q \in Procs : q # p => OpenNext(q) = Open(q)
  OBVIOUS
<1>3. [q \in Procs |-> OpenNext(q)]
         = [[q \in Procs |-> Open(q)] EXCEPT ![p] = @ \cup {l}]
  <2> HIDE DEF Open, OpenNext
  <2> QED BY <1>1, <1>2
<1>4. Registered' = Registered
  BY DEF Registered
<1>5. l \notin [q \in Procs |-> Open(q)][p]
  <2> HIDE DEF Open
  <2> QED BY <1>1
<1> QED BY <1>3, <1>4, <1>5 DEF View!Open

LEMMA EndedImplements ==
    ASSUME Typed, NEW p \in Procs, NEW l \in Loaders, lpc[p][l] # "idle", Ended(p, l),
           UNCHANGED file
    PROVE  View!Close(p, l)
<1> USE DEF Typed, PoolTypeOK, Ended
<1> DEFINE Open(q) == {k \in Loaders : lpc[q][k] # "idle"}
           OpenNext(q) == {k \in Loaders : lpc'[q][k] # "idle"}
<1>1. OpenNext(p) = Open(p) \ {l} /\ l \in Open(p)
  OBVIOUS
<1>2. \A q \in Procs : q # p => OpenNext(q) = Open(q)
  OBVIOUS
<1>3. [q \in Procs |-> OpenNext(q)]
         = [[q \in Procs |-> Open(q)] EXCEPT ![p] = @ \ {l}]
  <2> HIDE DEF Open, OpenNext
  <2> QED BY <1>1, <1>2
<1>4. Registered' = Registered
  BY DEF Registered
<1>5. l \in [q \in Procs |-> Open(q)][p]
  <2> HIDE DEF Open
  <2> QED BY <1>1
<1> QED BY <1>3, <1>4, <1>5 DEF View!Close

\* A Load that goes on reading opens and closes nothing.
LEMMA ReadingStays ==
    ASSUME Typed, NEW p \in Procs, NEW l \in Loaders, lpc[p][l] # "idle",
           NEW rest \in SUBSET Instances, Reading(p, l, rest)
    PROVE  \A q \in Procs, k \in Loaders : lpc'[q][k] = "idle" <=> lpc[q][k] = "idle"
<1>1. lpc'[p][l] # "idle"
  BY ReadingType
<1>2. \A q \in Procs, k \in Loaders : q # p \/ k # l => lpc'[q][k] = lpc[q][k]
  BY DEF Reading, Typed, PoolTypeOK
<1> QED BY <1>1, <1>2

LEMMA LoaderStepImplements ==
    ASSUME Typed, Refills, NEW p \in Procs, NEW l \in Loaders, LoaderStep(p, l)
    PROVE  View!Next \/ UNCHANGED View!viewVars
<1>0. Registered' = Registered
  BY LoaderStepFrame DEF Registered
<1>1. CASE ReadDir(p, l)
  <2>1. \A q \in Procs, k \in Loaders : lpc'[q][k] = "idle" <=> lpc[q][k] = "idle"
    BY <1>1, ReadingStays DEF ReadDir
  <2> QED BY <1>0, <1>1, <2>1 DEF ReadDir, View!viewVars
<1>2. CASE \E i \in Instances : ReadFile(p, l, i)
  <2> PICK i \in Instances : ReadFile(p, l, i)
    BY <1>2
  <2>1. todo[p][l] \ {i} \in SUBSET Instances
    BY DEF Typed
  <2>2. \A q \in Procs, k \in Loaders : lpc'[q][k] = "idle" <=> lpc[q][k] = "idle"
    BY <2>1, ReadingStays DEF ReadFile
  <2>3. UNCHANGED <<kept, seen, pool>>
    BY DEF ReadFile
  <2> QED BY <1>0, <2>2, <2>3 DEF View!viewVars
<1>3. CASE \E i \in Instances : SkipFile(p, l, i)
  <2> PICK i \in Instances : SkipFile(p, l, i)
    BY <1>3
  <2>1. todo[p][l] \ {i} \in SUBSET Instances
    BY DEF Typed
  <2>2. \A q \in Procs, k \in Loaders : lpc'[q][k] = "idle" <=> lpc[q][k] = "idle"
    BY <2>1, ReadingStays DEF SkipFile
  <2>3. View!Miss(p, l, i)
    <3>1. /\ kept' = [kept EXCEPT ![p][l] = @ \ {i}]
          /\ UNCHANGED <<seen, pool>>
          /\ lpc[p][l] = "reading"
      BY DEF SkipFile
    <3> QED BY <1>0, <2>2, <3>1 DEF View!Miss
  <2> QED BY <2>3 DEF View!Next
<1>4. CASE ReadDirFails(p, l)
  <2>1. View!Abandon(p, l)
    BY <1>4, EndedImplements DEF ReadDirFails, LoadFails, View!Abandon
  <2> QED BY <2>1 DEF View!Next
<1>5. CASE Purge(p, l) /\ UNCHANGED localVars
  <2>1. View!Close(p, l)
    BY <1>5, EndedImplements DEF Purge, localVars
  <2>2. /\ snap[p][l] \in SUBSET Instances
        /\ kept[p][l] \subseteq snap[p][l] /\ snap[p][l] \subseteq seen[p][l]
    BY <1>5 DEF Purge, Refills, Refill, Typed, PoolTypeOK
  <2>3. pool' = [pool EXCEPT ![p] = View!PurgePool(snap[p][l])]
    BY <1>5 DEF Purge, PurgePool, View!PurgePool
  <2>4. View!Install(p, l)
    BY <2>1, <2>2, <2>3 DEF View!Install
  <2> QED BY <2>4 DEF View!Next
<1> QED BY <1>1, <1>2, <1>3, <1>4, <1>5, LoaderStep(p, l) DEF LoaderStep

LEMMA ProcessStepImplements ==
    ASSUME Typed, NEW p \in Procs, ProcessStep(p)
    PROVE  View!Next \/ UNCHANGED View!viewVars
<1> USE DEF View!viewVars, localVars, Registered
<1>1. CASE StartTicker(p) /\ UNCHANGED localVars
  BY <1>1 DEF StartTicker
<1>2. CASE InitPool(p) /\ UNCHANGED localVars
  <2>1. View!Empty(p)
    BY <1>2 DEF InitPool, View!Empty, NewPool, View!NewPool
  <2> QED BY <2>1 DEF View!Next
<1>3. CASE Watch(p)
  BY <1>3 DEF Watch, StartWatch
<1>4. CASE SignalStop(p) /\ UNCHANGED localVars
  BY <1>4 DEF SignalStop
<1>5. CASE Stopped(p) /\ UNCHANGED localVars
  BY <1>5 DEF Stopped
<1>6. CASE ProcessEnds(p)
  <2>1. View!Empty(p)
    BY <1>6 DEF ProcessEnds, Crash, View!Empty, NewPool, View!NewPool, NoLoads, Loaders,
                Typed, PoolTypeOK
  <2> QED BY <2>1 DEF View!Next
<1>7. CASE Receive(p)
  <2> HIDE DEF Registered
  <2>1. View!Open(p, "watch")
    BY <1>7, BeginImplements, WatchLoads DEF Receive
  <2> QED BY <2>1 DEF View!Next, Loaders
<1>8. CASE TickBegin(p, Registered) /\ UNCHANGED localVars
  <2> HIDE DEF Registered
  <2>1. View!Open(p, "tick")
    BY <1>8, BeginImplements, WatchLoads DEF TickBegin
  <2> QED BY <2>1 DEF View!Next, Loaders
<1> QED BY <1>1, <1>2, <1>3, <1>4, <1>5, <1>6, <1>7, <1>8, ProcessStep(p) DEF ProcessStep

\* Every behaviour of the local registry is one of RegistryView: a process's pool is a
\* regular cache of the files it could read, for any processes, instances and failures.
THEOREM LocalImplements == Spec => ImplementsView
<1>1. Typed /\ Unwritten /\ Refills /\ [Next]_vars => [View!Next]_(View!viewVars)
  <2> SUFFICES ASSUME Typed, Unwritten, Refills, [Next]_vars
               PROVE  View!Next \/ UNCHANGED View!viewVars
    OBVIOUS
  <2>1. CASE UNCHANGED vars
    BY <2>1 DEF vars, poolVars, localVars, View!viewVars, Registered
  <2> QED BY <2>1, InstanceStepImplements, LoaderStepImplements, ProcessStepImplements
          DEF Next
<1> QED BY <1>1, InitImplements, LocalTypeCorrect, RefillsAlways, PTL
        DEF Spec, ImplementsView, View!Spec

-----------------------------------------------------------------------------
(* The pool in use: what SetPool has replaced stays as it is.               *)


\* Pools are numbered as they are made, and only those that were made are current, retired
\* or being changed (InitPool, SetPool and the helpers of registry/pool.go).
Numbered ==
    /\ made \in 0..MaxPools
    /\ cur \in 0..made
    /\ retired \subseteq 1..made
    /\ cur \notin retired
    /\ pools = [p \in PoolIds |-> pools[p]]

\* A helper inside a call holds poolLock, alone, and its pool is not retired.
HelperInv ==
    \A h \in Helpers :
        target[h] # 0 => /\ lock = {h}
                         /\ target[h] \in 1..made
                         /\ target[h] \notin retired

Targets == target \in [Helpers -> Nat]

Inv == Numbered /\ Targets /\ HelperInv

\* Nothing of what Inv speaks of has changed.
Untouched == UNCHANGED <<lock, cur, made, pools, retired, target>>

\* A call of h returns, whatever it does to its pool.
Leaves(h) ==
    /\ \E changed : pools' = [pools EXCEPT ![target[h]] = changed]
    /\ target[h] # 0
    /\ lock' = lock \ {h}
    /\ target' = [target EXCEPT ![h] = 0]
    /\ UNCHANGED <<cur, made, retired>>

LEMMA InitInv == UseInit => Inv
<1> SUFFICES ASSUME UseInit PROVE Inv
  OBVIOUS
<1>1. Numbered
  BY BoundsAssumption DEF UseInit, Numbered, PoolIds
<1>2. Targets /\ HelperInv
  BY DEF UseInit, Targets, HelperInv
<1> QED
  BY <1>1, <1>2 DEF Inv

\* Whatever a reader does, it only moves on in its own walk.
LEMMA ReadersOnlyRead == ASSUME NEW r \in Readers, ReaderStep(r) PROVE Untouched
<1>1. CASE GetPool(r)
  BY <1>1 DEF GetPool, Untouched
<1>2. CASE \E s \in Services : GetInstances(r, s)
  BY <1>2 DEF GetInstances, Untouched
<1>3. CASE \E s \in Services : OpenInstances(r, s)
  BY <1>3 DEF OpenInstances, Untouched
<1>4. CASE ReadServices(r) \/ ReadInstances(r) \/ ReadEnds(r) \/ Return(r)
  BY <1>4 DEF ReadServices, ReadInstances, ReadEnds, Return, Untouched
<1> QED
  BY <1>1, <1>2, <1>3, <1>4 DEF ReaderStep

\* The three helpers change the pool they have found, and give poolLock back.
LEMMA HelpersLeave ==
    ASSUME NEW h \in Helpers, HelperStep(h) PROVE Enter(h) \/ Leaves(h)
<1>1. CASE \E s \in Services : RegisterService(h, s)
  BY <1>1 DEF RegisterService, Leave, Leaves
<1>2. CASE \E i \in Instances : RegisterInstance(h, i)
  <2> PICK i \in Instances : RegisterInstance(h, i)
    BY <1>2
  <2>1. CASE ServiceOf[i] \in DOMAIN pools[target[h]]
    BY <2>1 DEF RegisterInstance, Leave, Leaves
  <2>2. CASE ServiceOf[i] \notin DOMAIN pools[target[h]]
    BY <2>2 DEF RegisterInstance, Leave, Leaves
  <2> QED
    BY <2>1, <2>2
<1>3. CASE \E i \in Instances, s \in Services : UnregisterInstance(h, s, i)
  <2> PICK i \in Instances, s \in Services : UnregisterInstance(h, s, i)
    BY <1>3
  <2>1. CASE s \in DOMAIN pools[target[h]]
    BY <2>1 DEF UnregisterInstance, Leave, Leaves
  <2>2. CASE s \notin DOMAIN pools[target[h]]
    BY <2>2 DEF UnregisterInstance, Leave, Leaves
  <2> QED
    BY <2>1, <2>2
<1> QED
  BY <1>1, <1>2, <1>3 DEF HelperStep

LEMMA NextInv == Inv /\ [UseNext]_useVars => Inv'
<1> SUFFICES ASSUME Inv, [UseNext]_useVars PROVE Inv'
  OBVIOUS
<1> USE BoundsAssumption
<1>1. CASE Untouched
  BY <1>1 DEF Untouched, Inv, Numbered, Targets, HelperInv
<1>2. CASE AssignPool
  <2>1. Numbered'
    BY <1>2 DEF AssignPool, Inv, Numbered
  <2>2. Targets' /\ HelperInv'
    BY <1>2 DEF AssignPool, Inv, Numbered, Targets, HelperInv
  <2> QED
    BY <2>1, <2>2 DEF Inv
<1>3. CASE \E r \in Refillers, loaded \in SUBSET Instances : Install(r, loaded)
  <2> PICK r \in Refillers, loaded \in SUBSET Instances : Install(r, loaded)
    BY <1>3
  <2>1. Numbered'
    <3>1. /\ made' \in 0..MaxPools
          /\ cur' \in 0..made'
          /\ retired' \subseteq 1..made'
          /\ cur' \notin retired'
      BY DEF Install, Inv, Numbered
    <3>2. pools' = [p \in PoolIds |-> pools'[p]]
      BY DEF Install, Inv, Numbered
    <3> QED
      BY <3>1, <3>2 DEF Numbered
  <2>2. \A h \in Helpers : target[h] = 0
    BY DEF Install, Inv, HelperInv
  <2>3. Targets' /\ HelperInv'
    BY <2>2 DEF Install, Inv, Targets, HelperInv
  <2> QED
    BY <2>1, <2>3 DEF Inv
<1>4. CASE \E h \in Helpers : Enter(h)
  <2> PICK h \in Helpers : Enter(h)
    BY <1>4
  <2>1. Numbered'
    BY DEF Enter, Inv, Numbered
  <2>2. \A g \in Helpers : target[g] = 0
    BY DEF Enter, Inv, HelperInv
  <2>3. cur \in 1..made /\ cur \notin retired
    BY DEF Enter, Inv, Numbered
  <2>4. Targets'
    BY <2>3 DEF Enter, Inv, Targets
  <2>5. HelperInv'
    BY <2>2, <2>3 DEF Enter, Inv, Targets, HelperInv
  <2> QED
    BY <2>1, <2>4, <2>5 DEF Inv
<1>5. CASE \E h \in Helpers : Leaves(h)
  <2> PICK h \in Helpers : Leaves(h)
    BY <1>5
  <2>1. Numbered'
    BY DEF Leaves, Inv, Numbered
  <2>2. \A g \in Helpers \ {h} : target[g] = 0
    BY DEF Leaves, Inv, HelperInv
  <2>3. Targets' /\ HelperInv'
    BY <2>2 DEF Leaves, Inv, Targets, HelperInv
  <2> QED
    BY <2>1, <2>3 DEF Inv
<1> QED
  <2>1. CASE UNCHANGED useVars
    BY <1>1, <2>1 DEF useVars, Untouched
  <2>2. CASE \E h \in Helpers : HelperStep(h)
    BY <1>4, <1>5, <2>2, HelpersLeave
  <2>3. CASE \E r \in Readers : ReaderStep(r)
    BY <1>1, <2>3, ReadersOnlyRead
  <2> QED
    BY <1>2, <1>3, <2>1, <2>2, <2>3 DEF UseNext

\* Under Inv no step changes a retired pool.
LEMMA RetiredStays == Inv /\ [UseNext]_useVars => \A p \in retired : pools'[p] = pools[p]
<1> SUFFICES ASSUME Inv, [UseNext]_useVars, NEW p \in retired PROVE pools'[p] = pools[p]
  OBVIOUS
<1>1. p \in PoolIds /\ p # made + 1
  BY BoundsAssumption DEF Inv, Numbered, PoolIds
<1>2. CASE \E h \in Helpers : Leaves(h)
  <2> PICK h \in Helpers : Leaves(h)
    BY <1>2
  <2>1. p # target[h]
    BY DEF Leaves, Inv, HelperInv
  <2> QED
    BY <1>1, <2>1 DEF Leaves, Inv, Numbered
<1>3. CASE \E r \in Refillers, loaded \in SUBSET Instances : Install(r, loaded)
  BY <1>1, <1>3 DEF Install, Inv, Numbered
<1>4. CASE UNCHANGED pools
  BY <1>4
<1> QED
  <2>1. CASE \E h \in Helpers : HelperStep(h)
    BY <1>2, <1>4, <2>1, HelpersLeave DEF Enter
  <2>2. CASE \E r \in Readers : ReaderStep(r)
    BY <1>4, <2>2, ReadersOnlyRead DEF Untouched
  <2> QED
    BY <1>3, <1>4, <2>1, <2>2 DEF UseNext, AssignPool, useVars

\* For any number of helpers, refillers and readers: a pool that SetPool has replaced never
\* changes again, so a walk over it without the lock is safe.
THEOREM RetiredPoolsAreFrozen == UseSpec => RetiredIsFrozen
<1>1. UseSpec => []Inv
  BY InitInv, NextInv, PTL DEF UseSpec
<1>2. Inv /\ [UseNext]_useVars => [\A p \in retired : pools'[p] = pools[p]]_useVars
  BY RetiredStays
<1> QED
  BY <1>1, <1>2, PTL DEF UseSpec, RetiredIsFrozen

-----------------------------------------------------------------------------
(* The pool in use: walks without the lock.                                 *)

ReaderRecords ==
    [at : {"idle", "installed", "services", "between", "instances", "done"},
     of : 0..MaxPools, svc : SUBSET Services, todo : SUBSET Services,
     held : Pools, out : Pools, touched : BOOLEAN]

ReadersTyped ==
    /\ pools \in [PoolIds -> Pools]
    /\ reader \in [Readers -> ReaderRecords]
    /\ dead \in BOOLEAN

\* The walk of r has not begun.
AtRest(r) == reader[r].at \in {"idle", "installed"}

\* Where a walk stands in the pool that it walks over: what it has still to look into is
\* there, for no service ever leaves a pool.
Walk(r) ==
    LET x == reader[r] IN
    /\ x.of \in 0..made
    /\ x.at = "instances" \/ x.svc = {}
    /\ x.at \in {"between", "instances"} \/ x.todo = {}
    /\ AtRest(r) \/ (x.of \in 1..made /\ x.svc \cup x.todo \subseteq DOMAIN pools[x.of])

\* What a walk over a pool that no helper has changed since has read is the pool's, and a
\* refiller has read it all but for what it has still to read.
Faithful(r) ==
    LET x == reader[r] IN
    ~AtRest(r) /\ ~x.touched =>
        /\ DOMAIN x.held = {}
        /\ DOMAIN x.out \subseteq DOMAIN pools[x.of]
        /\ \A s \in DOMAIN x.out : x.out[s] = pools[x.of][s]
        /\ r \in Refillers /\ x.at # "services" =>
              DOMAIN x.out \cup x.svc \cup x.todo = DOMAIN pools[x.of]

Walks == \A r \in Readers : Walk(r) /\ Faithful(r)

ReadersInv == ReadersTyped /\ Walks /\ DiesOnlyOfHelpers

LEMMA PoolsAreFunctions ==
    ASSUME NEW pool1 \in Pools
    PROVE  /\ pool1 = [s \in DOMAIN pool1 |-> pool1[s]]
           /\ DOMAIN pool1 \subseteq Services
           /\ \A s \in DOMAIN pool1 : pool1[s] \subseteq Instances
BY DEF Pools

LEMMA PoolsHold ==
    ASSUME NEW D \in SUBSET Services, NEW f, f \in [D -> SUBSET Instances]
    PROVE  f \in Pools
BY DEF Pools

\* Another reader's walk, over a pool that has stayed as it was.
LEMMA WalkUntouched ==
    ASSUME NEW r, Walk(r), Faithful(r), reader'[r] = reader[r],
           made \in Nat, made' \in Nat, made <= made',
           reader[r].of \in 1..made => pools'[reader[r].of] = pools[reader[r].of]
    PROVE  Walk(r)' /\ Faithful(r)'
<1>1. Walk(r)'
  BY DEF Walk, AtRest
<1>2. Faithful(r)'
  BY DEF Walk, Faithful, AtRest
<1> QED BY <1>1, <1>2

\* What a helper does to the pool p and to those who are walking over it.
Changes(p) ==
    /\ p \in 1..made
    /\ UNCHANGED made
    /\ pools' \in [PoolIds -> Pools]
    /\ \A q \in PoolIds : q # p => pools'[q] = pools[q]
    /\ DOMAIN pools[p] \subseteq DOMAIN pools'[p]
    /\ reader' \in [Readers -> ReaderRecords]
    /\ \A r \in Readers :
          /\ reader[r].of # p => reader'[r] = reader[r]
          /\ reader[r].of = p => /\ reader'[r].touched
                                 /\ reader'[r].at = reader[r].at
                                 /\ reader'[r].of = reader[r].of
                                 /\ reader'[r].svc = reader[r].svc
                                 /\ reader'[r].todo = reader[r].todo
    /\ dead' \in BOOLEAN
    /\ dead' => \E r \in Readers : reader[r].of = p /\ reader[r].at \in {"services", "instances"}

Idles == dead' = FALSE /\ UNCHANGED <<made, pools, reader>>

\* The mark that a helper leaves on a reader of its pool.
LEMMA TouchedReader ==
    ASSUME ReadersTyped, NEW p, NEW r \in Readers
    PROVE  /\ Touched(p)[r] \in ReaderRecords
           /\ reader[r].of # p => Touched(p)[r] = reader[r]
           /\ reader[r].of = p => Touched(p)[r].touched
           /\ Touched(p)[r].at = reader[r].at
           /\ Touched(p)[r].of = reader[r].of
           /\ Touched(p)[r].svc = reader[r].svc
           /\ Touched(p)[r].todo = reader[r].todo
           /\ Touched(p)[r].held = reader[r].held
<1> DEFINE mark == reader[r].touched \/ reader[r].of = p
<1>1. Touched(p)[r] = [reader[r] EXCEPT !.touched = mark]
  BY DEF Touched
<1>2. reader[r] \in ReaderRecords
  BY DEF ReadersTyped
<1>3. mark \in BOOLEAN
  OBVIOUS
<1>4. reader[r].of # p => mark = reader[r].touched
  BY <1>2 DEF ReaderRecords
<1>5. reader[r].of = p => mark
  OBVIOUS
<1> HIDE DEF mark
<1>6. Touched(p)[r].touched = mark
  BY <1>1, <1>2 DEF ReaderRecords
<1>7. /\ Touched(p)[r] \in ReaderRecords
      /\ Touched(p)[r].at = reader[r].at
      /\ Touched(p)[r].of = reader[r].of
      /\ Touched(p)[r].svc = reader[r].svc
      /\ Touched(p)[r].todo = reader[r].todo
      /\ Touched(p)[r].held = reader[r].held
  BY <1>1, <1>2, <1>3 DEF ReaderRecords
<1>8. reader[r].of # p => Touched(p)[r] = reader[r]
  BY <1>1, <1>2, <1>4 DEF ReaderRecords
<1> QED BY <1>5, <1>6, <1>7, <1>8

LEMMA HelpersChange ==
    ASSUME ReadersTyped, Inv, Walks, NEW h \in Helpers, HelperStep(h), ~Enter(h)
    PROVE  Changes(target[h]) \/ Idles
<1> DEFINE p == target[h]
<1>1. ASSUME p # 0
      PROVE  p \in 1..made /\ p \in PoolIds /\ pools[p] \in Pools
             /\ pools = [q \in PoolIds |-> pools[q]]
  BY <1>1, BoundsAssumption DEF Inv, HelperInv, Numbered, PoolIds, ReadersTyped
<1>2. \A r \in Readers : reader[r] \in ReaderRecords
  BY DEF ReadersTyped
<1>3. ASSUME NEW changed \in Pools, p # 0, pools' = [pools EXCEPT ![p] = changed]
      PROVE  /\ pools' \in [PoolIds -> Pools]
             /\ \A q \in PoolIds : q # p => pools'[q] = pools[q]
             /\ pools'[p] = changed
  BY <1>1, <1>3 DEF ReadersTyped
\* A step that changes one service's instances, or adds the service.
<1>4. ASSUME NEW changed \in Pools, NEW endangered \in SUBSET Readers, p # 0,
             Leave(h, changed, endangered),
             DOMAIN pools[p] \subseteq DOMAIN changed,
             reader' = Touched(p),
             \A r \in endangered : reader[r].of = p /\ reader[r].at \in {"services", "instances"}
      PROVE  Changes(p)
  <2>1. /\ pools' = [pools EXCEPT ![p] = changed]
        /\ UNCHANGED made
        /\ dead' \in {FALSE, endangered # {}}
    BY <1>4 DEF Leave
  <2>2. /\ pools' \in [PoolIds -> Pools]
        /\ \A q \in PoolIds : q # p => pools'[q] = pools[q]
        /\ DOMAIN pools[p] \subseteq DOMAIN pools'[p]
    BY <1>3, <1>4, <2>1
  <2>3. reader' \in [Readers -> ReaderRecords]
    <3>1. Touched(p) = [r \in Readers |-> Touched(p)[r]]
      BY DEF Touched
    <3>2. \A r \in Readers : Touched(p)[r] \in ReaderRecords
      BY TouchedReader
    <3> HIDE DEF p
    <3> QED BY <1>4, <3>1, <3>2
  <2>4. dead' \in BOOLEAN /\ (dead' => endangered # {})
    BY <2>1
  <2> QED BY <1>1, <1>4, <2>1, <2>2, <2>3, <2>4, TouchedReader DEF Changes
\* A step that finds no service to change.
<1>5. ASSUME p # 0, Leave(h, pools[p], {}), UNCHANGED reader PROVE Idles
  <2>1. /\ pools' = [pools EXCEPT ![p] = pools[p]]
        /\ UNCHANGED made
        /\ dead' = FALSE
    BY <1>5 DEF Leave
  <2> QED BY <1>1, <1>5, <2>1 DEF Idles
<1>6. CASE \E s \in Services : RegisterService(h, s)
  <2> PICK s \in Services : RegisterService(h, s)
    BY <1>6
  <2> DEFINE changed == [t \in DOMAIN pools[p] \cup {s} |-> IF t = s THEN {} ELSE pools[p][t]]
             endangered == {r \in Readers : reader[r].of = p /\ reader[r].at = "services"}
             keeps(r) == reader[r].of = p
                         /\ s \in (reader[r].todo \cup reader[r].svc) \ DOMAIN reader[r].held
             held(r) == [t \in DOMAIN reader[r].held \cup {s} |->
                            IF t = s THEN pools[p][s] ELSE reader[r].held[t]]
  <2>1. /\ p # 0
        /\ Leave(h, changed, endangered)
        /\ reader' = [r \in Readers |->
             IF keeps(r)
             THEN [Touched(p)[r] EXCEPT
                     !.held = [t \in DOMAIN @ \cup {s} |-> IF t = s THEN pools[p][s] ELSE @[t]]]
             ELSE Touched(p)[r]]
    BY DEF RegisterService
  <2>2. changed \in Pools
    <3>1. DOMAIN pools[p] \cup {s} \in SUBSET Services
      BY <1>1, <2>1, PoolsAreFunctions
    <3>2. changed \in [DOMAIN pools[p] \cup {s} -> SUBSET Instances]
      BY <1>1, <2>1, PoolsAreFunctions
    <3> HIDE DEF changed
    <3> QED BY <3>1, <3>2, PoolsHold
  <2>3. ASSUME NEW r \in Readers, keeps(r) PROVE held(r) \in Pools
    <3>1. s \in DOMAIN pools[p]
      <4>1. Walk(r)
        BY DEF Walks
      <4> QED BY <2>1, <2>3, <4>1, <1>1 DEF Walk, AtRest
    <3>2. pools[p][s] \subseteq Instances
      BY <1>1, <2>1, <3>1, PoolsAreFunctions
    <3>3. reader[r].held \in Pools
      BY <1>2 DEF ReaderRecords
    <3>4. DOMAIN reader[r].held \cup {s} \in SUBSET Services
      BY <3>3, PoolsAreFunctions
    <3>5. \A t \in DOMAIN reader[r].held : reader[r].held[t] \subseteq Instances
      BY <3>3, PoolsAreFunctions
    <3>6. held(r) \in [DOMAIN reader[r].held \cup {s} -> SUBSET Instances]
      BY <3>2, <3>5
    <3> HIDE DEF held
    <3> QED BY <3>4, <3>6, PoolsHold
  <2>4. \A r \in Readers : reader'[r] = IF keeps(r) THEN [Touched(p)[r] EXCEPT !.held = held(r)]
                                        ELSE Touched(p)[r]
    <3> SUFFICES ASSUME NEW r \in Readers
                 PROVE  reader'[r] = IF keeps(r) THEN [Touched(p)[r] EXCEPT !.held = held(r)]
                                     ELSE Touched(p)[r]
      OBVIOUS
    <3>1. Touched(p)[r].held = reader[r].held
      BY TouchedReader
    <3> HIDE DEF keeps, p
    <3> QED BY <2>1, <3>1
  <2>5. /\ pools' \in [PoolIds -> Pools]
        /\ \A q \in PoolIds : q # p => pools'[q] = pools[q]
        /\ DOMAIN pools[p] \subseteq DOMAIN pools'[p]
    <3>1. DOMAIN pools[p] \subseteq DOMAIN changed
      OBVIOUS
    <3>2. pools' = [pools EXCEPT ![p] = changed]
      BY <2>1 DEF Leave
    <3> HIDE DEF changed
    <3> QED BY <1>3, <2>1, <2>2, <3>1, <3>2
  <2>6. ASSUME NEW r \in Readers
        PROVE  /\ reader'[r] \in ReaderRecords
               /\ reader[r].of # p => reader'[r] = reader[r]
               /\ reader[r].of = p => reader'[r].touched
               /\ reader'[r].at = reader[r].at
               /\ reader'[r].of = reader[r].of
               /\ reader'[r].svc = reader[r].svc
               /\ reader'[r].todo = reader[r].todo
    <3>1. keeps(r) => reader[r].of = p
      OBVIOUS
    <3>2. keeps(r) => held(r) \in Pools
      BY <2>3
    <3>3. reader'[r] = IF keeps(r) THEN [Touched(p)[r] EXCEPT !.held = held(r)]
                       ELSE Touched(p)[r]
      BY <2>4
    <3> HIDE DEF keeps, held
    <3> QED BY <3>1, <3>2, <3>3, TouchedReader DEF ReaderRecords
  <2>7. reader' \in [Readers -> ReaderRecords]
    <3>1. reader' = [r \in Readers |-> reader'[r]]
      BY <2>1
    <3> QED BY <2>6, <3>1
  <2>8. dead' \in BOOLEAN /\ (dead' => endangered # {}) /\ UNCHANGED made
    <3> HIDE DEF endangered, changed
    <3> QED BY <2>1 DEF Leave
  <2> QED BY <1>1, <2>1, <2>5, <2>6, <2>7, <2>8 DEF Changes
<1>7. CASE \E i \in Instances : RegisterInstance(h, i)
  <2> PICK i \in Instances : RegisterInstance(h, i)
    BY <1>7
  <2> DEFINE s == ServiceOf[i]
             changed == [pools[p] EXCEPT ![s] = @ \cup {i}]
  <2>1. p # 0
    BY DEF RegisterInstance
  <2>2. CASE s \in DOMAIN pools[p]
    <3>1. changed \in [DOMAIN pools[p] -> SUBSET Instances] /\ DOMAIN pools[p] \subseteq Services
      BY <1>1, <2>1, <2>2, PoolsAreFunctions
    <3>2. changed \in Pools /\ DOMAIN pools[p] \subseteq DOMAIN changed
      <4> HIDE DEF changed
      <4> QED BY <3>1, PoolsHold
    <3>3. Leave(h, changed, Endangered(p, s)) /\ reader' = Touched(p)
      BY <2>2 DEF RegisterInstance
    <3>4. /\ Endangered(p, s) \in SUBSET Readers
          /\ \A r \in Endangered(p, s) :
                reader[r].of = p /\ reader[r].at \in {"services", "instances"}
      BY DEF Endangered
    <3> HIDE DEF changed
    <3> QED BY <1>4, <2>1, <3>2, <3>3, <3>4
  <2>3. CASE s \notin DOMAIN pools[p]
    BY <1>5, <2>1, <2>3 DEF RegisterInstance
  <2> QED BY <2>2, <2>3
<1>8. CASE \E i \in Instances, s \in Services : UnregisterInstance(h, s, i)
  <2> PICK i \in Instances, s \in Services : UnregisterInstance(h, s, i)
    BY <1>8
  <2> DEFINE changed == [pools[p] EXCEPT ![s] = @ \ {i}]
  <2>1. p # 0
    BY DEF UnregisterInstance
  <2>2. CASE s \in DOMAIN pools[p]
    <3>1. changed \in [DOMAIN pools[p] -> SUBSET Instances] /\ DOMAIN pools[p] \subseteq Services
      BY <1>1, <2>1, <2>2, PoolsAreFunctions
    <3>2. changed \in Pools /\ DOMAIN pools[p] \subseteq DOMAIN changed
      <4> HIDE DEF changed
      <4> QED BY <3>1, PoolsHold
    <3>3. Leave(h, changed, Endangered(p, s)) /\ reader' = Touched(p)
      BY <2>2 DEF UnregisterInstance
    <3>4. /\ Endangered(p, s) \in SUBSET Readers
          /\ \A r \in Endangered(p, s) :
                reader[r].of = p /\ reader[r].at \in {"services", "instances"}
      BY DEF Endangered
    <3> HIDE DEF changed
    <3> QED BY <1>4, <2>1, <3>2, <3>3, <3>4
  <2>3. CASE s \notin DOMAIN pools[p]
    BY <1>5, <2>1, <2>3 DEF UnregisterInstance
  <2> QED BY <2>2, <2>3
<1> QED BY <1>6, <1>7, <1>8 DEF HelperStep

\* A walk over a pool that a helper changes, or over another one, stays in place.
LEMMA ChangesWalks ==
    ASSUME ReadersTyped, Inv, Walks, NEW p, Changes(p)
    PROVE  ReadersTyped' /\ Walks' /\ (dead' => DiesOnlyOfHelpers')
<1>1. ReadersTyped'
  BY DEF Changes, ReadersTyped
<1>2. ASSUME NEW r \in Readers PROVE Walk(r)' /\ Faithful(r)'
  <2>1. /\ Walk(r) /\ Faithful(r)
        /\ made \in Nat /\ made' = made
        /\ reader[r].of \in 1..made => reader[r].of \in PoolIds
    BY BoundsAssumption DEF Walks, Inv, Numbered, PoolIds, Changes
  <2>2. CASE reader[r].of # p
    BY <2>1, <2>2, WalkUntouched DEF Changes
  <2>3. CASE reader[r].of = p
    <3>1. Walk(r)'
      BY <2>1, <2>3 DEF Changes, Walk, AtRest
    <3>2. Faithful(r)'
      BY <2>3 DEF Changes, Faithful
    <3> QED BY <3>1, <3>2
  <2> QED BY <2>2, <2>3
<1>3. dead' => DiesOnlyOfHelpers'
  BY DEF Changes, DiesOnlyOfHelpers
<1> QED BY <1>1, <1>2, <1>3 DEF Walks

\* A step of r itself.
LEMMA ReaderStepWalks ==
    ASSUME ReadersTyped, Inv, Walks, NEW r \in Readers, ReaderStep(r)
    PROVE  ReadersTyped' /\ Walks' /\ ~dead'
<1>1. /\ UNCHANGED <<made, pools>>
      /\ ~dead' /\ dead' \in BOOLEAN
      /\ \A q \in Readers : q # r => reader'[q] = reader[q]
  <2>1. UNCHANGED <<made, pools, dead>> /\ ~dead
    BY DEF ReaderStep, GetPool, GetInstances, OpenInstances, ReadServices, ReadInstances,
           ReadEnds, Return
  <2>2. ~dead' /\ dead' \in BOOLEAN
    BY <2>1 DEF ReadersTyped
  <2>3. \E step, x : \/ reader' = [reader EXCEPT ![r] = x]
                     \/ reader' = [At(r, step) EXCEPT ![r] = x]
                     \/ reader' = At(r, step)
                     \/ \E t : reader' = [At(r, step) EXCEPT ![r].todo = t]
                     \/ \E t, u : reader' = [At(r, step) EXCEPT ![r].svc = t, ![r].todo = u]
                     \/ \E t, u : reader' = [At(r, step) EXCEPT ![r].svc = t, ![r].out = u]
    <3>1. CASE GetPool(r) \/ Return(r) \/ \E s \in Services : GetInstances(r, s)
      BY <3>1 DEF GetPool, Return, GetInstances
    <3>2. CASE ReadEnds(r) \/ ReadServices(r) \/ \E s \in Services : OpenInstances(r, s)
      BY <3>2 DEF ReadEnds, ReadServices, OpenInstances
    <3>3. CASE ReadInstances(r)
      BY <3>3 DEF ReadInstances
    <3> QED BY <3>1, <3>2, <3>3 DEF ReaderStep
  <2>4. \A q \in Readers : q # r => reader'[q] = reader[q]
    BY <2>3 DEF At, ReadersTyped
  <2> QED BY <2>1, <2>4, <2>2
<1>2. /\ reader[r] \in ReaderRecords
      /\ Walk(r) /\ Faithful(r)
      /\ made \in 0..MaxPools /\ cur \in 0..made
  BY DEF ReadersTyped, Walks, Inv, Numbered
<1>3. \A q \in 1..made : pools[q] \in Pools
  BY BoundsAssumption, <1>2 DEF ReadersTyped, PoolIds
<1>4. ASSUME NEW x \in ReaderRecords, reader' = [reader EXCEPT ![r] = x],
             Walk(r)', Faithful(r)'
      PROVE  ReadersTyped' /\ Walks' /\ ~dead'
  <2>1. ReadersTyped'
    BY <1>1, <1>4 DEF ReadersTyped
  <2>2. ASSUME NEW q \in Readers, q # r PROVE Walk(q)' /\ Faithful(q)'
    BY <1>1, <1>2, <2>2, WalkUntouched DEF Walks
  <2> QED BY <1>1, <1>4, <2>1, <2>2 DEF Walks
<1>5. IdleReader \in ReaderRecords
  BY BoundsAssumption, NewPoolType DEF IdleReader, ReaderRecords
<1>6. DOMAIN NewPool = {}
  BY DEF NewPool
<1>7. CASE GetPool(r)
  <2> DEFINE x == [IdleReader EXCEPT !.at = "services", !.of = cur]
  <2>1. /\ x \in ReaderRecords
        /\ x.at = "services" /\ x.of = cur /\ x.svc = {} /\ x.todo = {}
        /\ x.held = NewPool /\ x.out = NewPool
    <3>1. cur \in 0..MaxPools
      BY <1>2, BoundsAssumption
    <3>2. /\ x \in ReaderRecords
          /\ x.at = "services" /\ x.of = cur /\ x.svc = IdleReader.svc
          /\ x.todo = IdleReader.todo /\ x.held = IdleReader.held /\ x.out = IdleReader.out
      BY <1>5, <3>1 DEF ReaderRecords
    <3> HIDE DEF x
    <3> QED BY <3>2 DEF IdleReader
  <2>2. reader' = [reader EXCEPT ![r] = x] /\ cur # 0
    BY <1>7 DEF GetPool
  <2> HIDE DEF x
  <2>3. reader'[r] = x
    BY <2>2 DEF ReadersTyped
  <2>4. Walk(r)' /\ Faithful(r)'
    BY <1>1, <1>2, <1>6, <2>1, <2>2, <2>3 DEF Walk, Faithful, AtRest
  <2> QED BY <1>4, <2>1, <2>2, <2>4
<1>8. CASE r \in Clients /\ \E s \in Services : GetInstances(r, s)
  <2> PICK s \in Services : GetInstances(r, s)
    BY <1>8
  <2> DEFINE x == [IdleReader EXCEPT !.at = "instances", !.of = cur, !.svc = {s}]
  <2>1. /\ x \in ReaderRecords
        /\ x.at = "instances" /\ x.of = cur /\ x.svc = {s} /\ x.todo = {}
        /\ x.held = NewPool /\ x.out = NewPool
    <3>1. cur \in 0..MaxPools
      BY <1>2, BoundsAssumption
    <3>2. /\ x \in ReaderRecords
          /\ x.at = "instances" /\ x.of = cur /\ x.svc = {s}
          /\ x.todo = IdleReader.todo /\ x.held = IdleReader.held /\ x.out = IdleReader.out
      BY <1>5, <3>1 DEF ReaderRecords
    <3> HIDE DEF x
    <3> QED BY <3>2 DEF IdleReader
  <2>2. reader' = [reader EXCEPT ![r] = x] /\ cur # 0 /\ s \in DOMAIN pools[cur]
    BY DEF GetInstances
  <2> HIDE DEF x
  <2>3. reader'[r] = x /\ r \notin Refillers
    BY <1>8, <2>2, UsersAssumption DEF ReadersTyped
  <2>4. Walk(r)' /\ Faithful(r)'
    BY <1>1, <1>2, <1>6, <2>1, <2>2, <2>3 DEF Walk, Faithful, AtRest
  <2> QED BY <1>4, <2>1, <2>2, <2>4
<1>9. CASE \E s \in Services : OpenInstances(r, s)
  <2> PICK s \in Services : OpenInstances(r, s)
    BY <1>9
  <2> DEFINE x == [reader[r] EXCEPT !.at = "instances", !.svc = {s}, !.todo = @ \ {s}]
  <2>1. /\ x \in ReaderRecords
        /\ x.at = "instances" /\ x.of = reader[r].of
        /\ x.svc = {s} /\ x.todo = reader[r].todo \ {s}
        /\ x.held = reader[r].held /\ x.out = reader[r].out
        /\ x.touched = reader[r].touched
    BY <1>2 DEF ReaderRecords
  <2>2. /\ reader' = [reader EXCEPT ![r] = x]
        /\ reader[r].at = "between" /\ s \in reader[r].todo
    BY DEF OpenInstances, At, ReadersTyped
  <2> HIDE DEF x
  <2>3. reader'[r] = x
    BY <2>2 DEF ReadersTyped
  <2>4. Walk(r)' /\ Faithful(r)'
    BY <1>1, <1>2, <2>1, <2>2, <2>3 DEF Walk, Faithful, AtRest
  <2> QED BY <1>4, <2>1, <2>2, <2>4
<1>10. CASE ReadServices(r)
  <2> DEFINE x == [reader[r] EXCEPT !.at = "between", !.todo = DOMAIN pools[reader[r].of]]
  <2>1. reader[r].of \in 1..made /\ reader[r].at = "services"
    BY <1>2, <1>10 DEF ReadServices, Walk, AtRest
  <2>2. DOMAIN pools[reader[r].of] \in SUBSET Services
    BY <1>3, <2>1, PoolsAreFunctions
  <2>3. /\ x \in ReaderRecords
        /\ x.at = "between" /\ x.of = reader[r].of
        /\ x.svc = reader[r].svc /\ x.todo = DOMAIN pools[reader[r].of]
        /\ x.held = reader[r].held /\ x.out = reader[r].out
        /\ x.touched = reader[r].touched
    BY <1>2, <2>2 DEF ReaderRecords
  <2>4. reader' = [reader EXCEPT ![r] = x]
    BY <1>10 DEF ReadServices, At, ReadersTyped
  <2> HIDE DEF x
  <2>5. reader'[r] = x
    BY <2>4 DEF ReadersTyped
  <2>6. Walk(r)' /\ Faithful(r)'
    BY <1>1, <1>2, <2>1, <2>3, <2>5 DEF Walk, Faithful, AtRest
  <2> QED BY <1>4, <2>3, <2>4, <2>6
<1>11. CASE ReadInstances(r)
  <2> DEFINE y == reader[r]
             entry(t) == IF t \notin y.svc THEN y.out[t]
                         ELSE IF t \in DOMAIN y.held THEN y.held[t] ELSE pools[y.of][t]
             out == [t \in DOMAIN y.out \cup y.svc |-> entry(t)]
             x == [y EXCEPT !.at = "between", !.svc = {}, !.out = out]
  <2>1. y.of \in 1..made /\ y.at = "instances" /\ y.svc \subseteq DOMAIN pools[y.of]
    BY <1>2, <1>11 DEF ReadInstances, Walk, AtRest
  <2>2. out \in Pools
    <3>1. y.out \in Pools /\ y.held \in Pools /\ pools[y.of] \in Pools
      BY <1>2, <1>3, <2>1 DEF ReaderRecords
    <3>2. DOMAIN y.out \cup y.svc \in SUBSET Services
      BY <1>2, <3>1, PoolsAreFunctions DEF ReaderRecords
    <3>3. \A t \in DOMAIN y.out \cup y.svc : entry(t) \in SUBSET Instances
      BY <2>1, <3>1, PoolsAreFunctions
    <3>4. out \in [DOMAIN y.out \cup y.svc -> SUBSET Instances]
      <4> HIDE DEF entry, y
      <4> QED BY <3>3
    <3> HIDE DEF out, y
    <3> QED BY <3>2, <3>4, PoolsHold
  <2>3. /\ DOMAIN out = DOMAIN y.out \cup y.svc
        /\ \A t \in DOMAIN out : out[t] = entry(t)
    <3> HIDE DEF entry
    <3> QED OBVIOUS
  <2>4. reader' = [reader EXCEPT ![r] = x]
    BY <1>11 DEF ReadInstances, At, ReadersTyped
  <2>5. /\ x \in ReaderRecords
        /\ x.at = "between" /\ x.of = y.of
        /\ x.svc = {} /\ x.todo = y.todo
        /\ x.held = y.held /\ x.out = out
        /\ x.touched = y.touched
    <3> HIDE DEF out
    <3> QED BY <1>2, <2>2 DEF ReaderRecords
  <2> HIDE DEF x
  <2>6. reader'[r] = x
    BY <2>4 DEF ReadersTyped
  <2> HIDE DEF out
  <2>7. Walk(r)'
    BY <1>1, <1>2, <2>1, <2>5, <2>6 DEF Walk, AtRest
  <2>8. Faithful(r)'
    <3> SUFFICES ASSUME ~y.touched PROVE Faithful(r)'
      BY <2>5, <2>6 DEF Faithful
    <3>1. /\ DOMAIN y.held = {}
          /\ DOMAIN y.out \subseteq DOMAIN pools[y.of]
          /\ \A s \in DOMAIN y.out : y.out[s] = pools[y.of][s]
          /\ r \in Refillers => DOMAIN y.out \cup y.svc \cup y.todo = DOMAIN pools[y.of]
      BY <1>2, <2>1 DEF Faithful, AtRest
    <3>2. \A s \in DOMAIN out : out[s] = pools[y.of][s]
      BY <2>3, <3>1
    <3> HIDE DEF y, entry
    <3> QED BY <1>1, <2>1, <2>3, <2>5, <2>6, <3>1, <3>2 DEF Faithful
  <2> QED BY <1>4, <2>4, <2>5, <2>7, <2>8
<1>12. CASE ReadEnds(r)
  <2> DEFINE x == [reader[r] EXCEPT !.at = "done"]
  <2>1. /\ x \in ReaderRecords
        /\ x.at = "done" /\ x.of = reader[r].of
        /\ x.svc = reader[r].svc /\ x.todo = reader[r].todo
        /\ x.held = reader[r].held /\ x.out = reader[r].out
        /\ x.touched = reader[r].touched
    BY <1>2 DEF ReaderRecords
  <2>2. /\ reader' = [reader EXCEPT ![r] = x]
        /\ reader[r].at = "between" /\ reader[r].todo = {}
    BY <1>12 DEF ReadEnds, At, ReadersTyped
  <2> HIDE DEF x
  <2>3. reader'[r] = x
    BY <2>2 DEF ReadersTyped
  <2>4. Walk(r)' /\ Faithful(r)'
    BY <1>1, <1>2, <2>1, <2>2, <2>3 DEF Walk, Faithful, AtRest
  <2> QED BY <1>4, <2>1, <2>2, <2>4
<1>13. CASE Return(r)
  <2>1. reader' = [reader EXCEPT ![r] = IdleReader]
    BY <1>13 DEF Return
  <2>2. reader'[r] = IdleReader
    BY <2>1 DEF ReadersTyped
  <2>3. Walk(r)' /\ Faithful(r)'
    BY <1>1, <1>2, <2>2 DEF Walk, Faithful, AtRest, IdleReader
  <2> QED BY <1>4, <1>5, <2>1, <2>3
<1> QED BY <1>7, <1>8, <1>9, <1>10, <1>11, <1>12, <1>13 DEF ReaderStep

LEMMA InitReaders == UseInit => ReadersInv
<1> SUFFICES ASSUME UseInit PROVE ReadersInv
  OBVIOUS
<1>1. IdleReader \in ReaderRecords
  BY BoundsAssumption, NewPoolType DEF IdleReader, ReaderRecords
<1>2. ReadersTyped
  BY <1>1, NewPoolType DEF UseInit, ReadersTyped
<1>3. Walks
  BY DEF UseInit, Walks, Walk, Faithful, AtRest, IdleReader
<1> QED BY <1>2, <1>3 DEF ReadersInv, UseInit, DiesOnlyOfHelpers

\* A refill that swaps in a pool of its own.
LEMMA InstallWalks ==
    ASSUME ReadersTyped, Inv, Walks, NEW r \in Refillers, NEW loaded \in SUBSET Instances,
           Install(r, loaded)
    PROVE  ReadersTyped' /\ Walks' /\ ~dead'
<1> DEFINE x == [reader[r] EXCEPT !.at = "installed"]
<1>1. /\ r \in Readers /\ reader[r] \in ReaderRecords
      /\ Walk(r)
      /\ made \in 0..MaxPools
  BY DEF Readers, ReadersTyped, Walks, Inv, Numbered
<1>2. /\ x \in ReaderRecords
      /\ x.at = "installed" /\ x.of = reader[r].of
      /\ x.svc = reader[r].svc /\ x.todo = reader[r].todo
  BY <1>1 DEF ReaderRecords
<1>3. /\ reader' = [reader EXCEPT ![r] = x] /\ reader[r].at = "idle"
      /\ made' = made + 1
      /\ pools' = [pools EXCEPT ![made + 1] = PurgePool(loaded)]
      /\ ~dead'
  BY DEF Install, At, ReadersTyped
<1> HIDE DEF x
<1>4. ReadersTyped'
  <2>1. PurgePool(loaded) \in Pools
    BY PurgePoolType
  <2>2. pools' \in [PoolIds -> Pools]
    BY <1>3, <2>1 DEF ReadersTyped
  <2>3. reader' \in [Readers -> ReaderRecords]
    BY <1>1, <1>2, <1>3 DEF ReadersTyped
  <2>4. dead' \in BOOLEAN
    BY DEF Install, ReadersTyped
  <2> QED BY <2>2, <2>3, <2>4 DEF ReadersTyped
<1>5. ASSUME NEW q \in Readers, q # r PROVE Walk(q)' /\ Faithful(q)'
  <2>1. reader[q].of \in 1..made => pools'[reader[q].of] = pools[reader[q].of]
    BY <1>1, <1>3, BoundsAssumption DEF ReadersTyped, PoolIds
  <2>2. reader'[q] = reader[q]
    BY <1>3, <1>5 DEF ReadersTyped
  <2> QED BY <1>1, <1>3, <1>5, <2>1, <2>2, WalkUntouched DEF Walks
<1>6. Walk(r)' /\ Faithful(r)'
  <2>1. reader'[r] = x
    BY <1>1, <1>3 DEF ReadersTyped
  <2> QED BY <1>1, <1>2, <1>3, <2>1 DEF Walk, Faithful, AtRest
<1>7. Walks'
  BY <1>5, <1>6 DEF Walks
<1> QED BY <1>3, <1>4, <1>7

LEMMA NextReaders == Inv /\ ReadersInv /\ [UseNext]_useVars => ReadersInv'
<1> SUFFICES ASSUME Inv, ReadersInv, [UseNext]_useVars PROVE ReadersInv'
  OBVIOUS
<1>1. ReadersTyped /\ Walks /\ DiesOnlyOfHelpers
  BY DEF ReadersInv
\* Nothing that the readers see has changed, and nobody has died.
<1>2. ASSUME made \in Nat, made' \in Nat, made <= made', UNCHANGED <<pools, reader>>, dead' = FALSE
      PROVE  ReadersInv'
  <2>1. ASSUME NEW r \in Readers PROVE Walk(r)' /\ Faithful(r)'
    BY <1>1, <1>2, WalkUntouched DEF Walks
  <2>2. ReadersTyped'
    BY <1>1, <1>2 DEF ReadersTyped
  <2> QED BY <1>2, <2>1, <2>2 DEF ReadersInv, Walks, DiesOnlyOfHelpers
<1>3. made \in Nat /\ made + 1 \in Nat /\ made <= made /\ made <= made + 1
  BY BoundsAssumption DEF Inv, Numbered
<1>0. ~dead => dead = FALSE
  BY <1>1, Zenon DEF ReadersTyped
<1>4. CASE UNCHANGED useVars
  BY <1>1, <1>4
  DEF useVars, ReadersInv, ReadersTyped, Walks, Walk, Faithful, AtRest, DiesOnlyOfHelpers
<1>5. CASE AssignPool
  <2>1. UNCHANGED <<pools, reader, dead>> /\ ~dead /\ made' = made + 1
    BY <1>5 DEF AssignPool
  <2> QED BY <1>0, <1>2, <1>3, <2>1
<1>6. CASE \E r \in Refillers, loaded \in SUBSET Instances : Install(r, loaded)
  BY <1>1, <1>6, InstallWalks DEF ReadersInv, DiesOnlyOfHelpers
<1>7. CASE \E h \in Helpers : HelperStep(h)
  <2> PICK h \in Helpers : HelperStep(h)
    BY <1>7
  <2>1. CASE Enter(h)
    <3>1. UNCHANGED <<made, pools, reader, dead>> /\ ~dead
      BY <2>1 DEF Enter
    <3> QED BY <1>0, <1>2, <1>3, <3>1
  <2>2. CASE Changes(target[h])
    BY <1>1, <2>2, ChangesWalks DEF ReadersInv, DiesOnlyOfHelpers
  <2>3. CASE Idles
    BY <1>2, <1>3, <2>3 DEF Idles
  <2> QED BY <1>1, <2>1, <2>2, <2>3, HelpersChange
<1>8. CASE \E r \in Readers : ReaderStep(r)
  BY <1>1, <1>8, ReaderStepWalks DEF ReadersInv, DiesOnlyOfHelpers
<1> QED BY <1>4, <1>5, <1>6, <1>7, <1>8 DEF UseNext

\* For any number of helpers, refills and readers: a walk without the lock that is through
\* has read one pool, whole, unless a helper changed that pool meanwhile, and only such a
\* helper ends the process (ReadersAreSafe, of servicePool in manager.go and of PurgePool
\* and GetInstances in registry/pool.go).
THEOREM WalksAreSafe == UseSpec => []ReadersAreSafe
<1>1. Inv /\ ReadersInv => ReadersAreSafe
  <2> SUFFICES ASSUME Inv, ReadersTyped, Walks PROVE ReadsAreWhole
    BY DEF ReadersInv, ReadersAreSafe
  <2> SUFFICES ASSUME NEW r \in Readers, reader[r].at = "done", ~reader[r].touched
               PROVE  /\ \A s \in DOMAIN reader[r].out :
                            /\ s \in DOMAIN pools[reader[r].of]
                            /\ reader[r].out[s] = pools[reader[r].of][s]
                      /\ r \in Refillers => reader[r].out = pools[reader[r].of]
    BY DEF ReadsAreWhole
  <2>1. Walk(r) /\ Faithful(r) /\ ~AtRest(r)
    BY DEF Walks, AtRest
  <2>2. /\ DOMAIN reader[r].out \subseteq DOMAIN pools[reader[r].of]
        /\ \A s \in DOMAIN reader[r].out : reader[r].out[s] = pools[reader[r].of][s]
    BY <2>1 DEF Faithful
  <2>3. ASSUME r \in Refillers PROVE reader[r].out = pools[reader[r].of]
    <3>1. DOMAIN reader[r].out = DOMAIN pools[reader[r].of]
      BY <2>1, <2>3 DEF Walk, Faithful
    <3>2. reader[r].out \in Pools
      BY DEF ReadersTyped, ReaderRecords
    <3>3. pools[reader[r].of] = [s \in DOMAIN pools[reader[r].of] |-> pools[reader[r].of][s]]
      <4>1. reader[r].of \in PoolIds
        BY <2>1, BoundsAssumption DEF Walk, Inv, Numbered, PoolIds
      <4>2. pools[reader[r].of] \in Pools
        BY <4>1 DEF ReadersTyped
      <4> QED BY <4>2, PoolsAreFunctions
    <3>4. reader[r].out = [s \in DOMAIN reader[r].out |-> reader[r].out[s]]
      BY <3>2, PoolsAreFunctions
    <3> QED BY <2>2, <3>1, <3>3, <3>4
  <2> QED BY <2>2, <2>3
<1>2. UseSpec => []Inv
  BY InitInv, NextInv, PTL DEF UseSpec
<1> QED BY <1>1, <1>2, InitReaders, NextReaders, PTL DEF UseSpec
=====
