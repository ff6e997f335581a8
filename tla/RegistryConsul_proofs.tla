------------------------ MODULE RegistryConsul_proofs ------------------------
(***************************************************************************)
(* Proofs about RegistryConsul: its type invariant, that a refill by any   *)
(* of the three goroutines is regular, that Stop ends the refills for      *)
(* good, and that the backend implements RegistryView.                     *)
(*                                                                         *)
(* What the watch plan shares between its two runs (last, fetched) decides *)
(* only when a refill begins: the histories of a refill bound the agent's  *)
(* services (RefillsBounded) whatever woke the goroutine.                  *)
(***************************************************************************)
EXTENDS RegistryConsul, TLAPS

\* What PurgePool makes is a pool.
LEMMA PurgePoolType ==
    ASSUME NEW loaded, loaded \subseteq Instances
    PROVE  PurgePool(loaded) \in Pools
<1> DEFINE D == {ServiceOf[i] : i \in loaded}
<1>1. D \in SUBSET Services
  BY ServiceAssumption
<1>2. PurgePool(loaded) \in [D -> SUBSET Instances]
  BY DEF PurgePool
<1> QED BY <1>1, <1>2 DEF Pools

LEMMA NewPoolType == NewPool \in Pools
<1>1. NewPool \in [{} -> SUBSET Instances]
  BY DEF NewPool
<1>2. {} \in SUBSET Services
  OBVIOUS
<1> QED BY <1>1, <1>2 DEF Pools

-----------------------------------------------------------------------------
(* Type correctness.                                                        *)

LEMMA InitTypeOK == Init => TypeOK
BY NewPoolType, MishapAssumption
DEF Init, PoolInit, TypeOK, PoolTypeOK, NoLoads, Loaders, Phases, InsStates, LoaderSteps

\* What a call to the agent does to the catalog, if it does anything.
LEMMA InstanceStepAgent ==
    ASSUME NEW i \in Instances, InstanceStep(i)
    PROVE  /\ UNCHANGED <<phase, lpc, snap, pool, mishaps, last, fetched>>
           /\ \E to \in InsStates \ {"new"} : InsStep(i, to)
           /\ \/ UNCHANGED <<agent, kept, seen>>
              \/ agent' = agent \cup {i} /\ Appears(i)
              \/ agent' = agent \ {i} /\ Vanishes(i)
<1> USE DEF InsStates
<1>1. CASE Register(i)
  BY <1>1 DEF Register
<1>2. CASE RegisterFails(i)
  BY <1>2 DEF RegisterFails
<1>3. CASE Deregister(i)
  BY <1>3 DEF Deregister
<1>4. CASE DeregisterFails(i)
  BY <1>4 DEF DeregisterFails
<1> QED BY <1>1, <1>2, <1>3, <1>4, InstanceStep(i) DEF InstanceStep

LEMMA InstanceStepTypeOK ==
    ASSUME TypeOK, NEW i \in Instances, InstanceStep(i)
    PROVE  TypeOK'
<1> USE DEF TypeOK, PoolTypeOK
<1>1. ins' \in [Instances -> InsStates]
  <2>1. PICK to \in InsStates : ins' = [ins EXCEPT ![i] = to]
    BY InstanceStepAgent DEF InsStep
  <2> QED BY <2>1
<1>2. CASE UNCHANGED <<agent, kept, seen>>
  BY <1>1, <1>2, InstanceStepAgent
<1>3. CASE agent' = agent \cup {i} /\ Appears(i)
  BY <1>1, <1>3, InstanceStepAgent DEF Appears
<1>4. CASE agent' = agent \ {i} /\ Vanishes(i)
  BY <1>1, <1>4, InstanceStepAgent DEF Vanishes
<1> QED BY <1>2, <1>3, <1>4, InstanceStepAgent

\* A list is kept or dropped, and no other list changes.
LEMMA ForgetsList ==
    ASSUME TypeOK, NEW p \in Procs, NEW l \in Loaders, Forgets(p, l)
    PROVE  /\ snap' \in [Procs -> [Loaders -> SUBSET Instances]]
           /\ \A q \in Procs, k \in Loaders :
                 snap'[q][k] = snap[q][k] \/ (q = p /\ k = l)
<1> USE DEF TypeOK, PoolTypeOK
<1>1. CASE l = "watch"
  BY <1>1 DEF Forgets
<1>2. CASE l # "watch"
  <2>1. snap' = [snap EXCEPT ![p][l] = {}]
    BY <1>2 DEF Forgets
  <2> QED BY <2>1
<1> QED BY <1>1, <1>2

LEMMA LoaderStepTypeOK ==
    ASSUME TypeOK, NEW p \in Procs, NEW l \in Loaders, LoaderStep(p, l)
    PROVE  TypeOK'
<1> USE DEF TypeOK, PoolTypeOK, LoaderSteps, consulVars
<1>1. CASE AgentServices(p, l)
  BY <1>1 DEF AgentServices
<1>2. CASE LoadFails(p, l) /\ UNCHANGED consulVars
  BY <1>2 DEF LoadFails, Ended
<1>3. CASE Purge(p, l) /\ UNCHANGED consulVars
  <2>1. PurgePool(snap[p][l]) \in Pools
    BY PurgePoolType
  <2>2. snap' \in [Procs -> [Loaders -> SUBSET Instances]]
    BY <1>3, ForgetsList DEF Purge
  <2> QED BY <1>3, <2>1, <2>2 DEF Purge, Ended
<1> QED BY <1>1, <1>2, <1>3, LoaderStep(p, l) DEF LoaderStep

LEMMA BeginTypeOK ==
    ASSUME TypeOK, NEW p \in Procs, NEW l \in Loaders, Begin(p, l, agent), UNCHANGED agent,
           last' \in [Procs -> SUBSET SUBSET Instances],
           fetched' \in [Procs -> [Loaders -> SUBSET SUBSET Instances]]
    PROVE  TypeOK'
BY DEF TypeOK, PoolTypeOK, Begin, LoaderSteps

\* A run of the plan only looks at the catalog, or begins a refill.
LEMMA HandleBegins ==
    ASSUME TypeOK, NEW p \in Procs, NEW r \in Runs, Handle(p, r)
    PROVE  /\ UNCHANGED agent
           /\ fetched' = [fetched EXCEPT ![p][r] = {}]
           /\ last' \in [Procs -> SUBSET SUBSET Instances]
           /\ UNCHANGED poolVars \/ Begin(p, r, agent)
<1> USE DEF TypeOK, Runs, Loaders
<1>1. CASE fetched[p][r] = last[p]
  BY <1>1 DEF Handle
<1>2. CASE fetched[p][r] # last[p]
  BY <1>2 DEF Handle
<1> QED BY <1>1, <1>2

LEMMA RunsLoad == Runs \subseteq Loaders
BY DEF Runs, Loaders

LEMMA ProcessStepTypeOK ==
    ASSUME TypeOK, NEW p \in Procs, ProcessStep(p)
    PROVE  TypeOK'
<1> USE DEF TypeOK, PoolTypeOK, Phases, consulVars
<1>1. CASE StartTicker(p) /\ UNCHANGED consulVars
  BY <1>1 DEF StartTicker
<1>2. CASE InitPool(p) /\ UNCHANGED consulVars
  BY <1>2, NewPoolType DEF InitPool
<1>3. CASE StartWatch(p) /\ UNCHANGED consulVars
  BY <1>3 DEF StartWatch
<1>4. CASE SignalStop(p) /\ UNCHANGED consulVars
  BY <1>4 DEF SignalStop
<1>5. CASE Stopped(p) /\ UNCHANGED consulVars
  BY <1>5 DEF Stopped
<1>6. CASE ProcessEnds(p)
  BY <1>6, NewPoolType, MishapAssumption
  DEF ProcessEnds, Crash, Mishap, NoLoads, InsStates, LoaderSteps
<1>7. CASE \E r \in Runs : Query(p, r)
  BY <1>7, RunsLoad DEF Query, poolVars
<1>8. CASE \E r \in Runs : Handle(p, r)
  <2> PICK r \in Runs : Handle(p, r)
    BY <1>8
  <2> HIDE DEF TypeOK, PoolTypeOK
  <2>1. /\ UNCHANGED agent
        /\ fetched' = [fetched EXCEPT ![p][r] = {}]
        /\ last' \in [Procs -> SUBSET SUBSET Instances]
        /\ UNCHANGED poolVars \/ Begin(p, r, agent)
    BY HandleBegins
  <2>2. fetched' \in [Procs -> [Loaders -> SUBSET SUBSET Instances]]
    <3>1. fetched \in [Procs -> [Loaders -> SUBSET SUBSET Instances]]
      BY DEF TypeOK
    <3> QED BY <2>1, <3>1
  <2>3. CASE UNCHANGED poolVars
    BY <2>1, <2>2, <2>3 DEF poolVars, TypeOK, PoolTypeOK
  <2>4. CASE Begin(p, r, agent)
    BY <2>1, <2>2, <2>4, RunsLoad, BeginTypeOK
  <2> QED BY <2>1, <2>3, <2>4
<1>9. CASE TickBegin(p, agent) /\ UNCHANGED consulVars
  BY <1>9, BeginTypeOK DEF TickBegin, Loaders
<1> QED BY <1>1, <1>2, <1>3, <1>4, <1>5, <1>6, <1>7, <1>8, <1>9, ProcessStep(p)
        DEF ProcessStep

\* Every reachable state of the consul registry is well typed: phases, registrations, what
\* the plan has seen and what its runs have fetched, for any processes and instances.
THEOREM TypeCorrect == Spec => []TypeOK
<1>1. Init => TypeOK
  BY InitTypeOK
<1>2. TypeOK /\ UNCHANGED vars => TypeOK'
  BY DEF TypeOK, PoolTypeOK, vars, poolVars, consulVars
<1>3. TypeOK /\ [Next]_vars => TypeOK'
  BY <1>2, InstanceStepTypeOK, LoaderStepTypeOK, ProcessStepTypeOK DEF Next
<1> QED BY <1>1, <1>3, PTL DEF Spec

-----------------------------------------------------------------------------
(* Refills.  The histories of a refill in flight bound the agent's services *)
(* from both sides, hence also what Agent().Services answers.               *)

LEMMA InitRefills == Init => RefillsBounded
BY DEF Init, PoolInit, RefillsBounded, NoLoads

LEMMA QuietRefills ==
    ASSUME RefillsBounded, UNCHANGED <<agent, lpc, snap, kept, seen>>
    PROVE  RefillsBounded'
BY DEF RefillsBounded

LEMMA InstanceStepRefills ==
    ASSUME TypeOK, RefillsBounded, NEW i \in Instances, InstanceStep(i)
    PROVE  RefillsBounded'
<1> USE DEF TypeOK, PoolTypeOK, RefillsBounded
<1>1. CASE UNCHANGED <<agent, kept, seen>>
  BY <1>1, InstanceStepAgent
<1>2. CASE agent' = agent \cup {i} /\ Appears(i)
  BY <1>2, InstanceStepAgent DEF Appears
<1>3. CASE agent' = agent \ {i} /\ Vanishes(i)
  BY <1>3, InstanceStepAgent DEF Vanishes
<1> QED BY <1>1, <1>2, <1>3, InstanceStepAgent

LEMMA LoaderStepRefills ==
    ASSUME TypeOK, RefillsBounded, NEW p \in Procs, NEW l \in Loaders, LoaderStep(p, l)
    PROVE  RefillsBounded'
<1> USE DEF TypeOK, PoolTypeOK, RefillsBounded, consulVars
<1>1. CASE AgentServices(p, l)
  BY <1>1 DEF AgentServices
<1>2. CASE LoadFails(p, l) /\ UNCHANGED consulVars
  BY <1>2 DEF LoadFails, Ended
<1>3. CASE Purge(p, l) /\ UNCHANGED consulVars
  <2>1. \A q \in Procs, k \in Loaders : snap'[q][k] = snap[q][k] \/ (q = p /\ k = l)
    BY <1>3, ForgetsList DEF Purge
  <2> QED BY <1>3, <2>1 DEF Purge, Ended
<1> QED BY <1>1, <1>2, <1>3, LoaderStep(p, l) DEF LoaderStep

LEMMA BeginRefills ==
    ASSUME TypeOK, RefillsBounded, NEW p \in Procs, NEW l \in Loaders,
           Begin(p, l, agent), UNCHANGED agent
    PROVE  RefillsBounded'
BY DEF TypeOK, PoolTypeOK, RefillsBounded, Begin

LEMMA ProcessStepRefills ==
    ASSUME TypeOK, RefillsBounded, NEW p \in Procs, ProcessStep(p)
    PROVE  RefillsBounded'
<1> USE DEF consulVars
<1>1. CASE StartTicker(p) /\ UNCHANGED consulVars
  BY <1>1, QuietRefills DEF StartTicker
<1>2. CASE InitPool(p) /\ UNCHANGED consulVars
  BY <1>2, QuietRefills DEF InitPool
<1>3. CASE StartWatch(p) /\ UNCHANGED consulVars
  BY <1>3, QuietRefills DEF StartWatch
<1>4. CASE SignalStop(p) /\ UNCHANGED consulVars
  BY <1>4, QuietRefills DEF SignalStop
<1>5. CASE Stopped(p) /\ UNCHANGED consulVars
  BY <1>5, QuietRefills DEF Stopped
<1>6. CASE ProcessEnds(p)
  BY <1>6 DEF ProcessEnds, Crash, NoLoads, TypeOK, PoolTypeOK, RefillsBounded
<1>7. CASE \E r \in Runs : Query(p, r)
  BY <1>7, QuietRefills DEF Query, poolVars
<1>8. CASE \E r \in Runs : Handle(p, r)
  BY <1>8, HandleBegins, BeginRefills, QuietRefills, RunsLoad DEF poolVars
<1>9. CASE TickBegin(p, agent) /\ UNCHANGED consulVars
  BY <1>9, BeginRefills DEF TickBegin, Loaders
<1> QED BY <1>1, <1>2, <1>3, <1>4, <1>5, <1>6, <1>7, <1>8, <1>9, ProcessStep(p)
        DEF ProcessStep

LEMMA RefillsInvariant == Spec => [](TypeOK /\ RefillsBounded)
<1>1. Init => TypeOK /\ RefillsBounded
  BY InitTypeOK, InitRefills
<1>2. TypeOK /\ RefillsBounded /\ [Next]_vars => RefillsBounded'
  <2> SUFFICES ASSUME TypeOK, RefillsBounded, [Next]_vars PROVE RefillsBounded'
    OBVIOUS
  <2>1. CASE UNCHANGED vars
    BY <2>1, QuietRefills DEF vars, poolVars, consulVars
  <2> QED BY <2>1, InstanceStepRefills, LoaderStepRefills, ProcessStepRefills DEF Next
<1> QED BY <1>1, <1>2, TypeCorrect, PTL DEF Spec

\* Whichever of the three goroutines loads, and however old the catalog that woke it: what
\* Load has returned lies between what the agent knew during all of the refill and what it
\* knew at some time during it (LoadIsRegular, of Load and the plan's handler).
THEOREM LoadsAreRegular == Spec => []LoadIsRegular
<1>1. RefillsBounded => LoadIsRegular
  BY DEF RefillsBounded, LoadIsRegular
<1> QED BY <1>1, RefillsInvariant, PTL

-----------------------------------------------------------------------------
(* Stop ends the refills.                                                   *)

\* A process that has stopped, with no refill of its own in flight, stays so.
StaysQuiet(p) ==
    Quiet(p) /\ phase'[p] = "stopped" => Quiet(p)' /\ pool'[p] = pool[p]

\* Nothing that Quiet speaks of has changed for p.
LEMMA UntouchedStaysQuiet ==
    ASSUME NEW p, phase'[p] = "stopped" => phase[p] = "stopped",
           lpc'[p] = lpc[p], fetched'[p] = fetched[p], pool'[p] = pool[p]
    PROVE  StaysQuiet(p)
BY DEF StaysQuiet, Quiet

LEMMA LoaderStepQuiet ==
    ASSUME TypeOK, NEW p \in Observers, NEW q \in Procs, NEW l \in Loaders, LoaderStep(q, l)
    PROVE  StaysQuiet(p)
<1>1. CASE q = p
  <2>1. lpc[p][l] # "idle"
    BY <1>1 DEF LoaderStep, AgentServices, LoadFails, Purge
  <2> QED BY <2>1 DEF StaysQuiet, Quiet
<1>2. CASE q # p
  <2>1. p \in Procs
    BY ObserverAssumption
  <2>2. UNCHANGED <<phase, fetched>>
    BY DEF LoaderStep, AgentServices, LoadFails, Purge, consulVars
  <2>3. lpc'[p] = lpc[p] /\ pool'[p] = pool[p]
    BY <1>2, <2>1 DEF LoaderStep, AgentServices, LoadFails, Purge, Ended, TypeOK, PoolTypeOK
  <2> QED BY <2>2, <2>3, UntouchedStaysQuiet
<1> QED BY <1>1, <1>2

LEMMA ProcessStepQuiet ==
    ASSUME TypeOK, NEW p \in Observers, NEW q \in Procs, ProcessStep(q)
    PROVE  StaysQuiet(p)
<1> USE ObserverAssumption DEF TypeOK, PoolTypeOK, StaysQuiet, Quiet, consulVars
<1>1. CASE StartTicker(q) /\ UNCHANGED consulVars
  BY <1>1 DEF StartTicker
<1>2. CASE InitPool(q) /\ UNCHANGED consulVars
  BY <1>2 DEF InitPool
<1>3. CASE StartWatch(q) /\ UNCHANGED consulVars
  BY <1>3 DEF StartWatch
<1>4. CASE SignalStop(q) /\ UNCHANGED consulVars
  BY <1>4 DEF SignalStop
<1>5. CASE Stopped(q) /\ UNCHANGED consulVars
  BY <1>5 DEF Stopped
<1>6. CASE ProcessEnds(q)
  BY <1>6 DEF ProcessEnds, Crash
<1>7. CASE \E r \in Runs : Query(q, r)
  BY <1>7 DEF Query, PlanStopped, poolVars
<1>8. CASE \E r \in Runs : Handle(q, r)
  <2> PICK r \in Runs : Handle(q, r)
    BY <1>8
  <2>1. CASE q = p
    BY <2>1, RunsLoad DEF Handle
  <2>2. CASE q # p
    <3>1. /\ UNCHANGED <<phase, pool>>
          /\ lpc' = lpc \/ lpc' = [lpc EXCEPT ![q][r] = "begun"]
          /\ fetched' = [fetched EXCEPT ![q][r] = {}]
      <4> HIDE DEF TypeOK
      <4> QED BY HandleBegins DEF Begin, poolVars
    <3> QED BY <2>2, <3>1
  <2> QED BY <2>1, <2>2
<1>9. CASE TickBegin(q, agent) /\ UNCHANGED consulVars
  BY <1>9 DEF TickBegin, Begin
<1> QED BY <1>1, <1>2, <1>3, <1>4, <1>5, <1>6, <1>7, <1>8, <1>9, ProcessStep(q)
        DEF ProcessStep

\* Once a process has stopped and the refills in flight are through, no tick and no run of
\* the plan refills its pool again, whatever other processes register (StopEndsRefills, of
\* Stop in consul.go and of the ticker of sicky.Run).
THEOREM RefillsEndWithStop == Spec => StopEndsRefills
<1>1. TypeOK /\ [Next]_vars => \A p \in Observers : StaysQuiet(p)
  <2> SUFFICES ASSUME TypeOK, [Next]_vars, NEW p \in Observers PROVE StaysQuiet(p)
    OBVIOUS
  <2>1. CASE \E i \in Instances : InstanceStep(i)
    BY <2>1, InstanceStepAgent, UntouchedStaysQuiet
  <2>2. CASE UNCHANGED vars
    BY <2>2, UntouchedStaysQuiet DEF vars, poolVars, consulVars
  <2> QED BY <2>1, <2>2, LoaderStepQuiet, ProcessStepQuiet DEF Next
<1>2. TypeOK /\ [Next]_vars =>
         [\A p \in Observers :
             Quiet(p) /\ phase'[p] = "stopped" => Quiet(p)' /\ pool'[p] = pool[p]]_vars
  BY <1>1 DEF StaysQuiet
<1> QED BY <1>2, TypeCorrect, PTL DEF Spec, StopEndsRefills

-----------------------------------------------------------------------------
(* The consul registry implements the abstract view.                        *)

LEMMA InitImplements == Init => View!Init
BY DEF Init, PoolInit, View!Init, NoLoads, Loaders, NewPool, View!NewPool

LEMMA InstanceStepImplements ==
    ASSUME TypeOK, NEW i \in Instances, InstanceStep(i)
    PROVE  View!Next \/ UNCHANGED View!viewVars
<1> USE DEF TypeOK, PoolTypeOK
<1>1. CASE UNCHANGED <<agent, kept, seen>>
  BY <1>1, InstanceStepAgent DEF View!viewVars
<1>2. CASE agent' = agent \cup {i} /\ Appears(i)
  <2>1. View!Add(i)
    BY <1>2, InstanceStepAgent DEF Appears, View!Add
  <2> QED BY <2>1 DEF View!Next
<1>3. CASE agent' = agent \ {i} /\ Vanishes(i)
  <2>1. View!Remove(i)
    BY <1>3, InstanceStepAgent DEF Vanishes, View!Remove
  <2> QED BY <2>1 DEF View!Next
<1> QED BY <1>1, <1>2, <1>3, InstanceStepAgent

LEMMA BeginImplements ==
    ASSUME TypeOK, NEW p \in Procs, NEW l \in Loaders, Begin(p, l, agent), UNCHANGED agent
    PROVE  View!Open(p, l)
<1> DEFINE Open(q) == {k \in Loaders : lpc[q][k] # "idle"}
           OpenNext(q) == {k \in Loaders : lpc'[q][k] # "idle"}
<1>0. /\ lpc \in [Procs -> [Loaders -> LoaderSteps]]
      /\ lpc' = [lpc EXCEPT ![p][l] = "begun"]
      /\ lpc[p][l] = "idle"
  BY DEF TypeOK, PoolTypeOK, Begin
<1>1. OpenNext(p) = Open(p) \cup {l} /\ l \notin Open(p)
  BY <1>0
<1>2. ASSUME NEW q \in Procs, q # p PROVE OpenNext(q) = Open(q)
  <2>1. lpc'[q] = lpc[q]
    BY <1>0, <1>2
  <2> QED BY <2>1
<1> HIDE DEF Open, OpenNext
<1>3. [q \in Procs |-> OpenNext(q)]
         = [[q \in Procs |-> Open(q)] EXCEPT ![p] = @ \cup {l}]
  BY <1>1, <1>2
<1>4. l \notin [q \in Procs |-> Open(q)][p]
  BY <1>1
<1> QED BY <1>3, <1>4 DEF View!Open, Begin, Open, OpenNext

LEMMA EndedImplements ==
    ASSUME TypeOK, NEW p \in Procs, NEW l \in Loaders, lpc[p][l] # "idle", Ended(p, l),
           UNCHANGED agent
    PROVE  View!Close(p, l)
BY DEF TypeOK, PoolTypeOK, Ended, View!Close

LEMMA LoaderStepImplements ==
    ASSUME TypeOK, RefillsBounded, NEW p \in Procs, NEW l \in Loaders, LoaderStep(p, l)
    PROVE  View!Next \/ UNCHANGED View!viewVars
<1>1. CASE AgentServices(p, l)
  <2>1. \A q \in Procs, k \in Loaders : lpc'[q][k] = "idle" <=> lpc[q][k] = "idle"
    BY <1>1 DEF AgentServices, TypeOK, PoolTypeOK
  <2> QED BY <1>1, <2>1 DEF AgentServices, View!viewVars, consulVars
<1>2. CASE LoadFails(p, l) /\ UNCHANGED consulVars
  <2>1. View!Abandon(p, l)
    BY <1>2, EndedImplements DEF LoadFails, View!Abandon, consulVars
  <2> QED BY <2>1 DEF View!Next
<1>3. CASE Purge(p, l) /\ UNCHANGED consulVars
  <2>1. View!Close(p, l)
    BY <1>3, EndedImplements DEF Purge, consulVars
  <2>2. /\ snap[p][l] \in SUBSET Instances
        /\ kept[p][l] \subseteq snap[p][l] /\ snap[p][l] \subseteq seen[p][l]
    BY <1>3 DEF Purge, RefillsBounded, TypeOK, PoolTypeOK
  <2>3. pool' = [pool EXCEPT ![p] = View!PurgePool(snap[p][l])]
    BY <1>3 DEF Purge, PurgePool, View!PurgePool
  <2>4. View!Install(p, l)
    BY <2>1, <2>2, <2>3 DEF View!Install
  <2> QED BY <2>4 DEF View!Next
<1> QED BY <1>1, <1>2, <1>3, LoaderStep(p, l) DEF LoaderStep

LEMMA ProcessStepImplements ==
    ASSUME TypeOK, NEW p \in Procs, ProcessStep(p)
    PROVE  View!Next \/ UNCHANGED View!viewVars
<1> USE DEF View!viewVars, consulVars
<1>1. CASE StartTicker(p) /\ UNCHANGED consulVars
  BY <1>1 DEF StartTicker
<1>2. CASE InitPool(p) /\ UNCHANGED consulVars
  <2>1. View!Empty(p)
    BY <1>2 DEF InitPool, View!Empty, NewPool, View!NewPool
  <2> QED BY <2>1 DEF View!Next
<1>3. CASE StartWatch(p) /\ UNCHANGED consulVars
  BY <1>3 DEF StartWatch
<1>4. CASE SignalStop(p) /\ UNCHANGED consulVars
  BY <1>4 DEF SignalStop
<1>5. CASE Stopped(p) /\ UNCHANGED consulVars
  BY <1>5 DEF Stopped
<1>6. CASE ProcessEnds(p)
  <2>1. View!Empty(p)
    BY <1>6 DEF ProcessEnds, Crash, View!Empty, NewPool, View!NewPool, NoLoads, Loaders,
                TypeOK, PoolTypeOK
  <2> QED BY <2>1 DEF View!Next
<1>7. CASE \E r \in Runs : Query(p, r)
  BY <1>7 DEF Query, poolVars
<1>8. CASE \E r \in Runs : Handle(p, r)
  <2> PICK r \in Runs : Handle(p, r)
    BY <1>8
  <2>1. CASE UNCHANGED poolVars
    BY <2>1, HandleBegins DEF poolVars
  <2>2. CASE Begin(p, r, agent)
    <3>1. View!Open(p, r)
      BY <2>2, HandleBegins, BeginImplements, RunsLoad
    <3> QED BY <3>1, RunsLoad DEF View!Next
  <2> QED BY <2>1, <2>2, HandleBegins
<1>9. CASE TickBegin(p, agent) /\ UNCHANGED consulVars
  <2>1. View!Open(p, "tick")
    BY <1>9, BeginImplements DEF TickBegin, Loaders
  <2> QED BY <2>1 DEF View!Next, Loaders
<1> QED BY <1>1, <1>2, <1>3, <1>4, <1>5, <1>6, <1>7, <1>8, <1>9, ProcessStep(p)
        DEF ProcessStep

\* Every behaviour of the consul registry is one of RegistryView: a process's pool is a
\* regular cache of what the agent knows, for any processes, instances and ends of processes.
THEOREM Implements == Spec => ImplementsView
<1>1. Init => View!Init
  BY InitImplements
<1>2. TypeOK /\ RefillsBounded /\ [Next]_vars => [View!Next]_(View!viewVars)
  <2> SUFFICES ASSUME TypeOK, RefillsBounded, [Next]_vars
               PROVE  View!Next \/ UNCHANGED View!viewVars
    OBVIOUS
  <2>1. CASE UNCHANGED vars
    BY <2>1 DEF vars, poolVars, consulVars, View!viewVars
  <2> QED BY <2>1, InstanceStepImplements, LoaderStepImplements, ProcessStepImplements
          DEF Next
<1> QED BY <1>1, <1>2, RefillsInvariant, PTL DEF Spec, ImplementsView, View!Spec
=============================================================================
