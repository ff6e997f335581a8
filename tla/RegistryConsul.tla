--------------------------- MODULE RegistryConsul ---------------------------
(***************************************************************************)
(* Service discovery over consul (registry/consul/consul.go, watcher.go):  *)
(* Register, Deregister and Load are one call each to the agent, and a     *)
(* watch plan of the consul library calls a handler, which loads and       *)
(* purges, whenever the catalog differs from what the plan has seen last.  *)
(* sicky.Run starts the one plan twice: once as it creates the registry,   *)
(* before the pool exists, and again through registry.Watch.  Both runs    *)
(* share what the plan has seen last, so a change wakes either or both.    *)
(*                                                                         *)
(* The agent and the plan are the library's, modelled as consul.go and     *)
(* watcher.go use them: all processes talk to one agent, and the catalog   *)
(* shows what the agent does.                                              *)
(***************************************************************************)
EXTENDS RegistryPool

VARIABLES
    agent,     \* the services the agent knows
    last,      \* the plan of each process: {}, or the one catalog it has seen last
    fetched    \* the catalog a run has got and not compared yet: {} or one

consulVars == <<agent, last, fetched>>
vars == <<poolVars, consulVars>>

Runs == {"early", "watch"}

TypeOK ==
    /\ PoolTypeOK
    /\ agent \subseteq Instances
    /\ last \in [Procs -> SUBSET SUBSET Instances]
    /\ fetched \in [Procs -> [Loaders -> SUBSET SUBSET Instances]]

Init ==
    /\ PoolInit
    /\ agent = {}
    /\ last = [p \in Procs |-> {}]
    /\ fetched = [p \in Procs |-> NoLoads]

-----------------------------------------------------------------------------
(* Register and Deregister: one call to the agent.                          *)

Register(i) ==
    /\ MayRegister(i)
    /\ agent' = agent \cup {i}
    /\ InsStep(i, "up")
    /\ Appears(i)
    /\ UNCHANGED <<phase, lpc, snap, pool, mishaps, last, fetched>>

\* The call failed, before or after the agent did it: Run logs it and keeps the service.
RegisterFails(i) ==
    /\ MayRegister(i)
    /\ InsStep(i, "failed")
    /\ \/ UNCHANGED <<agent, kept, seen>>
       \/ agent' = agent \cup {i} /\ Appears(i)
    /\ UNCHANGED <<phase, lpc, snap, pool, mishaps, last, fetched>>

Deregister(i) ==
    /\ MayDeregister(i)
    /\ agent' = agent \ {i}
    /\ InsStep(i, "gone")
    /\ Vanishes(i)
    /\ UNCHANGED <<phase, lpc, snap, pool, mishaps, last, fetched>>

\* The agent answers an id it does not know with an error as well.
DeregisterFails(i) ==
    /\ MayDeregister(i)
    /\ InsStep(i, "left")
    /\ \/ UNCHANGED <<agent, kept, seen>>
       \/ agent' = agent \ {i} /\ Vanishes(i)
    /\ UNCHANGED <<phase, lpc, snap, pool, mishaps, last, fetched>>

-----------------------------------------------------------------------------
(* The watch plan, and Load.                                                *)

\* Whether a run of the plan has been started; below, whether Stop has ended the plan.
Started(p, r) ==
    IF r = "early" THEN phase[p] # "off"
    ELSE phase[p] \in {"running", "stopping", "stopped"}

\* Mutant: Stop leaves the plan alone.
PlanNeverStops(p) == FALSE

PlanStopped(p) == phase[p] = "stopped"

\* The blocking query answers, at once the first time and then when the catalog has
\* changed, and the run sees that the plan goes on.
Query(p, r) ==
    /\ p \in Observers
    /\ Started(p, r) /\ ~PlanStopped(p)
    /\ lpc[p][r] = "idle"
    /\ fetched[p][r] = {}
    /\ last[p] # {agent}
    /\ fetched' = [fetched EXCEPT ![p][r] = {agent}]
    /\ UNCHANGED <<poolVars, agent, last>>

\* The run compares the answer with what the plan has seen last; an equal one is dropped,
\* another one is handed to the handler, which loads.  Stop may have come in between.
Handle(p, r) ==
    /\ fetched[p][r] # {}
    /\ fetched' = [fetched EXCEPT ![p][r] = {}]
    /\ IF fetched[p][r] = last[p]
       THEN UNCHANGED <<poolVars, agent, last>>
       ELSE /\ last' = [last EXCEPT ![p] = fetched[p][r]]
            /\ Begin(p, r, agent)
            /\ UNCHANGED agent

\* Mutant: the handler takes the catalog that the plan hands it for the list.
AgentServicesOfPlan(p, l) ==
    /\ lpc[p][l] = "begun"
    /\ lpc' = [lpc EXCEPT ![p][l] = "loaded"]
    /\ snap' = [snap EXCEPT ![p][l] = IF l = "tick" THEN agent ELSE UNION last[p]]
    /\ UNCHANGED <<phase, ins, kept, seen, pool, mishaps, consulVars>>

\* Load is one call of Agent().Services, and the services it lists are told one by one.
AgentServices(p, l) ==
    /\ lpc[p][l] = "begun"
    /\ lpc' = [lpc EXCEPT ![p][l] = "loaded"]
    /\ snap' = [snap EXCEPT ![p][l] = agent]
    /\ UNCHANGED <<phase, ins, kept, seen, pool, mishaps, consulVars>>

\* The process ends, and its plan with it.
ProcessEnds(p) ==
    /\ Crash(p)
    /\ last' = [last EXCEPT ![p] = {}]
    /\ fetched' = [fetched EXCEPT ![p] = NoLoads]
    /\ UNCHANGED agent

InstanceStep(i) ==
    Register(i) \/ RegisterFails(i) \/ Deregister(i) \/ DeregisterFails(i)

LoaderStep(p, l) ==
    \/ AgentServices(p, l)
    \/ LoadFails(p, l) /\ UNCHANGED consulVars
    \/ Purge(p, l) /\ UNCHANGED consulVars

ProcessStep(p) ==
    \/ StartTicker(p) /\ UNCHANGED consulVars
    \/ InitPool(p) /\ UNCHANGED consulVars
    \/ StartWatch(p) /\ UNCHANGED consulVars
    \/ SignalStop(p) /\ UNCHANGED consulVars
    \/ Stopped(p) /\ UNCHANGED consulVars
    \/ ProcessEnds(p)
    \/ \E r \in Runs : Query(p, r) \/ Handle(p, r)
    \/ TickBegin(p, agent) /\ UNCHANGED consulVars

Next ==
    \/ \E i \in Instances : InstanceStep(i)
    \/ \E p \in Procs : ProcessStep(p)
    \/ \E p \in Procs, l \in Loaders : LoaderStep(p, l)

Spec == Init /\ [][Next]_vars

\* The runtime fires a running ticker and resumes a goroutine that has something to do;
\* the agent may fail any call, but not every one from some point on.
Fairness ==
    \A p \in Observers :
        /\ WF_vars(TickBegin(p, agent) /\ UNCHANGED consulVars)
        /\ \A r \in Runs : WF_vars(Handle(p, r))
        /\ \A l \in Loaders : SF_vars(AgentServices(p, l))
        /\ \A l \in Loaders : WF_vars(Purge(p, l) /\ UNCHANGED consulVars)

FairSpec == Spec /\ Fairness

-----------------------------------------------------------------------------
(* Properties.                                                              *)

\* What Load has returned to any of the three goroutines that refill the pool holds every
\* instance the agent knew during all of the refill, and none it knew at no time during it,
\* though the catalog that woke the goroutine may be older than that (Load, consul.go).
LoadIsRegular ==
    \A p \in Procs, l \in Loaders :
        lpc[p][l] = "loaded" => /\ kept[p][l] \subseteq snap[p][l]
                                /\ snap[p][l] \subseteq seen[p][l]

\* What makes it so: the agent lies between the two histories of a refill.
RefillsBounded ==
    \A p \in Procs, l \in Loaders :
        /\ lpc[p][l] # "idle" => kept[p][l] \subseteq agent /\ agent \subseteq seen[p][l]
        /\ lpc[p][l] = "loaded" =>
              kept[p][l] \subseteq snap[p][l] /\ snap[p][l] \subseteq seen[p][l]

\* InitPool throws away what the early run has put in the pool, and the second run is told
\* nothing, for the plan has seen that catalog already; two runs may put an older list over
\* a newer one.  The purge ticker repairs all of it: once registrations end, the pool of
\* a process that stays up comes to equal what the agent knows, and stays so.
Converges == <>[](\A p \in Observers : phase[p] = "running" => pool[p] = PurgePool(agent))

\* Stop ends the plan, for both of its runs, and the ticker has ended: once the refills that
\* were in flight are through, the pool of a stopped process is left alone, whatever the
\* other processes register (Stop, consul.go, unlike the other registries').
Quiet(p) ==
    /\ phase[p] = "stopped"
    /\ \A l \in Loaders : lpc[p][l] = "idle" /\ fetched[p][l] = {}

StopEndsRefills ==
    [][\A p \in Observers :
          Quiet(p) /\ phase'[p] = "stopped" => Quiet(p)' /\ pool'[p] = pool[p]]_vars

\* Every process's pool is a regular cache of the agent's services.
View == INSTANCE RegistryView
            WITH registered <- agent, view <- pool,
                 open <- [p \in Procs |-> {l \in Loaders : lpc[p][l] # "idle"}]
ImplementsView == View!Spec
=============================================================================
