---------------------------- MODULE RegistryLocal ----------------------------
(***************************************************************************)
(* Service discovery over the local registry (registry/local/local.go): a  *)
(* directory that the processes of a host share holds one JSON file per    *)
(* instance.  os.WriteFile creates the file empty and then writes it, Load *)
(* lists the directory and reads the files one by one, and inotify queues  *)
(* an event for every change in every process that watches.  So a file may *)
(* be read half written, or vanish between the listing and the reading,    *)
(* and Load's result need never have been the content of the directory.    *)
(***************************************************************************)
EXTENDS RegistryPool

VARIABLES
    file,     \* the file of each instance
    events,   \* inotify events that wait in a process's watcher
    todo,     \* listed files that a Load has still to read
    told      \* history: an event has come since the watcher started, or a Load of it failed

localVars == <<file, events, todo, told>>
vars == <<poolVars, localVars>>

\* Every instance makes at most three events: create, write, remove.
MaxEvents == 3 * Cardinality(Instances)

TypeOK ==
    /\ PoolTypeOK
    /\ file \in [Instances -> {"none", "partial", "full"}]
    /\ events \in [Procs -> 0..MaxEvents]
    /\ todo \in [Procs -> [Loaders -> SUBSET Instances]]
    /\ told \in [Procs -> BOOLEAN]

Init ==
    /\ PoolInit
    /\ file = [i \in Instances |-> "none"]
    /\ events = [p \in Procs |-> 0]
    /\ todo = [p \in Procs |-> NoLoads]
    /\ told = [p \in Procs |-> FALSE]

\* The instances a reader of the directory finds.
Registered == {i \in Instances : file[i] = "full"}

Watching(p) == p \in Observers /\ phase[p] \in {"running", "stopping", "stopped"}

\* The kernel queues an event for every watcher of the directory.
Notify ==
    /\ events' = [p \in Procs |-> IF Watching(p) THEN events[p] + 1 ELSE events[p]]
    /\ told' = [p \in Procs |-> told[p] \/ Watching(p)]

-----------------------------------------------------------------------------
(* Register: os.WriteFile creates the file, then writes it.                 *)

CreateFile(i) ==
    /\ MayRegister(i)
    /\ InsStep(i, "set")
    /\ file' = [file EXCEPT ![i] = "partial"]
    /\ Notify
    /\ UNCHANGED <<phase, lpc, snap, kept, seen, pool, mishaps, todo>>

\* Mutant: the watcher does not ask for Write events.
WriteFileUnnoticed(i) ==
    /\ ins[i] = "set"
    /\ InsStep(i, "up")
    /\ file' = [file EXCEPT ![i] = "full"]
    /\ Appears(i)
    /\ UNCHANGED <<phase, lpc, snap, pool, mishaps, todo, events, told>>

WriteFile(i) ==
    /\ ins[i] = "set"
    /\ InsStep(i, "up")
    /\ file' = [file EXCEPT ![i] = "full"]
    /\ Appears(i)
    /\ Notify
    /\ UNCHANGED <<phase, lpc, snap, pool, mishaps, todo>>

\* The open or the write returned an error: Run logs it and keeps the service.
RegisterFails(i) ==
    /\ MayRegister(i) \/ ins[i] = "set"
    /\ InsStep(i, "failed")
    /\ Mishap
    /\ UNCHANGED <<phase, lpc, snap, kept, seen, pool, localVars>>

\* Deregister: os.Remove.
RemoveFile(i) ==
    /\ MayDeregister(i)
    /\ file[i] # "none"
    /\ InsStep(i, "gone")
    /\ file' = [file EXCEPT ![i] = "none"]
    /\ Vanishes(i)
    /\ Notify
    /\ UNCHANGED <<phase, lpc, snap, pool, mishaps, todo>>

\* os.Remove fails when there is no file, and may fail when there is one.
DeregisterFails(i) ==
    /\ MayDeregister(i)
    /\ InsStep(i, "left")
    /\ \/ file[i] = "none" /\ UNCHANGED mishaps
       \/ file[i] # "none" /\ Mishap
    /\ UNCHANGED <<phase, lpc, snap, kept, seen, pool, localVars>>

-----------------------------------------------------------------------------
(* The watcher, and Load.                                                   *)

\* The goroutine loads nothing before the first event that follows watcher.Add.
Watch(p) ==
    /\ StartWatch(p)
    /\ events' = [events EXCEPT ![p] = 0]
    /\ UNCHANGED <<file, todo, told>>

\* Write, Create and Remove events alike begin a refill; Stop is empty, it goes on.
Receive(p) ==
    /\ Watching(p)
    /\ events[p] > 0
    /\ events' = [events EXCEPT ![p] = @ - 1]
    /\ Begin(p, "watch", Registered)
    /\ UNCHANGED <<file, todo, told>>

\* Where a Load stands once `rest' is left to read.
Reading(p, l, rest) ==
    /\ todo' = [todo EXCEPT ![p][l] = rest]
    /\ lpc' = [lpc EXCEPT ![p][l] = IF rest = {} THEN "loaded" ELSE "reading"]

\* Mutant: the list of instances is not made anew for every Load.
ReadDirAppends(p, l) ==
    /\ lpc[p][l] = "begun"
    /\ Reading(p, l, {i \in Instances : file[i] # "none"})
    /\ UNCHANGED <<phase, ins, snap, kept, seen, pool, mishaps, file, events, told>>

ReadDir(p, l) ==
    /\ lpc[p][l] = "begun"
    /\ Reading(p, l, {i \in Instances : file[i] # "none"})
    /\ snap' = [snap EXCEPT ![p][l] = {}]
    /\ UNCHANGED <<phase, ins, kept, seen, pool, mishaps, file, events, told>>

\* A file that has gone or does not parse yet is skipped.
ReadFile(p, l, i) ==
    /\ lpc[p][l] = "reading"
    /\ i \in todo[p][l]
    /\ Reading(p, l, todo[p][l] \ {i})
    /\ snap' = [snap EXCEPT ![p][l] = IF file[i] = "full" THEN @ \cup {i} ELSE @]
    /\ UNCHANGED <<phase, ins, kept, seen, pool, mishaps, file, events, told>>

\* The goroutine's Load has not got at what the directory holds.
Misses(p, l) == told' = [told EXCEPT ![p] = @ /\ l # "watch"]

\* So is one that cannot be read: for this refill it counts as not registered.
SkipFile(p, l, i) ==
    /\ lpc[p][l] = "reading"
    /\ i \in todo[p][l]
    /\ Reading(p, l, todo[p][l] \ {i})
    /\ kept' = [kept EXCEPT ![p][l] = @ \ {i}]
    /\ Misses(p, l)
    /\ Mishap
    /\ UNCHANGED <<phase, ins, snap, seen, pool, file, events>>

\* The directory cannot be listed.
ReadDirFails(p, l) ==
    /\ LoadFails(p, l)
    /\ Misses(p, l)
    /\ mishaps < MaxMishaps
    /\ UNCHANGED <<file, events, todo>>

ProcessEnds(p) ==
    /\ Crash(p)
    /\ events' = [events EXCEPT ![p] = 0]
    /\ todo' = [todo EXCEPT ![p] = NoLoads]
    /\ told' = [told EXCEPT ![p] = FALSE]
    /\ UNCHANGED file

InstanceStep(i) ==
    \/ CreateFile(i) \/ WriteFile(i) \/ RegisterFails(i)
    \/ RemoveFile(i) \/ DeregisterFails(i)

LoaderStep(p, l) ==
    \/ ReadDir(p, l)
    \/ \E i \in Instances : ReadFile(p, l, i) \/ SkipFile(p, l, i)
    \/ ReadDirFails(p, l)
    \/ Purge(p, l) /\ UNCHANGED localVars

ProcessStep(p) ==
    \/ StartTicker(p) /\ UNCHANGED localVars
    \/ InitPool(p) /\ UNCHANGED localVars
    \/ Watch(p)
    \/ SignalStop(p) /\ UNCHANGED localVars
    \/ Stopped(p) /\ UNCHANGED localVars
    \/ ProcessEnds(p)
    \/ Receive(p)
    \/ TickBegin(p, Registered) /\ UNCHANGED localVars

Next ==
    \/ \E i \in Instances : InstanceStep(i)
    \/ \E p \in Procs : ProcessStep(p)
    \/ \E p \in Procs, l \in Loaders : LoaderStep(p, l)

Spec == Init /\ [][Next]_vars

-----------------------------------------------------------------------------
(* Properties.                                                              *)

\* What Load has gathered, and PurgePool puts in the pool, holds every instance whose file
\* was there and readable during the whole refill, and none whose file was not complete at
\* some time during it, however writes and removals fall between its reads (local.go).
LoadIsRegular ==
    \A p \in Procs, l \in Loaders :
        /\ snap[p][l] \subseteq seen[p][l] \/ lpc[p][l] \in {"idle", "begun"}
        /\ lpc[p][l] = "loaded" => kept[p][l] \subseteq snap[p][l]

\* No wake-up is lost: when the watcher waits, no event waits for it and its latest Load
\* did not fail, that Load has found what the directory holds now, however late it listed
\* it (Watch, local.go).
NoMissedChange ==
    \A p \in Observers :
        told[p] /\ events[p] = 0 /\ lpc[p]["watch"] = "idle" => snap[p]["watch"] = Registered

\* Both: a Load is explained by the files that were there while it ran, and the last one that
\* the watcher makes by those that are there now (Load and Watch, local.go).
RefillsAreSound == LoadIsRegular /\ NoMissedChange

\* Every process's pool is a regular cache of the files it could read.
View == INSTANCE RegistryView
            WITH registered <- Registered, view <- pool,
                 open <- [p \in Procs |-> {l \in Loaders : lpc[p][l] # "idle"}]
ImplementsView == View!Spec
=============================================================================
