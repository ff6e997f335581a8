------------------------------- MODULE AppRun -------------------------------
(***************************************************************************)
(* The life of an application: Run of sicky.go, from the wrappers before   *)
(* the start to the ones after the stop, with everything that may fail on  *)
(* the way.  Some failures end the process (logger.Fatal exits), some only *)
(* the Run call (a service that does not start or stop), some are logged   *)
(* and forgotten (Register, Deregister, the manager), and what Run had     *)
(* opened before stays open in the first two cases.                        *)
(*                                                                         *)
(* One step is one iteration of a loop of Run, or one of its sections.     *)
(***************************************************************************)
EXTENDS Naturals, Sequences, FiniteSets

CONSTANTS
    Svcs,         \* the services of service.Services(); a map, walked in any order
    InfraKinds,   \* infrastructure clients Run knows
    BrokerKinds   \* brokers Run knows

\* Registries in the order of Run; the first that comes up is the default one.
RegistryOrder == <<"consul", "redis", "local">>

RegistryKinds == {"consul", "redis", "local"}

\* What the configuration file and the options of Init ask for.
Configs ==
    [infra : SUBSET InfraKinds, brokers : SUBSET BrokerKinds,
     registries : SUBSET RegistryKinds, manager : BOOLEAN,
     mustInfra : SUBSET InfraKinds, mustBroker : BOOLEAN, mustRegistry : BOOLEAN]

VARIABLES
    conf,           \* the configuration, fixed
    at,             \* the section of Run that is next
    tried,          \* registries that section has been through
    mustInfra,      \* MustInfra: required kinds that are not up yet
    mustBroker, mustRegistry,
    infraUp,        \* open infrastructure clients
    brokersUp,      \* connected brokers
    default,        \* defaultRegistry
    ticking,        \* rgTicker fires
    watchers,       \* the registries whose watchers run
    kept,           \* what else the registries hold: see Holdings
    managerUp,
    todo,           \* services the current loop has still to visit
    dropping,       \* the service that is deregistered and not stopped yet
    svc,            \* state of each service
    listed,         \* services the registry holds an entry of
    undropped,      \* history: services whose Deregister failed
    stopAsked,      \* a signal came, or options.Context is done
    cause           \* history: why Run ended before its end

runVars == <<conf, at, tried, mustInfra, mustBroker, mustRegistry, infraUp, brokersUp,
          default, ticking, watchers, kept, managerUp, todo, dropping, svc, listed,
          undropped, stopAsked, cause>>

Sections == {"beforeStart", "infra", "registries", "ticker", "pool", "brokers", "flags",
             "manager", "start", "afterStart", "wait", "beforeStop", "stop",
             "disconnect", "stopRegistry", "stopManager", "closeInfra", "afterStop"}

BeforeNotify == {"beforeStart", "infra", "registries", "ticker", "pool", "brokers",
                 "flags", "manager", "start", "afterStart"}

Ended == {"exited",     \* logger.Fatal, or a panic: the process is gone
          "failed",     \* Run has returned an error
          "returned"}   \* Run has returned nil

Causes == {"none", "wrapper", "setup", "panic", "signal", "start", "stop"}

\* The client of redis, and the goroutine that ranges over rgTicker's channel.
Holdings == {"redis client", "purger"}

NoService == "nobody"

ASSUME NoServiceAssumption == NoService \notin Svcs

RunTypeOK ==
    /\ conf \in Configs
    /\ at \in Sections \cup Ended
    /\ tried \in 0..3
    /\ mustInfra \subseteq InfraKinds
    /\ mustBroker \in BOOLEAN
    /\ mustRegistry \in BOOLEAN
    /\ infraUp \subseteq InfraKinds
    /\ brokersUp \subseteq BrokerKinds
    /\ default \in RegistryKinds \cup {"none"}
    /\ ticking \in BOOLEAN
    /\ watchers \subseteq RegistryKinds
    /\ kept \subseteq Holdings
    /\ managerUp \in BOOLEAN
    /\ todo \subseteq Svcs
    /\ dropping \in Svcs \cup {NoService}
    /\ svc \in [Svcs -> {"down", "up", "partial"}]
    /\ listed \subseteq Svcs
    /\ undropped \subseteq Svcs
    /\ stopAsked \in BOOLEAN
    /\ cause \in Causes

RunInit ==
    /\ conf \in Configs
    /\ at = "beforeStart"
    /\ tried = 0
    /\ mustInfra = conf.mustInfra
    /\ mustBroker = conf.mustBroker
    /\ mustRegistry = conf.mustRegistry
    /\ infraUp = {} /\ brokersUp = {} /\ default = "none"
    /\ ticking = FALSE /\ managerUp = FALSE
    /\ watchers = {} /\ kept = {}
    /\ todo = Svcs /\ dropping = NoService
    /\ svc = [s \in Svcs |-> "down"]
    /\ listed = {} /\ undropped = {}
    /\ stopAsked = FALSE /\ cause = "none"

Goto(section) == at' = section /\ UNCHANGED cause

Ends(how, why) == at' = how /\ cause' = why

\* The parts of the state that sections which only set things up leave alone.
svcVars == <<todo, dropping, svc, listed, undropped>>
mustVars == <<mustInfra, mustBroker, mustRegistry>>
heldVars == <<watchers, kept>>
upVars == <<infraUp, brokersUp, default, ticking, heldVars, managerUp>>

\* A list of wrappers is through, or one of them failed, which is fatal.
Wrappers(section, next) ==
    /\ at = section
    /\ Goto(next) \/ Ends("exited", "wrapper")
    /\ UNCHANGED <<conf, tried, mustVars, upVars, svcVars, stopAsked>>

BeforeStart == Wrappers("beforeStart", "infra")
AfterStart == Wrappers("afterStart", "wait")
BeforeStop == Wrappers("beforeStop", "stop")
AfterStop == Wrappers("afterStop", "returned")

-----------------------------------------------------------------------------
(* Start: infrastructure, registry, ticker and pool, brokers, manager.      *)

\* infra.InitBun and its like: a client that answers is kept, another one is an error.
Initialized(k) == infraUp' = infraUp \cup {k}

InitInfra(k) ==
    /\ at = "infra"
    /\ k \in conf.infra \ infraUp
    /\ \/ /\ Initialized(k)
          /\ mustInfra' = mustInfra \ {k}
          /\ UNCHANGED <<at, cause>>
       \/ Ends("exited", "setup") /\ UNCHANGED <<infraUp, mustInfra>>
    /\ UNCHANGED <<conf, tried, mustBroker, mustRegistry, brokersUp, default, ticking,
                   heldVars, managerUp, svcVars, stopAsked>>

CheckInfra ==
    /\ at = "infra"
    /\ conf.infra \subseteq infraUp
    /\ IF mustInfra = {} THEN Goto("registries") ELSE Ends("exited", "setup")
    /\ UNCHANGED <<conf, tried, mustVars, upVars, svcVars, stopAsked>>

\* registry.Set: the first registry that comes up is the default one for good.
Elected(r) == IF default = "none" THEN r ELSE default

\* registry.Register, Deregister, Watch and Stop do nothing without a default registry.
HasDefault == default # "none"

\* The next registry of the configuration is made.  A consul's watcher is started at once,
\* and one that cannot be made is a nil pointer Run calls Watch of; a redis that does not
\* answer is forgotten, but its client not closed, and a local one is only a directory.
\* MustRegistry is cleared whether or not the registry came up.
NewRegistry ==
    /\ at = "registries"
    /\ tried < 3
    /\ tried' = tried + 1
    /\ LET r == RegistryOrder[tried + 1]
       IN \/ /\ r \notin conf.registries
             /\ UNCHANGED <<at, cause, default, mustRegistry, heldVars>>
          \/ /\ r \in conf.registries
             /\ mustRegistry' = FALSE
             /\ default' = Elected(r)
             /\ watchers' = watchers \cup ({r} \cap {"consul"})
             /\ kept' = IF r = "redis" THEN kept \cup {"redis client"} ELSE kept
             /\ UNCHANGED <<at, cause>>
          \/ /\ r \in conf.registries /\ r = "redis"
             /\ mustRegistry' = FALSE
             /\ kept' = kept \cup {"redis client"}
             /\ UNCHANGED <<at, cause, default, watchers>>
          \/ /\ r \in conf.registries /\ r = "consul"
             /\ Ends("exited", "panic")
             /\ UNCHANGED <<default, mustRegistry, heldVars>>
    /\ UNCHANGED <<conf, mustInfra, mustBroker, infraUp, brokersUp, ticking, managerUp,
                   svcVars, stopAsked>>

CheckRegistry ==
    /\ at = "registries"
    /\ tried = 3
    /\ IF mustRegistry THEN Ends("exited", "setup") ELSE Goto("ticker")
    /\ UNCHANGED <<conf, tried, mustVars, upVars, svcVars, stopAsked>>

\* The purge interval is positive after Ensure: the ticker runs iff a registry is there.
StartTicker ==
    /\ at = "ticker"
    /\ ticking' = HasDefault
    /\ kept' = IF HasDefault THEN kept \cup {"purger"} ELSE kept
    /\ Goto("pool")
    /\ UNCHANGED <<conf, tried, mustVars, infraUp, brokersUp, default, watchers, managerUp,
                   svcVars, stopAsked>>

\* InitPool and the Watch of the default registry, whose error is dropped: that of local
\* may fail before its goroutine is started.
InitPool ==
    /\ at = "pool"
    /\ \/ watchers' = watchers \cup ({default} \cap RegistryKinds)
       \/ default = "local" /\ UNCHANGED watchers
    /\ Goto("brokers")
    /\ UNCHANGED <<conf, tried, mustVars, infraUp, brokersUp, default, ticking, kept,
                   managerUp, svcVars, stopAsked>>

ConnectBroker(b) ==
    /\ at = "brokers"
    /\ b \in conf.brokers \ brokersUp
    /\ \/ /\ brokersUp' = brokersUp \cup {b}
          /\ mustBroker' = FALSE
          /\ UNCHANGED <<at, cause>>
       \/ Ends("exited", "setup") /\ UNCHANGED <<brokersUp, mustBroker>>
    /\ UNCHANGED <<conf, tried, mustInfra, mustRegistry, infraUp, default, ticking,
                   heldVars, managerUp, svcVars, stopAsked>>

CheckBroker ==
    /\ at = "brokers"
    /\ conf.brokers \subseteq brokersUp
    /\ IF mustBroker THEN Ends("exited", "setup") ELSE Goto("flags")
    /\ UNCHANGED <<conf, tried, mustVars, upVars, svcVars, stopAsked>>

\* The callbacks of the command line switches.
FlagCallbacks ==
    /\ at = "flags"
    /\ Goto("manager") \/ Ends("exited", "setup")
    /\ UNCHANGED <<conf, tried, mustVars, upVars, svcVars, stopAsked>>

\* An error of Start is logged; the manager counts as running after either outcome.
StartManager ==
    /\ at = "manager"
    /\ managerUp' = conf.manager
    /\ Goto("start")
    /\ UNCHANGED <<conf, tried, mustVars, infraUp, brokersUp, default, ticking, heldVars,
                   svcVars, stopAsked>>

-----------------------------------------------------------------------------
(* The loops over the services.                                             *)

\* A service starts and is registered; an error of Register is logged.
StartService(s) ==
    /\ at = "start"
    /\ s \in todo
    /\ todo' = todo \ {s}
    /\ svc' = [svc EXCEPT ![s] = "up"]
    /\ \/ listed' = listed \cup {s} /\ HasDefault
       \/ UNCHANGED listed
    /\ UNCHANGED <<conf, at, tried, mustVars, upVars, dropping, undropped, stopAsked, cause>>

\* Mutant: the service is registered before it is started.
StartFailsListed(s) ==
    /\ at = "start"
    /\ s \in todo
    /\ svc' \in {[svc EXCEPT ![s] = left] : left \in {"down", "partial"}}
    /\ listed' = listed \cup {s}
    /\ Ends("failed", "start")
    /\ UNCHANGED <<conf, tried, mustVars, upVars, todo, dropping, undropped, stopAsked>>

\* A service does not start: it is stopped, in so far as that works, and Run returns.
ServiceStartFails(s) ==
    /\ at = "start"
    /\ s \in todo
    /\ svc' \in {[svc EXCEPT ![s] = left] : left \in {"down", "partial"}}
    /\ Ends("failed", "start")
    /\ UNCHANGED <<conf, tried, mustVars, upVars, todo, dropping, listed, undropped,
                   stopAsked>>

AllStarted ==
    /\ at = "start"
    /\ todo = {}
    /\ Goto("afterStart")
    /\ UNCHANGED <<conf, tried, mustVars, upVars, svcVars, stopAsked>>

\* A signal before Run has asked to be notified of signals kills the process.
EarlySignal ==
    /\ at \in BeforeNotify
    /\ Ends("exited", "signal")
    /\ UNCHANGED <<conf, tried, mustVars, upVars, svcVars, stopAsked>>

\* options.Context is done, or a signal comes once Run is notified of them: neither has
\* an effect before the wait.
AskStop ==
    /\ ~stopAsked
    /\ at \notin Ended
    /\ stopAsked' = TRUE
    /\ UNCHANGED <<conf, at, tried, mustVars, upVars, svcVars, cause>>

\* Run waits for the first of the two.
Wait ==
    /\ at = "wait"
    /\ stopAsked
    /\ Goto("beforeStop")
    /\ todo' = Svcs
    /\ UNCHANGED <<conf, tried, mustVars, upVars, dropping, svc, listed, undropped,
                   stopAsked>>

\* The entry goes first; an error of Deregister is logged.
Deregister(s) ==
    /\ at = "stop"
    /\ dropping = NoService
    /\ s \in todo
    /\ todo' = todo \ {s}
    /\ dropping' = s
    /\ \/ listed' = listed \ {s} /\ UNCHANGED undropped
       \/ undropped' = undropped \cup {s} /\ HasDefault /\ UNCHANGED listed
    /\ UNCHANGED <<conf, at, tried, mustVars, upVars, svc, stopAsked, cause>>

StopService(s) ==
    /\ at = "stop"
    /\ dropping = s
    /\ dropping' = NoService
    /\ svc' = [svc EXCEPT ![s] = "down"]
    /\ UNCHANGED <<conf, at, tried, mustVars, upVars, todo, listed, undropped, stopAsked,
                   cause>>

\* A service does not stop: Run returns its error, and everything else stays as it is.
ServiceStopFails(s) ==
    /\ at = "stop"
    /\ dropping = s
    /\ dropping' = NoService
    /\ svc' \in {[svc EXCEPT ![s] = left] : left \in {"down", "partial"}}
    /\ Ends("failed", "stop")
    /\ UNCHANGED <<conf, tried, mustVars, upVars, todo, listed, undropped, stopAsked>>

\* Mutant: the loop is left before its last service.
AllStoppedEarly ==
    /\ at = "stop"
    /\ dropping = NoService
    /\ Goto("disconnect")
    /\ UNCHANGED <<conf, tried, mustVars, upVars, svcVars, stopAsked>>

\* Mutant: Run waits for the registry to hold no entry of its own.
AllStoppedWaits ==
    /\ at = "stop"
    /\ todo = {} /\ dropping = NoService
    /\ listed = {}
    /\ Goto("disconnect")
    /\ UNCHANGED <<conf, tried, mustVars, upVars, svcVars, stopAsked>>

AllStopped ==
    /\ at = "stop"
    /\ todo = {} /\ dropping = NoService
    /\ Goto("disconnect")
    /\ UNCHANGED <<conf, tried, mustVars, upVars, svcVars, stopAsked>>

-----------------------------------------------------------------------------
(* Stop: brokers, registry and ticker, manager, infrastructure.             *)

DisconnectBrokers ==
    /\ at = "disconnect"
    /\ brokersUp' = {}
    /\ Goto("stopRegistry")
    /\ UNCHANGED <<conf, tried, mustVars, infraUp, default, ticking, heldVars, managerUp,
                   svcVars, stopAsked>>

\* Mutant: the registry is not stopped, only the ticker.
StopTickerOnly ==
    /\ at = "stopRegistry"
    /\ ticking' = FALSE
    /\ Goto("stopManager")
    /\ UNCHANGED <<conf, tried, mustVars, infraUp, brokersUp, default, heldVars, managerUp,
                   svcVars, stopAsked>>

\* registry.Stop and rgTicker.Stop.  Stop of consul ends its watcher; those of redis, which
\* cancels a context that it has just made, and of local end nothing.  Nor does the
\* ticker's end its goroutine, whose channel stays open.  The default registry stays the
\* default.
StopRegistry ==
    /\ at = "stopRegistry"
    /\ ticking' = FALSE
    /\ watchers' = watchers \ ({default} \cap {"consul"})
    /\ Goto("stopManager")
    /\ UNCHANGED <<conf, tried, mustVars, infraUp, brokersUp, default, kept, managerUp,
                   svcVars, stopAsked>>

StopManager ==
    /\ at = "stopManager"
    /\ managerUp' = FALSE
    /\ Goto("closeInfra")
    /\ UNCHANGED <<conf, tried, mustVars, infraUp, brokersUp, default, ticking, heldVars,
                   svcVars, stopAsked>>

\* An S3 client holds no connection and is not closed.
CloseInfra ==
    /\ at = "closeInfra"
    /\ infraUp' = infraUp \cap {"s3"}
    /\ Goto("afterStop")
    /\ UNCHANGED <<conf, tried, mustVars, brokersUp, default, ticking, heldVars, managerUp,
                   svcVars, stopAsked>>

Step ==
    \/ BeforeStart \/ AfterStart \/ BeforeStop \/ AfterStop
    \/ \E k \in InfraKinds : InitInfra(k)
    \/ CheckInfra \/ NewRegistry \/ CheckRegistry \/ StartTicker \/ InitPool
    \/ \E b \in BrokerKinds : ConnectBroker(b)
    \/ CheckBroker \/ FlagCallbacks \/ StartManager
    \/ \E s \in Svcs : StartService(s) \/ ServiceStartFails(s)
    \/ AllStarted \/ Wait
    \/ \E s \in Svcs : Deregister(s) \/ StopService(s) \/ ServiceStopFails(s)
    \/ AllStopped \/ DisconnectBrokers \/ StopRegistry \/ StopManager \/ CloseInfra

RunNext == Step \/ AskStop \/ EarlySignal

RunSpec == RunInit /\ [][RunNext]_runVars

\* Run is sequential code: it goes on as long as what it calls returns.
RunFairSpec == RunSpec /\ WF_runVars(Step)

-----------------------------------------------------------------------------
(* Properties.                                                              *)

\* A service never runs, not even in part, without what the configuration asks for and
\* what the application requires: Run brings dependencies up before the first service
\* and takes them down only after the last one, on every path but the process's end.
DependenciesOutliveServices ==
    (\E s \in Svcs : svc[s] # "down") =>
        /\ conf.infra \cup conf.mustInfra \subseteq infraUp
        /\ conf.brokers \subseteq brokersUp
        /\ conf.mustBroker => brokersUp # {}

\* The registry shows a service only while it serves, unless Deregister has failed: it
\* is registered after its Start and deregistered before its Stop.
ListedServes == \A s \in listed : svc[s] = "up" \/ s \in undropped

\* When Run is over, entries that were not refused their removal are left only by a
\* wrapper or a signal that ended the process, or by an early return of the two loops.
EntriesLeft ==
    at \in Ended /\ ~(listed \subseteq undropped)
        => cause \in {"wrapper", "signal", "start", "stop"}

\* What the registry shows is served, and after the end it is there for a reason (the start
\* and the stop loop of Run, sicky.go).
EntriesAreServed == ListedServes /\ EntriesLeft

\* A nil result of Run means that no service is up, no entry is left whose removal was not
\* refused, brokers and manager and infrastructure clients (S3 holds nothing) are closed
\* and the ticker does not fire.  Of the registries only consul's watcher has ended: what
\* stays is the client of a redis registry, also of one that did not answer, the watcher
\* of a default registry that is redis or local, and the ticker's goroutine (the second
\* half of Run, sicky.go; Redis.Stop, Local.Stop).
NilMeansReleased ==
    at = "returned" =>
        /\ \A s \in Svcs : svc[s] = "down"
        /\ listed \subseteq undropped
        /\ brokersUp = {} /\ infraUp \subseteq {"s3"}
        /\ ~ticking /\ ~managerUp
        /\ watchers \subseteq {default} \cap {"redis", "local"}
        /\ "redis client" \in kept => "redis" \in conf.registries
        /\ "purger" \in kept => HasDefault

\* A request to stop ends Run, whatever fails meanwhile, if the calls it makes return.
StopEnds == stopAsked ~> at \in Ended

\* "Registry is not initialized" is fatal where MustRegistry is set (sicky.go, Run):
\* no service of an application that requires a registry should run without one.
RequiredRegistryIsThere ==
    conf.mustRegistry /\ (\E s \in Svcs : svc[s] = "up") => default # "none"
=============================================================================
