------------------------- MODULE Application_proofs -------------------------
(***************************************************************************)
(* Proofs about AppRun, Services, ServerLifecycle and ServerAddresses: what *)
(* Run keeps up while services run and leaves behind, what a standard       *)
(* service starts and stops, what a server's wait group counts, and where   *)
(* its addresses lead.                                                      *)
(***************************************************************************)
EXTENDS AppRun, Services, ServerAddresses, FiniteSetTheorems, TLAPS

-----------------------------------------------------------------------------
(* Run: type correctness.                                                   *)

\* Every section but the two loops over the services leaves what they change alone.
SectionStep ==
    \/ BeforeStart \/ AfterStart \/ BeforeStop \/ AfterStop
    \/ \E k \in InfraKinds : InitInfra(k)
    \/ CheckInfra \/ NewRegistry \/ CheckRegistry \/ StartTicker \/ InitPool
    \/ \E b \in BrokerKinds : ConnectBroker(b)
    \/ CheckBroker \/ FlagCallbacks \/ StartManager \/ AllStarted
    \/ AllStopped \/ DisconnectBrokers \/ StopRegistry \/ StopManager \/ CloseInfra
    \/ AskStop \/ EarlySignal

LoopStep(s) ==
    \/ StartService(s) \/ ServiceStartFails(s)
    \/ Deregister(s) \/ StopService(s) \/ ServiceStopFails(s)

LEMMA RunSteps ==
    RunNext <=> SectionStep \/ Wait \/ \E s \in Svcs : LoopStep(s)
BY DEF RunNext, Step, SectionStep, LoopStep

LEMMA RunInitTypeOK == RunInit => RunTypeOK
<1> SUFFICES ASSUME RunInit PROVE RunTypeOK
  OBVIOUS
<1>1. conf.mustInfra \subseteq InfraKinds /\ conf.mustBroker \in BOOLEAN
      /\ conf.mustRegistry \in BOOLEAN
  BY DEF RunInit, Configs
<1>2. /\ svc \in [Svcs -> {"down", "up", "partial"}]
      /\ at \in Sections \cup Ended /\ tried \in 0..3 /\ cause \in Causes
      /\ ticking \in BOOLEAN /\ managerUp \in BOOLEAN /\ stopAsked \in BOOLEAN
  <2>1. svc \in [Svcs -> {"down", "up", "partial"}]
    BY DEF RunInit
  <2>2. at \in Sections \cup Ended /\ tried \in 0..3 /\ cause \in Causes
    BY DEF RunInit, Sections, Causes
  <2> QED BY <2>1, <2>2 DEF RunInit
<1>3. /\ mustInfra \subseteq InfraKinds /\ mustBroker \in BOOLEAN
      /\ mustRegistry \in BOOLEAN
  BY <1>1 DEF RunInit
<1>4. /\ infraUp \subseteq InfraKinds /\ brokersUp \subseteq BrokerKinds
      /\ default \in RegistryKinds \cup {"none"}
      /\ watchers \subseteq RegistryKinds /\ kept \subseteq Holdings
      /\ todo \subseteq Svcs /\ dropping \in Svcs \cup {NoService}
      /\ listed \subseteq Svcs /\ undropped \subseteq Svcs
  BY DEF RunInit
<1>5. conf \in Configs
  BY DEF RunInit
<1> QED BY <1>2, <1>3, <1>4, <1>5 DEF RunTypeOK

LEMMA SetupTypeOK ==
    ASSUME RunTypeOK,
           \/ BeforeStart \/ AfterStart \/ BeforeStop \/ AfterStop
           \/ \E k \in InfraKinds : InitInfra(k)
           \/ CheckInfra \/ CheckRegistry \/ StartTicker \/ InitPool
           \/ \E b \in BrokerKinds : ConnectBroker(b)
           \/ CheckBroker \/ FlagCallbacks \/ StartManager
    PROVE  RunTypeOK'
<1> USE DEF RunTypeOK, Sections, Ended, Causes, Goto, Ends, svcVars, mustVars, upVars, heldVars
<1>1. CASE BeforeStart \/ AfterStart \/ BeforeStop \/ AfterStop
  BY <1>1 DEF BeforeStart, AfterStart, BeforeStop, AfterStop, Wrappers
<1>2. ASSUME NEW k \in InfraKinds, InitInfra(k)
      PROVE  RunTypeOK'
  BY <1>2 DEF InitInfra, Initialized
<1>3. CASE CheckInfra \/ CheckRegistry \/ InitPool
  BY <1>3 DEF CheckInfra, CheckRegistry, InitPool
<1>4. ASSUME NEW b \in BrokerKinds, ConnectBroker(b)
      PROVE  RunTypeOK'
  <2>1. CASE Ends("exited", "setup")
    BY <1>4, <2>1 DEF ConnectBroker
  <2>2. CASE brokersUp' = brokersUp \cup {b} /\ UNCHANGED <<at, cause>>
    BY <1>4, <2>2 DEF ConnectBroker
  <2> QED BY <1>4, <2>1, <2>2 DEF ConnectBroker
<1>5. CASE CheckBroker \/ FlagCallbacks
  BY <1>5 DEF CheckBroker, FlagCallbacks
<1>6. CASE StartTicker
  <2>1. kept' \subseteq Holdings
    BY <1>6 DEF StartTicker, Holdings
  <2>2. ticking' \in BOOLEAN
    BY <1>6 DEF StartTicker, HasDefault
  <2> QED BY <1>6, <2>1, <2>2 DEF StartTicker
<1>7. CASE StartManager
  BY <1>7 DEF StartManager, Configs
<1> QED BY <1>1, <1>2, <1>3, <1>4, <1>5, <1>6, <1>7

LEMMA NewRegistryTypeOK ==
    ASSUME RunTypeOK, NewRegistry
    PROVE  RunTypeOK'
<1>1. tried + 1 \in 1..3 /\ tried' \in 0..3
  <2>1. tried \in 0..3 /\ tried < 3 /\ tried' = tried + 1
    BY DEF RunTypeOK, NewRegistry
  <2> QED BY <2>1
<1>2. RegistryOrder[tried + 1] \in RegistryKinds
  BY <1>1 DEF RegistryOrder, RegistryKinds
<1>3. default' \in RegistryKinds \cup {"none"}
  BY <1>2 DEF RunTypeOK, NewRegistry, Elected
<1>4. at' \in Sections \cup Ended /\ cause' \in Causes
  BY DEF RunTypeOK, NewRegistry, Sections, Ended, Causes, Ends
<1>5. mustRegistry' \in BOOLEAN
  BY DEF RunTypeOK, NewRegistry
<1>6. watchers' \subseteq RegistryKinds /\ kept' \subseteq Holdings
  BY DEF RunTypeOK, NewRegistry, RegistryKinds, Holdings, heldVars
<1> QED BY <1>1, <1>3, <1>4, <1>5, <1>6 DEF RunTypeOK, NewRegistry, svcVars

LEMMA TeardownTypeOK ==
    ASSUME RunTypeOK,
           AllStarted \/ AllStopped \/ DisconnectBrokers \/ StopRegistry \/ StopManager
           \/ CloseInfra \/ AskStop \/ EarlySignal \/ Wait
    PROVE  RunTypeOK'
<1> USE DEF RunTypeOK, Sections, Ended, Causes, Goto, Ends, svcVars, mustVars, upVars, heldVars
<1>1. CASE AllStarted \/ AllStopped
  BY <1>1 DEF AllStarted, AllStopped
<1>2. CASE DisconnectBrokers \/ StopRegistry \/ StopManager
  <2>1. CASE DisconnectBrokers
    BY <2>1 DEF DisconnectBrokers
  <2>2. CASE StopRegistry
    BY <2>2 DEF StopRegistry
  <2>3. CASE StopManager
    BY <2>3 DEF StopManager
  <2> QED BY <1>2, <2>1, <2>2, <2>3
<1>3. CASE CloseInfra
  BY <1>3 DEF CloseInfra
<1>4. CASE AskStop
  BY <1>4 DEF AskStop
<1>5. CASE EarlySignal
  BY <1>5 DEF EarlySignal
<1>6. CASE Wait
  BY <1>6 DEF Wait
<1> QED BY <1>1, <1>2, <1>3, <1>4, <1>5, <1>6

LEMMA LoopTypeOK ==
    ASSUME RunTypeOK, NEW s \in Svcs, LoopStep(s)
    PROVE  RunTypeOK'
<1> USE DEF RunTypeOK, Sections, Ended, Causes, Ends, mustVars, upVars, heldVars
<1>1. CASE StartService(s)
  BY <1>1 DEF StartService
<1>2. CASE ServiceStartFails(s)
  BY <1>2 DEF ServiceStartFails
<1>3. CASE Deregister(s)
  BY <1>3 DEF Deregister
<1>4. CASE StopService(s)
  BY <1>4 DEF StopService
<1>5. CASE ServiceStopFails(s)
  BY <1>5 DEF ServiceStopFails
<1> QED BY <1>1, <1>2, <1>3, <1>4, <1>5 DEF LoopStep

\* Run keeps the types of its state, on every path to its end (sicky.Run).
THEOREM RunTypeCorrect == RunSpec => []RunTypeOK
<1>1. RunTypeOK /\ [RunNext]_runVars => RunTypeOK'
  <2> SUFFICES ASSUME RunTypeOK, [RunNext]_runVars PROVE RunTypeOK'
    OBVIOUS
  <2>1. CASE UNCHANGED runVars
    BY <2>1 DEF runVars, RunTypeOK
  <2>2. CASE RunNext
    BY <2>2, RunSteps, SetupTypeOK, NewRegistryTypeOK, TeardownTypeOK, LoopTypeOK
       DEF SectionStep
  <2> QED BY <2>1, <2>2
<1> QED BY <1>1, RunInitTypeOK, PTL DEF RunSpec

-----------------------------------------------------------------------------
(* Run: what it keeps up while services run, what the registry shows then,  *)
(* and what is left at the end.  Each is an invariant of the section Run is *)
(* in: setting up, with the services started or being started or stopped,   *)
(* and clearing up.                                                         *)

UntilInfra == {"beforeStart", "infra"}
UntilBrokers == UntilInfra \cup {"registries", "ticker", "pool", "brokers"}
SettingUp == UntilBrokers \cup {"flags", "manager"}
WithServices == {"start", "afterStart", "wait", "beforeStop", "stop"}
ClearingUp == {"disconnect", "stopRegistry", "stopManager", "closeInfra", "afterStop",
               "returned"}

\* What must be up is up once its section is through, and until it is, a requirement that
\* is not met is still on the list.
InfraIsUp ==
    /\ at \in UntilInfra => conf.mustInfra \ infraUp \subseteq mustInfra
    /\ at \in (SettingUp \ UntilInfra) \cup WithServices =>
          conf.infra \cup conf.mustInfra \subseteq infraUp

BrokersAreUp ==
    /\ at \in UntilBrokers => (conf.mustBroker /\ ~mustBroker => brokersUp # {})
    /\ at \in (SettingUp \ UntilBrokers) \cup WithServices =>
          conf.brokers \subseteq brokersUp /\ (conf.mustBroker => brokersUp # {})

\* Services run in the middle only, and the stop loop leaves none of them out.
ServicesRunBetween ==
    /\ at \in SettingUp \cup ClearingUp => \A s \in Svcs : svc[s] = "down"
    /\ at = "beforeStop" => todo = Svcs
    /\ at = "stop" => \A s \in Svcs : svc[s] = "down" \/ s \in todo \/ s = dropping

NeedsKept ==
    InfraIsUp /\ BrokersAreUp /\ ServicesRunBetween /\ DependenciesOutliveServices

LEMMA NeedsInSetup ==
    ASSUME RunTypeOK, NeedsKept,
           \/ BeforeStart \/ AfterStart \/ BeforeStop \/ AfterStop
           \/ \E k \in InfraKinds : InitInfra(k)
           \/ CheckInfra \/ NewRegistry \/ CheckRegistry \/ StartTicker \/ InitPool
           \/ \E b \in BrokerKinds : ConnectBroker(b)
           \/ CheckBroker \/ FlagCallbacks \/ StartManager
    PROVE  NeedsKept'
<1> USE DEF NeedsKept, InfraIsUp, BrokersAreUp, ServicesRunBetween,
            DependenciesOutliveServices, UntilInfra, UntilBrokers, SettingUp, WithServices,
            ClearingUp, Goto, Ends, svcVars, mustVars, upVars
<1>1. CASE BeforeStart \/ AfterStart
  BY <1>1 DEF BeforeStart, AfterStart, Wrappers
<1>2. CASE BeforeStop \/ AfterStop
  BY <1>2 DEF BeforeStop, AfterStop, Wrappers
<1>3. ASSUME NEW k \in InfraKinds, InitInfra(k)
      PROVE  NeedsKept'
  BY <1>3 DEF InitInfra, Initialized
<1>4. CASE CheckInfra
  BY <1>4 DEF CheckInfra
<1>5. CASE NewRegistry
  BY <1>5 DEF NewRegistry
<1>6. CASE CheckRegistry \/ StartTicker \/ InitPool
  BY <1>6 DEF CheckRegistry, StartTicker, InitPool
<1>7. ASSUME NEW b \in BrokerKinds, ConnectBroker(b)
      PROVE  NeedsKept'
  BY <1>7 DEF ConnectBroker
<1>8. CASE CheckBroker
  BY <1>8 DEF CheckBroker
<1>9. CASE FlagCallbacks \/ StartManager
  BY <1>9 DEF FlagCallbacks, StartManager
<1> QED BY <1>1, <1>2, <1>3, <1>4, <1>5, <1>6, <1>7, <1>8, <1>9

LEMMA NeedsInTeardown ==
    ASSUME RunTypeOK, NeedsKept,
           AllStarted \/ AllStopped \/ DisconnectBrokers \/ StopRegistry \/ StopManager
           \/ CloseInfra \/ AskStop \/ EarlySignal \/ Wait
    PROVE  NeedsKept'
<1> USE DEF NeedsKept, InfraIsUp, BrokersAreUp, ServicesRunBetween,
            DependenciesOutliveServices, UntilInfra, UntilBrokers, SettingUp, WithServices,
            ClearingUp, Goto, Ends, svcVars, mustVars, upVars
<1>1. CASE AllStarted \/ Wait
  BY <1>1 DEF AllStarted, Wait
<1>2. CASE AllStopped
  BY <1>2, NoServiceAssumption DEF AllStopped
<1>3. CASE DisconnectBrokers \/ StopRegistry \/ StopManager \/ CloseInfra
  BY <1>3 DEF DisconnectBrokers, StopRegistry, StopManager, CloseInfra
<1>4. CASE AskStop
  BY <1>4 DEF AskStop
<1>5. CASE EarlySignal
  BY <1>5 DEF EarlySignal, BeforeNotify
<1> QED BY <1>1, <1>2, <1>3, <1>4, <1>5

LEMMA NeedsInLoops ==
    ASSUME RunTypeOK, NeedsKept, NEW s \in Svcs, LoopStep(s)
    PROVE  NeedsKept'
<1> USE DEF RunTypeOK, NeedsKept, InfraIsUp, BrokersAreUp, ServicesRunBetween,
            DependenciesOutliveServices, UntilInfra, UntilBrokers, SettingUp, WithServices,
            ClearingUp, Ends, mustVars, upVars
<1>1. CASE StartService(s)
  BY <1>1 DEF StartService
<1>2. CASE ServiceStartFails(s)
  BY <1>2 DEF ServiceStartFails
<1>3. CASE Deregister(s)
  BY <1>3, NoServiceAssumption DEF Deregister
<1>4. CASE StopService(s)
  BY <1>4 DEF StopService
<1>5. CASE ServiceStopFails(s)
  BY <1>5 DEF ServiceStopFails
<1> QED BY <1>1, <1>2, <1>3, <1>4, <1>5 DEF LoopStep

LEMMA NeedsAlwaysKept == RunSpec => []NeedsKept
<1>1. RunInit => NeedsKept
  BY DEF RunInit, NeedsKept, InfraIsUp, BrokersAreUp, ServicesRunBetween,
         DependenciesOutliveServices, UntilInfra, UntilBrokers, SettingUp, WithServices,
         ClearingUp
<1>2. RunTypeOK /\ NeedsKept /\ [RunNext]_runVars => NeedsKept'
  <2> SUFFICES ASSUME RunTypeOK, NeedsKept, [RunNext]_runVars PROVE NeedsKept'
    OBVIOUS
  <2>1. CASE UNCHANGED runVars
    BY <2>1 DEF runVars, NeedsKept, InfraIsUp, BrokersAreUp, ServicesRunBetween,
                DependenciesOutliveServices
  <2>2. CASE RunNext
    BY <2>2, RunSteps, NeedsInSetup, NeedsInTeardown, NeedsInLoops DEF SectionStep
  <2> QED BY <2>1, <2>2
<1> QED BY <1>1, <1>2, RunTypeCorrect, PTL DEF RunSpec

\* A service never runs without the infrastructure and the brokers that the configuration
\* names or the application requires (sicky.Run: the order of its sections and loops).
THEOREM DependenciesAreKept == RunSpec => []DependenciesOutliveServices
<1>1. NeedsKept => DependenciesOutliveServices
  BY DEF NeedsKept
<1> QED BY <1>1, NeedsAlwaysKept, PTL

\* Entries are made in the start loop, of services it is through with, and what the stop
\* loop is through with has no entry whose removal was not refused.
ListedBetween ==
    /\ at \in SettingUp => listed = {}
    /\ at = "start" => listed \cap todo = {}
    /\ at = "beforeStop" => todo = Svcs
    /\ at = "stop" => dropping \notin todo /\ listed \subseteq todo \cup undropped
    /\ at \in ClearingUp => listed \subseteq undropped
    /\ at \notin {"stop"} \cup Ended => dropping = NoService

EntriesKept == ListedBetween /\ EntriesAreServed

LEMMA EntriesInSections ==
    ASSUME RunTypeOK, EntriesKept, SectionStep
    PROVE  EntriesKept'
<1> USE DEF EntriesKept, ListedBetween, EntriesAreServed, ListedServes, EntriesLeft, Ended,
            UntilInfra, UntilBrokers, SettingUp, ClearingUp, Goto, Ends, svcVars, mustVars,
            upVars
<1>1. CASE BeforeStart \/ AfterStart
  BY <1>1 DEF BeforeStart, AfterStart, Wrappers
<1>2. CASE BeforeStop
  <2>1. listed \subseteq Svcs
    BY DEF RunTypeOK
  <2> QED BY <1>2, <2>1, NoServiceAssumption DEF BeforeStop, Wrappers
<1>3. CASE AfterStop
  BY <1>3 DEF AfterStop, Wrappers
<1>4. ASSUME NEW k \in InfraKinds, InitInfra(k)
      PROVE  EntriesKept'
  BY <1>4 DEF InitInfra
<1>5. CASE CheckInfra \/ CheckRegistry \/ StartTicker \/ InitPool
  BY <1>5 DEF CheckInfra, CheckRegistry, StartTicker, InitPool
<1>6. CASE NewRegistry
  BY <1>6 DEF NewRegistry
<1>7. ASSUME NEW b \in BrokerKinds, ConnectBroker(b)
      PROVE  EntriesKept'
  BY <1>7 DEF ConnectBroker
<1>8. CASE CheckBroker \/ FlagCallbacks \/ StartManager
  BY <1>8 DEF CheckBroker, FlagCallbacks, StartManager
<1>9. CASE AllStarted \/ AllStopped
  BY <1>9 DEF AllStarted, AllStopped
<1>10. CASE DisconnectBrokers \/ StopRegistry \/ StopManager \/ CloseInfra
  BY <1>10 DEF DisconnectBrokers, StopRegistry, StopManager, CloseInfra
<1>11. CASE AskStop
  BY <1>11 DEF AskStop
<1>12. CASE EarlySignal
  BY <1>12 DEF EarlySignal, BeforeNotify
<1> QED BY <1>1, <1>2, <1>3, <1>4, <1>5, <1>6, <1>7, <1>8, <1>9, <1>10, <1>11, <1>12
        DEF SectionStep

LEMMA EntriesInLoops ==
    ASSUME RunTypeOK, EntriesKept, NEW s \in Svcs, LoopStep(s)
    PROVE  EntriesKept'
<1> USE DEF RunTypeOK, EntriesKept, ListedBetween, EntriesAreServed, ListedServes,
            EntriesLeft, Ended, UntilInfra, UntilBrokers, SettingUp, ClearingUp, Ends,
            mustVars, upVars
<1>1. CASE StartService(s)
  BY <1>1 DEF StartService
<1>2. CASE ServiceStartFails(s)
  BY <1>2 DEF ServiceStartFails
<1>3. CASE Deregister(s)
  BY <1>3 DEF Deregister
<1>4. CASE StopService(s)
  BY <1>4, NoServiceAssumption DEF StopService
<1>5. CASE ServiceStopFails(s)
  BY <1>5 DEF ServiceStopFails
<1> QED BY <1>1, <1>2, <1>3, <1>4, <1>5 DEF LoopStep

LEMMA EntriesAlwaysKept == RunSpec => []EntriesKept
<1>1. RunInit => EntriesKept
  BY DEF RunInit, EntriesKept, ListedBetween, EntriesAreServed, ListedServes, EntriesLeft,
         Ended, ClearingUp
<1>2. RunTypeOK /\ EntriesKept /\ [RunNext]_runVars => EntriesKept'
  <2> SUFFICES ASSUME RunTypeOK, EntriesKept, [RunNext]_runVars PROVE EntriesKept'
    OBVIOUS
  <2>1. CASE UNCHANGED runVars
    BY <2>1 DEF runVars, EntriesKept, ListedBetween, EntriesAreServed, ListedServes,
                EntriesLeft
  <2>2. CASE Wait
    BY <2>2 DEF Wait, Goto, mustVars, upVars, EntriesKept, ListedBetween, EntriesAreServed,
                ListedServes, EntriesLeft, Ended, UntilInfra, UntilBrokers, SettingUp,
                ClearingUp
  <2> QED BY <2>1, <2>2, RunSteps, EntriesInSections, EntriesInLoops
<1> QED BY <1>1, <1>2, RunTypeCorrect, PTL DEF RunSpec

\* The registry shows a service only while it serves, or if its removal was refused, and an
\* entry outlives Run only where Run or the process ended early (the two loops of
\* sicky.Run).
THEOREM EntriesAreKept == RunSpec => []EntriesAreServed
<1>1. EntriesKept => EntriesAreServed
  BY DEF EntriesKept
<1> QED BY <1>1, EntriesAlwaysKept, PTL

\* What a section of the clearing up releases stays released.
Released ==
    /\ at \in ClearingUp \ {"disconnect"} => brokersUp = {}
    /\ at \in ClearingUp \ {"disconnect", "stopRegistry"} => ~ticking
    /\ at \in {"closeInfra", "afterStop", "returned"} => ~managerUp
    /\ at \in {"afterStop", "returned"} => infraUp \subseteq {"s3"}

LEMMA ReleasedStep == Released /\ [RunNext]_runVars => Released'
<1> SUFFICES ASSUME Released, [RunNext]_runVars PROVE Released'
  OBVIOUS
<1> USE DEF Released, ClearingUp, Goto, Ends, svcVars, mustVars, upVars, heldVars
<1>1. CASE UNCHANGED runVars
  BY <1>1 DEF runVars
<1>2. CASE BeforeStart \/ AfterStart \/ BeforeStop \/ AfterStop
  BY <1>2 DEF BeforeStart, AfterStart, BeforeStop, AfterStop, Wrappers
<1>3. ASSUME NEW k \in InfraKinds, InitInfra(k)
      PROVE  Released'
  BY <1>3 DEF InitInfra
<1>4. CASE CheckInfra \/ NewRegistry \/ CheckRegistry \/ StartTicker \/ InitPool
  BY <1>4 DEF CheckInfra, NewRegistry, CheckRegistry, StartTicker, InitPool
<1>5. ASSUME NEW b \in BrokerKinds, ConnectBroker(b)
      PROVE  Released'
  BY <1>5 DEF ConnectBroker
<1>6. CASE CheckBroker \/ FlagCallbacks \/ StartManager
  BY <1>6 DEF CheckBroker, FlagCallbacks, StartManager
<1>7. CASE AllStarted \/ AllStopped \/ Wait
  BY <1>7 DEF AllStarted, AllStopped, Wait
<1>8. CASE DisconnectBrokers \/ StopRegistry
  BY <1>8 DEF DisconnectBrokers, StopRegistry
<1>9. CASE StopManager \/ CloseInfra
  BY <1>9 DEF StopManager, CloseInfra
<1>10. CASE AskStop \/ EarlySignal
  BY <1>10 DEF AskStop, EarlySignal
<1>11. ASSUME NEW s \in Svcs, LoopStep(s)
       PROVE  Released'
  BY <1>11 DEF LoopStep, StartService, ServiceStartFails, Deregister, StopService,
               ServiceStopFails
<1> QED BY <1>1, <1>2, <1>3, <1>4, <1>5, <1>6, <1>7, <1>8, <1>9, <1>10, <1>11, RunSteps
        DEF SectionStep

\* What the registries hold: only the default one has a watcher, which consul's Stop ends,
\* and the rest goes back to a registry that was configured or came up.
Held ==
    /\ tried = 0 => default = "none"
    /\ watchers \subseteq {default} \cap RegistryKinds
    /\ at \in ClearingUp \ {"disconnect", "stopRegistry"} => "consul" \notin watchers
    /\ "redis client" \in kept => "redis" \in conf.registries
    /\ "purger" \in kept => HasDefault

LEMMA NewRegistryHeld == RunTypeOK /\ Held /\ NewRegistry => Held'
<1> SUFFICES ASSUME RunTypeOK, Held, NewRegistry PROVE Held'
  OBVIOUS
<1> DEFINE r == RegistryOrder[tried + 1]
<1>a. tried \in 0..3 /\ tried < 3 /\ tried' = tried + 1
  BY DEF NewRegistry, RunTypeOK
<1>b. tried \in 0..2 /\ (tried = 0 <=> r = "consul")
  BY <1>a DEF RegistryOrder
<1>c. conf' = conf /\ default \in RegistryKinds \cup {"none"}
  BY DEF NewRegistry, RunTypeOK
<1>1. /\ tried \in 0..2 /\ tried' = tried + 1 /\ conf' = conf
      /\ tried = 0 <=> r = "consul"
      /\ default \in RegistryKinds \cup {"none"}
  BY <1>a, <1>b, <1>c
<1>2. r \in RegistryKinds
  BY <1>1 DEF RegistryOrder, RegistryKinds
<1>3. at \notin ClearingUp /\ at' \notin ClearingUp
  BY DEF NewRegistry, ClearingUp, Ends
<1>4. tried' # 0
  BY <1>1
<1>5. /\ default' = default \/ default' = Elected(r)
      /\ \/ watchers' = watchers
         \/ r = "consul" /\ default' = Elected(r) /\ watchers' = watchers \cup {r}
  BY DEF NewRegistry, heldVars
<1>6. \/ kept' = kept
      \/ kept' = kept \cup {"redis client"} /\ "redis" \in conf.registries
  BY DEF NewRegistry, heldVars
<1> HIDE DEF r
<1>7. watchers' \subseteq {default'} \cap RegistryKinds
  BY <1>1, <1>2, <1>5 DEF Held, Elected, RegistryKinds
<1>8. HasDefault => HasDefault'
  BY <1>1, <1>2, <1>5 DEF HasDefault, Elected, RegistryKinds
<1>9. /\ "redis client" \in kept' => "redis" \in conf'.registries
      /\ "purger" \in kept' => HasDefault'
  BY <1>1, <1>6, <1>8 DEF Held
<1> QED BY <1>3, <1>4, <1>7, <1>9 DEF Held

LEMMA HeldStep == RunTypeOK /\ Held /\ [RunNext]_runVars => Held'
<1> SUFFICES ASSUME RunTypeOK, Held, [RunNext]_runVars PROVE Held'
  OBVIOUS
<1> USE DEF Held, HasDefault, ClearingUp, Goto, Ends, svcVars, mustVars, upVars, heldVars
<1>1. CASE UNCHANGED runVars
  BY <1>1 DEF runVars
<1>2. CASE BeforeStart \/ AfterStart \/ BeforeStop \/ AfterStop
  BY <1>2 DEF BeforeStart, AfterStart, BeforeStop, AfterStop, Wrappers
<1>3. ASSUME NEW k \in InfraKinds, InitInfra(k)
      PROVE  Held'
  BY <1>3 DEF InitInfra
<1>4. CASE NewRegistry
  BY <1>4, NewRegistryHeld
<1>5. CASE CheckInfra \/ CheckRegistry
  BY <1>5 DEF CheckInfra, CheckRegistry
<1>6. CASE StartTicker
  BY <1>6 DEF StartTicker
<1>7. CASE InitPool
  BY <1>7 DEF InitPool
<1>8. ASSUME NEW b \in BrokerKinds, ConnectBroker(b)
      PROVE  Held'
  BY <1>8 DEF ConnectBroker
<1>9. CASE CheckBroker \/ FlagCallbacks \/ StartManager
  BY <1>9 DEF CheckBroker, FlagCallbacks, StartManager
<1>10. CASE AllStarted \/ AllStopped \/ Wait \/ DisconnectBrokers
  BY <1>10 DEF AllStarted, AllStopped, Wait, DisconnectBrokers
<1>11. CASE StopRegistry
  BY <1>11 DEF StopRegistry
<1>12. CASE StopManager \/ CloseInfra
  BY <1>12 DEF StopManager, CloseInfra
<1>13. CASE AskStop \/ EarlySignal
  BY <1>13 DEF AskStop, EarlySignal
<1>14. ASSUME NEW s \in Svcs, LoopStep(s)
       PROVE  Held'
  BY <1>14 DEF LoopStep, StartService, ServiceStartFails, Deregister, StopService,
               ServiceStopFails
<1> QED BY <1>1, <1>2, <1>3, <1>4, <1>5, <1>6, <1>7, <1>8, <1>9, <1>10, <1>11, <1>12, <1>13,
           <1>14, RunSteps DEF SectionStep

\* A nil result of Run means that every service is down and brokers, manager, ticker and
\* infrastructure clients are closed; of entries those are left whose removal was refused,
\* and of the registries the client of redis, the watcher of redis or local and the
\* goroutine that waits for the ticker (the second half of sicky.Run).
THEOREM NilReleasesAll == RunSpec => []NilMeansReleased
<1>1. RunInit => Released /\ Held
  BY DEF RunInit, Released, Held, ClearingUp
<1>2. Held /\ at = "returned" =>
        /\ watchers \subseteq {default} \cap {"redis", "local"}
        /\ "redis client" \in kept => "redis" \in conf.registries
        /\ "purger" \in kept => HasDefault
  BY DEF Held, ClearingUp, RegistryKinds
<1>3. Released /\ NeedsKept /\ EntriesKept /\ at = "returned" =>
        /\ \A s \in Svcs : svc[s] = "down"
        /\ listed \subseteq undropped
        /\ brokersUp = {} /\ infraUp \subseteq {"s3"}
        /\ ~ticking /\ ~managerUp
  BY DEF Released, NeedsKept, ServicesRunBetween, EntriesKept, ListedBetween, ClearingUp
<1>4. Released /\ Held /\ NeedsKept /\ EntriesKept => NilMeansReleased
  BY <1>2, <1>3 DEF NilMeansReleased
<1> QED BY <1>1, <1>4, ReleasedStep, HeldStep, RunTypeCorrect, NeedsAlwaysKept,
           EntriesAlwaysKept, PTL DEF RunSpec

-----------------------------------------------------------------------------
(* Services.  Each loop of Start and Stop accounts for its members: a       *)
(* member of the loop of Start is up, has an error or is still to come, and *)
(* one of the loop of Stop is down, or up with an error, or still to come.  *)

Idles == {"made", "started", "registered", "waiting", "stopped", "gone"}

WholeService ==
    /\ stage = "made" => up = {} /\ errs = {}
    /\ stage = "servers" => up \cup errs \cup left = Servers
    /\ stage = "brokers" => up \cup errs \cup left = Servers \cup MyBrokers
    /\ stage \in {"started", "registered", "waiting"} =>
          up = Servers \cup MyBrokers /\ errs = {}

UndoneService ==
    /\ stage \in {"disconnect", "undoDisconnect"} => errs = {} /\ up \subseteq Servers \cup left
    /\ stage \in {"stopServers", "undoStop"} =>
          errs \subseteq up /\ up \subseteq left \cup errs /\ left \cap errs = {}
    /\ stage \in {"stopped", "gone"} => up = errs

\* A service that is not a standard one has no loops.
ServiceIsAccounted ==
    IF sort = "standard" THEN WholeService /\ UndoneService
                         ELSE stage \in Idles /\ up = {} /\ errs = {}

LEMMA AccountedInStart ==
    ASSUME ServiceIsAccounted,
           \/ StartCalled \/ ServersStarted \/ StartReturns
           \/ \E s \in Servers : StartServer(s)
           \/ \E b \in MyBrokers : Connect(b)
    PROVE  ServiceIsAccounted'
<1> USE DEF ServiceIsAccounted, WholeService, UndoneService, Idles, readerVars
<1>1. CASE StartCalled
  BY <1>1 DEF StartCalled
<1>2. ASSUME NEW s \in Servers, StartServer(s)
      PROVE  ServiceIsAccounted'
  BY <1>2 DEF StartServer
<1>3. CASE ServersStarted
  BY <1>3 DEF ServersStarted
<1>4. ASSUME NEW b \in MyBrokers, Connect(b)
      PROVE  ServiceIsAccounted'
  BY <1>4 DEF Connect
<1>5. CASE StartReturns
  BY <1>5 DEF StartReturns
<1> QED BY <1>1, <1>2, <1>3, <1>4, <1>5

LEMMA AccountedInStop ==
    ASSUME ServiceIsAccounted,
           \/ BrokersDisconnected \/ ServiceStopReturns \/ RunReturns
           \/ \E s \in Servers : StopServer(s)
           \/ \E b \in MyBrokers : DisconnectBroker(b)
    PROVE  ServiceIsAccounted'
<1> USE DEF ServiceIsAccounted, WholeService, UndoneService, Idles, readerVars
<1>1. ASSUME NEW b \in MyBrokers, DisconnectBroker(b)
      PROVE  ServiceIsAccounted'
  BY <1>1 DEF DisconnectBroker
<1>2. CASE BrokersDisconnected
  BY <1>2 DEF BrokersDisconnected, Undoing
<1>3. ASSUME NEW s \in Servers, StopServer(s)
      PROVE  ServiceIsAccounted'
  BY <1>3 DEF StopServer
<1>4. CASE ServiceStopReturns \/ RunReturns
  BY <1>4 DEF ServiceStopReturns, RunReturns
<1> QED BY <1>1, <1>2, <1>3, <1>4

LEMMA AccountedInRun ==
    ASSUME ServiceIsAccounted,
           \/ RegisterService \/ Notify \/ StopCalled \/ OutsideSignal \/ ReaderStep
    PROVE  ServiceIsAccounted'
<1> USE DEF ServiceIsAccounted, WholeService, UndoneService, Idles, readerVars
<1>1. CASE RegisterService \/ Notify \/ StopCalled
  BY <1>1 DEF RegisterService, Notify, StopCalled
<1>2. CASE OutsideSignal
  BY <1>2 DEF OutsideSignal
<1>3. CASE ReaderStep
  BY <1>3 DEF ReaderStep, ReadCommand, CallHandler, HandlersCalled, Exit
<1> QED BY <1>1, <1>2, <1>3

\* Run waits with a standard service only if all of its servers and brokers are up, and
\* Stop leaves up exactly those it has an error of, whichever failed (Start and Stop of
\* standard.go, and Run's answer to their errors).
THEOREM ServiceIsAllOrNothing == ServicesSpec => []AllOrNothing
<1>1. ServicesInit => ServiceIsAccounted
  BY DEF ServicesInit, ServiceIsAccounted, WholeService, UndoneService, Idles
<1>2. ServiceIsAccounted /\ [ServicesNext]_serviceVars => ServiceIsAccounted'
  <2>1. ServiceIsAccounted /\ UNCHANGED serviceVars => ServiceIsAccounted'
    BY DEF serviceVars, ServiceIsAccounted, WholeService, UndoneService
  <2> QED BY <2>1, AccountedInStart, AccountedInStop, AccountedInRun
          DEF ServicesNext, RunStep
<1>3. ServiceIsAccounted => AllOrNothing
  BY DEF ServiceIsAccounted, WholeService, UndoneService, Idles, AllOrNothing,
         ServingIsWhole, StopUndoesStart
<1> QED BY <1>1, <1>2, <1>3, PTL DEF ServicesSpec

-----------------------------------------------------------------------------
(* Servers.  While a Stop waits, mutex in hand, the server counts as        *)
(* running, so that no Start comes in between; a listener that is open is   *)
(* served, but for one of tcp or udp whose goroutine has given up.          *)

\* The types but for the bound of the counter, which the count below gives.
ServerTyped ==
    /\ kind \in Kinds
    /\ lock \in Callers \cup {Nobody}
    /\ running \in BOOLEAN
    /\ wg \in Int
    /\ starts \in 0..MaxStarts
    /\ lis \in [Generations -> {"none", "open", "closed"}]
    /\ serve \in [Generations -> {"none", "spawned", "serving", "ended"}]
    /\ shut \in BOOLEAN
    /\ call \in [Callers -> {"idle", "stopping"}]
    /\ unlistened \subseteq Generations
    /\ unserved \subseteq Generations

\* What was counted and not counted off are Starts of the past, and goroutines that ended.
CountedBefore ==
    /\ \A g \in Generations : g > starts => serve[g] = "none"
    /\ unlistened \subseteq 1..starts
    /\ \A g \in unserved : serve[g] = "ended"

StopHoldsLock ==
    /\ \A c \in Callers : call[c] = "stopping" => lock = c
    /\ lock # Nobody => running

OpenIsServed ==
    /\ ~Raw => \A g \in Generations : lis[g] = "open" => g \in Live
    /\ ListensLate => \A g \in Generations : serve[g] = "spawned" => lis[g] = "none"
    /\ Raw /\ lock # Nobody => \A g \in Generations : lis[g] # "open"

ServerInv ==
    /\ ServerTyped
    /\ CountedBefore
    /\ StopHoldsLock
    /\ OpenIsServed
    /\ ServingAddsUp

LEMMA InitServerInv == Init => ServerInv
<1> SUFFICES ASSUME Init PROVE ServerInv
  OBVIOUS
<1>1. Live = {} /\ unlistened = {} /\ unserved = {}
  BY DEF Init, Live
<1>2. wg = Cardinality(Live) + Cardinality(unlistened) + Cardinality(unserved)
  BY <1>1, FS_EmptySet DEF Init
<1>3. ServingAddsUp
  BY <1>1, <1>2 DEF Init, ServingAddsUp, CountIsExplained, OneGeneration, StoppedIsQuiet
<1>4. starts \in 0..MaxStarts /\ wg \in Int
  BY StartsAssumption DEF Init
<1>5. ServerTyped
  BY <1>4 DEF Init, ServerTyped
<1> QED BY <1>1, <1>3, <1>5
        DEF Init, ServerInv, CountedBefore, StopHoldsLock, OpenIsServed

LEMMA CountsAreFinite ==
    ASSUME ServerTyped
    PROVE  /\ IsFiniteSet(Live) /\ IsFiniteSet(unlistened) /\ IsFiniteSet(unserved)
           /\ Cardinality(unlistened) \in Nat /\ Cardinality(unserved) \in Nat
<1>1. IsFiniteSet(Generations)
  BY StartsAssumption, FS_Interval DEF Generations
<1>2. Live \subseteq Generations
  BY DEF Live
<1> QED BY <1>1, <1>2, FS_Subset, FS_CardinalityType DEF ServerTyped

\* The goroutine that ends is the only one there is.
LEMMA EndServeCounts ==
    ASSUME ServerInv, NEW g \in Live, NEW error \in BOOLEAN, EndServe(g, error),
           unlistened' = unlistened, running' = running, starts' = starts,
           \A h \in Generations : lis'[h] = "open" => lis[h] = "open"
    PROVE  CountIsExplained' /\ Live' = {} /\ wg' \in Int /\ CountedBefore' /\ running
<1>1. Live = {g} /\ g \in Generations
  BY DEF ServerInv, ServingAddsUp, OneGeneration, Live
<1>2. \A h \in Generations : serve'[h] = IF h = g THEN "ended" ELSE serve[h]
  BY DEF EndServe, ServerInv, ServerTyped
<1>3. Live' = {}
  BY <1>1, <1>2 DEF Live
<1>4. Cardinality(Live) = 1 /\ Cardinality(Live') = 0
  BY <1>1, <1>3, FS_Singleton, FS_EmptySet
<1>5. g \notin unserved
  BY DEF ServerInv, CountedBefore, Live
<1>6. Cardinality(unserved \cup {g}) = Cardinality(unserved) + 1
  BY <1>5, CountsAreFinite, FS_AddElement DEF ServerInv
<1>7. CountIsExplained' /\ wg' \in Int
  <2>1. \/ unserved' = unserved \cup {g} /\ wg' = wg
        \/ unserved' = unserved /\ wg' = wg - 1
    BY DEF EndServe
  <2>2. wg = 1 + Cardinality(unlistened) + Cardinality(unserved)
    BY <1>4 DEF ServerInv, ServingAddsUp, CountIsExplained
  <2>3. Cardinality(unlistened) \in Nat /\ Cardinality(unserved) \in Nat
    BY CountsAreFinite DEF ServerInv
  <2>4. \/ Cardinality(unserved') = Cardinality(unserved) + 1 /\ wg' = wg
        \/ Cardinality(unserved') = Cardinality(unserved) /\ wg' = wg - 1
    BY <1>6, <2>1, Zenon
  <2>5. Cardinality(unlistened') = Cardinality(unlistened)
    BY Zenon
  <2> QED BY <1>4, <2>2, <2>3, <2>4, <2>5 DEF CountIsExplained
<1>8. CountedBefore'
  BY <1>1, <1>2 DEF EndServe, ServerInv, CountedBefore, Live
<1> QED BY <1>1, <1>3, <1>7, <1>8 DEF ServerInv, ServingAddsUp, StoppedIsQuiet

LEMMA StartInv ==
    ASSUME ServerInv, NEW c \in Callers, StartOk(c) \/ StartFails(c)
    PROVE  ServerInv'
<1>1. /\ starts + 1 \in Generations /\ starts' = starts + 1 /\ lock = Nobody /\ ~running
      /\ Live = {} /\ Cardinality(Live) = 0
      /\ \A g \in Generations : lis[g] # "open"
  <2>1. starts + 1 \in Generations /\ starts' = starts + 1 /\ lock = Nobody /\ ~running
    BY StartsAssumption DEF StartOk, StartFails, Free, ServerInv, ServerTyped, Generations
  <2> QED BY <2>1, FS_EmptySet DEF ServerInv, ServingAddsUp, StoppedIsQuiet
<1>2. CASE StartOk(c)
  <2>1. /\ \A g \in Generations : serve'[g] = IF g = starts + 1 THEN "spawned" ELSE serve[g]
        /\ \A g \in Generations :
              lis'[g] = IF g = starts + 1 THEN IF ListensLate THEN "none" ELSE "open"
                                          ELSE lis[g]
    BY <1>1, <1>2 DEF StartOk, ServerInv, ServerTyped
  <2>2. Live' = {starts + 1}
    BY <1>1, <2>1 DEF Live
  <2>3. Cardinality(Live') = 1
    BY <2>2, FS_Singleton
  <2>4. CountIsExplained'
    <3>1. wg = Cardinality(unlistened) + Cardinality(unserved)
      <4>1. Cardinality(unlistened) \in Nat /\ Cardinality(unserved) \in Nat
        BY CountsAreFinite DEF ServerInv
      <4> QED BY <1>1, <4>1 DEF ServerInv, ServingAddsUp, CountIsExplained
    <3>2. UNCHANGED <<unlistened, unserved>> /\ wg' = wg + 1
      BY <1>2 DEF StartOk
    <3>3. /\ Cardinality(unlistened') = Cardinality(unlistened)
          /\ Cardinality(unserved') = Cardinality(unserved)
      BY <3>2, Zenon
    <3>4. Cardinality(unlistened) \in Nat /\ Cardinality(unserved) \in Nat
      BY CountsAreFinite DEF ServerInv
    <3> QED BY <2>3, <3>1, <3>2, <3>3, <3>4 DEF CountIsExplained
  <2>5. ServerTyped'
    BY <1>1, <1>2 DEF StartOk, ServerInv, ServerTyped, Generations
  <2>6. CountedBefore'
    BY <1>1, <1>2, <2>1 DEF StartOk, ServerInv, ServerTyped, CountedBefore, Generations
  <2>7. StopHoldsLock' /\ OpenIsServed'
    BY <1>1, <1>2, <2>1, <2>2
       DEF StartOk, ServerInv, StopHoldsLock, OpenIsServed, Raw, ListensLate
  <2> QED BY <1>2, <2>2, <2>4, <2>5, <2>6, <2>7
          DEF StartOk, ServerInv, ServingAddsUp, OneGeneration, StoppedIsQuiet
<1>3. CASE StartFails(c)
  <2>1. Live' = Live
    BY <1>3 DEF StartFails, Live
  <2>2. starts + 1 \notin unlistened
    BY DEF ServerInv, ServerTyped, CountedBefore
  <2>3. Cardinality(unlistened \cup {starts + 1}) = Cardinality(unlistened) + 1
    BY <2>2, CountsAreFinite, FS_AddElement DEF ServerInv
  <2>4. \/ unlistened' = unlistened \cup {starts + 1} /\ wg' = wg + 1
        \/ unlistened' = unlistened /\ wg' = wg
    BY <1>3 DEF StartFails
  <2>5. Cardinality(unlistened) \in Nat /\ Cardinality(unserved) \in Nat /\ wg \in Int
    BY CountsAreFinite DEF ServerInv, ServerTyped
  <2>6. CountIsExplained' /\ wg' \in Int
    <3>1. wg = Cardinality(unlistened) + Cardinality(unserved)
      BY <1>1, <2>5 DEF ServerInv, ServingAddsUp, CountIsExplained
    <3>2. unserved' = unserved
      BY <1>3 DEF StartFails
    <3>3. Cardinality(unserved') = Cardinality(unserved) /\ Cardinality(Live') = 0
      BY <1>1, <2>1, <3>2, Zenon
    <3>4. \/ Cardinality(unlistened') = Cardinality(unlistened) + 1 /\ wg' = wg + 1
          \/ Cardinality(unlistened') = Cardinality(unlistened) /\ wg' = wg
      BY <2>3, <2>4, Zenon
    <3> QED BY <2>5, <3>1, <3>3, <3>4 DEF CountIsExplained
  <2>7. unlistened' \subseteq 1..starts' /\ unlistened' \subseteq Generations
    <3>1. starts \in Nat /\ 1..starts \subseteq 1..starts' /\ starts + 1 \in 1..starts'
      BY <1>1, StartsAssumption DEF ServerInv, ServerTyped
    <3>2. unlistened \subseteq 1..starts /\ unlistened \subseteq Generations
      BY DEF ServerInv, ServerTyped, CountedBefore
    <3> QED BY <1>1, <2>4, <3>1, <3>2
  <2>8. ServerTyped' /\ CountedBefore'
    <3>1. starts' \in 0..MaxStarts
      BY <1>1 DEF Generations
    <3>2. \A g \in Generations : g > starts' => g > starts
      BY <1>1, StartsAssumption DEF Generations, ServerInv, ServerTyped
    <3> QED BY <1>3, <2>6, <2>7, <3>1, <3>2 DEF StartFails, ServerInv, ServerTyped, CountedBefore
  <2>9. StopHoldsLock' /\ OpenIsServed'
    BY <1>1, <1>3, <2>1 DEF StartFails, ServerInv, StopHoldsLock, OpenIsServed, Raw, ListensLate
  <2> QED BY <1>1, <1>3, <2>1, <2>6, <2>8, <2>9
          DEF StartFails, ServerInv, ServingAddsUp, OneGeneration, StoppedIsQuiet
<1> QED BY <1>2, <1>3

\* The goroutine that serves starts, serves and ends.
LEMMA GoroutineInv ==
    ASSUME ServerInv, NEW g \in Generations,
           ServeStep(g) \/ LateListenFails(g) \/ ServeBreaks(g)
    PROVE  ServerInv'
<1>1. CASE BeginServe(g)
  <2>1. /\ \A h \in Generations : serve'[h] = IF h = g THEN "serving" ELSE serve[h]
        /\ \A h \in Generations :
              lis'[h] = IF h = g /\ ListensLate THEN "open" ELSE lis[h]
        /\ serve[g] = "spawned"
    BY <1>1 DEF BeginServe, ServerInv, ServerTyped
  <2>2. Live' = Live
    BY <2>1 DEF Live
  <2>3. g \in Live /\ running
    BY <2>1 DEF Live, ServerInv, ServingAddsUp, StoppedIsQuiet
  <2>4. CountIsExplained' /\ OneGeneration' /\ StoppedIsQuiet'
    BY <1>1, <2>2, <2>3
       DEF BeginServe, ServerInv, ServingAddsUp, CountIsExplained, OneGeneration, StoppedIsQuiet
  <2>5. ServerTyped' /\ CountedBefore' /\ StopHoldsLock'
    BY <1>1, <2>1 DEF BeginServe, ServerInv, ServerTyped, CountedBefore, StopHoldsLock
  <2>6. OpenIsServed'
    BY <1>1, <2>1, <2>2, <2>3 DEF BeginServe, ServerInv, OpenIsServed, Raw, ListensLate
  <2> QED BY <2>4, <2>5, <2>6 DEF ServerInv, ServingAddsUp
<1>2. ASSUME NEW error \in BOOLEAN, EndServe(g, error), g \in Live,
             \A h \in Generations : lis'[h] \in {lis[h], "closed"},
             ~Raw => lis'[g] # "open",
             lis' \in [Generations -> {"none", "open", "closed"}],
             UNCHANGED <<kind, lock, running, starts, shut, call, unlistened>>
      PROVE  ServerInv'
  <2>1. CountIsExplained' /\ Live' = {} /\ wg' \in Int /\ CountedBefore' /\ running
    BY <1>2, EndServeCounts
  <2>2. OneGeneration' /\ StoppedIsQuiet'
    BY <1>2, <2>1 DEF OneGeneration, StoppedIsQuiet
  <2>3. unserved' \subseteq Generations
        /\ serve' \in [Generations -> {"none", "spawned", "serving", "ended"}]
    BY <1>2 DEF EndServe, ServerInv, ServerTyped
  <2>4. ServerTyped' /\ StopHoldsLock'
    BY <1>2, <2>1, <2>3 DEF ServerInv, ServerTyped, StopHoldsLock
  <2>5. Live = {g}
    BY <1>2 DEF ServerInv, ServingAddsUp, OneGeneration
  <2>6. \A h \in Generations : h # g => serve'[h] = serve[h]
    BY <1>2 DEF EndServe, ServerInv, ServerTyped
  <2>7. \A h \in Generations : serve'[h] # "spawned"
    BY <2>1 DEF Live
  <2>8. OpenIsServed'
    BY <1>2, <2>1, <2>5, <2>7 DEF ServerInv, OpenIsServed, Raw, ListensLate
  <2> QED BY <2>1, <2>2, <2>4, <2>8 DEF ServerInv, ServingAddsUp
<1> USE DEF ServerInv, ServerTyped, Live
<1>3. CASE RefuseServe(g)
  BY <1>2, <1>3 DEF RefuseServe
<1>4. CASE LateListenFails(g)
  <2>1. lis[g] = "none"
    BY <1>4 DEF LateListenFails, OpenIsServed
  <2> QED BY <1>2, <1>4, <2>1 DEF LateListenFails
<1>5. CASE ServeCloses(g)
  BY <1>2, <1>5 DEF ServeCloses
<1>6. CASE ServeBreaks(g)
  BY <1>2, <1>6 DEF ServeBreaks
<1> QED BY <1>1, <1>3, <1>4, <1>5, <1>6 DEF ServeStep

LEMMA StopInv ==
    ASSUME ServerInv, NEW c \in Callers, StopBegin(c) \/ StopFails(c) \/ StopEnd(c)
    PROVE  ServerInv'
<1>1. Live' = Live /\ unlistened' = unlistened /\ unserved' = unserved /\ wg' = wg
  BY DEF StopBegin, StopFails, StopEnd, Live
<1>2. CountIsExplained' /\ OneGeneration'
  BY <1>1 DEF ServerInv, ServingAddsUp, CountIsExplained, OneGeneration
<1> USE DEF ServerInv, ServerTyped, CountedBefore
<1>3. CASE StopBegin(c)
  <2>1. running /\ running' /\ lock = Nobody /\ lock' = c /\ kind' = kind
    BY <1>3 DEF StopBegin, Free
  <2>2. \A g \in Generations :
           lis'[g] = IF lis[g] = "open" /\ (Raw \/ serve[g] = "serving") THEN "closed"
                                                                       ELSE lis[g]
    BY <1>3 DEF StopBegin
  <2>3. ServerTyped' /\ CountedBefore'
    BY <1>3 DEF StopBegin
  <2>4. StopHoldsLock'
    BY <1>3, <2>1, CallersAssumption DEF StopBegin, StopHoldsLock
  <2>5. OpenIsServed'
    BY <1>1, <1>3, <2>2 DEF StopBegin, OpenIsServed, Raw, ListensLate
  <2> QED BY <1>2, <2>1, <2>3, <2>4, <2>5 DEF ServingAddsUp, StoppedIsQuiet
<1>4. CASE StopFails(c)
  <2>1. ServerTyped' /\ CountedBefore' /\ StopHoldsLock'
    BY <1>4 DEF StopFails, StopHoldsLock
  <2>2. OpenIsServed'
    BY <1>1, <1>4 DEF StopFails, Free, OpenIsServed, Raw, ListensLate
  <2> QED BY <1>2, <1>4, <2>1, <2>2 DEF StopFails, ServingAddsUp, StoppedIsQuiet
<1>5. CASE StopEnd(c)
  <2>1. Live = {}
    <3>1. /\ wg = 0 /\ wg = Cardinality(Live) + Cardinality(unlistened) + Cardinality(unserved)
      BY <1>5 DEF StopEnd, ServingAddsUp, CountIsExplained
    <3>2. Cardinality(Live) \in Nat
      BY CountsAreFinite, FS_CardinalityType
    <3>3. Cardinality(Live) = 0
      BY <3>1, <3>2, CountsAreFinite
    <3> QED BY <3>3, CountsAreFinite, FS_EmptySet
  <2>2. lock = c /\ lock # Nobody
    BY <1>5, CallersAssumption DEF StopEnd, StopHoldsLock
  <2>3. \A g \in Generations : lis[g] # "open"
    BY <2>1, <2>2 DEF OpenIsServed
  <2>4. ServerTyped' /\ CountedBefore'
    BY <1>5 DEF StopEnd
  <2>5. StopHoldsLock'
    BY <1>5, <2>2 DEF StopEnd, StopHoldsLock
  <2>6. OpenIsServed'
    BY <1>1, <1>5, <2>3 DEF StopEnd, OpenIsServed, Raw, ListensLate
  <2> QED BY <1>1, <1>2, <1>5, <2>1, <2>3, <2>4, <2>5, <2>6
          DEF StopEnd, ServingAddsUp, StoppedIsQuiet
<1> QED BY <1>3, <1>4, <1>5

LEMMA ServerStep == ServerInv /\ [Next]_vars => ServerInv'
<1>1. ServerInv /\ UNCHANGED vars => ServerInv'
  BY DEF vars, ServerInv, ServerTyped, CountedBefore, StopHoldsLock, OpenIsServed, Raw,
         ListensLate, Live, ServingAddsUp, CountIsExplained, OneGeneration, StoppedIsQuiet
<1> QED BY <1>1, StartInv, GoroutineInv, StopInv DEF Next

\* The wait group counts what it should and what is accounted for as counted in vain, one
\* generation is alive at a time, and a server that does not run serves and listens nowhere:
\* of every kind, and after any failures (Start and Stop of the servers and manager.go).
THEOREM ServingCounts == Spec => []ServingAddsUp
<1>1. ServerInv => ServingAddsUp
  BY DEF ServerInv
<1> QED BY <1>1, InitServerInv, ServerStep, PTL DEF Spec

-----------------------------------------------------------------------------
(* Addresses.  Each step of a server with its addresses is a step of        *)
(* ServerLifecycle, or of the registry entry or of another process.         *)

LEMMA AddressStepIsServerStep == [AddressNext]_allVars => [Next]_vars
<1> SUFFICES ASSUME [AddressNext]_allVars PROVE [Next]_vars
  OBVIOUS
<1>1. CASE UNCHANGED allVars
  BY <1>1 DEF allVars
<1>2. ASSUME NEW c \in Callers, CallerStep(c)
      PROVE  Next
  BY <1>2 DEF CallerStep, Starts, StartsManager, StartsNot, Next
<1>3. ASSUME NEW g \in Generations,
             GoroutineStep(g) \/ (ServeBreaks(g) /\ UNCHANGED addressVars)
      PROVE  Next
  BY <1>3 DEF GoroutineStep, ManagerListens, ServeStep, Next
<1>4. CASE Announce \/ Withdraw \/ OthersListen
  BY <1>4 DEF Announce, Withdraw, OthersListen
<1> QED BY <1>1, <1>2, <1>3, <1>4 DEF AddressNext

\* The model with addresses is one of the model without: what holds of the life cycle holds
\* of it (ServerAddresses adds to Start of the servers and nothing else).
THEOREM AddressesImplementLifecycle == AddressSpec => Spec
<1>1. AddressInit => Init
  BY DEF AddressInit
<1> QED BY <1>1, AddressStepIsServerStep, PTL DEF AddressSpec, Spec

AddressTyped ==
    /\ asked \in Ports \cup {0} /\ port \in Ports \cup {0}
    /\ bound \in [Generations -> Ports \cup {0}]

\* Where a server listens it has taken the port for its own, and what was announced is that
\* port; a server that is yet to get one from the system has no listener and no entry.
PortIsListened ==
    /\ \A g \in OpenGenerations : bound[g] = port
    /\ entry \subseteq {port}
    /\ port = 0 => ~running /\ entry = {} /\ OpenGenerations = {}

PortIsKept ==
    /\ ~TakesAddress \/ asked # 0 => port = asked
    /\ explicit = 0 /\ (asked # 0 \/ kind = "grpc") => advPort = port

MetadataIsPort ==
    /\ kind = "manager" => meta = {}
    /\ ~Raw \/ asked # 0 => meta \subseteq {port}

AddressInv ==
    AddressTyped /\ PortIsKept /\ MetadataIsPort /\ (~NeverLearns => PortIsListened)

\* A listener's port is the server's, or one the system chose where it had none.
LEMMA ListenablePorts ==
    ASSUME AddressTyped, NEW p \in Listenable
    PROVE  p \in Ports /\ p # 0 /\ (port # 0 => p = port)
BY PortsAssumption DEF AddressTyped, Listenable, FreePorts

LEMMA AddressInStart ==
    ASSUME ServerInv, AddressInv, NEW c \in Callers,
           Starts(c) \/ StartsManager(c) \/ StartsNot(c)
    PROVE  AddressInv'
<1>1. kind' = kind /\ explicit' = explicit /\ asked' = asked /\ entry' = entry
  BY DEF Starts, StartsManager, StartsNot, StartOk, StartFails, addressVars
<1>2. ~running /\ OpenGenerations = {} /\ starts + 1 \in Generations
  BY StartsAssumption
     DEF Starts, StartsManager, StartsNot, StartOk, StartFails, ServerInv, ServingAddsUp,
         StoppedIsQuiet, OpenGenerations, ServerTyped, Generations
<1> USE <1>1, <1>2 DEF AddressInv, AddressTyped, PortIsKept, PortIsListened, NeverLearns,
                       TakesAddress
<1>3. CASE Starts(c)
  <2>1. PICK p \in Listenable : Binds(starts + 1, p) /\ TakeAddress(p)
    BY <1>3 DEF Starts
  <2>2. p \in Ports /\ p # 0 /\ (port # 0 => p = port)
    BY <2>1, ListenablePorts
  <2>3. OpenGenerations' = {starts + 1} /\ bound'[starts + 1] = p
    BY <1>3, <2>1 DEF Starts, StartOk, ServerInv, ServerTyped, OpenGenerations, Binds
  <2>4. AddressTyped'
    BY <2>1, <2>2 DEF Binds, TakeAddress
  <2>5. PortIsKept'
    BY <2>1, <2>2 DEF TakeAddress, TakesAdvertised
  <2>6. ~NeverLearns => PortIsListened'
    BY <2>1, <2>2, <2>3 DEF TakeAddress
  <2>7. MetadataIsPort'
    BY <1>3, <2>1, <2>2 DEF Starts, ListensLate, TakeAddress, WritesMetadata, MetadataIsPort, Raw
  <2> QED BY <2>4, <2>5, <2>6, <2>7
<1>4. CASE StartsManager(c)
  <2>1. OpenGenerations' = {}
    BY <1>4 DEF StartsManager, StartOk, ServerInv, ServerTyped, OpenGenerations
  <2>2. MetadataIsPort'
    BY <1>4 DEF StartsManager, addressVars, MetadataIsPort, Raw
  <2> QED BY <1>4, <2>1, <2>2 DEF StartsManager, addressVars, ListensLate
<1>5. CASE StartsNot(c)
  <2>1. OpenGenerations' = {}
    BY <1>5 DEF StartsNot, StartFails, OpenGenerations
  <2>2. MetadataIsPort'
    BY <1>5 DEF StartsNot, MetadataIsPort, Raw
  <2> QED BY <1>5, <2>1, <2>2 DEF StartsNot, StartFails
<1> QED BY <1>3, <1>4, <1>5

\* No step but a Start or the manager's listening opens a listener.
LEMMA AddressKept ==
    ASSUME AddressInv, UNCHANGED addressVars, kind' = kind, running' => running,
           OpenGenerations' \subseteq OpenGenerations
    PROVE  AddressInv'
BY DEF AddressInv, AddressTyped, PortIsKept, PortIsListened, MetadataIsPort, Raw, NeverLearns,
       TakesAddress, addressVars, Generations

LEMMA AddressElsewhere ==
    ASSUME ServerInv, AddressInv, AddressNext,
           ~ \E c \in Callers : Starts(c) \/ StartsManager(c) \/ StartsNot(c)
    PROVE  AddressInv'
<1> USE DEF ServerInv, ServerTyped
<1>1. ASSUME NEW c \in Callers,
             (StopBegin(c) \/ StopFails(c) \/ StopEnd(c)) /\ UNCHANGED addressVars
      PROVE  AddressInv'
  <2>1. OpenGenerations' \subseteq OpenGenerations
    BY <1>1 DEF StopBegin, StopFails, StopEnd, OpenGenerations
  <2> QED BY <1>1, <2>1, AddressKept DEF StopBegin, StopFails, StopEnd
<1>2. ASSUME NEW g \in Generations, UNCHANGED addressVars,
             \/ BeginServe(g) /\ ~ListensLate
             \/ RefuseServe(g) \/ ServeCloses(g) \/ LateListenFails(g) \/ ServeBreaks(g)
      PROVE  AddressInv'
  <2>1. OpenGenerations' \subseteq OpenGenerations
    BY <1>2 DEF BeginServe, RefuseServe, ServeCloses, LateListenFails, ServeBreaks,
                OpenGenerations
  <2>2. kind' = kind /\ running' = running
    BY <1>2 DEF BeginServe, RefuseServe, ServeCloses, LateListenFails, ServeBreaks
  <2> QED BY <1>2, <2>1, <2>2, AddressKept
<1>3. ASSUME NEW g \in Generations, ManagerListens(g)
      PROVE  AddressInv'
  <2>1. PICK p \in Listenable : Binds(g, p)
    BY <1>3 DEF ManagerListens
  <2>2. p \in Ports /\ p # 0 /\ (port # 0 => p = port)
    BY <2>1, ListenablePorts DEF AddressInv
  <2>3. running
    BY <1>3 DEF ManagerListens, BeginServe, Live, ServingAddsUp, StoppedIsQuiet
  <2>4. /\ \A h \in Generations : h # g /\ lis'[h] = "open" => lis[h] = "open"
        /\ bound' = [bound EXCEPT ![g] = p]
        /\ UNCHANGED <<kind, running, asked, explicit, port, advPort, meta, entry>>
    BY <1>3, <2>1 DEF ManagerListens, BeginServe, Binds
  <2>5. AddressTyped' /\ PortIsKept' /\ MetadataIsPort'
    BY <2>2, <2>4 DEF AddressInv, AddressTyped, PortIsKept, MetadataIsPort, Raw, TakesAddress
  <2>6. ASSUME ~NeverLearns
        PROVE  PortIsListened'
    <3>1. port # 0
      BY <2>3, <2>6 DEF AddressInv, PortIsListened
    <3>2. \A h \in OpenGenerations' : bound'[h] = port
      BY <2>2, <2>4, <2>6, <3>1 DEF AddressInv, AddressTyped, PortIsListened, OpenGenerations
    <3> QED BY <2>4, <2>6, <3>1, <3>2 DEF AddressInv, PortIsListened
  <2>7. NeverLearns' = NeverLearns
    BY <2>4 DEF NeverLearns, TakesAddress
  <2> QED BY <2>5, <2>6, <2>7 DEF AddressInv
<1>4. CASE Announce \/ Withdraw \/ OthersListen
  <2>1. UNCHANGED <<kind, running, lis, asked, explicit, port, advPort, bound, meta>>
    BY <1>4 DEF Announce, Withdraw, OthersListen, vars
  <2>2. OpenGenerations' = OpenGenerations /\ NeverLearns' = NeverLearns
    BY <2>1 DEF OpenGenerations, NeverLearns, TakesAddress
  <2>3. \/ entry' = entry \/ entry' = {}
        \/ running /\ entry' = {port}
    BY <1>4 DEF Announce, Withdraw, OthersListen
  <2> QED BY <2>1, <2>2, <2>3
          DEF AddressInv, AddressTyped, PortIsKept, PortIsListened, MetadataIsPort, Raw,
              TakesAddress
<1> QED BY <1>1, <1>2, <1>3, <1>4 DEF AddressNext, CallerStep, GoroutineStep

\* Every entry of the registry, every advertised address that is not the application's own
\* and every address in the metadata leads to the open listener, but for the ports that a
\* server never learns or learns too late, through restarts, failures to listen and other
\* processes that take ports (Start of the servers, serviceToRegistryInstance of sicky.go).
THEOREM AddressesAlwaysLead == AddressSpec => []AddressesLead
<1>1. AddressInit => ServerInv /\ AddressInv
  <2> SUFFICES ASSUME AddressInit PROVE ServerInv /\ AddressInv
    OBVIOUS
  <2>1. AddressTyped
    BY DEF AddressInit, New, AddressTyped
  <2>2. PortIsKept
    BY DEF AddressInit, New, PortIsKept
  <2>3. PortIsListened
    BY DEF AddressInit, Init, PortIsListened, OpenGenerations
  <2>4. MetadataIsPort
    BY DEF AddressInit, MetadataIsPort
  <2> QED BY <2>1, <2>2, <2>3, <2>4, InitServerInv DEF AddressInit, AddressInv
<1>2. ServerInv /\ AddressInv /\ [AddressNext]_allVars => (ServerInv /\ AddressInv)'
  <2> SUFFICES ASSUME ServerInv, AddressInv, [AddressNext]_allVars
               PROVE  ServerInv' /\ AddressInv'
    OBVIOUS
  <2>1. AddressInv'
    <3>1. CASE UNCHANGED allVars
      BY <3>1 DEF allVars, vars, addressVars, AddressInv, AddressTyped, PortIsKept,
                  PortIsListened, MetadataIsPort, Raw, NeverLearns, TakesAddress,
                  OpenGenerations
    <3> QED BY <3>1, AddressInStart, AddressElsewhere
  <2> QED BY <2>1, ServerStep, AddressStepIsServerStep
<1>3. AddressInv => AddressesLead
  <2> SUFFICES ASSUME AddressInv PROVE AddressesLead
    OBVIOUS
  <2>1. EntryLeadsToListener /\ AdvertisedIsListened
    BY DEF AddressInv, PortIsKept, PortIsListened, NeverLearns, TakesAddress,
           EntryLeadsToListener, AdvertisedIsListened
  <2>2. MetadataIsListened
    BY DEF AddressInv, PortIsListened, MetadataIsPort, NeverLearns, TakesAddress, Raw,
           MetadataIsListened
  <2> QED BY <2>1, <2>2 DEF AddressesLead
<1> QED BY <1>1, <1>2, <1>3, PTL DEF AddressSpec
=============================================================================
