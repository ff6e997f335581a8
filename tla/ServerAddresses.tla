-------------------------- MODULE ServerAddresses --------------------------
(***************************************************************************)
(* The addresses of a server, or of the manager, through its life: the one *)
(* it listens on, the one it advertises, those in its metadata and in the  *)
(* registry entry that sicky.Run makes of them.  The actions are those of  *)
(* ServerLifecycle with what each does to the addresses.                   *)
(*                                                                         *)
(* An address is its port: 0 lets the system choose one, any other may be  *)
(* taken by another process.  The host never changes.                      *)
(***************************************************************************)
EXTENDS ServerLifecycle

CONSTANTS
    Ports,      \* ports that can be listened on
    Elsewhere   \* the port of an explicit advertise address, as a proxy's

ASSUME PortsAssumption ==
    Ports \subseteq Nat \ {0} /\ IsFiniteSet(Ports) /\ Elsewhere \in Nat \ (Ports \cup {0})

VARIABLES
    asked,      \* port of config.Address
    explicit,   \* port of config.AdvertiseAddress, or 0: there is none
    port,       \* of srv.addr
    advPort,    \* of srv.advertiseAddr
    bound,      \* the port each generation has listened on
    foreign,    \* ports that other processes listen on
    meta,       \* port in metadata "address", once it is set: {} or one
    entry       \* port in the registry entry, while there is one: {} or one

addressVars == <<asked, explicit, port, advPort, bound, foreign, meta, entry>>

allVars == <<vars, addressVars>>

AddressTypeOK ==
    /\ asked \in Ports \cup {0} /\ port \in Ports \cup {0}
    /\ explicit \in {0, Elsewhere} /\ advPort \in Ports \cup {0, Elsewhere}
    /\ bound \in [Generations -> Ports \cup {0}]
    /\ foreign \subseteq Ports
    /\ meta \in SUBSET (Ports \cup {0}) /\ Cardinality(meta) <= 1
    /\ entry \in SUBSET (Ports \cup {0}) /\ Cardinality(entry) <= 1

\* New resolves both addresses; without an advertise address the listen address is it.
New ==
    /\ port = asked
    /\ advPort = IF explicit = 0 THEN asked ELSE explicit

AddressInit ==
    /\ Init
    /\ asked \in Ports \cup {0}
    /\ explicit \in {0, Elsewhere}
    /\ New
    /\ bound = [g \in Generations |-> 0]
    /\ foreign = {}
    /\ meta = {}
    /\ entry = {}

-----------------------------------------------------------------------------
(* Listening.                                                               *)

\* Every server takes over the address of its listener, but udp, and but the manager,
\* whose listener nobody asks.
TakesAddress == kind \notin {"udp", "manager"}

\* grpc alone advertises what it listens on; the others what New has resolved.
TakesAdvertised == kind = "grpc" /\ explicit = 0

FreePorts == Ports \ (foreign \cup {bound[g] : g \in {x \in Generations : lis[x] = "open"}})

\* The ports a listener for srv.addr may get.
Listenable == IF port = 0 THEN FreePorts ELSE {port} \cap FreePorts

\* Generation g listens on p.
Binds(g, p) == bound' = [bound EXCEPT ![g] = p]

\* tcp and udp write the metadata before they listen, the others after.
WritesMetadata(p) == meta' = {IF Raw THEN port ELSE p}

\* What a successful Start does with the listener's port.
TakeAddress(p) ==
    /\ port' = IF TakesAddress THEN p ELSE port
    /\ advPort' = IF TakesAdvertised THEN p ELSE advPort
    /\ WritesMetadata(p)

Starts(c) ==
    /\ StartOk(c)
    /\ ~ListensLate
    /\ \E p \in Listenable : Binds(starts + 1, p) /\ TakeAddress(p)
    /\ UNCHANGED <<asked, explicit, foreign, entry>>

StartsManager(c) ==
    /\ StartOk(c)
    /\ ListensLate
    /\ UNCHANGED addressVars

StartsNot(c) ==
    /\ StartFails(c)
    /\ meta' = IF Raw THEN {port} ELSE meta
    /\ UNCHANGED <<asked, explicit, port, advPort, bound, foreign, entry>>

\* The manager's goroutine listens on the address of the configuration.
ManagerListens(g) ==
    /\ BeginServe(g)
    /\ ListensLate
    /\ \E p \in Listenable : Binds(g, p)
    /\ UNCHANGED <<asked, explicit, port, advPort, foreign, meta, entry>>

-----------------------------------------------------------------------------
(* The registry entry, and other processes.                                 *)

\* Mutant: the entry is made of what the configuration asks for.
AnnounceAsked ==
    /\ running
    /\ entry' = {asked}
    /\ UNCHANGED <<vars, asked, explicit, port, advPort, bound, foreign, meta>>

\* serviceToRegistryInstance asks a started server for Addr and Port.
Announce ==
    /\ running
    /\ entry' = {port}
    /\ UNCHANGED <<vars, asked, explicit, port, advPort, bound, foreign, meta>>

\* Deregister, before Stop or by anyone.
Withdraw ==
    /\ entry # {}
    /\ entry' = {}
    /\ UNCHANGED <<vars, asked, explicit, port, advPort, bound, foreign, meta>>

OthersListen ==
    /\ \/ \E p \in FreePorts : foreign' = foreign \cup {p}
       \/ \E p \in foreign : foreign' = foreign \ {p}
    /\ UNCHANGED <<vars, asked, explicit, port, advPort, bound, meta, entry>>

\* A step of the goroutine that serves g, other than one that breaks.
GoroutineStep(g) ==
    \/ ManagerListens(g)
    \/ /\ \/ BeginServe(g) /\ ~ListensLate
          \/ RefuseServe(g) \/ ServeCloses(g) \/ LateListenFails(g)
       /\ UNCHANGED addressVars

CallerStep(c) ==
    \/ Starts(c) \/ StartsManager(c) \/ StartsNot(c)
    \/ (StopBegin(c) \/ StopFails(c) \/ StopEnd(c)) /\ UNCHANGED addressVars

AddressNext ==
    \/ \E c \in Callers : CallerStep(c)
    \/ \E g \in Generations : GoroutineStep(g) \/ (ServeBreaks(g) /\ UNCHANGED addressVars)
    \/ Announce \/ Withdraw \/ OthersListen

AddressSpec == AddressInit /\ [][AddressNext]_allVars

\* As Fairness of ServerLifecycle; a manager that finds its port taken gives up.
AddressFairness ==
    /\ \A g \in Generations : WF_allVars(GoroutineStep(g))
    /\ \A c \in Callers : WF_allVars(StopEnd(c) /\ UNCHANGED addressVars)

AddressFairSpec == AddressSpec /\ AddressFairness

-----------------------------------------------------------------------------
(* Properties.                                                              *)

OpenGenerations == {g \in Generations : lis[g] = "open"}

\* udp and the manager never learn which port the system has chosen for them.
NeverLearns == ~TakesAddress /\ asked = 0

\* Every entry leads to the listener, also one that was made before the server was stopped
\* and started again, or while another process had the port: a server that has once got a
\* port from the system asks for the same one again (srv.addr = listener.Addr() in Start of
\* the servers, serviceToRegistryInstance of sicky.go).
EntryLeadsToListener ==
    ~NeverLearns => \A g \in OpenGenerations : entry \subseteq {bound[g]}

\* The advertised address of a server without an explicit one is where it listens, unless
\* the system has chosen the port of a server that is not grpc (AdvertisePort).
AdvertisedIsListened ==
    explicit = 0 /\ (asked # 0 \/ kind = "grpc") =>
        \A g \in OpenGenerations : advPort = bound[g]

\* The address in the metadata is where the server listens, unless the system has chosen the
\* port of a tcp or udp server: these write it before they listen, and after the first
\* Start it has port 0 (tcp.go, udp.go; the manager has no metadata).
MetadataIsListened ==
    ~Raw \/ asked # 0 => \A g \in OpenGenerations : meta \subseteq {bound[g]}

\* A client that goes by the registry, by the advertised address or by the metadata gets to
\* the server, but for the cases named (serviceToRegistryInstance of sicky.go, New and
\* Start of the servers).
AddressesLead == EntryLeadsToListener /\ AdvertisedIsListened /\ MetadataIsListened
=============================================================================
