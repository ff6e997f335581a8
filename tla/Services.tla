------------------------------ MODULE Services ------------------------------
(***************************************************************************)
(* The services (service/standard, interactive and mcp) under Run of       *)
(* sicky.go, which starts one, registers it, waits for a signal and stops  *)
(* it.  A standard service starts its servers and connects its brokers,    *)
(* goes on after an error and rolls nothing back: Run calls its Stop and   *)
(* gives up.  An interactive one spawns a loop over the terminal, starts   *)
(* none of its servers, and ends the application with a signal to its own  *)
(* process; Stop does not end the loop.  An mcp service does nothing.      *)
(***************************************************************************)
EXTENDS Naturals, FiniteSets

CONSTANTS
    ServiceKinds,   \* the kinds checked
    Servers,        \* the service's servers
    Jetstreams,     \* its brokers of kind jetstream
    OtherBrokers,   \* its other brokers
    Handlers,       \* the handlers of an interactive service
    MaxInputs       \* bound: lines read from the terminal

ASSUME ServiceKindsAssumption == ServiceKinds \subseteq {"standard", "interactive", "mcp"}
ASSUME InputsAssumption == MaxInputs \in Nat

MyBrokers == Jetstreams \cup OtherBrokers

VARIABLES
    sort,
    stage,       \* where Run is with the service
    left,        \* what the current loop of Start or Stop has still to visit
    errs,        \* the members of the loop that returned an error
    up,          \* servers that run and brokers that are connected
    leaked,      \* brokers with a connection nobody holds
    entered,     \* the registry holds the service's entry
    notified,    \* Run has asked for the signals
    signalled,   \* one has come since
    killed,      \* one came before: the process is gone
    reader,      \* the step of the terminal's loop
    command,     \* what it has read
    untold,      \* handlers that have not been given it yet
    inputs       \* lines read

serviceVars == <<sort, stage, left, errs, up, leaked, entered, notified, signalled, killed,
                 reader, command, untold, inputs>>

readerVars == <<reader, command, untold, inputs>>

ServicesInit ==
    /\ sort \in ServiceKinds
    /\ stage = "made" /\ left = {} /\ errs = {}
    /\ up = {} /\ leaked = {} /\ entered = FALSE
    /\ notified = FALSE /\ signalled = FALSE /\ killed = FALSE
    /\ reader = "none" /\ command = "none" /\ untold = {} /\ inputs = 0

-----------------------------------------------------------------------------
(* Start.                                                                   *)

\* Start of an interactive service spawns the loop and of an mcp service does nothing:
\* both report no error.
StartCalled ==
    /\ stage = "made"
    /\ IF sort = "standard"
          THEN stage' = "servers" /\ left' = Servers /\ UNCHANGED reader
          ELSE /\ stage' = "started"
               /\ reader' = IF sort = "interactive" THEN "prompt" ELSE reader
               /\ UNCHANGED left
    /\ UNCHANGED <<sort, errs, up, leaked, entered, notified, signalled, killed, command,
                   untold, inputs>>

StartServer(s) ==
    /\ stage = "servers" /\ s \in left
    /\ left' = left \ {s}
    /\ \/ up' = up \cup {s} /\ UNCHANGED errs
       \/ errs' = errs \cup {s} /\ UNCHANGED up
    /\ UNCHANGED <<sort, stage, leaked, entered, notified, signalled, killed, readerVars>>

ServersStarted ==
    /\ stage = "servers" /\ left = {}
    /\ stage' = "brokers" /\ left' = MyBrokers
    /\ UNCHANGED <<sort, errs, up, leaked, entered, notified, signalled, killed, readerVars>>

\* jetstream may fail after it has dialled; it forgets the connection then.
Connect(b) ==
    /\ stage = "brokers" /\ b \in left
    /\ left' = left \ {b}
    /\ \/ up' = up \cup {b} /\ UNCHANGED <<errs, leaked>>
       \/ errs' = errs \cup {b} /\ UNCHANGED <<up, leaked>>
       \/ /\ b \in Jetstreams
          /\ errs' = errs \cup {b} /\ leaked' = leaked \cup {b} /\ UNCHANGED up
    /\ UNCHANGED <<sort, stage, entered, notified, signalled, killed, readerVars>>

\* Start returns; after an error Run calls Stop and will give up.
StartReturns ==
    /\ stage = "brokers" /\ left = {}
    /\ IF errs = {} THEN stage' = "started" /\ UNCHANGED left
                    ELSE stage' = "undoDisconnect" /\ left' = MyBrokers
    /\ errs' = {}
    /\ UNCHANGED <<sort, up, leaked, entered, notified, signalled, killed, readerVars>>

-----------------------------------------------------------------------------
(* Run, from the registration to the stop.                                  *)

\* An error of Register is logged.
RegisterService ==
    /\ stage = "started"
    /\ stage' = "registered"
    /\ entered' \in BOOLEAN
    /\ UNCHANGED <<sort, left, errs, up, leaked, notified, signalled, killed, readerVars>>

\* The wrappers after the start have returned.
Notify ==
    /\ stage = "registered"
    /\ stage' = "waiting"
    /\ notified' = TRUE
    /\ UNCHANGED <<sort, left, errs, up, leaked, entered, signalled, killed, readerVars>>

\* SIGTERM or the like from outside.
OutsideSignal ==
    /\ ~signalled /\ stage # "gone"
    /\ IF notified THEN signalled' = TRUE /\ UNCHANGED killed
                   ELSE killed' = TRUE /\ UNCHANGED signalled
    /\ UNCHANGED <<sort, stage, left, errs, up, leaked, entered, notified, readerVars>>

\* The entry is removed, or that fails and is logged; then Stop is called.
StopCalled ==
    /\ stage = "waiting" /\ signalled
    /\ entered' \in {FALSE, entered}
    /\ IF sort = "standard" THEN stage' = "disconnect" /\ left' = MyBrokers
                            ELSE stage' = "stopped" /\ UNCHANGED left
    /\ UNCHANGED <<sort, errs, up, leaked, notified, signalled, killed, readerVars>>

-----------------------------------------------------------------------------
(* Stop, for a service that ran and for one that did not start.             *)

Undoing == stage \in {"undoDisconnect", "undoStop"}

DisconnectBroker(b) ==
    /\ stage \in {"disconnect", "undoDisconnect"} /\ b \in left
    /\ left' = left \ {b}
    /\ up' = up \ {b}
    /\ UNCHANGED <<sort, stage, errs, leaked, entered, notified, signalled, killed,
                   readerVars>>

BrokersDisconnected ==
    /\ stage \in {"disconnect", "undoDisconnect"} /\ left = {}
    /\ stage' = IF Undoing THEN "undoStop" ELSE "stopServers"
    /\ left' = Servers
    /\ UNCHANGED <<sort, errs, up, leaked, entered, notified, signalled, killed, readerVars>>

\* Mutant: the loop ends at the first error.
StopServerGivesUp(s) ==
    /\ stage \in {"stopServers", "undoStop"} /\ s \in left
    /\ \/ up' = up \ {s} /\ left' = left \ {s} /\ UNCHANGED errs
       \/ s \in up /\ errs' = errs \cup {s} /\ left' = {} /\ UNCHANGED up
    /\ UNCHANGED <<sort, stage, leaked, entered, notified, signalled, killed, readerVars>>

\* A server that runs may not shut down, which its Stop returns.
StopServer(s) ==
    /\ stage \in {"stopServers", "undoStop"} /\ s \in left
    /\ left' = left \ {s}
    /\ \/ up' = up \ {s} /\ UNCHANGED errs
       \/ s \in up /\ errs' = errs \cup {s} /\ UNCHANGED up
    /\ UNCHANGED <<sort, stage, leaked, entered, notified, signalled, killed, readerVars>>

\* What Stop returns after a failed Start is dropped; otherwise Run returns it.
ServiceStopReturns ==
    /\ stage \in {"stopServers", "undoStop"} /\ left = {}
    /\ stage' = "stopped"
    /\ UNCHANGED <<sort, left, errs, up, leaked, entered, notified, signalled, killed,
                   readerVars>>

\* Run closes what is left and returns; main returns.
RunReturns ==
    /\ stage = "stopped"
    /\ stage' = "gone"
    /\ UNCHANGED <<sort, left, errs, up, leaked, entered, notified, signalled, killed,
                   readerVars>>

-----------------------------------------------------------------------------
(* The loop over the terminal.  A line that is not there (the terminal is   *)
(* closed) reads as the empty command, which the handlers are given.        *)

ReadCommand ==
    /\ reader = "prompt" /\ inputs < MaxInputs
    /\ inputs' = inputs + 1
    /\ command' \in {"exit", "other"}
    /\ reader' = "handlers"
    /\ untold' = Handlers
    /\ UNCHANGED <<sort, stage, left, errs, up, leaked, entered, notified, signalled,
                   killed>>

\* OnStop or OnInteract; an error is printed.
CallHandler(h) ==
    /\ reader = "handlers" /\ h \in untold
    /\ untold' = untold \ {h}
    /\ UNCHANGED <<sort, stage, left, errs, up, leaked, entered, notified, signalled,
                   killed, reader, command, inputs>>

HandlersCalled ==
    /\ reader = "handlers" /\ untold = {}
    /\ reader' = IF command = "exit" THEN "exiting" ELSE "prompt"
    /\ UNCHANGED <<sort, stage, left, errs, up, leaked, entered, notified, signalled,
                   killed, command, untold, inputs>>

\* Mutant: the loop ends and sends no signal.
ExitSilently ==
    /\ reader = "exiting"
    /\ reader' = "ended"
    /\ UNCHANGED <<sort, stage, left, errs, up, leaked, entered, notified, signalled,
                   killed, command, untold, inputs>>

\* SIGQUIT to the own process: it ends Run's wait, or the process.
Exit ==
    /\ reader = "exiting"
    /\ reader' = "ended"
    /\ IF notified THEN signalled' = TRUE /\ UNCHANGED killed
                   ELSE killed' = TRUE /\ UNCHANGED signalled
    /\ UNCHANGED <<sort, stage, left, errs, up, leaked, entered, notified, command, untold,
                   inputs>>

RunStep ==
    \/ StartCalled \/ ServersStarted \/ StartReturns \/ RegisterService \/ Notify
    \/ StopCalled \/ BrokersDisconnected \/ ServiceStopReturns \/ RunReturns
    \/ \E s \in Servers : StartServer(s) \/ StopServer(s)
    \/ \E b \in MyBrokers : Connect(b) \/ DisconnectBroker(b)

ReaderStep ==
    \/ ReadCommand \/ HandlersCalled \/ Exit
    \/ \E h \in Handlers : CallHandler(h)

Alive == ~killed /\ stage # "gone"

ServicesNext == Alive /\ (RunStep \/ ReaderStep \/ OutsideSignal)

ServicesSpec == ServicesInit /\ [][ServicesNext]_serviceVars

\* Run is sequential code whose calls return; a line may never come, but a handler
\* returns and a loop that has read one goes on.
ServicesFairness ==
    /\ WF_serviceVars(Alive /\ RunStep)
    /\ WF_serviceVars(Alive /\ ReaderStep /\ reader # "prompt")

ServicesFairSpec == ServicesSpec /\ ServicesFairness

-----------------------------------------------------------------------------
(* Properties.                                                              *)

\* Run registers a standard service, and waits with it, only if every server runs and
\* every broker is connected, whichever of them failed and in whatever order.
ServingIsWhole ==
    sort = "standard" /\ stage \in {"started", "registered", "waiting"} =>
        up = Servers \cup MyBrokers

\* Stop leaves running exactly what it has an error of: after a complete start, after one
\* that failed at any server or broker, and after errors in between.  What remains of a
\* broker that dialled in vain is no part of the service any more.
StopUndoesStart == stage \in {"stopped", "gone"} => up = errs

\* Both: of a standard service all or nothing, but for what Stop has reported (Start and
\* Stop of standard.go, and Run's answer to their errors).
AllOrNothing == ServingIsWhole /\ StopUndoesStart

\* The command that ends an interactive application ends it, at whatever stage it comes:
\* Run returns or the process is killed.
ExitEnds == reader = "exiting" ~> killed \/ stage = "gone"
=============================================================================
