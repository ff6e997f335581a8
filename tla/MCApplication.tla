---------------------------- MODULE MCApplication ----------------------------
(***************************************************************************)
(* Run, the services it starts and the servers these start.  The three     *)
(* models share no state (what Run knows of a service and a service of a   *)
(* server is the outcome of Start and Stop, and each outcome can happen):  *)
(* a behaviour is one of any of them.                                      *)
(***************************************************************************)
EXTENDS AppRun, Services, ServerAddresses

VARIABLE part

applicationVars == <<runVars, serviceVars, allVars, part>>

\* What stands still has one initial state.
Plain == [infra |-> {}, brokers |-> {}, registries |-> {}, manager |-> FALSE,
          mustInfra |-> {}, mustBroker |-> FALSE, mustRegistry |-> FALSE]

ApplicationInit ==
    /\ part \in {"run", "service", "server"}
    /\ part = "run" \/ conf = Plain
    /\ part = "service" \/ sort = "mcp"
    /\ part = "server" \/ (kind = "tcp" /\ asked = 0 /\ explicit = 0)
    /\ RunInit /\ ServicesInit /\ AddressInit

RunMoves == part = "run" /\ RunNext /\ UNCHANGED <<serviceVars, allVars, part>>

ServiceMoves == part = "service" /\ ServicesNext /\ UNCHANGED <<runVars, allVars, part>>

ServerMoves == part = "server" /\ AddressNext /\ UNCHANGED <<runVars, serviceVars, part>>

ApplicationNext == RunMoves \/ ServiceMoves \/ ServerMoves

\* The fairness of the three modules, each for the behaviours that are its own; the one of
\* ServerAddresses enables nothing before a Start.
ApplicationSpec ==
    /\ ApplicationInit /\ [][ApplicationNext]_applicationVars
    /\ WF_runVars(part = "run" /\ Step)
    /\ WF_serviceVars(part = "service" /\ Alive /\ RunStep)
    /\ WF_serviceVars(part = "service" /\ Alive /\ ReaderStep /\ reader # "prompt")
    /\ AddressFairness
=============================================================================
