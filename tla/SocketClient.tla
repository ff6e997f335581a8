---------------------------- MODULE SocketClient ----------------------------
(***************************************************************************)
(* The tcp and the udp client (client/tcp/tcp.go, client/udp/udp.go):      *)
(* Connect and Disconnect read and write the fields connected and conn     *)
(* without a lock, whichever goroutines call them.  The tcp client drops   *)
(* the error of Close, the udp client returns it and stays connected.      *)
(***************************************************************************)
EXTENDS SocketWire, Naturals, FiniteSets

CONSTANTS
    Callers    \* goroutines that call Connect and Disconnect

VARIABLES
    connected,  \* clt.connected
    conn,       \* clt.conn: {} before the first Connect, else one connection
    cpc, got,   \* step of each caller, and the connection it has dialled
    overlapped  \* history: two calls have overlapped

clientVars == <<connected, conn, cpc, got, overlapped>>

ClientTypeOK ==
    /\ connected \in BOOLEAN
    /\ conn \in SUBSET Conns /\ Cardinality(conn) <= 1
    /\ cpc \in [Callers -> {"idle", "dial", "assign", "mark", "unmark"}]
    /\ got \in [Callers -> SUBSET Conns]
    /\ overlapped \in BOOLEAN

ClientInit ==
    /\ connected = FALSE
    /\ conn = {}
    /\ cpc = [g \in Callers |-> "idle"]
    /\ got = [g \in Callers |-> {}]
    /\ overlapped = FALSE

\* g enters a call; another one may be on its way.
Enter(g, step) ==
    /\ cpc[g] = "idle"
    /\ cpc' = [cpc EXCEPT ![g] = step]
    /\ overlapped' = (overlapped \/ \E h \in Callers : cpc[h] # "idle")

Move(g, from, to) == cpc[g] = from /\ cpc' = [cpc EXCEPT ![g] = to]

-----------------------------------------------------------------------------
(* Connect: the check, the dial, and the two assignments.                   *)

\* Mutant: Connect does not ask whether the client is connected.
ConnectAlways(g) ==
    /\ Enter(g, "dial")
    /\ UNCHANGED <<kind, connected, conn, fd, got>>

Connect(g) ==
    /\ ~connected
    /\ Enter(g, "dial")
    /\ UNCHANGED <<kind, connected, conn, fd, got>>

Dial(g, c) ==
    /\ Move(g, "dial", "assign")
    /\ fd[c] = "none"
    /\ fd' = [fd EXCEPT ![c] = "open"]
    /\ got' = [got EXCEPT ![g] = {c}]
    /\ UNCHANGED <<kind, connected, conn, overlapped>>

DialFails(g) ==
    /\ Move(g, "dial", "idle")
    /\ UNCHANGED <<kind, connected, conn, fd, got, overlapped>>

AssignConn(g) ==
    /\ Move(g, "assign", "mark")
    /\ conn' = got[g]
    /\ got' = [got EXCEPT ![g] = {}]
    /\ UNCHANGED <<kind, connected, fd, overlapped>>

MarkConnected(g) ==
    /\ Move(g, "mark", "idle")
    /\ connected' = TRUE
    /\ UNCHANGED <<kind, conn, fd, got, overlapped>>

-----------------------------------------------------------------------------
(* Disconnect: the check and Close, then the assignment.                    *)

\* Closing a connection that is closed returns an error, which udp hands on.
Disconnect(g) ==
    /\ connected
    /\ Enter(g, IF kind = "udp" /\ \E c \in conn : fd[c] = "closed" THEN "idle" ELSE "unmark")
    /\ fd' = [c \in Conns |-> IF c \in conn THEN "closed" ELSE fd[c]]
    /\ UNCHANGED <<kind, connected, conn, got>>

MarkDisconnected(g) ==
    /\ Move(g, "unmark", "idle")
    /\ connected' = FALSE
    /\ UNCHANGED <<kind, conn, fd, got, overlapped>>

\* Every step of a call but a dial that succeeds.
ClientStep(g) ==
    \/ Connect(g) \/ DialFails(g) \/ AssignConn(g) \/ MarkConnected(g)
    \/ Disconnect(g) \/ MarkDisconnected(g)

-----------------------------------------------------------------------------
(* Properties.                                                              *)

\* While no two calls overlap, the client holds every connection it has left open, its flag
\* tells whether it holds one, and between calls an open one belongs to a client that says
\* so: nothing but a race leaks a connection (Connect and Disconnect of client/tcp/tcp.go
\* and client/udp/udp.go).
LeaksOnlyInRace ==
    ~overlapped =>
        /\ {c \in Conns : fd[c] = "open"} \subseteq conn \cup UNION {got[g] : g \in Callers}
        /\ (\A g \in Callers : cpc[g] = "idle") =>
              (connected <=> \E c \in conn : fd[c] = "open")
=============================================================================
