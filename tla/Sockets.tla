------------------------------ MODULE Sockets ------------------------------
(***************************************************************************)
(* A client (client/tcp, client/udp) whose goroutines connect and          *)
(* disconnect as they like, and the server of the same kind: a dial of the *)
(* client is an arrival at the server, a Close of the client is the end of *)
(* a session's input.                                                      *)
(***************************************************************************)
EXTENDS SocketSessions, SocketClient

socketVars == <<wireVars, serverVars, clientVars>>

SocketInit == WireInit /\ ServerInit /\ ClientInit

ClientDials(g) == \E c \in Conns : Dial(g, c) /\ Arrive(c)

Datagram(c) == SendDatagram(c) /\ UNCHANGED clientVars

ClientAlone(g) == ClientStep(g) /\ UNCHANGED serverVars

ServerAlone == ServerStep /\ UNCHANGED clientVars

SocketNext ==
    /\ ~crashed
    /\ \/ \E g \in Callers : ClientDials(g) \/ ClientAlone(g)
       \/ \E c \in Conns : Datagram(c)
       \/ ServerAlone

SocketSpec == SocketInit /\ [][SocketNext]_socketVars /\ ServerFairness
=============================================================================
