--------------------------- MODULE Sockets_proofs ---------------------------
(***************************************************************************)
(* Proofs about Sockets: that only overlapping calls of a client leak a    *)
(* connection, that only Close takes a session of the server out of its    *)
(* pool, and that a server that was stopped takes in no more sessions.     *)
(***************************************************************************)
EXTENDS Sockets, FiniteSetTheorems, TLAPS

-----------------------------------------------------------------------------
(* The client.  While no calls overlap, the open connections are known at   *)
(* every step of the one call.                                              *)

OpenConns == {c \in Conns : fd[c] = "open"}

ClientTyped ==
    /\ kind \in {"tcp", "udp"}
    /\ fd \in [Conns -> {"none", "open", "closed"}]
    /\ connected \in BOOLEAN
    /\ conn \subseteq Conns
    /\ cpc \in [Callers -> {"idle", "dial", "assign", "mark", "unmark"}]
    /\ got \in [Callers -> SUBSET Conns]
    /\ overlapped \in BOOLEAN

OneCall ==
    /\ \A g, h \in Callers : cpc[g] # "idle" /\ cpc[h] # "idle" => g = h
    /\ \A g \in Callers : got[g] # {} => cpc[g] = "assign"
    /\ \A c, d \in conn : c = d

\* What is open at each step of the call, and between calls.
OpenAtStep ==
    /\ (\A g \in Callers : cpc[g] = "idle") =>
          OpenConns \subseteq conn /\ (connected <=> OpenConns # {})
    /\ \A g \in Callers :
          /\ cpc[g] = "dial" => ~connected /\ OpenConns = {}
          /\ cpc[g] = "assign" =>
                ~connected /\ OpenConns = got[g] /\ \E c \in Conns : got[g] = {c}
          /\ cpc[g] = "mark" => ~connected /\ OpenConns = conn /\ conn # {}
          /\ cpc[g] = "unmark" => connected /\ OpenConns = {}

ClientInv == ClientTyped /\ (~overlapped => OneCall /\ OpenAtStep)

LEMMA InitClientInv == SocketInit => ClientInv
<1> SUFFICES ASSUME SocketInit PROVE ClientInv
  OBVIOUS
<1>1. ClientTyped
  BY DEF SocketInit, WireInit, ClientInit, ClientTyped
<1>2. OneCall
  BY DEF SocketInit, ClientInit, OneCall
<1>3. OpenConns = {}
  BY DEF SocketInit, WireInit, OpenConns
<1>4. OpenAtStep
  BY <1>3 DEF SocketInit, ClientInit, OpenAtStep
<1> QED BY <1>1, <1>2, <1>4 DEF ClientInv

LEMMA EnterAlone ==
    ASSUME ClientInv, NEW g \in Callers, NEW step, Enter(g, step), ~overlapped'
    PROVE  /\ ~overlapped /\ \A h \in Callers : cpc[h] = "idle"
           /\ OneCall /\ OpenConns \subseteq conn /\ (connected <=> OpenConns # {})
BY DEF Enter, ClientInv, OpenAtStep

LEMMA DialInv ==
    ASSUME ClientInv, NEW g \in Callers, NEW c \in Conns, Dial(g, c)
    PROVE  ClientInv'
<1> USE DEF ClientInv, ClientTyped
<1>1. ClientTyped'
  BY DEF Dial, Move
<1>2. ASSUME ~overlapped'
      PROVE  OneCall' /\ OpenAtStep'
  <2>1. /\ cpc[g] = "dial" /\ ~overlapped /\ OpenConns = {} /\ ~connected
        /\ conn' = conn /\ connected' = connected
        /\ \A h \in Callers : cpc'[h] = IF h = g THEN "assign" ELSE cpc[h]
        /\ \A h \in Callers : got'[h] = IF h = g THEN {c} ELSE got[h]
        /\ \A d \in Conns : fd'[d] = IF d = c THEN "open" ELSE fd[d]
    BY <1>2 DEF Dial, Move, OpenAtStep
  <2>2. \A h \in Callers : h # g => cpc[h] = "idle" /\ cpc'[h] = "idle" /\ got[h] = {}
    BY <2>1 DEF OneCall
  <2>3. OpenConns' = {c}
    BY <2>1 DEF OpenConns
  <2>4. OneCall'
    BY <2>1, <2>2 DEF OneCall
  <2>5. OpenAtStep'
    BY <2>1, <2>2, <2>3 DEF OpenAtStep
  <2> QED BY <2>4, <2>5
<1> QED BY <1>1, <1>2

LEMMA ConnectInv ==
    ASSUME ClientInv, NEW g \in Callers,
           Connect(g) \/ DialFails(g) \/ AssignConn(g) \/ MarkConnected(g)
    PROVE  ClientInv'
<1> USE DEF ClientInv, ClientTyped
<1>1. ClientTyped'
  BY DEF Connect, DialFails, AssignConn, MarkConnected, Enter, Move
<1>2. OpenConns' = OpenConns
  BY DEF Connect, DialFails, AssignConn, MarkConnected, OpenConns
<1>3. CASE Connect(g)
  <2>1. Enter(g, cpc'[g]) /\ UNCHANGED <<conn, connected, fd>>
    BY <1>3 DEF Connect, Enter
  <2>2. ~overlapped' => OneCall'
    BY <1>3, EnterAlone DEF Connect, Enter, OneCall
  <2>3. ~overlapped' => OpenAtStep'
    BY <1>2, <1>3, EnterAlone DEF Connect, Enter, OpenAtStep
  <2> QED BY <1>1, <2>2, <2>3
<1>4. ASSUME ~overlapped, NEW from, NEW to, Move(g, from, to), from # "idle"
      PROVE  \A h \in Callers : h # g => cpc[h] = "idle" /\ cpc'[h] = "idle" /\ got[h] = {}
  BY <1>4 DEF Move, OneCall
<1>5. CASE DialFails(g)
  BY <1>1, <1>2, <1>4, <1>5 DEF DialFails, Move, OneCall, OpenAtStep
<1>6. CASE AssignConn(g)
  <2>1. ASSUME ~overlapped'
        PROVE  OneCall' /\ OpenAtStep'
    <3>1. /\ ~overlapped /\ cpc[g] = "assign" /\ cpc'[g] = "mark" /\ conn' = got[g]
          /\ got'[g] = {} /\ \A h \in Callers : h # g => got'[h] = got[h]
          /\ connected' = connected
      BY <1>6, <2>1 DEF AssignConn, Move
    <3>2. \A h \in Callers : h # g => cpc[h] = "idle" /\ cpc'[h] = "idle" /\ got[h] = {}
      BY <1>4, <1>6, <3>1 DEF AssignConn
    <3>3. ~connected /\ OpenConns = got[g] /\ \E c \in Conns : got[g] = {c}
      BY <3>1 DEF OpenAtStep
    <3>4. OneCall'
      BY <3>1, <3>2, <3>3 DEF OneCall
    <3>5. OpenAtStep'
      BY <1>2, <3>1, <3>2, <3>3 DEF OpenAtStep
    <3> QED BY <3>4, <3>5
  <2> QED BY <1>1, <2>1
<1>7. CASE MarkConnected(g)
  BY <1>1, <1>2, <1>4, <1>7 DEF MarkConnected, Move, OneCall, OpenAtStep
<1> QED BY <1>3, <1>5, <1>6, <1>7

LEMMA DisconnectInv ==
    ASSUME ClientInv, NEW g \in Callers, Disconnect(g) \/ MarkDisconnected(g)
    PROVE  ClientInv'
<1> USE DEF ClientInv, ClientTyped
<1>1. ClientTyped'
  BY DEF Disconnect, MarkDisconnected, Enter, Move
<1>2. CASE Disconnect(g)
  <2>1. ASSUME ~overlapped'
        PROVE  OneCall' /\ OpenAtStep'
    <3>1. PICK step : Enter(g, step) /\ (step = "unmark" \/ \E c \in conn : fd[c] = "closed")
      BY <1>2 DEF Disconnect
    <3>2. /\ \A h \in Callers : cpc[h] = "idle"
          /\ OneCall /\ OpenConns \subseteq conn /\ (connected <=> OpenConns # {})
      BY <2>1, <3>1, EnterAlone
    <3>3. connected /\ connected' /\ conn' = conn /\ got' = got
      BY <1>2 DEF Disconnect
    <3>4. \A c \in conn : fd[c] = "open"
      BY <3>2, <3>3 DEF OneCall, OpenConns
    <3>5. cpc' = [cpc EXCEPT ![g] = "unmark"]
      BY <3>1, <3>4 DEF Enter
    <3>6. OpenConns' = {}
      BY <1>2, <3>2 DEF Disconnect, OpenConns
    <3> QED BY <3>2, <3>3, <3>5, <3>6 DEF OneCall, OpenAtStep
  <2> QED BY <1>1, <2>1
<1>3. CASE MarkDisconnected(g)
  <2>1. OpenConns' = OpenConns
    BY <1>3 DEF MarkDisconnected, OpenConns
  <2>2. ASSUME ~overlapped
        PROVE  \A h \in Callers : h # g => cpc[h] = "idle" /\ cpc'[h] = "idle"
    BY <1>3, <2>2 DEF MarkDisconnected, Move, OneCall
  <2> QED BY <1>1, <1>3, <2>1, <2>2 DEF MarkDisconnected, Move, OneCall, OpenAtStep
<1> QED BY <1>2, <1>3

\* What is the server's leaves the client alone.
LEMMA ElsewhereClientInv ==
    ASSUME ClientInv, UNCHANGED <<wireVars, clientVars>>
    PROVE  ClientInv'
BY DEF wireVars, clientVars, ClientInv, ClientTyped, OneCall, OpenAtStep, OpenConns

LEMMA ServerLeavesWire == ServerStep => UNCHANGED wireVars
BY DEF ServerStep, Receive, LoopStep, LoopEnds, PutBegins, PutSession, Connected, DataDone,
       ReaderStep, ReadEnds, ReaderEnds, CloseBegins, CloserStep, RemoveBegins, DropByID,
       CloseSocket, StopBegins, StopReturns

LEMMA ClientStepInv == ClientInv /\ [SocketNext]_socketVars => ClientInv'
<1> SUFFICES ASSUME ClientInv, [SocketNext]_socketVars PROVE ClientInv'
  OBVIOUS
<1>1. CASE UNCHANGED socketVars
  BY <1>1, ElsewhereClientInv DEF socketVars
<1>2. ASSUME NEW g \in Callers, ClientDials(g) \/ ClientAlone(g)
      PROVE  ClientInv'
  BY <1>2, DialInv, ConnectInv, DisconnectInv DEF ClientDials, ClientAlone, ClientStep
<1>3. ASSUME NEW c \in Conns, Datagram(c)
      PROVE  ClientInv'
  BY <1>3, ElsewhereClientInv DEF Datagram, SendDatagram
<1>4. CASE ServerAlone
  BY <1>4, ElsewhereClientInv, ServerLeavesWire DEF ServerAlone
<1> QED BY <1>1, <1>2, <1>3, <1>4 DEF SocketNext

\* While no two calls of Connect and Disconnect overlap, the client holds each connection it
\* has left open and says so between calls: leaks need a race (client/tcp/tcp.go and
\* client/udp/udp.go).
THEOREM ClientLeaksOnlyInRace == SocketSpec => []LeaksOnlyInRace
<1>1. ClientInv => LeaksOnlyInRace
  <2> SUFFICES ASSUME ClientTyped, OneCall, OpenAtStep
               PROVE  /\ OpenConns \subseteq conn \cup UNION {got[g] : g \in Callers}
                      /\ (\A g \in Callers : cpc[g] = "idle") =>
                            (connected <=> \E c \in conn : fd[c] = "open")
    BY DEF ClientInv, LeaksOnlyInRace, OpenConns
  <2>1. CASE \A g \in Callers : cpc[g] = "idle"
    BY <2>1 DEF OpenAtStep, OpenConns, ClientTyped
  <2>2. ASSUME NEW g \in Callers, cpc[g] # "idle"
        PROVE  OpenConns \subseteq conn \cup UNION {got[h] : h \in Callers}
    BY <2>2 DEF OpenAtStep, ClientTyped
  <2> QED BY <2>1, <2>2
<1> QED BY <1>1, InitClientInv, ClientStepInv, PTL DEF SocketSpec

-----------------------------------------------------------------------------
(* The server.  A session that OnConnect has been given is in the pool      *)
(* until a Close has got as far as to take it out, whether or not another   *)
(* Close comes in between; before that nobody closes it.                    *)

\* The session in the hands of the loop that the pool does not have yet.
Unlisted == IF acc \in {"put", "putting"} THEN cur ELSE {}

Past == {"hangup", "done"}

ServerTyped ==
    /\ kind \in {"tcp", "udp"}
    /\ acc \in {"wait", "put", "putting", "connect", "data", "ended"}
    /\ cur \subseteq Links
    /\ about \in [Links -> SUBSET Conns]
    /\ inPool \subseteq Links
    /\ sock \in [Links -> {"none", "open", "closed"}]
    /\ closer \in [Links -> [Closers -> SocketCloseSteps]]

\* The two ways by which a session knows its pool agree.
PoolAgrees == owned = inPool /\ inPool \subseteq Made /\ cur \subseteq Made

SessionOrder ==
    /\ \A s \in Links : s \notin Made \/ s \in Unlisted =>
          s \notin inPool /\ \A k \in Closers : closer[s][k] = "idle"
    /\ \A s \in Made \ Unlisted :
          s \in inPool <=> \A k \in Closers : closer[s][k] \notin Past
    /\ kind = "tcp" =>
          \A s \in Made :
             sock[s] = IF \E k \in Closers : closer[s][k] = "done" THEN "closed" ELSE "open"

SessionInv == ServerTyped /\ PoolAgrees /\ SessionOrder

LEMMA InitSessionInv == SocketInit => SessionInv
<1> SUFFICES ASSUME SocketInit PROVE SessionInv
  OBVIOUS
<1>1. Made = {} /\ Unlisted = {} /\ inPool = {} /\ owned = {} /\ cur = {}
  BY DEF SocketInit, ServerInit, Made, Unlisted
<1>2. closer = [s \in Links |-> [k \in Closers |-> "idle"]]
  BY DEF SocketInit, ServerInit
<1>3. closer \in [Links -> [Closers -> SocketCloseSteps]]
  BY <1>2 DEF SocketCloseSteps
<1>4. ServerTyped
  BY <1>1, <1>3 DEF SocketInit, WireInit, ServerInit, ServerTyped
<1> QED BY <1>1, <1>2, <1>4 DEF SessionInv, PoolAgrees, SessionOrder

\* A session is made of a connection, and listed later.
LEMMA LoopSessionInv ==
    ASSUME SessionInv,
           (\E c \in Conns : Receive(c)) \/ LoopEnds \/ PutBegins \/ PutSession \/ Connected
           \/ DataDone
    PROVE  SessionInv'
<1> USE DEF SessionInv, ServerTyped
<1>1. ASSUME NEW c \in Conns, Receive(c)
      PROVE  SessionInv'
  <2>1. PICK s \in Links :
           /\ about[s] = {} /\ cur' = {s} /\ about' = [about EXCEPT ![s] = {c}]
           /\ sock' = IF kind = "tcp" THEN [sock EXCEPT ![s] = "open"] ELSE sock
    BY <1>1 DEF Receive, Finds
  <2>2. /\ acc = "wait" /\ acc' = "put"
        /\ UNCHANGED <<kind, inPool, owned, closer>>
    BY <1>1 DEF Receive, Finds, LoopGoes, wireVars
  <2>3. Made' = Made \cup {s} /\ s \notin Made /\ Unlisted = {} /\ Unlisted' = {s}
    BY <2>1, <2>2 DEF Made, Unlisted
  <2>4. \A k \in Closers : closer[s][k] = "idle"
    BY <2>3 DEF SessionOrder
  <2>5. s \notin inPool
    BY <2>3 DEF PoolAgrees
  <2>6. ServerTyped' /\ PoolAgrees'
    BY <2>1, <2>2, <2>3 DEF PoolAgrees
  <2>7. SessionOrder'
    <3>1. \A r \in Made : r # s => sock'[r] = sock[r]
      BY <2>1 DEF Made
    <3>2. kind = "tcp" => sock'[s] = "open"
      BY <2>1
    <3> QED BY <2>2, <2>3, <2>4, <2>5, <3>1, <3>2 DEF SessionOrder
  <2> QED BY <2>6, <2>7
<1>2. CASE LoopEnds \/ PutBegins
  <2>1. UNCHANGED <<kind, cur, about, inPool, owned, sock, closer>>
    BY <1>2 DEF LoopEnds, PutBegins, wireVars
  <2>2. Unlisted' = Unlisted /\ Made' = Made /\ acc' \in {"ended", "putting"}
    BY <1>2, <2>1 DEF LoopEnds, PutBegins, LoopGoes, Unlisted, Made
  <2> QED BY <2>1, <2>2 DEF PoolAgrees, SessionOrder
<1>3. CASE PutSession
  <2>1. /\ UNCHANGED <<kind, cur, about, sock, closer>> /\ acc' = "connect"
        /\ inPool' = inPool \cup cur /\ owned' = owned \cup cur
    BY <1>3 DEF PutSession, LoopGoes, wireVars
  <2>2. Unlisted = cur /\ Unlisted' = {} /\ Made' = Made
    BY <1>3, <2>1 DEF PutSession, LoopGoes, Unlisted, Made
  <2>3. ServerTyped' /\ PoolAgrees'
    BY <2>1, <2>2 DEF PoolAgrees
  <2>4. SessionOrder'
    BY <2>1, <2>2 DEF SessionOrder, PoolAgrees, Past
  <2> QED BY <2>3, <2>4
<1>4. CASE Connected \/ DataDone
  <2>1. /\ UNCHANGED <<kind, about, inPool, owned, sock, closer>>
        /\ cur' \in {{}, cur} /\ acc \in {"connect", "data"} /\ acc' \in {"wait", "data"}
    BY <1>4 DEF Connected, DataDone, LoopGoes, wireVars
  <2>2. Unlisted = {} /\ Unlisted' = {} /\ Made' = Made
    BY <2>1 DEF Unlisted, Made
  <2> QED BY <2>1, <2>2 DEF PoolAgrees, SessionOrder
<1> QED BY <1>1, <1>2, <1>3, <1>4

\* What a step of a Close of session s has to see to: that s stays in order.
LEMMA OthersInOrder ==
    ASSUME SessionInv, NEW s \in Made \ Unlisted,
           UNCHANGED <<kind, acc, cur, about>>,
           \A r \in Links : r # s =>
              closer'[r] = closer[r] /\ (r \in inPool' <=> r \in inPool) /\ sock'[r] = sock[r],
           s \in inPool' <=> \A k \in Closers : closer'[s][k] \notin Past,
           kind = "tcp" =>
              sock'[s] = IF \E k \in Closers : closer'[s][k] = "done" THEN "closed" ELSE "open"
    PROVE  SessionOrder'
<1>1. Made' = Made /\ Unlisted' = Unlisted /\ Made \subseteq Links
  BY DEF Made, Unlisted
<1> QED BY <1>1 DEF SessionInv, SessionOrder

\* A Close begins, of a session the application knows; takes it out; and hangs up.
LEMMA CloseSessionInv ==
    ASSUME SessionInv, NEW s \in Links, NEW k \in Closers,
           CloseBegins(s, k) \/ CloserStep(s, k)
    PROVE  SessionInv'
<1> USE DEF SessionInv, ServerTyped
<1>1. /\ UNCHANGED <<kind, acc, cur, about>>
      /\ Made' = Made /\ Unlisted' = Unlisted
  BY DEF CloseBegins, CloserStep, RemoveBegins, DropByID, CloseSocket, wireVars, Made,
         Unlisted
<1>2. ASSUME NEW from, NEW to \in SocketCloseSteps, CloseGoes(s, k, from, to)
      PROVE  /\ closer' \in [Links -> [Closers -> SocketCloseSteps]]
             /\ closer'[s][k] = to /\ closer[s][k] = from
             /\ \A j \in Closers : j # k => closer'[s][j] = closer[s][j]
             /\ \A r \in Links : r # s => closer'[r] = closer[r]
  BY <1>2 DEF CloseGoes
<1>3. CASE CloseBegins(s, k)
  <2>1. \E to \in {"remove", "hangup"} :
           CloseGoes(s, k, "idle", to) /\ (to = "remove" <=> s \in owned)
    BY <1>3 DEF CloseBegins
  <2>2. s \in Made \ Unlisted
    <3>1. CASE s \in inPool
      BY <3>1 DEF SessionOrder, PoolAgrees
    <3>2. CASE closer[s] # [j \in Closers |-> "idle"]
      BY <3>2 DEF SessionOrder
    <3> QED BY <1>3, <3>1, <3>2 DEF CloseBegins
  <2>3. UNCHANGED <<inPool, owned, sock>>
    BY <1>3 DEF CloseBegins
  <2>4. ServerTyped' /\ PoolAgrees'
    BY <1>1, <1>2, <2>1, <2>3 DEF PoolAgrees, SocketCloseSteps
  <2>5. SessionOrder'
    <3>1. PICK to \in {"remove", "hangup"} :
             CloseGoes(s, k, "idle", to) /\ (to = "remove" <=> s \in owned)
      BY <2>1
    <3>2. /\ closer'[s][k] = to /\ closer[s][k] = "idle"
          /\ \A j \in Closers : j # k => closer'[s][j] = closer[s][j]
          /\ \A r \in Links : r # s => closer'[r] = closer[r]
      BY <1>2, <3>1 DEF SocketCloseSteps
    <3>3. s \in inPool <=> \A j \in Closers : closer'[s][j] \notin Past
      BY <2>2, <3>1, <3>2 DEF PoolAgrees, SessionOrder, Past
    <3>4. (\E j \in Closers : closer'[s][j] = "done") <=> \E j \in Closers : closer[s][j] = "done"
      BY <3>1, <3>2
    <3>5. kind = "tcp" =>
             sock[s] = IF \E j \in Closers : closer[s][j] = "done" THEN "closed" ELSE "open"
      BY <2>2 DEF SessionOrder
    <3> QED BY <1>1, <2>2, <2>3, <3>2, <3>3, <3>4, <3>5, OthersInOrder
  <2> QED BY <2>4, <2>5
<1>4. ASSUME closer[s][k] # "idle"
      PROVE  s \in Made \ Unlisted
  BY <1>4 DEF SessionOrder
<1>5. CASE RemoveBegins(s, k)
  <2>1. CloseGoes(s, k, "remove", "removing") /\ UNCHANGED <<inPool, owned, sock>>
    BY <1>5 DEF RemoveBegins
  <2>2. ServerTyped' /\ PoolAgrees'
    BY <1>1, <1>2, <2>1 DEF PoolAgrees, SocketCloseSteps
  <2>3. s \in Made \ Unlisted
    BY <1>4, <2>1 DEF CloseGoes
  <2>4. SessionOrder'
    <3>1. /\ closer'[s][k] = "removing" /\ closer[s][k] = "remove"
          /\ \A j \in Closers : j # k => closer'[s][j] = closer[s][j]
          /\ \A r \in Links : r # s => closer'[r] = closer[r]
      BY <1>2, <2>1 DEF SocketCloseSteps
    <3>2. s \in inPool' <=> \A j \in Closers : closer'[s][j] \notin Past
      BY <2>1, <2>3, <3>1 DEF SessionOrder, Past
    <3>3. (\E j \in Closers : closer'[s][j] = "done") <=> \E j \in Closers : closer[s][j] = "done"
      BY <3>1
    <3>4. kind = "tcp" =>
             sock[s] = IF \E j \in Closers : closer[s][j] = "done" THEN "closed" ELSE "open"
      BY <2>3 DEF SessionOrder
    <3> QED BY <1>1, <2>1, <2>3, <3>1, <3>2, <3>3, <3>4, OthersInOrder
  <2> QED BY <2>2, <2>4
<1>6. CASE DropByID(s, k)
  <2>1. /\ CloseGoes(s, k, "removing", "hangup") /\ UNCHANGED sock
        /\ inPool' = inPool \ {s} /\ owned' = owned \ {s}
    BY <1>6 DEF DropByID
  <2>2. ServerTyped' /\ PoolAgrees'
    BY <1>1, <1>2, <2>1 DEF PoolAgrees, SocketCloseSteps
  <2>3. s \in Made \ Unlisted
    BY <1>4, <2>1 DEF CloseGoes
  <2>4. SessionOrder'
    <3>1. /\ closer'[s][k] = "hangup" /\ closer[s][k] = "removing"
          /\ \A j \in Closers : j # k => closer'[s][j] = closer[s][j]
          /\ \A r \in Links : r # s => closer'[r] = closer[r]
      BY <1>2, <2>1 DEF SocketCloseSteps
    <3>2. s \in inPool' <=> \A j \in Closers : closer'[s][j] \notin Past
      BY <2>1, <2>3, <3>1 DEF SessionOrder, Past
    <3>3. (\E j \in Closers : closer'[s][j] = "done") <=> \E j \in Closers : closer[s][j] = "done"
      BY <3>1
    <3>4. kind = "tcp" =>
             sock[s] = IF \E j \in Closers : closer[s][j] = "done" THEN "closed" ELSE "open"
      BY <2>3 DEF SessionOrder
    <3> QED BY <1>1, <2>1, <2>3, <3>1, <3>2, <3>3, <3>4, OthersInOrder
  <2> QED BY <2>2, <2>4
<1>7. CASE CloseSocket(s, k)
  <2>1. /\ CloseGoes(s, k, "hangup", "done") /\ UNCHANGED <<inPool, owned>>
        /\ sock' = IF kind = "tcp" THEN [sock EXCEPT ![s] = "closed"] ELSE sock
    BY <1>7 DEF CloseSocket
  <2>2. ServerTyped' /\ PoolAgrees'
    BY <1>1, <1>2, <2>1 DEF PoolAgrees, SocketCloseSteps
  <2>3. s \in Made \ Unlisted
    BY <1>4, <2>1 DEF CloseGoes
  <2>4. /\ kind = "tcp" => sock'[s] = "closed"
        /\ \A r \in Links : r # s => sock'[r] = sock[r]
    BY <2>1
  <2>5. SessionOrder'
    <3>1. /\ closer'[s][k] = "done" /\ closer[s][k] = "hangup"
          /\ \A j \in Closers : j # k => closer'[s][j] = closer[s][j]
          /\ \A r \in Links : r # s => closer'[r] = closer[r]
      BY <1>2, <2>1 DEF SocketCloseSteps
    <3>2. s \in inPool' <=> \A j \in Closers : closer'[s][j] \notin Past
      BY <2>1, <2>3, <3>1 DEF SessionOrder, Past
    <3> QED BY <1>1, <2>1, <2>3, <2>4, <3>1, <3>2, OthersInOrder
  <2> QED BY <2>2, <2>5
<1> QED BY <1>3, <1>5, <1>6, <1>7 DEF CloserStep

LEMMA SessionStep == SessionInv /\ [SocketNext]_socketVars => SessionInv'
<1> SUFFICES ASSUME SessionInv, [SocketNext]_socketVars PROVE SessionInv'
  OBVIOUS
<1>1. ASSUME UNCHANGED <<kind, acc, cur, about, inPool, owned, sock, closer>>
      PROVE  SessionInv'
  BY <1>1 DEF SessionInv, ServerTyped, PoolAgrees, SessionOrder, Made, Unlisted
<1>2. CASE UNCHANGED socketVars
  BY <1>1, <1>2 DEF socketVars, wireVars, serverVars
<1>3. ASSUME NEW g \in Callers, ClientDials(g)
      PROVE  SessionInv'
  BY <1>1, <1>3 DEF ClientDials, Dial, Arrive
<1>4. ASSUME NEW g \in Callers, ClientAlone(g)
      PROVE  SessionInv'
  <2>1. kind' = kind
    BY <1>4 DEF ClientAlone, ClientStep, Connect, DialFails, AssignConn, MarkConnected,
                Disconnect, MarkDisconnected
  <2> QED BY <1>1, <1>4, <2>1 DEF ClientAlone, serverVars
<1>5. ASSUME NEW c \in Conns, Datagram(c)
      PROVE  SessionInv'
  BY <1>1, <1>5 DEF Datagram, SendDatagram, wireVars
<1>6. CASE ServerStep
  <2>1. ASSUME NEW s \in Links, ReadEnds(s) \/ ReaderEnds(s)
        PROVE  SessionInv'
    BY <1>1, <2>1 DEF ReadEnds, ReaderEnds, wireVars
  <2>2. CASE StopBegins \/ StopReturns
    BY <1>1, <2>2 DEF StopBegins, StopReturns, wireVars
  <2>3. "app" \in Closers /\ "reader" \in Closers
    BY DEF Closers
  <2> QED BY <1>6, <2>1, <2>2, <2>3, LoopSessionInv, CloseSessionInv
          DEF ServerStep, LoopStep, ReaderStep
<1> QED BY <1>2, <1>3, <1>4, <1>5, <1>6 DEF SocketNext, ServerAlone

-----------------------------------------------------------------------------
(* The datagrams.  Every one that was sent waits or has made a session.     *)

SessionsOf(c) == {s \in Made : about[s] = {c}}

DatagramsAddUp ==
    /\ inbox \in [Conns -> Nat] /\ sent \in [Conns -> Nat]
    /\ IsFiniteSet(Made)
    /\ kind = "udp" =>
          \A c \in Conns :
             /\ fd[c] = "none" => inbox[c] = 0 /\ sent[c] = 0
             /\ Cardinality(SessionsOf(c)) = sent[c] - inbox[c]

\* Reading one makes a session of its peer, and of nobody else.
LEMMA ReceiveAddsUp ==
    ASSUME SessionInv, DatagramsAddUp, NEW c \in Conns, Receive(c)
    PROVE  DatagramsAddUp'
<1>1. PICK s \in Links : about[s] = {} /\ about' = [about EXCEPT ![s] = {c}]
  BY DEF Receive, Finds
<1>2. /\ kind' = kind /\ fd' = fd /\ sent' = sent
      /\ inbox' = [inbox EXCEPT ![c] = @ - 1] /\ inbox[c] > 0
  BY DEF Receive, wireVars
<1>3. \A r \in Links : about'[r] = IF r = s THEN {c} ELSE about[r]
  BY <1>1 DEF SessionInv, ServerTyped
<1>4. Made' = Made \cup {s} /\ s \notin Made
  BY <1>1, <1>3 DEF Made
<1>5. IsFiniteSet(Made')
  BY <1>4, FS_AddElement DEF DatagramsAddUp
<1>6. /\ inbox' \in [Conns -> Nat]
      /\ \A d \in Conns : inbox'[d] = IF d = c THEN inbox[d] - 1 ELSE inbox[d]
  BY <1>2 DEF DatagramsAddUp
<1>7. ASSUME NEW d \in Conns, d # c, kind = "udp"
      PROVE  Cardinality(SessionsOf(d)') = sent'[d] - inbox'[d]
  <2>1. SessionsOf(d)' = SessionsOf(d)
    BY <1>3, <1>4, <1>7 DEF SessionsOf, Made
  <2>2. Cardinality(SessionsOf(d)') = Cardinality(SessionsOf(d))
    BY <2>1, Zenon
  <2> QED BY <1>2, <1>6, <1>7, <2>2 DEF DatagramsAddUp
<1>8. ASSUME kind = "udp"
      PROVE  Cardinality(SessionsOf(c)') = sent'[c] - inbox'[c]
  <2>1. SessionsOf(c)' = SessionsOf(c) \cup {s} /\ s \notin SessionsOf(c)
    BY <1>3, <1>4 DEF SessionsOf, Made
  <2>2. IsFiniteSet(SessionsOf(c))
    BY FS_Subset DEF DatagramsAddUp, SessionsOf
  <2>3. Cardinality(SessionsOf(c) \cup {s}) = Cardinality(SessionsOf(c)) + 1
    BY <2>1, <2>2, FS_AddElement
  <2>4. Cardinality(SessionsOf(c)') = Cardinality(SessionsOf(c)) + 1
    BY <2>1, <2>3, Zenon
  <2>5. Cardinality(SessionsOf(c)) = sent[c] - inbox[c] /\ sent[c] \in Nat /\ inbox[c] \in Nat
    BY <1>8 DEF DatagramsAddUp
  <2> QED BY <1>2, <1>6, <2>4, <2>5
<1>9. \A d \in Conns : fd'[d] = "none" /\ kind = "udp" => inbox'[d] = 0 /\ sent'[d] = 0
  <2>1. \A d \in Conns : fd[d] = "none" /\ kind = "udp" => inbox[d] = 0 /\ sent[d] = 0
    BY DEF DatagramsAddUp
  <2> QED BY <1>2, <1>6, <2>1
<1> QED BY <1>2, <1>5, <1>6, <1>7, <1>8, <1>9 DEF DatagramsAddUp

LEMMA DatagramStep ==
    ASSUME ClientInv, SessionInv, DatagramsAddUp, [SocketNext]_socketVars
    PROVE  DatagramsAddUp'
<1>1. ASSUME UNCHANGED <<kind, fd, about, inbox, sent>>
      PROVE  DatagramsAddUp'
  BY <1>1 DEF DatagramsAddUp, SessionsOf, Made
<1>2. CASE UNCHANGED socketVars
  BY <1>1, <1>2 DEF socketVars, wireVars, serverVars
<1>3. ASSUME UNCHANGED <<kind, about, sent>>,
             inbox' \in [Conns -> Nat],
             \A c \in Conns : fd'[c] = "none" => fd[c] = "none",
             kind = "udp" => \A c \in Conns : inbox'[c] = inbox[c]
      PROVE  DatagramsAddUp'
  <2>1. Made' = Made /\ \A c \in Conns : SessionsOf(c)' = SessionsOf(c)
    BY <1>3 DEF Made, SessionsOf
  <2>2. /\ IsFiniteSet(Made')
        /\ \A c \in Conns : Cardinality(SessionsOf(c)') = Cardinality(SessionsOf(c))
    BY <2>1, Zenon DEF DatagramsAddUp
  <2> QED BY <1>3, <2>2 DEF DatagramsAddUp
<1>4. ASSUME NEW g \in Callers, NEW c \in Conns, Dial(g, c), Arrive(c)
      PROVE  DatagramsAddUp'
  <2>1. /\ UNCHANGED <<kind, about, sent>> /\ fd[c] = "none"
        /\ fd' = [fd EXCEPT ![c] = "open"]
        /\ inbox' = [inbox EXCEPT ![c] = IF kind = "tcp" THEN 1 ELSE 0]
    BY <1>4 DEF Dial, Arrive
  <2>2. inbox' \in [Conns -> Nat] /\ (kind = "udp" => \A d \in Conns : inbox'[d] = inbox[d])
    BY <2>1 DEF DatagramsAddUp
  <2>3. \A d \in Conns : fd'[d] = "none" => fd[d] = "none"
    BY <2>1 DEF ClientInv, ClientTyped
  <2> QED BY <1>3, <2>1, <2>2, <2>3
<1>5. ASSUME NEW g \in Callers, ClientAlone(g)
      PROVE  DatagramsAddUp'
  <2>1. kind' = kind /\ \A d \in Conns : fd'[d] = "none" => fd[d] = "none"
    BY <1>5 DEF ClientAlone, ClientStep, Connect, DialFails, AssignConn, MarkConnected,
                Disconnect, MarkDisconnected
  <2>2. UNCHANGED <<about, sent, inbox>>
    BY <1>5 DEF ClientAlone, serverVars
  <2> QED BY <1>3, <2>1, <2>2 DEF DatagramsAddUp
<1>6. ASSUME NEW c \in Conns, Datagram(c)
      PROVE  DatagramsAddUp'
  <2>1. /\ UNCHANGED <<kind, fd, about>> /\ fd[c] = "open"
        /\ sent' = [sent EXCEPT ![c] = @ + 1] /\ inbox' = [inbox EXCEPT ![c] = @ + 1]
    BY <1>6 DEF Datagram, SendDatagram, wireVars
  <2>2. Made' = Made /\ \A d \in Conns : SessionsOf(d)' = SessionsOf(d)
    BY <2>1 DEF Made, SessionsOf
  <2>3. /\ IsFiniteSet(Made')
        /\ \A d \in Conns : Cardinality(SessionsOf(d)') = Cardinality(SessionsOf(d))
    BY <2>2, Zenon DEF DatagramsAddUp
  <2>4. /\ sent' \in [Conns -> Nat] /\ inbox' \in [Conns -> Nat]
        /\ \A d \in Conns : sent'[d] - inbox'[d] = sent[d] - inbox[d]
        /\ \A d \in Conns : d # c => sent'[d] = sent[d] /\ inbox'[d] = inbox[d]
    BY <2>1 DEF DatagramsAddUp
  <2> QED BY <2>1, <2>3, <2>4 DEF DatagramsAddUp
<1>7. CASE ServerStep
  <2>1. ASSUME NEW c \in Conns, Receive(c)
        PROVE  DatagramsAddUp'
    BY <2>1, ReceiveAddsUp
  <2>2. CASE LoopStep \/ LoopEnds \/ StopBegins \/ StopReturns
    BY <1>1, <2>2 DEF LoopStep, LoopEnds, PutBegins, PutSession, Connected, DataDone,
                      StopBegins, StopReturns, wireVars
  <2>3. ASSUME NEW s \in Links, NEW k \in Closers,
               ReadEnds(s) \/ ReaderEnds(s) \/ CloseBegins(s, k) \/ CloserStep(s, k)
        PROVE  DatagramsAddUp'
    BY <1>1, <2>3 DEF ReadEnds, ReaderEnds, CloseBegins, CloserStep, RemoveBegins, DropByID,
                      CloseSocket, wireVars
  <2>4. "app" \in Closers /\ "reader" \in Closers
    BY DEF Closers
  <2> QED BY <1>7, <2>1, <2>2, <2>3, <2>4 DEF ServerStep, ReaderStep
<1> QED BY <1>2, <1>4, <1>5, <1>6, <1>7 DEF SocketNext, ServerAlone, ClientDials

LEMMA SocketsAlways == SocketSpec => [](ClientInv /\ SessionInv /\ DatagramsAddUp)
<1> DEFINE IInv == ClientInv /\ SessionInv /\ DatagramsAddUp
<1>1. SocketInit => IInv
  <2> SUFFICES ASSUME SocketInit PROVE DatagramsAddUp
    BY InitClientInv, InitSessionInv
  <2>1. Made = {} /\ \A c \in Conns : SessionsOf(c) = {}
    BY DEF SocketInit, ServerInit, Made, SessionsOf
  <2>2. IsFiniteSet(Made) /\ \A c \in Conns : Cardinality(SessionsOf(c)) = 0
    BY <2>1, FS_EmptySet
  <2> QED BY <2>2 DEF SocketInit, ServerInit, DatagramsAddUp
<1>2. IInv /\ [SocketNext]_socketVars => IInv'
  BY ClientStepInv, SessionStep, DatagramStep
<1> QED BY <1>1, <1>2, PTL DEF SocketSpec

\* Only Close takes a session out of the pool: a tcp session that nobody is closing is listed
\* exactly as long as its connection is open, a udp session until a Close has begun, and a
\* udp peer has a session for each of its datagrams that was read (session.go of tcp and udp).
THEOREM SessionsLeaveByClose == SocketSpec => []OnlyCloseDelists
<1>1. SessionInv /\ DatagramsAddUp => OnlyCloseDelists
  <2> SUFFICES ASSUME SessionInv, DatagramsAddUp PROVE OnlyCloseDelists
    OBVIOUS
  <2>1. ASSUME NEW s \in Made \ cur, \A k \in Closers : closer[s][k] \in {"idle", "done"}
        PROVE  /\ kind = "tcp" => (s \in inPool <=> sock[s] = "open")
               /\ kind = "udp" => (s \in inPool <=> \A k \in Closers : closer[s][k] = "idle")
    BY <2>1 DEF SessionInv, SessionOrder, Unlisted, Past
  <2> QED BY <2>1 DEF OnlyCloseDelists, DatagramsAddUp, SessionsOf
<1> QED BY <1>1, SocketsAlways, PTL

-----------------------------------------------------------------------------
(* Stop.                                                                    *)

\* Stop returns after the loop has ended, and the loop does not begin again.
LoopIsOver == srv = "stopped" => acc = "ended"

LEMMA LoopStaysOver == LoopIsOver /\ [SocketNext]_socketVars => LoopIsOver'
BY DEF LoopIsOver, SocketNext, socketVars, serverVars, ClientDials, Arrive, ClientAlone,
       Datagram, SendDatagram, ServerAlone, ServerStep, Receive, LoopStep, LoopEnds, PutBegins,
       PutSession, Connected, DataDone, LoopGoes, ReaderStep, ReadEnds, ReaderEnds,
       CloseBegins, CloserStep, RemoveBegins, DropByID, CloseSocket, StopBegins, StopReturns

\* Once Stop has returned nothing enters the pool and no OnConnect runs, and udp calls no
\* handler (Stop of server/tcp and server/udp).
THEOREM StoppedStaysStopped == SocketSpec => StoppedAcceptsNothing
<1>1. SocketInit => LoopIsOver
  BY DEF SocketInit, ServerInit, LoopIsOver
<1>2. LoopIsOver /\ [SocketNext]_socketVars =>
         [srv = "stopped" => acc' = acc /\ cur' = cur /\ inPool' \subseteq inPool]_serverVars
  BY DEF LoopIsOver, SocketNext, socketVars, serverVars, ClientDials, Arrive, ClientAlone,
         Datagram, SendDatagram, ServerAlone, ServerStep, Receive, LoopStep, LoopEnds,
         PutBegins, PutSession, Connected, DataDone, LoopGoes, ReaderStep, ReadEnds,
         ReaderEnds, CloseBegins, CloserStep, RemoveBegins, DropByID, CloseSocket, StopBegins,
         StopReturns
<1> QED BY <1>1, <1>2, LoopStaysOver, PTL DEF SocketSpec, StoppedAcceptsNothing
=============================================================================
