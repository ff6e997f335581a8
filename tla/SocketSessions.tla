--------------------------- MODULE SocketSessions ---------------------------
(***************************************************************************)
(* The sessions of the tcp and the udp server (server/tcp, server/udp).    *)
(* The tcp server accepts, puts a session in its pool, calls OnConnect and *)
(* starts a reader for it; the udp server does all of it in its one loop,  *)
(* and looks a session up by the pointer of an address that every datagram *)
(* makes anew.  Put takes the pool's lock; the removal that Close makes    *)
(* does not, and two goroutines in the maps at once end the process.  Only *)
(* Close takes a session out of the pool, and calling it is up to the      *)
(* application.                                                            *)
(*                                                                         *)
(* Purge, Foreach and the Get functions of the pools have no caller: the   *)
(* servers do not give their pools away.                                   *)
(***************************************************************************)
EXTENDS SocketWire, Naturals, FiniteSets

CONSTANTS
    Links,         \* sessions the server may make
    MaxDatagrams   \* bound on the datagrams a udp peer sends

ASSUME DatagramsAssumption == MaxDatagrams \in Nat

VARIABLES
    polite,   \* the application's OnClose closes the session
    srv,      \* the server: up, closing (Stop waits), stopped
    acc, cur, \* the loop that accepts or receives, and the session in its hands
    inbox,    \* connections that wait for Accept, datagrams that wait for a read
    sent,     \* datagrams each udp peer has sent
    about,    \* the connection a session is about: none or one
    inPool,   \* the sessions in the pool's maps
    owned,    \* the sessions whose field pool is set
    sock,     \* the server's end of a tcp session
    reader,   \* the goroutine of a tcp session
    closer,   \* step of each goroutine that closes a session
    crashed   \* two goroutines met in the maps, or a pool was nil

serverVars == <<polite, srv, acc, cur, inbox, sent, about, inPool, owned, sock, reader,
                closer, crashed>>

Closers == {"app", "reader"}

SocketCloseSteps == {"idle", "remove", "removing", "hangup", "done"}

ServerTypeOK ==
    /\ polite \in BOOLEAN /\ crashed \in BOOLEAN
    /\ srv \in {"up", "closing", "stopped"}
    /\ acc \in {"wait", "put", "putting", "connect", "data", "ended"}
    /\ cur \in SUBSET Links /\ Cardinality(cur) <= 1
    /\ inbox \in [Conns -> 0..MaxDatagrams] /\ sent \in [Conns -> 0..MaxDatagrams]
    /\ about \in [Links -> SUBSET Conns]
    /\ inPool \subseteq Links /\ owned \subseteq Links
    /\ sock \in [Links -> {"none", "open", "closed"}]
    /\ reader \in [Links -> {"none", "reading", "closing", "ended"}]
    /\ closer \in [Links -> [Closers -> SocketCloseSteps]]

ServerInit ==
    /\ polite \in BOOLEAN
    /\ srv = "up"
    /\ acc = "wait" /\ cur = {}
    /\ inbox = [c \in Conns |-> 0] /\ sent = [c \in Conns |-> 0]
    /\ about = [s \in Links |-> {}]
    /\ inPool = {} /\ owned = {}
    /\ sock = [s \in Links |-> "none"]
    /\ reader = [s \in Links |-> "none"]
    /\ closer = [s \in Links |-> [k \in Closers |-> "idle"]]
    /\ crashed = FALSE

-----------------------------------------------------------------------------
(* The peers.                                                               *)

\* A tcp dial that succeeds leaves a connection for Accept.
Arrive(c) ==
    /\ inbox' = [inbox EXCEPT ![c] = IF kind = "tcp" THEN 1 ELSE 0]
    /\ UNCHANGED <<polite, srv, acc, cur, sent, about, inPool, owned, sock, reader, closer,
                   crashed>>

SendDatagram(c) ==
    /\ kind = "udp"
    /\ fd[c] = "open"
    /\ sent[c] < MaxDatagrams
    /\ sent' = [sent EXCEPT ![c] = @ + 1]
    /\ inbox' = [inbox EXCEPT ![c] = @ + 1]
    /\ UNCHANGED <<wireVars, polite, srv, acc, cur, about, inPool, owned, sock, reader,
                   closer, crashed>>

-----------------------------------------------------------------------------
(* The loop of the server.                                                  *)

LoopGoes(from, to) == acc = from /\ acc' = to

\* GetByAddr: no session has the pointer that this datagram's address got.
Finds(c) == {}

\* Accept returns a connection; ReadFromUDP returns a datagram, whose session is looked for.
Receive(c) ==
    /\ srv = "up"
    /\ inbox[c] > 0
    /\ inbox' = [inbox EXCEPT ![c] = @ - 1]
    /\ IF Finds(c) # {}
       THEN LoopGoes("wait", "data") /\ cur' = Finds(c) /\ UNCHANGED <<about, sock>>
       ELSE /\ LoopGoes("wait", "put")
            /\ \E s \in Links :
                  /\ about[s] = {}
                  /\ cur' = {s}
                  /\ about' = [about EXCEPT ![s] = {c}]
                  /\ sock' = IF kind = "tcp" THEN [sock EXCEPT ![s] = "open"] ELSE sock
    /\ UNCHANGED <<wireVars, polite, srv, sent, inPool, owned, reader, closer, crashed>>

\* The listener was closed, or accepting failed for another reason: the loop ends.
LoopEnds ==
    /\ LoopGoes("wait", "ended")
    /\ UNCHANGED <<wireVars, polite, srv, cur, inbox, sent, about, inPool, owned, sock, reader,
                   closer, crashed>>

\* A goroutine is in the maps: another one that gets into them ends the process.
InMaps == \/ acc = "putting"
          \/ \E s \in Links, k \in Closers : closer[s][k] = "removing"

PutBegins ==
    /\ LoopGoes("put", "putting")
    /\ crashed' = (crashed \/ InMaps)
    /\ UNCHANGED <<wireVars, polite, srv, cur, inbox, sent, about, inPool, owned, sock, reader,
                   closer>>

PutSession ==
    /\ LoopGoes("putting", "connect")
    /\ inPool' = inPool \cup cur
    /\ owned' = owned \cup cur
    /\ UNCHANGED <<wireVars, polite, srv, cur, inbox, sent, about, sock, reader, closer,
                   crashed>>

\* OnConnect of every handler has returned: tcp starts the reader, udp hands on the data.
Connected ==
    /\ LoopGoes("connect", IF kind = "tcp" THEN "wait" ELSE "data")
    /\ IF kind = "tcp"
       THEN /\ reader' = [s \in Links |-> IF s \in cur THEN "reading" ELSE reader[s]]
            /\ cur' = {}
       ELSE UNCHANGED <<reader, cur>>
    /\ UNCHANGED <<wireVars, polite, srv, inbox, sent, about, inPool, owned, sock, closer,
                   crashed>>

\* OnData of every handler has returned.
DataDone ==
    /\ LoopGoes("data", "wait")
    /\ cur' = {}
    /\ UNCHANGED <<wireVars, polite, srv, inbox, sent, about, inPool, owned, sock, reader,
                   closer, crashed>>

-----------------------------------------------------------------------------
(* The reader of a tcp session.                                             *)

\* Mutant: the end of the file counts as an error.
ReadEndsIfClosed(s) ==
    /\ reader[s] = "reading"
    /\ sock[s] = "closed"
    /\ reader' = [reader EXCEPT ![s] = "closing"]
    /\ UNCHANGED <<wireVars, polite, srv, acc, cur, inbox, sent, about, inPool, owned, sock,
                   closer, crashed>>

\* End of file, or a closed connection.  Data and other errors call OnData and OnError and
\* change nothing here: after a reset the next read finds the end of the file.
ReadEnds(s) ==
    /\ reader[s] = "reading"
    /\ sock[s] = "closed" \/ \E c \in about[s] : fd[c] = "closed"
    /\ reader' = [reader EXCEPT ![s] = "closing"]
    /\ UNCHANGED <<wireVars, polite, srv, acc, cur, inbox, sent, about, inPool, owned, sock,
                   closer, crashed>>

\* OnClose of every handler has returned; the session stays where it is.
ReaderEnds(s) ==
    /\ reader[s] = "closing"
    /\ polite => closer[s]["reader"] = "done"
    /\ reader' = [reader EXCEPT ![s] = "ended"]
    /\ UNCHANGED <<wireVars, polite, srv, acc, cur, inbox, sent, about, inPool, owned, sock,
                   closer, crashed>>

-----------------------------------------------------------------------------
(* Session.Close, of a session that OnConnect has been given.               *)

CloseGoes(s, k, from, to) ==
    /\ closer[s][k] = from
    /\ closer' = [closer EXCEPT ![s][k] = to]

\* A polite application closes in OnClose, and any application when it likes.
CloseBegins(s, k) ==
    /\ s \in inPool \/ closer[s] # [j \in Closers |-> "idle"]
    /\ s \in cur => acc \in {"connect", "data"}
    /\ k = "reader" => polite /\ reader[s] = "closing"
    /\ CloseGoes(s, k, "idle", IF s \in owned THEN "remove" ELSE "hangup")
    /\ UNCHANGED <<wireVars, polite, srv, acc, cur, inbox, sent, about, inPool, owned, sock,
                   reader, crashed>>

\* s.pool is read once more: another Close may have set it to nil since the check.
RemoveBegins(s, k) ==
    /\ CloseGoes(s, k, "remove", "removing")
    /\ crashed' = (crashed \/ InMaps \/ s \notin owned)
    /\ UNCHANGED <<wireVars, polite, srv, acc, cur, inbox, sent, about, inPool, owned, sock,
                   reader>>

DropByID(s, k) ==
    /\ CloseGoes(s, k, "removing", "hangup")
    /\ inPool' = inPool \ {s}
    /\ owned' = owned \ {s}
    /\ UNCHANGED <<wireVars, polite, srv, acc, cur, inbox, sent, about, sock, reader, crashed>>

\* Mutant: a session that is in no pool any more counts as closed.
CloseSocketOnce(s, k) ==
    /\ CloseGoes(s, k, "hangup", "done")
    /\ sock' = IF kind = "tcp" /\ s \in owned THEN [sock EXCEPT ![s] = "closed"] ELSE sock
    /\ UNCHANGED <<wireVars, polite, srv, acc, cur, inbox, sent, about, inPool, owned, reader,
                   crashed>>

\* tcp closes the connection, udp has none of its own.
CloseSocket(s, k) ==
    /\ CloseGoes(s, k, "hangup", "done")
    /\ sock' = IF kind = "tcp" THEN [sock EXCEPT ![s] = "closed"] ELSE sock
    /\ UNCHANGED <<wireVars, polite, srv, acc, cur, inbox, sent, about, inPool, owned, reader,
                   crashed>>

-----------------------------------------------------------------------------
(* Stop closes the listener, or the one udp socket, and waits for the loop. *)

StopBegins ==
    /\ srv = "up"
    /\ srv' = "closing"
    /\ UNCHANGED <<wireVars, polite, acc, cur, inbox, sent, about, inPool, owned, sock, reader,
                   closer, crashed>>

\* Mutant: the loop counts itself off before it calls the handlers.
StopReturnsEarly ==
    /\ srv = "closing"
    /\ acc \in {"ended", "connect"}
    /\ srv' = "stopped"
    /\ UNCHANGED <<wireVars, polite, acc, cur, inbox, sent, about, inPool, owned, sock, reader,
                   closer, crashed>>

StopReturns ==
    /\ srv = "closing"
    /\ acc = "ended"
    /\ srv' = "stopped"
    /\ UNCHANGED <<wireVars, polite, acc, cur, inbox, sent, about, inPool, owned, sock, reader,
                   closer, crashed>>

LoopStep == PutBegins \/ PutSession \/ Connected \/ DataDone \/ (srv # "up" /\ LoopEnds)

ReaderStep(s) == ReadEnds(s) \/ ReaderEnds(s) \/ CloseBegins(s, "reader")

CloserStep(s, k) == RemoveBegins(s, k) \/ DropByID(s, k) \/ CloseSocket(s, k)

ServerStep ==
    \/ \E c \in Conns : Receive(c)
    \/ LoopStep \/ LoopEnds
    \/ \E s \in Links :
          \/ ReaderStep(s) \/ CloseBegins(s, "app")
          \/ \E k \in Closers : CloserStep(s, k)
    \/ StopBegins \/ StopReturns

\* Goroutines that can run do; the application closes when it likes, peers go when they like.
ServerFairness ==
    /\ WF_serverVars(~crashed /\ LoopStep)
    /\ WF_serverVars(~crashed /\ StopReturns)
    /\ \A s \in Links : WF_serverVars(~crashed /\ ReaderStep(s))
    /\ \A s \in Links, k \in Closers : WF_serverVars(~crashed /\ CloserStep(s, k))

-----------------------------------------------------------------------------
(* Properties.                                                              *)

Made == {s \in Links : about[s] # {}}

\* Closing is what takes a session out of the pool, and nothing else does: a tcp session that
\* nobody is closing is in the pool exactly as long as its connection is open, so one whose
\* peer has gone stays with its descriptor until the application closes it; and a udp peer
\* has a session for every datagram of it that was read (tcp.go, GetByAddr of udp/session.go).
OnlyCloseDelists ==
    ~crashed =>
        /\ \A s \in Made \ cur :
              (\A k \in Closers : closer[s][k] \in {"idle", "done"}) =>
                  /\ kind = "tcp" => (s \in inPool <=> sock[s] = "open")
                  /\ kind = "udp" =>
                        (s \in inPool <=> \A k \in Closers : closer[s][k] = "idle")
        /\ kind = "udp" =>
              \A c \in Conns : Cardinality({s \in Made : about[s] = {c}}) = sent[c] - inbox[c]

\* Of a peer that has hung up, a polite application's server closes the session and lists it
\* no more, in whatever order the acceptor, the reader and another Close of the same session
\* come to it, unless that ends the process.
PoliteLeavesNothing ==
    \A s \in Links :
        polite /\ kind = "tcp" /\ reader[s] = "reading" /\ (\E c \in about[s] : fd[c] = "closed")
            ~> crashed \/ (s \notin inPool /\ sock[s] = "closed" /\ reader[s] = "ended")

\* Once Stop has returned, no session enters the pool and no OnConnect runs, and a udp server
\* calls no handler at all.  Readers of tcp sessions go on: Stop knows nothing of them.
StoppedAcceptsNothing ==
    [][srv = "stopped" => acc' = acc /\ cur' = cur /\ inPool' \subseteq inPool]_serverVars
=============================================================================
