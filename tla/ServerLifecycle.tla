-------------------------- MODULE ServerLifecycle --------------------------
(***************************************************************************)
(* Start and Stop of the six servers (server/tcp, udp, http, grpc, fiber,  *)
(* websocket) and of the manager (manager.go).  They share one shape: a    *)
(* mutex that Start and Stop hold throughout, the flag running, a          *)
(* goroutine that serves a listener, and a wait group by which Stop waits  *)
(* for that goroutine, mutex in hand.  They differ in where they listen    *)
(* and count, and in what the library they serve with does:                *)
(*   - tcp and udp count the goroutine before they try to listen, the      *)
(*     others after;                                                       *)
(*   - grpc, fiber and websocket do not count it off if serving returns an *)
(*     error, the others do;                                               *)
(*   - tcp and udp close the listener themselves, http, grpc, fiber and    *)
(*     websocket ask the library to shut down, which knows the listener    *)
(*     only if the goroutine has got as far as to serve it;                *)
(*   - the manager makes an http server for every Start and leaves it to   *)
(*     the goroutine to listen: its Start never fails.                     *)
(***************************************************************************)
EXTENDS Naturals, FiniteSets

CONSTANTS
    Kinds,       \* the servers to look at
    Callers,     \* goroutines that call Start and Stop
    MaxStarts    \* bound on the calls of Start that get past its guard

ASSUME KindsAssumption ==
    Kinds \subseteq {"tcp", "udp", "http", "grpc", "fiber", "websocket", "manager"}
ASSUME StartsAssumption == MaxStarts \in Nat

VARIABLES
    kind,       \* which server this is
    lock,       \* who holds the mutex
    running,
    wg,         \* the wait group's counter
    starts,     \* generations: calls of Start past the guard
    lis,        \* the listener of each generation
    serve,      \* the serving goroutine of each generation
    shut,       \* the library object has been shut down: http and grpc never serve again
    call,       \* step of each caller
    unlistened, \* history: Starts that failed to listen after they had counted
    unserved    \* history: goroutines that ended without counting off

vars == <<kind, lock, running, wg, starts, lis, serve, shut, call, unlistened, unserved>>

Generations == 1..MaxStarts

Nobody == "nobody"

ASSUME CallersAssumption == Nobody \notin Callers

Raw == kind \in {"tcp", "udp"}

CountsFirst == Raw

\* Mutant: http returns on the error of a server that was shut down.
CountsOffRawErrors == kind \in {"tcp", "udp"}

CountsOffErrors == kind \in {"tcp", "udp", "http", "manager"}

ShutsForGood == kind \in {"http", "grpc", "manager"}

ListensLate == kind = "manager"

TypeOK ==
    /\ kind \in Kinds
    /\ lock \in Callers \cup {Nobody}
    /\ running \in BOOLEAN
    /\ wg \in 0..MaxStarts
    /\ starts \in 0..MaxStarts
    /\ lis \in [Generations -> {"none", "open", "closed"}]
    /\ serve \in [Generations -> {"none", "spawned", "serving", "ended"}]
    /\ shut \in BOOLEAN
    /\ call \in [Callers -> {"idle", "stopping"}]
    /\ unlistened \subseteq Generations
    /\ unserved \subseteq Generations

Init ==
    /\ kind \in Kinds
    /\ lock = Nobody
    /\ running = FALSE
    /\ wg = 0
    /\ starts = 0
    /\ lis = [g \in Generations |-> "none"]
    /\ serve = [g \in Generations |-> "none"]
    /\ shut = FALSE
    /\ call = [c \in Callers |-> "idle"]
    /\ unlistened = {} /\ unserved = {}

Free(c) == lock = Nobody /\ call[c] = "idle"

-----------------------------------------------------------------------------
(* Start.  All of it is under the mutex, and the goroutine it spawns reads  *)
(* nothing that it writes later: a call is one step.                        *)

\* Mutant: Start does not ask whether the server runs.
StartOkAgain(c) ==
    /\ Free(c)
    /\ starts < MaxStarts
    /\ starts' = starts + 1
    /\ lis' = [lis EXCEPT ![starts + 1] = IF ListensLate THEN "none" ELSE "open"]
    /\ serve' = [serve EXCEPT ![starts + 1] = "spawned"]
    /\ shut' = (shut /\ ~ListensLate)
    /\ wg' = wg + 1
    /\ running' = TRUE
    /\ UNCHANGED <<kind, lock, call, unlistened, unserved>>

StartOk(c) ==
    /\ Free(c)
    /\ ~running
    /\ starts < MaxStarts
    /\ starts' = starts + 1
    /\ lis' = [lis EXCEPT ![starts + 1] = IF ListensLate THEN "none" ELSE "open"]
    /\ serve' = [serve EXCEPT ![starts + 1] = "spawned"]
    /\ shut' = (shut /\ ~ListensLate)
    /\ wg' = wg + 1
    /\ running' = TRUE
    /\ UNCHANGED <<kind, lock, call, unlistened, unserved>>

\* The address is taken, or is none: tcp and udp leave the count behind.
StartFails(c) ==
    /\ Free(c)
    /\ ~running /\ ~ListensLate
    /\ starts < MaxStarts
    /\ starts' = starts + 1
    /\ IF CountsFirst
       THEN wg' = wg + 1 /\ unlistened' = unlistened \cup {starts + 1}
       ELSE UNCHANGED <<wg, unlistened>>
    /\ UNCHANGED <<kind, lock, running, lis, serve, shut, call, unserved>>

-----------------------------------------------------------------------------
(* The serving goroutine.                                                   *)

\* It ends; whether it counts off depends on the kind and on how it ends.
EndServe(g, error) ==
    /\ serve' = [serve EXCEPT ![g] = "ended"]
    /\ IF error /\ ~CountsOffErrors
       THEN unserved' = unserved \cup {g} /\ UNCHANGED wg
       ELSE wg' = wg - 1 /\ UNCHANGED unserved

\* The goroutine gets to run, and Serve takes the listener.
BeginServe(g) ==
    /\ serve[g] = "spawned"
    /\ ~(ShutsForGood /\ shut)
    /\ serve' = [serve EXCEPT ![g] = "serving"]
    /\ lis' = [lis EXCEPT ![g] = IF ListensLate THEN "open" ELSE @]
    /\ UNCHANGED <<kind, lock, running, wg, starts, shut, call, unlistened, unserved>>

\* Serve of an http or grpc object that was shut down closes the listener and returns:
\* http.ErrServerClosed, which http takes for a close, grpc.ErrServerStopped.
RefuseServe(g) ==
    /\ serve[g] = "spawned"
    /\ ShutsForGood /\ shut
    /\ lis' = [lis EXCEPT ![g] = "closed"]
    /\ EndServe(g, TRUE)
    /\ UNCHANGED <<kind, lock, running, starts, shut, call, unlistened>>

\* The address of the manager is taken, which only its goroutine finds out.
LateListenFails(g) ==
    /\ serve[g] = "spawned"
    /\ ListensLate /\ ~shut
    /\ EndServe(g, TRUE)
    /\ UNCHANGED <<kind, lock, running, starts, lis, shut, call, unlistened>>

\* The listener was closed by Stop, or by the library at Stop's request.
ServeCloses(g) ==
    /\ serve[g] = "serving"
    /\ lis[g] = "closed"
    /\ EndServe(g, FALSE)
    /\ UNCHANGED <<kind, lock, running, starts, lis, shut, call, unlistened>>

\* Accept, or the read of a datagram, fails for another reason: every loop gives up,
\* and tcp and udp leave the listener open.
ServeBreaks(g) ==
    /\ serve[g] = "serving"
    /\ lis[g] = "open"
    /\ IF Raw THEN UNCHANGED lis ELSE lis' = [lis EXCEPT ![g] = "closed"]
    /\ EndServe(g, TRUE)
    /\ UNCHANGED <<kind, lock, running, starts, shut, call, unlistened>>

-----------------------------------------------------------------------------
(* Stop.                                                                    *)

\* A raw server closes its listener, which must be open; a library closes those it serves.
StopBegin(c) ==
    /\ Free(c)
    /\ running
    /\ Raw => \E g \in Generations : lis[g] = "open"
    /\ lock' = c
    /\ call' = [call EXCEPT ![c] = "stopping"]
    /\ shut' = TRUE
    /\ lis' = [g \in Generations |->
                  IF lis[g] = "open" /\ (Raw \/ serve[g] = "serving")
                  THEN "closed" ELSE lis[g]]
    /\ UNCHANGED <<kind, running, wg, starts, serve, unlistened, unserved>>

\* Closing a raw listener fails, as it always does once it is closed: Stop returns the
\* error, and running stays as it is.
StopFails(c) ==
    /\ Free(c)
    /\ running /\ Raw
    /\ lis' = [g \in Generations |-> IF lis[g] = "open" THEN "closed" ELSE lis[g]]
    /\ UNCHANGED <<kind, lock, running, wg, starts, serve, shut, call, unlistened, unserved>>

\* wg.Wait returns.
StopEnd(c) ==
    /\ call[c] = "stopping"
    /\ wg = 0
    /\ running' = FALSE
    /\ lock' = Nobody
    /\ call' = [call EXCEPT ![c] = "idle"]
    /\ UNCHANGED <<kind, wg, starts, lis, serve, shut, unlistened, unserved>>

ServeStep(g) == BeginServe(g) \/ RefuseServe(g) \/ ServeCloses(g)

Next ==
    \/ \E c \in Callers : StartOk(c) \/ StartFails(c)
    \/ \E c \in Callers : StopBegin(c) \/ StopFails(c) \/ StopEnd(c)
    \/ \E g \in Generations : ServeStep(g) \/ LateListenFails(g) \/ ServeBreaks(g)

Spec == Init /\ [][Next]_vars

\* The serving goroutine runs, sees that its listener was closed, and Wait wakes up.
Fairness ==
    /\ \A g \in Generations : WF_vars(ServeStep(g))
    /\ \A c \in Callers : WF_vars(StopEnd(c))

FairSpec == Spec /\ Fairness

-----------------------------------------------------------------------------
(* Properties.                                                              *)

Live == {g \in Generations : serve[g] \in {"spawned", "serving"}}

\* The wait group counts the serving goroutine, and what it counts beyond that are the
\* Starts that counted and did not listen and the goroutines that ended in an error
\* without counting off: what a later Stop waits for in vain.
CountIsExplained ==
    wg = Cardinality(Live) + Cardinality(unlistened) + Cardinality(unserved)

\* No two generations of a server are alive at once, whoever calls Start and Stop.
OneGeneration == \A g, h \in Live : g = h

\* A server that is not running, never started or stopped, has no goroutine left and no
\* open listener.
StoppedIsQuiet ==
    ~running => Live = {} /\ \A g \in Generations : lis[g] # "open"

\* All three: what the mutex, the flag, the listener and the wait group say agrees, of every
\* server and after any failures (Start and Stop of the servers, manager.go).
ServingAddsUp == CountIsExplained /\ OneGeneration /\ StoppedIsQuiet

\* A Stop that finds its goroutine serving, of a server all of whose earlier Starts and
\* goroutines counted right, returns; for http and the manager however early it comes.
StopReturns ==
    \A c \in Callers :
        /\ call[c] = "stopping"
        /\ unlistened = {} /\ unserved = {}
        /\ kind \in {"tcp", "udp", "http", "manager"} \/ \E g \in Live : lis[g] = "closed"
        ~> call[c] = "idle"

\* "Stop the server" (server/server.go): a call of Stop stops the server and returns.
StopAlwaysReturns == \A c \in Callers : call[c] = "stopping" ~> call[c] = "idle"
=============================================================================
