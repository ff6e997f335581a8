----------------------------- MODULE WsSessions -----------------------------
(***************************************************************************)
(* The sessions of the websocket server (server/websocket/session.go and    *)
(* the operator of websocket.go) and the pool they are found in.  A session *)
(* has an operator, the goroutine that reads from its connection and calls  *)
(* the handlers; handlers set keys and close sessions.  Another goroutine   *)
(* of the application, Admin, looks sessions up, closes and removes them,   *)
(* gives them keys, and purges the pool.                                    *)
(*                                                                          *)
(* Put, Purge, Foreach and one step of SetKey take the pool's lock; the     *)
(* Get and Remove functions and the rest of SetKey work on the maps without *)
(* it.  Every look at s.pool, every use of it and every change of one of    *)
(* the three maps is a step of its own.                                     *)
(***************************************************************************)
EXTENDS Naturals, FiniteSets

CONSTANTS
    Sessions,
    Keys,         \* the keys that sessions are given
    Empty,        \* the empty string, which stands for no key
    Nobody,       \* no session, or no goroutine
    Admin,        \* a goroutine that is no operator
    Callers,      \* bound: the goroutines that call at all, but for Purge, Foreach and Leave
    MaxCalls      \* bound on these calls

ASSUME NamesAssumption ==
    /\ Empty \in Keys
    /\ {Nobody, Admin} \cap Sessions = {} /\ Nobody # Admin
ASSUME MaxCallsAssumption == MaxCalls \in Nat

VARIABLES
    phase,      \* how far the operator of a session is
    peer,       \* whether the client is there
    key,        \* s.Key
    pooled,     \* whether s.pool is the pool, and not nil
    listed,     \* the sessions in p.sessions
    conns,      \* the sessions in p.conns
    keys,       \* p.keys
    lock,       \* who holds the pool's lock
    idle,       \* the sessions that a Purge or Foreach has still to look at
    call,       \* what every goroutine is doing
    dead,       \* the process has panicked
    calls,      \* calls of the application so far
    had,        \* history: the sessions that were given a key
    raced,      \* history: sessions on which two calls have overlapped
    crossed     \* history: two goroutines were in the pool at once, or a session was closed
                \* after its end

vars == <<phase, peer, key, pooled, listed, conns, keys, lock, idle, call, dead, calls, had,
          raced, crossed>>

mapVars == <<listed, conns, keys>>
histVars == <<calls, had, raced, crossed>>

\* An operator goes by the name of its session.
Actors == Sessions \cup {Admin}

Idle == [at |-> "idle", on |-> Nobody, key |-> Empty, op |-> "none"]

\* What a goroutine in a call is about to do: in Put, ...
Entering == {"list", "conn", "own"}
\* ... in SetKey, ...
Setting == {"drop", "delete", "unlock", "put", "assign"}
\* ... in Close and the Remove functions.
Removing == {"look", "unlist", "unconn", "unkey", "unpool", "hang"}

Calls == {Idle} \cup
         [at : Entering \cup Setting \cup Removing, on : Sessions, key : Keys,
          op : {"put", "set", "close", "remove", "remove key"}]

TypeOK ==
    /\ phase \in [Sessions -> {"new", "entering", "open", "closing", "ended"}]
    /\ peer \in [Sessions -> BOOLEAN]
    /\ key \in [Sessions -> Keys]
    /\ pooled \in [Sessions -> BOOLEAN]
    /\ listed \subseteq Sessions
    /\ conns \subseteq Sessions
    /\ keys \in [Keys -> Sessions \cup {Nobody}]
    /\ lock \in Actors \cup {Nobody}
    /\ idle \subseteq Sessions
    /\ call \in [Actors -> Calls]
    /\ dead \in BOOLEAN
    /\ calls \in 0..MaxCalls
    /\ had \in [Keys -> SUBSET Sessions]
    /\ raced \subseteq Sessions
    /\ crossed \in BOOLEAN

Init ==
    /\ phase = [s \in Sessions |-> "new"]
    /\ peer = [s \in Sessions |-> TRUE]
    /\ key = [s \in Sessions |-> Empty]
    /\ pooled = [s \in Sessions |-> FALSE]
    /\ listed = {} /\ conns = {}
    /\ keys = [k \in Keys |-> Nobody]
    /\ lock = Nobody /\ idle = {}
    /\ call = [x \in Actors |-> Idle]
    /\ dead = FALSE
    /\ calls = 0 /\ had = [k \in Keys |-> {}] /\ raced = {} /\ crossed = FALSE

-----------------------------------------------------------------------------
(* Goroutines, calls and panics.                                            *)

\* A goroutine that waits for nothing and whose operator has not ended.
Runs(x) == ~dead /\ (x \in Sessions => phase[x] \in {"entering", "open", "closing"})

\* x is inside a call.
Busy(x) == call[x].at # "idle"

At(x, at) == Runs(x) /\ call[x].at = at

Moves(x, at) == call' = [call EXCEPT ![x].at = at]

\* Others than x are inside a call, or in a Purge or Foreach.
OthersIn(x) == \E y \in Actors \ {x} : Busy(y) \/ (y = Admin /\ lock = Admin)

\* x calls a method of s.
Begins(x, s, c) ==
    /\ call' = [call EXCEPT ![x] = c]
    /\ crossed' = (crossed \/ OthersIn(x) \/ (c.op = "close" /\ phase[s] = "ended"))
    /\ raced' = IF \E y \in Actors \ {x} : Busy(y) /\ call[y].on = s
                THEN raced \cup {s} ELSE raced

\* x's call returns; that of an operator that is closing was its last.
Returns(x) ==
    /\ call' = [call EXCEPT ![x] = Idle]
    /\ phase' = IF x \in Sessions /\ phase[x] = "closing"
                THEN [phase EXCEPT ![x] = "ended"] ELSE phase

\* x panics: the library recovers an operator, nobody recovers Admin.  A lock that x holds
\* in SetKey is never released.
Panics(x) ==
    /\ call' = [call EXCEPT ![x] = Idle]
    /\ IF x = Admin THEN dead' = TRUE /\ UNCHANGED phase
                    ELSE phase' = [phase EXCEPT ![x] = "ended"] /\ UNCHANGED dead

-----------------------------------------------------------------------------
(* Put.                                                                     *)

\* The operator starts and puts its session in the pool, under the lock.
Put(s) ==
    /\ ~dead /\ phase[s] = "new"
    /\ lock = Nobody
    /\ lock' = s
    /\ phase' = [phase EXCEPT ![s] = "entering"]
    /\ Begins(s, s, [at |-> "list", on |-> s, key |-> Empty, op |-> "put"])
    /\ UNCHANGED <<peer, key, pooled, mapVars, idle, dead, calls, had>>

PutSession(x) ==
    /\ At(x, "list")
    /\ listed' = listed \cup {call[x].on}
    /\ Moves(x, "conn")
    /\ UNCHANGED <<phase, peer, key, pooled, conns, keys, lock, idle, dead, histVars>>

PutConn(x) ==
    /\ At(x, "conn")
    /\ conns' = conns \cup {call[x].on}
    /\ Moves(x, "own")
    /\ UNCHANGED <<phase, peer, key, pooled, listed, keys, lock, idle, dead, histVars>>

\* A new session has no key yet; s.pool is set, and the handlers get the session.
PutEnds(x) ==
    /\ At(x, "own")
    /\ pooled' = [pooled EXCEPT ![call[x].on] = TRUE]
    /\ lock' = Nobody
    /\ phase' = [phase EXCEPT ![call[x].on] = "open"]
    /\ call' = [call EXCEPT ![x] = Idle]
    /\ UNCHANGED <<peer, key, mapVars, idle, dead, histVars>>

-----------------------------------------------------------------------------
(* SetKey, from a handler or from Admin.                                    *)

\* A session that Admin can have got hold of, or an operator's own.
Knows(x, s) == IF x = Admin THEN phase[s] \notin {"new", "entering"} ELSE s = x

\* Admin is not in a Purge or Foreach, an operator in a handler that a message called.
MayCall(x) ==
    /\ IF x = Admin THEN lock # Admin ELSE phase[x] = "open" /\ peer[x]
    /\ x \in Callers /\ calls < MaxCalls
    /\ calls' = calls + 1

\* It looks at s.pool and s.Key.
SetKey(x, s, k) ==
    /\ Runs(x) /\ ~Busy(x) /\ Knows(x, s)
    /\ MayCall(x)
    /\ Begins(x, s, [on |-> s, key |-> k, op |-> "set",
                     at |-> IF ~pooled[s] THEN "assign"
                            ELSE IF key[s] # Empty THEN "drop" ELSE "put"])
    /\ had' = [had EXCEPT ![k] = @ \cup {s}]
    /\ UNCHANGED <<phase, peer, key, pooled, mapVars, lock, idle, dead>>

\* It waits for the lock, of the pool that s.pool was when it began to.
LockForKey(x) ==
    /\ At(x, "drop")
    /\ lock = Nobody
    /\ lock' = x
    /\ Moves(x, "delete")
    /\ UNCHANGED <<phase, peer, key, pooled, mapVars, idle, dead, histVars>>

\* The old key is deleted, whosever session is found under it by now.
DropOldKey(x) ==
    LET s == call[x].on IN
    /\ At(x, "delete") /\ pooled[s]
    /\ keys' = [keys EXCEPT ![key[s]] = Nobody]
    /\ Moves(x, "unlock")
    /\ UNCHANGED <<phase, peer, key, pooled, listed, conns, lock, idle, dead, histVars>>

UnlockForKey(x) ==
    /\ At(x, "unlock") /\ pooled[call[x].on]
    /\ lock' = Nobody
    /\ Moves(x, "put")
    /\ UNCHANGED <<phase, peer, key, pooled, mapVars, idle, dead, histVars>>

\* Without the lock, the session is put under the new key.
PutNewKey(x) ==
    LET s == call[x].on IN
    /\ At(x, "put") /\ pooled[s]
    /\ keys' = [keys EXCEPT ![call[x].key] = s]
    /\ Moves(x, "assign")
    /\ UNCHANGED <<phase, peer, key, pooled, listed, conns, lock, idle, dead, histVars>>

AssignKey(x) ==
    /\ At(x, "assign")
    /\ key' = [key EXCEPT ![call[x].on] = call[x].key]
    /\ Returns(x)
    /\ UNCHANGED <<peer, pooled, mapVars, lock, idle, dead, histVars>>

\* s.pool has become nil since it was looked at.
PoolHasGone(x) ==
    /\ Runs(x)
    /\ call[x].at \in {"drop", "delete", "unlock", "put", "look"} /\ ~pooled[call[x].on]
    /\ Panics(x)
    /\ UNCHANGED <<peer, key, pooled, mapVars, lock, idle, histVars>>

-----------------------------------------------------------------------------
(* Close and the Remove functions.                                          *)

\* Mutant: nobody looks whether the session still has a pool.
CloseStepsBlindly(x, s) ==
    Begins(x, s, [on |-> s, key |-> Empty, op |-> "close", at |-> "look"])

\* Session.Close looks at s.pool.
CloseSteps(x, s) ==
    Begins(x, s, [on |-> s, key |-> Empty, op |-> "close",
                  at |-> IF pooled[s] THEN "look" ELSE "hang"])

\* Close from a handler or from Admin, who may be in a Foreach or a Purge.
Close(x, s) ==
    /\ Runs(x) /\ ~Busy(x) /\ Knows(x, s)
    /\ IF lock = Admin /\ x = Admin THEN s \in idle \cap listed /\ UNCHANGED calls ELSE MayCall(x)
    /\ CloseSteps(x, s)
    /\ idle' = IF x = Admin THEN idle \ {s} ELSE idle
    /\ UNCHANGED <<phase, peer, key, pooled, mapVars, lock, dead, had>>

\* The operator's read has failed: it closes its session and ends.
Leave(s) ==
    /\ Runs(s) /\ phase[s] = "open" /\ ~Busy(s) /\ ~peer[s]
    /\ CloseSteps(s, s)
    /\ phase' = [phase EXCEPT ![s] = "closing"]
    /\ UNCHANGED <<peer, key, pooled, mapVars, lock, idle, dead, calls, had>>

\* RemoveByID of Close: a session that is not in p.sessions is not removed, by this call.
Look(x) ==
    LET s == call[x].on IN
    /\ At(x, "look") /\ pooled[s]
    /\ Moves(x, IF s \in listed THEN "unlist" ELSE "hang")
    /\ UNCHANGED <<phase, peer, key, pooled, mapVars, lock, idle, dead, histVars>>

\* The Remove functions: the session leaves p.sessions, p.conns ...
RemoveSession(x) ==
    /\ At(x, "unlist")
    /\ listed' = listed \ {call[x].on}
    /\ Moves(x, "unconn")
    /\ UNCHANGED <<phase, peer, key, pooled, conns, keys, lock, idle, dead, histVars>>

RemoveConn(x) ==
    /\ At(x, "unconn")
    /\ conns' = conns \ {call[x].on}
    /\ Moves(x, "unkey")
    /\ UNCHANGED <<phase, peer, key, pooled, listed, keys, lock, idle, dead, histVars>>

\* ... and p.keys: RemoveByKey deletes the key it was given, the others the one that the
\* session has by now.
OldKeys(x) ==
    IF call[x].op = "remove key" THEN {call[x].key} ELSE {key[call[x].on]} \ {Empty}

\* Mutant: the key's entry stays.
RemoveKeepsKey(x) ==
    /\ At(x, "unkey")
    /\ Moves(x, "unpool")
    /\ UNCHANGED <<phase, peer, key, pooled, mapVars, lock, idle, dead, histVars>>

\* Whosever session is found under it by now.
RemoveKey(x) ==
    /\ At(x, "unkey")
    /\ keys' = [k \in Keys |-> IF k \in OldKeys(x) THEN Nobody ELSE keys[k]]
    /\ Moves(x, "unpool")
    /\ UNCHANGED <<phase, peer, key, pooled, listed, conns, lock, idle, dead, histVars>>

\* s.pool is set to nil.  Close goes on, the others return.
RemoveEnds(x) ==
    /\ At(x, "unpool")
    /\ pooled' = [pooled EXCEPT ![call[x].on] = FALSE]
    /\ IF call[x].op = "close" THEN Moves(x, "hang") /\ UNCHANGED phase ELSE Returns(x)
    /\ UNCHANGED <<peer, key, mapVars, lock, idle, dead, histVars>>

\* Close closes the connection: the peer sees it, and the operator's read fails.
HangUp(x) ==
    /\ At(x, "hang")
    /\ peer' = [peer EXCEPT ![call[x].on] = FALSE]
    /\ Returns(x)
    /\ UNCHANGED <<key, pooled, mapVars, lock, idle, dead, histVars>>

\* The library does not bear two writers, nor one after the operator has ended.
HangUpPanics(x) ==
    LET s == call[x].on IN
    /\ At(x, "hang")
    /\ phase[s] = "ended" \/ \E y \in Actors \ {x} : call[y].at = "hang" /\ call[y].on = s
    /\ Panics(x)
    /\ UNCHANGED <<peer, key, pooled, mapVars, lock, idle, histVars>>

\* RemoveByID and RemoveByConn of Admin find the session; it stays connected.
RemoveByID(s) ==
    /\ Runs(Admin) /\ ~Busy(Admin) /\ Knows(Admin, s) /\ MayCall(Admin)
    /\ s \in listed \cup conns
    /\ Begins(Admin, s, [at |-> "unlist", on |-> s, key |-> Empty, op |-> "remove"])
    /\ UNCHANGED <<phase, peer, key, pooled, mapVars, lock, idle, dead, had>>

RemoveByKey(k) ==
    /\ Runs(Admin) /\ ~Busy(Admin) /\ MayCall(Admin)
    /\ keys[k] # Nobody
    /\ Begins(Admin, keys[k],
              [at |-> "unlist", on |-> keys[k], key |-> k, op |-> "remove key"])
    /\ UNCHANGED <<phase, peer, key, pooled, mapVars, lock, idle, dead, had>>

-----------------------------------------------------------------------------
(* Purge and Foreach.                                                       *)

\* The lock is taken and held while the sessions are looked at one by one; which of them
\* have been idle for too long, or are closed by the callback, is open.
Purge ==
    /\ Runs(Admin) /\ ~Busy(Admin) /\ lock = Nobody
    /\ lock' = Admin
    /\ \E those \in SUBSET listed : idle' = those
    /\ crossed' = (crossed \/ OthersIn(Admin))
    /\ UNCHANGED <<phase, peer, key, pooled, mapVars, call, dead, calls, had, raced>>

\* Mutant: the lock is not released.
PurgeKeepsLock ==
    /\ Runs(Admin) /\ ~Busy(Admin) /\ lock = Admin /\ idle \cap listed = {}
    /\ idle' = {} /\ lock' = lock
    /\ UNCHANGED <<phase, peer, key, pooled, mapVars, call, dead, histVars>>

\* The loop is through: sessions that have left the pool meanwhile are not visited.
PurgeEnds ==
    /\ Runs(Admin) /\ ~Busy(Admin) /\ lock = Admin /\ idle \cap listed = {}
    /\ idle' = {} /\ lock' = Nobody
    /\ UNCHANGED <<phase, peer, key, pooled, mapVars, call, dead, histVars>>

\* The client goes.
PeerGoes(s) ==
    /\ phase[s] = "open" /\ peer[s]
    /\ peer' = [peer EXCEPT ![s] = FALSE]
    /\ UNCHANGED <<phase, key, pooled, mapVars, lock, idle, call, dead, histVars>>

-----------------------------------------------------------------------------
(* The maps.                                                                *)

\* The maps of which a goroutine is changing one, and those it reads: RemoveByID of Close
\* looks into p.sessions, a Purge or Foreach ranges over it between its callbacks.
Changes(x) ==
    CASE call[x].at \in {"list", "unlist"} -> {"sessions"}
      [] call[x].at \in {"conn", "unconn"} -> {"conns"}
      [] call[x].at \in {"delete", "put"} -> {"keys"}
      [] call[x].at = "unkey" /\ OldKeys(x) # {} -> {"keys"}
      [] OTHER -> {}

Reads(x) ==
    IF call[x].at = "look" \/ (x = Admin /\ lock = Admin /\ ~Busy(x)) THEN {"sessions"} ELSE {}

\* The runtime may notice that a map is changed while another goroutine is at it: it ends
\* the process.
MapFault ==
    /\ ~dead
    /\ \E x, y \in Actors : x # y /\ Changes(x) \cap (Changes(y) \cup Reads(y)) # {}
    /\ dead' = TRUE
    /\ UNCHANGED <<phase, peer, key, pooled, mapVars, lock, idle, call, histVars>>

\* So it does if Admin is in one of the Get functions, which read each their map.
GetFault ==
    /\ Runs(Admin) /\ ~Busy(Admin)
    /\ \E x \in Sessions : Changes(x) # {}
    /\ dead' = TRUE /\ crossed' = TRUE
    /\ UNCHANGED <<phase, peer, key, pooled, mapVars, lock, idle, call, calls, had, raced>>

\* The steps inside a call.
Inside(x) ==
    \/ PutSession(x) \/ PutConn(x) \/ PutEnds(x)
    \/ LockForKey(x) \/ DropOldKey(x) \/ UnlockForKey(x) \/ PutNewKey(x) \/ AssignKey(x)
    \/ Look(x) \/ RemoveSession(x) \/ RemoveConn(x) \/ RemoveKey(x) \/ RemoveEnds(x)
    \/ HangUp(x) \/ HangUpPanics(x) \/ PoolHasGone(x)

Next ==
    \/ \E s \in Sessions : Put(s) \/ Leave(s) \/ PeerGoes(s) \/ RemoveByID(s)
    \/ \E x \in Actors : \/ Inside(x)
                         \/ \E s \in Sessions : \/ Close(x, s)
                                                \/ \E k \in Keys : SetKey(x, s, k)
    \/ \E k \in Keys : RemoveByKey(k)
    \/ Purge \/ PurgeEnds \/ MapFault \/ GetFault

Spec == Init /\ [][Next]_vars

\* Goroutines go on, handlers and callbacks return, and a Purge visits what it has to.
\* A mutex of Go is handed to a goroutine that has waited for long enough.
Fairness ==
    /\ \A x \in Actors : WF_vars(Inside(x)) /\ SF_vars(LockForKey(x))
    /\ \A s \in Sessions : WF_vars(Leave(s)) /\ WF_vars(lock = Admin /\ Close(Admin, s))
    /\ WF_vars(PurgeEnds)

FairSpec == Spec /\ Fairness

-----------------------------------------------------------------------------
(* Properties.                                                              *)

\* GetByKey never returns a session that has left p.sessions and that no call is at, unless
\* calls overlapped on it or a session was given the empty key, which no removal looks at
\* (SetKey, Remove*).
KeysAreListed ==
    had[Empty] = {} =>
        \A k \in Keys :
            keys[k] \in listed \cup raced \cup {Nobody} \cup {call[x].on : x \in Actors}

\* A session in the pool that is the only one ever given its key is found by it, whatever
\* other sessions do with theirs and leave (SetKey, RemoveByID, RemoveByKey).
SoleOwnerIsFound ==
    \A s \in listed \ raced :
        /\ key[s] # Empty /\ had[key[s]] = {s}
        /\ \A x \in Actors : call[x].on # s
        => keys[key[s]] = s

\* Both: a key leads to the session in the pool that has it, and to no other (SetKey, the
\* Get and the Remove functions of websocket/session.go).
KeysLead == KeysAreListed /\ SoleOwnerIsFound

\* A session whose operator has ended is not in p.sessions, nor in p.conns unless somebody
\* is about to take it out, also if others closed or removed it at the same time or the
\* operator panicked (operator, Session.Close, RemoveByID).
EndedIsUnlisted ==
    \A s \in Sessions : phase[s] = "ended" =>
        /\ s \notin listed
        /\ s \in conns => \E x \in Actors : call[x].on = s /\ call[x].at = "unconn"

\* The process dies only if two goroutines were in the pool at once, operators that come
\* and leave among them, or a session was closed after its end.
DiesOnlyOfCrossing == dead => crossed

\* Both: the end of a session takes it out of the pool, and never the process down if
\* nobody else is in the pool meanwhile (operator, Session.Close).
EndsWell == EndedIsUnlisted /\ DiesOnlyOfCrossing

\* An operator has ended in the middle of SetKey and left the pool locked.
Jammed == lock \in Sessions /\ phase[lock] = "ended"

\* A session whose client has gone leaves the pool, whoever holds the lock meanwhile,
\* unless the lock is never released, for which SetKey may have the operator wait.
GoneAreUnlisted ==
    \A s \in Sessions : phase[s] = "open" /\ ~peer[s] ~> s \notin listed \/ dead \/ Jammed
=============================================================================
