-------------------------- MODULE WsSessions_proofs --------------------------
(***************************************************************************)
(* Proofs about WsSessions: its types, that no session of an ended operator *)
(* stays in the pool, that nobody dies who is alone in the pool, and that   *)
(* the keys lead to the sessions that have them.                            *)
(***************************************************************************)
EXTENDS WsSessions, TLAPS

-----------------------------------------------------------------------------
(* Steps of a call.                                                         *)

Points == Entering \cup Setting \cup Removing

\* A goroutine that is inside a call is inside one of a session.
LEMMA BusyOnSession ==
    ASSUME TypeOK, NEW x \in Actors, Busy(x)
    PROVE  /\ call[x] \in [at : Points, on : Sessions, key : Keys,
                           op : {"put", "set", "close", "remove", "remove key"}]
           /\ call[x].at \in Points /\ call[x].on \in Sessions /\ call[x].key \in Keys
<1>1. call[x] \in Calls
  BY DEF TypeOK
<1>2. call[x] # Idle
  BY DEF Busy, Idle
<1>3. call[x] \in [at : Points, on : Sessions, key : Keys,
                   op : {"put", "set", "close", "remove", "remove key"}]
  BY <1>1, <1>2 DEF Calls, Points
<1> QED BY <1>3

\* One that is not is idle, and on no session.
LEMMA IdleOnNobody ==
    ASSUME TypeOK, NEW x \in Actors, ~Busy(x)
    PROVE  call[x] = Idle /\ call[x].on \notin Sessions
<1>1. call[x] \in Calls
  BY DEF TypeOK
<1>2. \A c \in [at : Entering \cup Setting \cup Removing, on : Sessions, key : Keys,
                op : {"put", "set", "close", "remove", "remove key"}] : c.at # "idle"
  BY DEF Entering, Setting, Removing
<1>3. call[x] = Idle
  BY <1>1, <1>2 DEF Calls, Busy
<1> QED BY <1>3, NamesAssumption DEF Idle

\* Whoever is about to do something is busy.
LEMMA AtBusy ==
    ASSUME NEW x \in Actors, NEW at \in Points, At(x, at)
    PROVE  Busy(x)
BY DEF At, Busy, Points, Entering, Setting, Removing

\* Moving on changes the one field of the one goroutine.
LEMMA MovesOn ==
    ASSUME TypeOK, NEW x \in Actors, Busy(x), NEW at \in Points, Moves(x, at)
    PROVE  /\ call' \in [Actors -> Calls]
           /\ call'[x].at = at /\ call'[x].on = call[x].on
           /\ call'[x].key = call[x].key /\ call'[x].op = call[x].op
           /\ \A y \in Actors \ {x} : call'[y] = call[y]
<1> DEFINE new == [call[x] EXCEPT !.at = at]
<1>1. call[x] \in [at : Points, on : Sessions, key : Keys,
                   op : {"put", "set", "close", "remove", "remove key"}]
  BY BusyOnSession
<1>2. new \in Calls
  BY <1>1 DEF Calls, Points
<1>3. /\ new.at = at /\ new.on = call[x].on
      /\ new.key = call[x].key /\ new.op = call[x].op
  BY <1>1
<1>4. call \in [Actors -> Calls]
  BY DEF TypeOK
<1>5. call' = [call EXCEPT ![x] = new]
  BY DEF Moves
<1> HIDE DEF new
<1>6. call'[x] = new /\ \A y \in Actors \ {x} : call'[y] = call[y]
  BY <1>4, <1>5
<1>7. call' \in [Actors -> Calls]
  BY <1>2, <1>4, <1>5
<1> QED BY <1>3, <1>6, <1>7

\* Beginning and ending a call replace the whole record.
LEMMA CallReplaced ==
    ASSUME TypeOK, NEW x \in Actors, NEW c \in Calls, call' = [call EXCEPT ![x] = c]
    PROVE  /\ call' \in [Actors -> Calls] /\ call'[x] = c
           /\ \A y \in Actors \ {x} : call'[y] = call[y]
BY DEF TypeOK

-----------------------------------------------------------------------------
(* Type correctness.                                                        *)

LEMMA InitTypeOK == Init => TypeOK
<1> SUFFICES ASSUME Init PROVE TypeOK
  OBVIOUS
<1> USE DEF Init
<1>1. call \in [Actors -> Calls]
  BY DEF Calls
<1>2. /\ keys \in [Keys -> Sessions \cup {Nobody}] /\ key \in [Sessions -> Keys]
      /\ calls \in 0..MaxCalls
  BY NamesAssumption, MaxCallsAssumption
<1> QED BY <1>1, <1>2 DEF TypeOK

\* The steps inside a call keep the types.
LEMMA InsideTypeOK ==
    ASSUME TypeOK, NEW x \in Actors, Inside(x)
    PROVE  TypeOK'
<1>0. Idle \in Calls
  BY DEF Calls
<1>1. ASSUME NEW at \in Points, NEW to \in Points, At(x, at), Moves(x, to)
      PROVE  call' \in [Actors -> Calls] /\ call[x].on \in Sessions /\ call[x].key \in Keys
  BY <1>1, AtBusy, BusyOnSession, MovesOn
<1>2. ASSUME NEW at \in Points, At(x, at), call' = [call EXCEPT ![x] = Idle]
      PROVE  call' \in [Actors -> Calls] /\ call[x].on \in Sessions /\ call[x].key \in Keys
  BY <1>0, <1>2, AtBusy, BusyOnSession, CallReplaced
<1>3. \A at \in Entering \cup Setting \cup Removing : at \in Points
  BY DEF Points
<1> USE DEF Entering, Setting, Removing
<1>4. CASE PutSession(x)
  <2>1. call' \in [Actors -> Calls] /\ call[x].on \in Sessions
    BY <1>1, <1>3, <1>4 DEF PutSession
  <2> QED BY <1>4, <2>1 DEF PutSession, TypeOK, histVars
<1>5. CASE PutConn(x)
  <2>1. call' \in [Actors -> Calls] /\ call[x].on \in Sessions
    BY <1>1, <1>3, <1>5 DEF PutConn
  <2> QED BY <1>5, <2>1 DEF PutConn, TypeOK, histVars
<1>6. CASE PutEnds(x)
  <2>1. call' \in [Actors -> Calls] /\ call[x].on \in Sessions
    BY <1>2, <1>3, <1>6 DEF PutEnds
  <2> QED BY <1>6, <2>1 DEF PutEnds, TypeOK, mapVars, histVars
<1>7. CASE LockForKey(x)
  <2>1. call' \in [Actors -> Calls]
    BY <1>1, <1>3, <1>7 DEF LockForKey
  <2> QED BY <1>7, <2>1 DEF LockForKey, TypeOK, mapVars, histVars
<1>8. CASE DropOldKey(x)
  <2>1. call' \in [Actors -> Calls] /\ call[x].on \in Sessions
    BY <1>1, <1>3, <1>8 DEF DropOldKey
  <2> QED BY <1>8, <2>1 DEF DropOldKey, TypeOK, histVars
<1>9. CASE UnlockForKey(x)
  <2>1. call' \in [Actors -> Calls]
    BY <1>1, <1>3, <1>9 DEF UnlockForKey
  <2> QED BY <1>9, <2>1 DEF UnlockForKey, TypeOK, mapVars, histVars
<1>10. CASE PutNewKey(x)
  <2>1. call' \in [Actors -> Calls] /\ call[x].on \in Sessions
    BY <1>1, <1>3, <1>10 DEF PutNewKey
  <2> QED BY <1>10, <2>1 DEF PutNewKey, TypeOK, histVars
<1>11. CASE AssignKey(x)
  <2>1. call' \in [Actors -> Calls] /\ call[x].on \in Sessions /\ call[x].key \in Keys
    BY <1>2, <1>3, <1>11 DEF AssignKey, Returns
  <2> QED BY <1>11, <2>1 DEF AssignKey, Returns, TypeOK, mapVars, histVars
<1>12. CASE PoolHasGone(x)
  <2>1. call' \in [Actors -> Calls]
    BY <1>0, <1>12, CallReplaced DEF PoolHasGone, Panics
  <2> QED BY <1>12, <2>1 DEF PoolHasGone, Panics, TypeOK, mapVars, histVars
<1>13. CASE Look(x)
  <2>1. call' \in [Actors -> Calls]
    BY <1>1, <1>3, <1>13 DEF Look
  <2> QED BY <1>13, <2>1 DEF Look, TypeOK, mapVars, histVars
<1>14. CASE RemoveSession(x)
  <2>1. call' \in [Actors -> Calls]
    BY <1>1, <1>3, <1>14 DEF RemoveSession
  <2> QED BY <1>14, <2>1 DEF RemoveSession, TypeOK, histVars
<1>15. CASE RemoveConn(x)
  <2>1. call' \in [Actors -> Calls]
    BY <1>1, <1>3, <1>15 DEF RemoveConn
  <2> QED BY <1>15, <2>1 DEF RemoveConn, TypeOK, histVars
<1>16. CASE RemoveKey(x)
  <2>1. call' \in [Actors -> Calls]
    BY <1>1, <1>3, <1>16 DEF RemoveKey
  <2>2. keys' \in [Keys -> Sessions \cup {Nobody}]
    BY <1>16 DEF RemoveKey, TypeOK
  <2> QED BY <1>16, <2>1, <2>2 DEF RemoveKey, TypeOK, histVars
<1>17. CASE RemoveEnds(x)
  <2>1. call' \in [Actors -> Calls]
    BY <1>1, <1>2, <1>3, <1>17 DEF RemoveEnds, Returns
  <2> QED BY <1>17, <2>1 DEF RemoveEnds, Returns, TypeOK, mapVars, histVars
<1>18. CASE HangUp(x)
  <2>1. call' \in [Actors -> Calls]
    BY <1>2, <1>3, <1>18 DEF HangUp, Returns
  <2> QED BY <1>18, <2>1 DEF HangUp, Returns, TypeOK, mapVars, histVars
<1>19. CASE HangUpPanics(x)
  <2>1. call' \in [Actors -> Calls]
    BY <1>0, <1>19, CallReplaced DEF HangUpPanics, Panics
  <2> QED BY <1>19, <2>1 DEF HangUpPanics, Panics, TypeOK, mapVars, histVars
<1> QED BY <1>4, <1>5, <1>6, <1>7, <1>8, <1>9, <1>10, <1>11, <1>12, <1>13, <1>14, <1>15,
           <1>16, <1>17, <1>18, <1>19, Inside(x) DEF Inside

\* So do the steps that begin a call.
LEMMA BeginsTypeOK ==
    ASSUME TypeOK, NEW x \in Actors, NEW s \in Sessions, NEW c \in Calls, Begins(x, s, c)
    PROVE  call' \in [Actors -> Calls] /\ crossed' \in BOOLEAN /\ raced' \subseteq Sessions
<1>1. call' \in [Actors -> Calls]
  BY CallReplaced DEF Begins
<1>2. crossed' \in BOOLEAN
  BY DEF Begins, OthersIn, Busy
<1>3. raced' \subseteq Sessions
  BY DEF Begins, TypeOK
<1> QED BY <1>1, <1>2, <1>3

LEMMA CallsTypeOK ==
    ASSUME TypeOK, NEW x \in Actors, NEW s \in Sessions,
           Close(x, s) \/ \E k \in Keys : SetKey(x, s, k)
    PROVE  TypeOK'
<1>1. CASE Close(x, s)
  <2> DEFINE c == [on |-> s, key |-> Empty, op |-> "close",
                   at |-> IF pooled[s] THEN "look" ELSE "hang"]
  <2>1. c \in Calls
    BY NamesAssumption DEF Calls, Removing
  <2>2. Begins(x, s, c)
    BY <1>1 DEF Close, CloseSteps
  <2> HIDE DEF c
  <2>3. call' \in [Actors -> Calls] /\ crossed' \in BOOLEAN /\ raced' \subseteq Sessions
    BY <2>1, <2>2, BeginsTypeOK
  <2>4. calls' \in 0..MaxCalls
    BY <1>1, MaxCallsAssumption DEF Close, MayCall, TypeOK
  <2>5. idle' \subseteq Sessions
    BY <1>1 DEF Close, TypeOK
  <2> QED BY <1>1, <2>3, <2>4, <2>5 DEF Close, TypeOK, mapVars
<1>2. ASSUME NEW k \in Keys, SetKey(x, s, k)
      PROVE  TypeOK'
  <2> DEFINE c == [on |-> s, key |-> k, op |-> "set",
                   at |-> IF ~pooled[s] THEN "assign"
                          ELSE IF key[s] # Empty THEN "drop" ELSE "put"]
  <2>1. c \in Calls
    BY DEF Calls, Setting
  <2>2. Begins(x, s, c)
    BY <1>2 DEF SetKey
  <2> HIDE DEF c
  <2>3. call' \in [Actors -> Calls] /\ crossed' \in BOOLEAN /\ raced' \subseteq Sessions
    BY <2>1, <2>2, BeginsTypeOK
  <2>4. calls' \in 0..MaxCalls
    BY <1>2, MaxCallsAssumption DEF SetKey, MayCall, TypeOK
  <2> QED BY <1>2, <2>3, <2>4 DEF SetKey, TypeOK, mapVars
<1> QED BY <1>1, <1>2

\* And all the others.
LEMMA SessionTypeOK ==
    ASSUME TypeOK, NEW s \in Sessions,
           Put(s) \/ Leave(s) \/ PeerGoes(s) \/ RemoveByID(s)
    PROVE  TypeOK'
<1>0. s \in Actors /\ Admin \in Actors
  BY DEF Actors
<1>1. CASE Put(s)
  <2> DEFINE c == [at |-> "list", on |-> s, key |-> Empty, op |-> "put"]
  <2>1. c \in Calls
    BY NamesAssumption DEF Calls, Entering
  <2>2. call' \in [Actors -> Calls] /\ crossed' \in BOOLEAN /\ raced' \subseteq Sessions
    BY <1>0, <1>1, <2>1, BeginsTypeOK DEF Put
  <2> HIDE DEF c
  <2> QED BY <1>0, <1>1, <2>2 DEF Put, TypeOK, mapVars
<1>2. CASE Leave(s)
  <2> DEFINE c == [on |-> s, key |-> Empty, op |-> "close",
                   at |-> IF pooled[s] THEN "look" ELSE "hang"]
  <2>1. c \in Calls
    BY NamesAssumption DEF Calls, Removing
  <2>2. call' \in [Actors -> Calls] /\ crossed' \in BOOLEAN /\ raced' \subseteq Sessions
    BY <1>0, <1>2, <2>1, BeginsTypeOK DEF Leave, CloseSteps
  <2> HIDE DEF c
  <2> QED BY <1>2, <2>2 DEF Leave, TypeOK, mapVars
<1>3. CASE PeerGoes(s)
  BY <1>3 DEF PeerGoes, TypeOK, mapVars, histVars
<1>4. CASE RemoveByID(s)
  <2> DEFINE c == [at |-> "unlist", on |-> s, key |-> Empty, op |-> "remove"]
  <2>1. c \in Calls
    BY NamesAssumption DEF Calls, Removing
  <2>2. call' \in [Actors -> Calls] /\ crossed' \in BOOLEAN /\ raced' \subseteq Sessions
    BY <1>0, <1>4, <2>1, BeginsTypeOK DEF RemoveByID
  <2>3. calls' \in 0..MaxCalls
    BY <1>4, MaxCallsAssumption DEF RemoveByID, MayCall, TypeOK
  <2> HIDE DEF c
  <2> QED BY <1>4, <2>2, <2>3 DEF RemoveByID, TypeOK, mapVars
<1> QED BY <1>1, <1>2, <1>3, <1>4

LEMMA PoolTypeOK ==
    ASSUME TypeOK,
           (\E k \in Keys : RemoveByKey(k)) \/ Purge \/ PurgeEnds \/ MapFault \/ GetFault
    PROVE  TypeOK'
<1>1. ASSUME NEW k \in Keys, RemoveByKey(k)
      PROVE  TypeOK'
  <2> DEFINE c == [at |-> "unlist", on |-> keys[k], key |-> k, op |-> "remove key"]
  <2>1. keys[k] \in Sessions /\ Admin \in Actors
    BY <1>1 DEF RemoveByKey, TypeOK, Actors
  <2>2. c \in Calls
    BY <2>1 DEF Calls, Removing
  <2>3. call' \in [Actors -> Calls] /\ crossed' \in BOOLEAN /\ raced' \subseteq Sessions
    BY <1>1, <2>1, <2>2, BeginsTypeOK DEF RemoveByKey
  <2>4. calls' \in 0..MaxCalls
    <3>1. calls \in 0..MaxCalls /\ calls < MaxCalls /\ calls' = calls + 1
      BY <1>1 DEF RemoveByKey, MayCall, TypeOK
    <3> QED BY <3>1, MaxCallsAssumption
  <2> HIDE DEF c
  <2> QED BY <1>1, <2>3, <2>4 DEF RemoveByKey, TypeOK, mapVars
<1>2. CASE Purge
  <2>1. crossed' \in BOOLEAN
    BY <1>2 DEF Purge, OthersIn, Busy
  <2>2. idle' \subseteq Sessions
    BY <1>2 DEF Purge, TypeOK
  <2> QED BY <1>2, <2>1, <2>2 DEF Purge, TypeOK, mapVars, Actors
<1>3. CASE PurgeEnds
  BY <1>3 DEF PurgeEnds, TypeOK, mapVars, histVars
<1>4. CASE MapFault
  BY <1>4 DEF MapFault, TypeOK, mapVars, histVars
<1>5. CASE GetFault
  BY <1>5 DEF GetFault, TypeOK, mapVars
<1> QED BY <1>1, <1>2, <1>3, <1>4, <1>5

\* Every reachable state is well typed: above all, whoever is inside a call of a session
\* is inside a call of a session that exists.
THEOREM TypeCorrect == Spec => []TypeOK
<1>1. TypeOK /\ UNCHANGED vars => TypeOK'
  BY DEF TypeOK, vars, mapVars, histVars
<1>2. TypeOK /\ [Next]_vars => TypeOK'
  BY <1>1, InsideTypeOK, CallsTypeOK, SessionTypeOK, PoolTypeOK DEF Next
<1> QED BY <1>2, InitTypeOK, PTL DEF Spec

-----------------------------------------------------------------------------
(* Who is inside a call.                                                    *)

\* Operators work on their own session and begin nothing after their closing; those that
\* are in Put are the only ones that know their session, which no key leads to.
Who ==
    /\ \A s \in Sessions : Busy(s) => call[s].on = s
    /\ \A s \in Sessions : phase[s] = "closing" => call[s].at \in Removing
    /\ \A s \in Sessions : phase[s] = "entering" => call[s].at \in Entering
    /\ \A x \in Actors : call[x].at \in Entering => x \in Sessions /\ phase[x] = "entering"
    /\ \A x \in Actors : Busy(x) => /\ phase[call[x].on] # "new"
                                    /\ phase[call[x].on] = "entering" => x = call[x].on

Known == \A k \in Keys : keys[k] # Nobody => phase[keys[k]] \notin {"new", "entering"}

LEMMA InitWho == Init => Who /\ Known
BY DEF Init, Who, Known, Busy, Idle, Actors, Entering

\* A step from one point of a call to the next.
LEMMA MovesWho ==
    ASSUME TypeOK, Who, NEW x \in Actors, NEW at \in Points, NEW to \in Points,
           At(x, at), Moves(x, to), UNCHANGED phase,
           at \in Entering <=> to \in Entering, at \in Removing => to \in Removing
    PROVE  Who'
<1>1. Busy(x) /\ call[x].at = at
  BY AtBusy DEF At
<1>2. /\ call'[x].at = to /\ call'[x].on = call[x].on
      /\ \A y \in Actors \ {x} : call'[y] = call[y]
  BY <1>1, MovesOn
<1>3. \A s \in Sessions : s \in Actors
  BY DEF Actors
<1>4. to # "idle"
  BY DEF Points, Entering, Setting, Removing
<1>5. call[x].on \in Sessions
  BY <1>1, BusyOnSession
<1> QED BY <1>1, <1>2, <1>3, <1>4, <1>5 DEF Who, Busy

\* The end of a call that is not Put.
LEMMA EndsWho ==
    ASSUME TypeOK, Who, NEW x \in Actors, call[x].at \notin Entering,
           call' = [call EXCEPT ![x] = Idle],
           \/ UNCHANGED phase /\ (x \in Sessions => phase[x] # "closing")
           \/ x \in Sessions /\ phase' = [phase EXCEPT ![x] = "ended"]
    PROVE  Who'
<1>1. call'[x] = Idle /\ \A y \in Actors \ {x} : call'[y] = call[y]
  BY CallReplaced DEF Calls
<1>2. /\ \A s \in Sessions : s \in Actors
      /\ \A s \in Sessions : phase'[s] = phase[s] \/ (s = x /\ phase'[s] = "ended")
      /\ x \in Sessions => phase'[x] # "closing"
  BY DEF Actors, TypeOK
<1>3. \A y \in Actors : Busy(y) => call[y].on \in Sessions
  BY BusyOnSession
<1>4. Idle.at = "idle" /\ Idle.at \notin Entering
  BY DEF Idle, Entering
<1> HIDE DEF Idle
<1>5. ASSUME NEW s \in Sessions PROVE Busy(s)' => call'[s].on = s
  BY <1>1, <1>2, <1>4 DEF Who, Busy
<1>6. ASSUME NEW s \in Sessions PROVE phase'[s] = "closing" => call'[s].at \in Removing
  BY <1>1, <1>2 DEF Who
<1>7. ASSUME NEW s \in Sessions PROVE phase'[s] = "entering" => call'[s].at \in Entering
  BY <1>1, <1>2 DEF Who
<1>8. ASSUME NEW y \in Actors
      PROVE  call'[y].at \in Entering => y \in Sessions /\ phase'[y] = "entering"
  BY <1>1, <1>2, <1>4 DEF Who
<1>9. ASSUME NEW y \in Actors, Busy(y)'
      PROVE  phase'[call'[y].on] # "new" /\ (phase'[call'[y].on] = "entering" => y = call'[y].on)
  <2>1. y # x /\ call'[y] = call[y] /\ Busy(y) /\ call[y].on \in Sessions
    BY <1>1, <1>3, <1>4, <1>9 DEF Busy
  <2> QED BY <1>2, <2>1 DEF Who
<1> QED BY <1>5, <1>6, <1>7, <1>8, <1>9 DEF Who

LEMMA InsideWho ==
    ASSUME TypeOK, Who, Known, NEW x \in Actors, Inside(x)
    PROVE  Who' /\ Known'
<1>0. \A at \in Entering \cup Setting \cup Removing : at \in Points
  BY DEF Points
<1>k. \A y \in Actors : Busy(y) => call[y].on \in Sessions /\ call[y].key \in Keys
  BY BusyOnSession
<1>n. \A k \in Keys : keys[k] \in Sessions \cup {Nobody}
  BY DEF TypeOK
<1>1. CASE PutSession(x)
  <2>1. Who'
    BY <1>0, <1>1, MovesWho DEF PutSession, Entering, Removing
  <2> QED BY <1>1, <2>1 DEF PutSession, Known
<1>2. CASE PutConn(x)
  <2>1. Who'
    BY <1>0, <1>2, MovesWho DEF PutConn, Entering, Removing
  <2> QED BY <1>2, <2>1 DEF PutConn, Known
<1>3. CASE PutEnds(x)
  <2>1. x \in Sessions /\ call[x].on = x /\ phase[x] = "entering"
    <3>1. call[x].at \in Entering /\ Busy(x)
      BY <1>3 DEF PutEnds, At, Busy, Entering
    <3> QED BY <3>1 DEF Who
  <2>2. phase' = [phase EXCEPT ![x] = "open"] /\ call' = [call EXCEPT ![x] = Idle]
        /\ keys' = keys
    BY <1>3, <2>1 DEF PutEnds, mapVars
  <2>3. call'[x] = Idle /\ \A y \in Actors \ {x} : call'[y] = call[y]
    BY <2>2, CallReplaced DEF Calls
  <2>4. phase'[x] = "open" /\ \A s \in Sessions \ {x} : phase'[s] = phase[s]
    BY <2>1, <2>2 DEF TypeOK
  <2>5. Idle.at = "idle" /\ Idle.at \notin Entering /\ \A s \in Sessions : s \in Actors
    BY DEF Idle, Entering, Actors
  <2> HIDE DEF Idle
  <2>6. \A y \in Actors : Busy(y)' => y # x /\ Busy(y) /\ call'[y] = call[y]
    BY <2>3, <2>5 DEF Busy
  <2>7. Who'
    BY <1>k, <2>1, <2>3, <2>4, <2>5, <2>6 DEF Who
  <2>8. Known'
    BY <1>n, <2>2, <2>4 DEF Known
  <2> QED BY <2>7, <2>8
<1>4. CASE LockForKey(x)
  <2>1. Who'
    BY <1>0, <1>4, MovesWho DEF LockForKey, Setting, Entering, Removing
  <2> QED BY <1>4, <2>1 DEF LockForKey, Known, mapVars
<1>5. CASE DropOldKey(x)
  <2>1. Who'
    BY <1>0, <1>5, MovesWho DEF DropOldKey, Setting, Entering, Removing
  <2>2. Known'
    BY <1>5 DEF DropOldKey, Known, TypeOK
  <2> QED BY <2>1, <2>2
<1>6. CASE UnlockForKey(x)
  <2>1. Who'
    BY <1>0, <1>6, MovesWho DEF UnlockForKey, Setting, Entering, Removing
  <2> QED BY <1>6, <2>1 DEF UnlockForKey, Known, mapVars
<1>7. CASE PutNewKey(x)
  <2>1. Who'
    BY <1>0, <1>7, MovesWho DEF PutNewKey, Setting, Entering, Removing
  <2>2. phase[call[x].on] \notin {"new", "entering"}
    <3>1. Busy(x) /\ call[x].at \notin Entering
      BY <1>7 DEF PutNewKey, At, Busy, Entering
    <3> QED BY <1>k, <3>1 DEF Who
  <2>3. Known'
    BY <1>7, <2>2 DEF PutNewKey, Known, TypeOK
  <2> QED BY <2>1, <2>3
<1>8. CASE AssignKey(x)
  <2>1. call[x].at \notin Entering /\ call[x].at \notin Removing
    BY <1>8 DEF AssignKey, At, Entering, Removing
  <2>2. x \in Sessions => phase[x] # "closing"
    BY <2>1 DEF Who
  <2>3. Who'
    BY <1>8, <2>1, <2>2, EndsWho DEF AssignKey, Returns
  <2> QED BY <1>8, <2>2, <2>3 DEF AssignKey, Returns, Known, mapVars
<1>9. CASE PoolHasGone(x)
  <2>1. call[x].at \notin Entering
    BY <1>9 DEF PoolHasGone, Entering
  <2>2. Who'
    BY <1>9, <2>1, NamesAssumption, EndsWho DEF PoolHasGone, Panics, Actors
  <2>3. Known'
    BY <1>9, <1>n DEF PoolHasGone, Panics, Known, TypeOK, mapVars
  <2> QED BY <2>2, <2>3
<1>10. CASE Look(x)
  <2>1. Who'
    BY <1>0, <1>10, MovesWho DEF Look, Entering, Removing
  <2> QED BY <1>10, <2>1 DEF Look, Known, mapVars
<1>11. CASE RemoveSession(x)
  <2>1. Who'
    BY <1>0, <1>11, MovesWho DEF RemoveSession, Entering, Removing
  <2> QED BY <1>11, <2>1 DEF RemoveSession, Known
<1>12. CASE RemoveConn(x)
  <2>1. Who'
    BY <1>0, <1>12, MovesWho DEF RemoveConn, Entering, Removing
  <2> QED BY <1>12, <2>1 DEF RemoveConn, Known
<1>13. CASE RemoveKey(x)
  <2>1. Who'
    BY <1>0, <1>13, MovesWho DEF RemoveKey, Entering, Removing
  <2>2. Known'
    BY <1>13 DEF RemoveKey, Known
  <2> QED BY <2>1, <2>2
<1>14. CASE RemoveEnds(x)
  <2>1. call[x].at \notin Entering
    BY <1>14 DEF RemoveEnds, At, Entering
  <2>2. CASE call[x].op = "close"
    <3>1. Who'
      BY <1>0, <1>14, <2>2, MovesWho DEF RemoveEnds, Entering, Removing
    <3> QED BY <1>14, <2>2, <3>1 DEF RemoveEnds, Known, mapVars
  <2>3. CASE call[x].op # "close"
    <3>1. Returns(x) /\ UNCHANGED keys
      BY <1>14, <2>3 DEF RemoveEnds, mapVars
    <3>2. Who'
      BY <2>1, <3>1, EndsWho DEF Returns
    <3> QED BY <1>n, <3>1, <3>2 DEF Returns, Known, TypeOK
  <2> QED BY <2>2, <2>3
<1>15. CASE HangUp(x)
  <2>1. call[x].at \notin Entering
    BY <1>15 DEF HangUp, At, Entering
  <2>2. Returns(x) /\ UNCHANGED keys
    BY <1>15 DEF HangUp, mapVars
  <2>3. Who'
    BY <2>1, <2>2, EndsWho DEF Returns
  <2> QED BY <1>n, <2>2, <2>3 DEF Returns, Known, TypeOK
<1>16. CASE HangUpPanics(x)
  <2>1. call[x].at \notin Entering
    BY <1>16 DEF HangUpPanics, At, Entering
  <2>2. Who'
    <3>1. CASE x = Admin
      BY <1>16, <2>1, <3>1, NamesAssumption, EndsWho DEF HangUpPanics, Panics
    <3>2. CASE x \in Sessions
      BY <1>16, <2>1, <3>2, NamesAssumption, EndsWho DEF HangUpPanics, Panics
    <3> QED BY <3>1, <3>2 DEF Actors
  <2>3. Known'
    BY <1>16, <1>n DEF HangUpPanics, Panics, Known, TypeOK, mapVars
  <2> QED BY <2>2, <2>3
<1> QED BY <1>1, <1>2, <1>3, <1>4, <1>5, <1>6, <1>7, <1>8, <1>9, <1>10, <1>11, <1>12, <1>13,
           <1>14, <1>15, <1>16, Inside(x) DEF Inside

\* The beginning of a call that is not Put.
LEMMA BeginsWho ==
    ASSUME TypeOK, Who, Known, NEW x \in Actors, ~Busy(x), NEW s \in Sessions,
           NEW c \in Calls, Begins(x, s, c), c.on = s, c.at \in Setting \cup Removing,
           phase[s] \notin {"new", "entering"}, x # Admin => x = s,
           x # Admin => phase[x] = "open", UNCHANGED keys,
           \/ UNCHANGED phase
           \/ phase' = [phase EXCEPT ![x] = "closing"] /\ x \in Sessions /\ c.at \in Removing
    PROVE  Who' /\ Known'
<1>1. call'[x] = c /\ \A y \in Actors \ {x} : call'[y] = call[y]
  BY CallReplaced DEF Begins
<1>2. /\ \A r \in Sessions : r \in Actors
      /\ \A r \in Sessions : phase'[r] = phase[r] \/ (r = x /\ phase'[r] = "closing")
      /\ c.at \notin Entering /\ c.at # "idle"
      /\ x \in Sessions => x # Admin
  BY NamesAssumption DEF Actors, TypeOK, Entering, Setting, Removing
<1>3. \A y \in Actors : Busy(y) => call[y].on \in Sessions
  BY BusyOnSession
<1>4. x \in Sessions => (phase'[x] = "closing" => c.at \in Removing) /\ phase'[x] # "entering"
  BY <1>2 DEF TypeOK
<1>5. ASSUME NEW r \in Sessions PROVE Busy(r)' => call'[r].on = r
  BY <1>1, <1>2 DEF Who, Busy
<1>6. ASSUME NEW r \in Sessions PROVE phase'[r] = "closing" => call'[r].at \in Removing
  BY <1>1, <1>2, <1>4 DEF Who
<1>7. ASSUME NEW r \in Sessions PROVE phase'[r] = "entering" => call'[r].at \in Entering
  BY <1>1, <1>2, <1>4 DEF Who
<1>8. ASSUME NEW y \in Actors
      PROVE  call'[y].at \in Entering => y \in Sessions /\ phase'[y] = "entering"
  <2>1. CASE y = x
    BY <1>1, <1>2, <2>1
  <2>2. CASE y # x
    <3>1. call'[y] = call[y]
      BY <1>1, <2>2
    <3> QED BY <1>2, <2>2, <3>1 DEF Who
  <2> QED BY <2>1, <2>2
<1>9. ASSUME NEW y \in Actors, Busy(y)'
      PROVE  phase'[call'[y].on] # "new" /\ (phase'[call'[y].on] = "entering" => y = call'[y].on)
  <2>1. CASE y = x
    BY <1>1, <1>2, <2>1
  <2>2. CASE y # x
    <3>1. call'[y] = call[y] /\ Busy(y) /\ call[y].on \in Sessions
      BY <1>1, <1>3, <1>9, <2>2 DEF Busy
    <3> QED BY <1>2, <3>1 DEF Who
  <2> QED BY <2>1, <2>2
<1>10. Known'
  BY <1>2 DEF Known, TypeOK
<1> QED BY <1>5, <1>6, <1>7, <1>8, <1>9, <1>10 DEF Who

LEMMA CallsWho ==
    ASSUME TypeOK, Who, Known, NEW x \in Actors, NEW s \in Sessions,
           Close(x, s) \/ \E k \in Keys : SetKey(x, s, k)
    PROVE  Who' /\ Known'
<1>1. CASE Close(x, s)
  <2> DEFINE c == [on |-> s, key |-> Empty, op |-> "close",
                   at |-> IF pooled[s] THEN "look" ELSE "hang"]
  <2>1. c \in Calls /\ c.on = s /\ c.at \in Setting \cup Removing
    BY NamesAssumption DEF Calls, Removing
  <2>2. /\ Begins(x, s, c) /\ ~Busy(x) /\ UNCHANGED <<phase, keys>>
        /\ x # Admin => x = s /\ phase[x] = "open"
        /\ phase[s] \notin {"new", "entering"}
    BY <1>1 DEF Close, CloseSteps, MayCall, Knows, mapVars
  <2> HIDE DEF c
  <2> QED BY <2>1, <2>2, BeginsWho
<1>2. ASSUME NEW k \in Keys, SetKey(x, s, k)
      PROVE  Who' /\ Known'
  <2> DEFINE c == [on |-> s, key |-> k, op |-> "set",
                   at |-> IF ~pooled[s] THEN "assign"
                          ELSE IF key[s] # Empty THEN "drop" ELSE "put"]
  <2>1. c \in Calls /\ c.on = s /\ c.at \in Setting \cup Removing
    BY DEF Calls, Setting
  <2>2. /\ Begins(x, s, c) /\ ~Busy(x) /\ UNCHANGED <<phase, keys>>
        /\ x # Admin => x = s /\ phase[x] = "open"
        /\ phase[s] \notin {"new", "entering"}
    BY <1>2 DEF SetKey, MayCall, Knows, mapVars
  <2> HIDE DEF c
  <2> QED BY <2>1, <2>2, BeginsWho
<1> QED BY <1>1, <1>2

LEMMA SessionWho ==
    ASSUME TypeOK, Who, Known, NEW s \in Sessions,
           Put(s) \/ Leave(s) \/ PeerGoes(s) \/ RemoveByID(s)
    PROVE  Who' /\ Known'
<1>0. s \in Actors /\ s # Admin /\ Admin \in Actors
  BY NamesAssumption DEF Actors
<1>1. CASE Put(s)
  <2> DEFINE c == [at |-> "list", on |-> s, key |-> Empty, op |-> "put"]
  <2>1. c \in Calls /\ c.on = s /\ c.at \in Entering /\ c.at # "idle"
    BY NamesAssumption DEF Calls, Entering
  <2>2. Begins(s, s, c) /\ phase[s] = "new" /\ phase' = [phase EXCEPT ![s] = "entering"]
        /\ keys' = keys
    BY <1>1 DEF Put, mapVars
  <2> HIDE DEF c
  <2>3. call'[s] = c /\ \A y \in Actors \ {s} : call'[y] = call[y]
    BY <1>0, <2>1, <2>2, CallReplaced DEF Begins
  <2>4. phase'[s] = "entering" /\ \A r \in Sessions \ {s} : phase'[r] = phase[r]
    BY <2>2 DEF TypeOK
  <2>5. /\ \A r \in Sessions : r \in Actors
        /\ \A y \in Actors : Busy(y) => call[y].on \in Sessions /\ call[y].on # s
    BY <2>2, BusyOnSession DEF Actors, Who
  <2>6. \A y \in Actors \ {s} : Busy(y)' <=> Busy(y)
    BY <2>3 DEF Busy
  <2>7. Who'
    BY <2>1, <2>3, <2>4, <2>5, <2>6 DEF Who
  <2>8. Known'
    BY <2>2, <2>4 DEF Known, TypeOK
  <2> QED BY <2>7, <2>8
<1>2. CASE Leave(s)
  <2> DEFINE c == [on |-> s, key |-> Empty, op |-> "close",
                   at |-> IF pooled[s] THEN "look" ELSE "hang"]
  <2>1. c \in Calls /\ c.on = s /\ c.at \in Setting \cup Removing /\ c.at \in Removing
    BY NamesAssumption DEF Calls, Removing
  <2>2. /\ Begins(s, s, c) /\ ~Busy(s) /\ phase' = [phase EXCEPT ![s] = "closing"]
        /\ phase[s] = "open" /\ UNCHANGED keys
    BY <1>2 DEF Leave, CloseSteps, mapVars
  <2> HIDE DEF c
  <2> QED BY <1>0, <2>1, <2>2, BeginsWho
<1>3. CASE PeerGoes(s)
  BY <1>3 DEF PeerGoes, Who, Known, Busy, mapVars
<1>4. CASE RemoveByID(s)
  <2> DEFINE c == [at |-> "unlist", on |-> s, key |-> Empty, op |-> "remove"]
  <2>1. c \in Calls /\ c.on = s /\ c.at \in Setting \cup Removing
    BY NamesAssumption DEF Calls, Removing
  <2>2. /\ Begins(Admin, s, c) /\ ~Busy(Admin) /\ UNCHANGED <<phase, keys>>
        /\ phase[s] \notin {"new", "entering"}
    BY <1>4 DEF RemoveByID, Knows, mapVars
  <2> HIDE DEF c
  <2> QED BY <1>0, <2>1, <2>2, BeginsWho
<1> QED BY <1>1, <1>2, <1>3, <1>4

LEMMA PoolWho ==
    ASSUME TypeOK, Who, Known,
           (\E k \in Keys : RemoveByKey(k)) \/ Purge \/ PurgeEnds \/ MapFault \/ GetFault
    PROVE  Who' /\ Known'
<1>1. ASSUME NEW k \in Keys, RemoveByKey(k)
      PROVE  Who' /\ Known'
  <2> DEFINE s == keys[k]
             c == [at |-> "unlist", on |-> s, key |-> k, op |-> "remove key"]
  <2>1. s \in Sessions /\ Admin \in Actors /\ phase[s] \notin {"new", "entering"}
    BY <1>1 DEF RemoveByKey, TypeOK, Actors, Known
  <2>2. c \in Calls /\ c.on = s /\ c.at \in Setting \cup Removing
    BY <2>1 DEF Calls, Removing
  <2>3. Begins(Admin, s, c) /\ ~Busy(Admin) /\ UNCHANGED <<phase, keys>>
    BY <1>1 DEF RemoveByKey, mapVars
  <2> HIDE DEF c, s
  <2> QED BY <2>1, <2>2, <2>3, BeginsWho
<1>2. CASE Purge \/ PurgeEnds \/ MapFault \/ GetFault
  BY <1>2 DEF Purge, PurgeEnds, MapFault, GetFault, Who, Known, Busy, mapVars
<1> QED BY <1>1, <1>2

LEMMA WhoAlways == Spec => [](Who /\ Known)
<1>1. Who /\ Known /\ UNCHANGED vars => Who' /\ Known'
  BY DEF Who, Known, Busy, vars, mapVars
<1>2. TypeOK /\ Who /\ Known /\ [Next]_vars => Who' /\ Known'
  BY <1>1, InsideWho, CallsWho, SessionWho, PoolWho DEF Next
<1> QED BY <1>2, InitWho, TypeCorrect, PTL DEF Spec

-----------------------------------------------------------------------------
(* Whether a session of an ended operator can be in the pool.               *)

\* Where sessions are: in p.sessions only with a pool of their own, not before their
\* operator has started and not after it has ended, and out of it before they hang up; in
\* p.conns besides only while somebody is about to take them out, and without a pool of
\* their own when the last has done so.
Where ==
    /\ \A s \in listed : pooled[s] \/ phase[s] = "entering"
    /\ \A s \in Sessions : phase[s] \in {"new", "ended"} => s \notin listed
    /\ \A x \in Actors : call[x].at \in {"conn", "own"} => call[x].on \in listed
    /\ \A x \in Actors :
          call[x].at \in {"unconn", "unkey", "unpool", "hang"} => call[x].on \notin listed
    /\ \A s \in conns \ listed : \E x \in Actors : call[x].on = s /\ call[x].at = "unconn"
    /\ \A s \in Sessions : pooled[s] /\ s \notin listed =>
          \E x \in Actors : call[x].on = s /\ call[x].at \in {"unconn", "unkey", "unpool"}

LEMMA InitWhere == Init => Where
BY DEF Init, Where, Idle

\* A step of a call that leaves p.sessions, p.conns and s.pool alone.
LEMMA MovesWhere ==
    ASSUME TypeOK, Where, NEW x \in Actors, NEW at \in Points, NEW to \in Points,
           At(x, at), Moves(x, to), UNCHANGED <<phase, listed, conns, pooled>>,
           at # "unconn", to \notin {"conn", "own"},
           to \in {"unconn", "unkey", "unpool", "hang"} => call[x].on \notin listed,
           at \in {"unkey", "unpool"} => to \in {"unkey", "unpool"}
    PROVE  Where'
<1>1. Busy(x) /\ call[x].at = at
  BY AtBusy DEF At
<1>2. /\ call'[x].at = to /\ call'[x].on = call[x].on
      /\ \A y \in Actors \ {x} : call'[y] = call[y]
  BY <1>1, MovesOn
<1> QED BY <1>1, <1>2 DEF Where

\* The beginning of a call that is not Put.
LEMMA BeginsWhere ==
    ASSUME TypeOK, Where, NEW x \in Actors, ~Busy(x), NEW s \in Sessions,
           NEW c \in Calls, Begins(x, s, c), c.on = s,
           c.at \in Setting \cup {"look", "unlist", "hang"}, c.at = "hang" => ~pooled[s],
           phase[s] # "entering", UNCHANGED <<listed, conns, pooled>>,
           \/ UNCHANGED phase
           \/ phase' = [phase EXCEPT ![x] = "closing"] /\ x \in Sessions /\ phase[x] = "open"
    PROVE  Where'
<1>1. call'[x] = c /\ \A y \in Actors \ {x} : call'[y] = call[y]
  BY CallReplaced DEF Begins
<1>2. \A r \in Sessions : \/ phase'[r] = phase[r]
                          \/ r = x /\ phase[r] = "open" /\ phase'[r] = "closing"
  BY DEF TypeOK
<1>3. /\ c.at \notin {"conn", "own", "unconn", "unkey", "unpool"}
      /\ call[x].at = "idle"
  BY DEF Busy, Setting
<1>4. c.at = "hang" => s \notin listed
  BY DEF Where
<1>5. listed \subseteq Sessions /\ conns \subseteq Sessions
  BY DEF TypeOK
<1> QED BY <1>1, <1>2, <1>3, <1>4, <1>5 DEF Where

\* The end of a call that has come through with what it removes.
LEMMA EndsWhere ==
    ASSUME TypeOK, Where, NEW x \in Actors,
           call[x].at \notin {"unconn", "unkey", "unpool"},
           call' = [call EXCEPT ![x] = Idle], UNCHANGED <<listed, conns, pooled>>,
           \/ UNCHANGED phase
           \/ x \in Sessions /\ x \notin listed /\ phase' = [phase EXCEPT ![x] = "ended"]
    PROVE  Where'
<1>1. call'[x] = Idle /\ \A y \in Actors \ {x} : call'[y] = call[y]
  BY CallReplaced DEF Calls
<1>2. /\ \A s \in Sessions : phase'[s] = phase[s] \/ s \notin listed
      /\ listed \subseteq Sessions /\ conns \subseteq Sessions
  BY DEF TypeOK
<1>3. Idle.at \notin {"conn", "own", "unconn", "unkey", "unpool", "hang"}
  BY DEF Idle
<1> HIDE DEF Idle
<1> QED BY <1>1, <1>2, <1>3 DEF Where

LEMMA InsideWhere ==
    ASSUME TypeOK, Who, Where, NEW x \in Actors, Inside(x)
    PROVE  Where'
<1>0. \A at \in Entering \cup Setting \cup Removing : at \in Points
  BY DEF Points
<1>k. \A y \in Actors : Busy(y) => call[y].on \in Sessions
  BY BusyOnSession
<1>t. listed \subseteq Sessions /\ conns \subseteq Sessions
  BY DEF TypeOK
<1>u. Idle.at \notin {"conn", "own", "unconn", "unkey", "unpool", "hang"}
  BY DEF Idle
<1>1. CASE PutSession(x)
  <2>1. Busy(x) /\ call[x].at = "list" /\ call[x].on = x /\ x \in Sessions
        /\ phase[x] = "entering"
    <3>1. Busy(x) /\ call[x].at = "list" /\ "list" \in Entering
      BY <1>1 DEF PutSession, At, Busy, Entering
    <3> QED BY <3>1 DEF Who
  <2>2. /\ call'[x].at = "conn" /\ call'[x].on = x
        /\ \A y \in Actors \ {x} : call'[y] = call[y]
    BY <1>0, <1>1, <2>1, MovesOn DEF PutSession, Entering
  <2>3. listed' = listed \cup {x} /\ UNCHANGED <<phase, conns, pooled>>
    BY <1>1, <2>1 DEF PutSession
  <2>4. \A y \in Actors \ {x} : Busy(y) => call[y].on # x
    BY <2>1 DEF Who
  <2>5. \A y \in Actors : call[y].at \in {"unconn", "unkey", "unpool", "hang"} => Busy(y)
    BY DEF Busy
  <2> QED BY <1>k, <1>t, <2>1, <2>2, <2>3, <2>4, <2>5 DEF Where
<1>2. CASE PutConn(x)
  <2>1. Busy(x) /\ call[x].at = "conn"
    BY <1>2 DEF PutConn, At, Busy
  <2>2. /\ call'[x].at = "own" /\ call'[x].on = call[x].on
        /\ \A y \in Actors \ {x} : call'[y] = call[y]
    BY <1>0, <1>2, <2>1, MovesOn DEF PutConn, Entering
  <2>3. conns' = conns \cup {call[x].on} /\ UNCHANGED <<phase, listed, pooled>>
    BY <1>2 DEF PutConn
  <2> QED BY <1>k, <1>t, <2>1, <2>2, <2>3 DEF Where
<1>3. CASE PutEnds(x)
  <2>1. Busy(x) /\ call[x].at = "own" /\ call[x].on = x /\ x \in Sessions
    <3>1. Busy(x) /\ call[x].at = "own" /\ "own" \in Entering
      BY <1>3 DEF PutEnds, At, Busy, Entering
    <3> QED BY <3>1 DEF Who
  <2>2. /\ phase' = [phase EXCEPT ![x] = "open"] /\ call' = [call EXCEPT ![x] = Idle]
        /\ pooled' = [pooled EXCEPT ![x] = TRUE] /\ UNCHANGED <<listed, conns>>
    BY <1>3, <2>1 DEF PutEnds, mapVars
  <2>3. call'[x] = Idle /\ \A y \in Actors \ {x} : call'[y] = call[y]
    BY <2>2, CallReplaced DEF Calls
  <2>4. /\ phase'[x] = "open" /\ \A s \in Sessions \ {x} : phase'[s] = phase[s]
        /\ pooled'[x] /\ \A s \in Sessions \ {x} : pooled'[s] = pooled[s]
    BY <2>1, <2>2 DEF TypeOK
  <2> HIDE DEF Idle
  <2> QED BY <1>k, <1>t, <1>u, <2>1, <2>2, <2>3, <2>4 DEF Where
<1>4. CASE LockForKey(x)
  BY <1>0, <1>4, MovesWhere DEF LockForKey, Setting, mapVars
<1>5. CASE DropOldKey(x)
  BY <1>0, <1>5, MovesWhere DEF DropOldKey, Setting
<1>6. CASE UnlockForKey(x)
  BY <1>0, <1>6, MovesWhere DEF UnlockForKey, Setting, mapVars
<1>7. CASE PutNewKey(x)
  BY <1>0, <1>7, MovesWhere DEF PutNewKey, Setting
<1>8. CASE AssignKey(x)
  <2>1. call[x].at \notin {"unconn", "unkey", "unpool"} /\ call[x].at \notin Removing
    BY <1>8 DEF AssignKey, At, Removing
  <2>2. x \in Sessions => phase[x] # "closing"
    BY <2>1 DEF Who
  <2> QED BY <1>8, <2>1, <2>2, EndsWhere DEF AssignKey, Returns, mapVars
<1>9. CASE PoolHasGone(x)
  <2>1. /\ call[x].at \in {"drop", "delete", "unlock", "put", "look"} /\ ~pooled[call[x].on]
        /\ call' = [call EXCEPT ![x] = Idle] /\ UNCHANGED <<listed, conns, pooled>>
    BY <1>9 DEF PoolHasGone, Panics, mapVars
  <2>2. CASE x = Admin
    BY <1>9, <2>1, <2>2, EndsWhere DEF PoolHasGone, Panics
  <2>3. CASE x \in Sessions
    <3>1. Busy(x) /\ call[x].at \notin Entering
      BY <2>1 DEF Busy, Entering
    <3>2. x \notin listed
      BY <2>1, <2>3, <3>1 DEF Who, Where
    <3>3. phase' = [phase EXCEPT ![x] = "ended"]
      BY <1>9, <2>3, NamesAssumption DEF PoolHasGone, Panics
    <3> QED BY <2>1, <2>3, <3>2, <3>3, EndsWhere
  <2> QED BY <2>2, <2>3 DEF Actors
<1>10. CASE Look(x)
  BY <1>0, <1>10, MovesWhere DEF Look, Removing, mapVars
<1>11. CASE RemoveSession(x)
  <2>1. Busy(x) /\ call[x].at = "unlist"
    BY <1>11 DEF RemoveSession, At, Busy
  <2>2. /\ call'[x].at = "unconn" /\ call'[x].on = call[x].on
        /\ \A y \in Actors \ {x} : call'[y] = call[y]
    BY <1>0, <1>11, <2>1, MovesOn DEF RemoveSession, Removing
  <2>3. listed' = listed \ {call[x].on} /\ UNCHANGED <<phase, conns, pooled>>
    BY <1>11 DEF RemoveSession
  <2>4. \A y \in Actors \ {x} : call[y].at \in {"conn", "own"} => call[y].on # call[x].on
    <3>1. ASSUME NEW y \in Actors \ {x}, call[y].at \in {"conn", "own"}
          PROVE  call[y].on # call[x].on
      <4>1. call[y].at \in Entering /\ Busy(y) /\ y \in Actors
        BY <3>1 DEF Entering, Busy
      <4>2. phase[call[y].on] = "entering"
        BY <4>1 DEF Who
      <4>3. call[y].on = y
        BY <4>1 DEF Who
      <4> QED BY <2>1, <3>1, <4>2, <4>3 DEF Who
    <3> QED BY <3>1
  <2> QED BY <1>k, <1>t, <2>1, <2>2, <2>3, <2>4 DEF Where
<1>12. CASE RemoveConn(x)
  <2>1. Busy(x) /\ call[x].at = "unconn"
    BY <1>12 DEF RemoveConn, At, Busy
  <2>2. /\ call'[x].at = "unkey" /\ call'[x].on = call[x].on
        /\ \A y \in Actors \ {x} : call'[y] = call[y]
    BY <1>0, <1>12, <2>1, MovesOn DEF RemoveConn, Removing
  <2>3. conns' = conns \ {call[x].on} /\ UNCHANGED <<phase, listed, pooled>>
    BY <1>12 DEF RemoveConn
  <2> QED BY <1>k, <1>t, <2>1, <2>2, <2>3 DEF Where
<1>13. CASE RemoveKey(x)
  <2>1. call[x].on \notin listed
    BY <1>13 DEF RemoveKey, At, Where
  <2> QED BY <1>0, <1>13, <2>1, MovesWhere DEF RemoveKey, Removing
<1>14. CASE RemoveEnds(x)
  <2> DEFINE s == call[x].on
  <2>1. Busy(x) /\ call[x].at = "unpool" /\ s \in Sessions /\ s \notin listed
    <3>1. Busy(x) /\ call[x].at = "unpool"
      BY <1>14 DEF RemoveEnds, At, Busy
    <3> QED BY <1>k, <3>1 DEF Where
  <2>2. UNCHANGED <<listed, conns>> /\ pooled' = [pooled EXCEPT ![s] = FALSE]
    BY <1>14 DEF RemoveEnds, mapVars
  <2>3. ~pooled'[s] /\ \A r \in Sessions \ {s} : pooled'[r] = pooled[r]
    BY <2>1, <2>2 DEF TypeOK
  <2>4. CASE call[x].op = "close"
    <3>1. /\ call'[x].at = "hang" /\ call'[x].on = s
          /\ \A y \in Actors \ {x} : call'[y] = call[y]
      BY <1>0, <1>14, <2>1, <2>4, MovesOn DEF RemoveEnds, Removing
    <3>2. UNCHANGED phase
      BY <1>14, <2>4 DEF RemoveEnds
    <3>3. call[x].on = s
      OBVIOUS
    <3> HIDE DEF s
    <3> QED BY <1>t, <2>1, <2>2, <2>3, <3>1, <3>2, <3>3 DEF Where
  <2>5. CASE call[x].op # "close"
    <3>1. call'[x] = Idle /\ \A y \in Actors \ {x} : call'[y] = call[y]
      BY <1>14, <2>5, CallReplaced DEF RemoveEnds, Returns, Calls
    <3>2. \A r \in Sessions : phase'[r] = phase[r] \/ r = x
      BY <1>14, <2>5 DEF RemoveEnds, Returns, TypeOK
    <3>3. x \in Sessions => s = x
      BY <2>1 DEF Who
    <3>4. call[x].on = s
      OBVIOUS
    <3> HIDE DEF s, Idle
    <3> QED BY <1>t, <1>u, <2>1, <2>2, <2>3, <3>1, <3>2, <3>3, <3>4 DEF Where
  <2> QED BY <2>4, <2>5
<1>15. CASE HangUp(x)
  <2>1. Busy(x) /\ call[x].at = "hang" /\ call[x].on \notin listed
    BY <1>15 DEF HangUp, At, Busy, Where
  <2>2. x \in Sessions => x \notin listed
    BY <2>1 DEF Who
  <2>3. Returns(x) /\ UNCHANGED <<listed, conns, pooled>>
    BY <1>15 DEF HangUp, mapVars
  <2> QED BY <2>1, <2>2, <2>3, EndsWhere DEF Returns
<1>16. CASE HangUpPanics(x)
  <2>1. Busy(x) /\ call[x].at = "hang" /\ call[x].on \notin listed
    BY <1>16 DEF HangUpPanics, At, Busy, Where
  <2>2. x \in Sessions => x \notin listed
    BY <2>1 DEF Who
  <2>3. Panics(x) /\ UNCHANGED <<listed, conns, pooled>>
    BY <1>16 DEF HangUpPanics, mapVars
  <2> QED BY <2>1, <2>2, <2>3, NamesAssumption, EndsWhere DEF Panics, Actors
<1> QED BY <1>1, <1>2, <1>3, <1>4, <1>5, <1>6, <1>7, <1>8, <1>9, <1>10, <1>11, <1>12, <1>13,
           <1>14, <1>15, <1>16, Inside(x) DEF Inside

LEMMA CallsWhere ==
    ASSUME TypeOK, Where, NEW x \in Actors, NEW s \in Sessions, Who,
           Close(x, s) \/ \E k \in Keys : SetKey(x, s, k)
    PROVE  Where'
<1>1. CASE Close(x, s)
  <2> DEFINE c == [on |-> s, key |-> Empty, op |-> "close",
                   at |-> IF pooled[s] THEN "look" ELSE "hang"]
  <2>1. /\ c \in Calls /\ c.on = s /\ c.at \in Setting \cup {"look", "unlist", "hang"}
        /\ c.at = "hang" => ~pooled[s]
    BY NamesAssumption DEF Calls, Removing
  <2>2. /\ Begins(x, s, c) /\ ~Busy(x) /\ UNCHANGED <<phase, listed, conns, pooled>>
        /\ phase[s] # "entering"
    BY <1>1 DEF Close, CloseSteps, MayCall, Knows, mapVars
  <2> HIDE DEF c
  <2> QED BY <2>1, <2>2, BeginsWhere
<1>2. ASSUME NEW k \in Keys, SetKey(x, s, k)
      PROVE  Where'
  <2> DEFINE c == [on |-> s, key |-> k, op |-> "set",
                   at |-> IF ~pooled[s] THEN "assign"
                          ELSE IF key[s] # Empty THEN "drop" ELSE "put"]
  <2>1. /\ c \in Calls /\ c.on = s /\ c.at \in Setting \cup {"look", "unlist", "hang"}
        /\ c.at # "hang"
    BY DEF Calls, Setting
  <2>2. /\ Begins(x, s, c) /\ ~Busy(x) /\ UNCHANGED <<phase, listed, conns, pooled>>
        /\ phase[s] # "entering"
    BY <1>2 DEF SetKey, MayCall, Knows, mapVars
  <2> HIDE DEF c
  <2> QED BY <2>1, <2>2, BeginsWhere
<1> QED BY <1>1, <1>2

LEMMA SessionWhere ==
    ASSUME TypeOK, Who, Where, NEW s \in Sessions,
           Put(s) \/ Leave(s) \/ PeerGoes(s) \/ RemoveByID(s)
    PROVE  Where'
<1>0. s \in Actors /\ Admin \in Actors
  BY DEF Actors
<1>1. CASE Put(s)
  <2> DEFINE c == [at |-> "list", on |-> s, key |-> Empty, op |-> "put"]
  <2>1. c \in Calls /\ c.on = s /\ c.at = "list"
    BY NamesAssumption DEF Calls, Entering
  <2>2. /\ Begins(s, s, c) /\ phase[s] = "new" /\ phase' = [phase EXCEPT ![s] = "entering"]
        /\ UNCHANGED <<listed, conns, pooled>>
    BY <1>1 DEF Put, mapVars
  <2> HIDE DEF c
  <2>3. call'[s] = c /\ \A y \in Actors \ {s} : call'[y] = call[y]
    BY <1>0, <2>1, <2>2, CallReplaced DEF Begins
  <2>4. /\ phase'[s] = "entering" /\ \A r \in Sessions \ {s} : phase'[r] = phase[r]
        /\ listed \subseteq Sessions /\ conns \subseteq Sessions
    BY <2>2 DEF TypeOK
  <2>5. call[s].at \notin {"unconn", "unkey", "unpool"}
    <3>1. ~Busy(s)
      BY <1>0, <2>2 DEF Who
    <3> QED BY <3>1 DEF Busy
  <2> QED BY <1>0, <2>1, <2>2, <2>3, <2>4, <2>5 DEF Where
<1>2. CASE Leave(s)
  <2> DEFINE c == [on |-> s, key |-> Empty, op |-> "close",
                   at |-> IF pooled[s] THEN "look" ELSE "hang"]
  <2>1. /\ c \in Calls /\ c.on = s /\ c.at \in Setting \cup {"look", "unlist", "hang"}
        /\ c.at = "hang" => ~pooled[s]
    BY NamesAssumption DEF Calls, Removing
  <2>2. /\ Begins(s, s, c) /\ ~Busy(s) /\ phase' = [phase EXCEPT ![s] = "closing"]
        /\ phase[s] = "open" /\ UNCHANGED <<listed, conns, pooled>>
    BY <1>2 DEF Leave, CloseSteps, mapVars
  <2> HIDE DEF c
  <2> QED BY <1>0, <2>1, <2>2, BeginsWhere
<1>3. CASE PeerGoes(s)
  BY <1>3 DEF PeerGoes, Where, mapVars
<1>4. CASE RemoveByID(s)
  <2> DEFINE c == [at |-> "unlist", on |-> s, key |-> Empty, op |-> "remove"]
  <2>1. /\ c \in Calls /\ c.on = s /\ c.at \in Setting \cup {"look", "unlist", "hang"}
        /\ c.at # "hang"
    BY NamesAssumption DEF Calls, Removing
  <2>2. /\ Begins(Admin, s, c) /\ ~Busy(Admin) /\ UNCHANGED <<phase, listed, conns, pooled>>
        /\ phase[s] # "entering"
    BY <1>4 DEF RemoveByID, Knows, mapVars
  <2> HIDE DEF c
  <2> QED BY <1>0, <2>1, <2>2, BeginsWhere
<1> QED BY <1>1, <1>2, <1>3, <1>4

LEMMA PoolWhere ==
    ASSUME TypeOK, Known, Where,
           (\E k \in Keys : RemoveByKey(k)) \/ Purge \/ PurgeEnds \/ MapFault \/ GetFault
    PROVE  Where'
<1>1. ASSUME NEW k \in Keys, RemoveByKey(k)
      PROVE  Where'
  <2> DEFINE s == keys[k]
             c == [at |-> "unlist", on |-> s, key |-> k, op |-> "remove key"]
  <2>1. s \in Sessions /\ Admin \in Actors /\ phase[s] # "entering"
    BY <1>1 DEF RemoveByKey, TypeOK, Actors, Known
  <2>2. /\ c \in Calls /\ c.on = s /\ c.at \in Setting \cup {"look", "unlist", "hang"}
        /\ c.at # "hang"
    BY <2>1 DEF Calls, Removing
  <2>3. Begins(Admin, s, c) /\ ~Busy(Admin) /\ UNCHANGED <<phase, listed, conns, pooled>>
    BY <1>1 DEF RemoveByKey, mapVars
  <2> HIDE DEF c, s
  <2> QED BY <2>1, <2>2, <2>3, BeginsWhere
<1>2. CASE Purge \/ PurgeEnds \/ MapFault \/ GetFault
  BY <1>2 DEF Purge, PurgeEnds, MapFault, GetFault, Where, mapVars
<1> QED BY <1>1, <1>2

LEMMA WhereAlways == Spec => []Where
<1>1. Where /\ UNCHANGED vars => Where'
  BY DEF Where, vars, mapVars
<1>2. TypeOK /\ Who /\ Known /\ Where /\ [Next]_vars => Where'
  BY <1>1, InsideWhere, CallsWhere, SessionWhere, PoolWhere DEF Next
<1> QED BY <1>2, InitWhere, TypeCorrect, WhoAlways, PTL DEF Spec

\* A session whose operator has ended is in no map of the pool by its identifier or, but
\* for the moment before somebody takes it out, by its connection: for any number of
\* sessions and calls, also if the removal of one goroutine finds that of another half
\* done and its operator ends before that, or if the operator has panicked.
THEOREM EndedAreUnlisted == Spec => []EndedIsUnlisted
<1>1. Where => EndedIsUnlisted
  <2> SUFFICES ASSUME Where, NEW s \in Sessions, phase[s] = "ended"
               PROVE  /\ s \notin listed
                      /\ s \in conns => \E x \in Actors : call[x].on = s /\ call[x].at = "unconn"
    BY DEF EndedIsUnlisted
  <2>1. s \notin listed
    BY DEF Where
  <2> QED BY <2>1 DEF Where
<1> QED BY <1>1, WhereAlways, PTL

-----------------------------------------------------------------------------
(* What kills the process.                                                  *)

\* As long as nobody crossed anybody's way, one goroutine at most is inside a call, none
\* but Admin while Admin has the lock; it closes no session that has ended, and finds the
\* pool that it is going to look at.
Alone ==
    /\ \A x, y \in Actors : Busy(x) /\ Busy(y) => x = y
    /\ \A x \in Actors : Busy(x) /\ lock = Admin => x = Admin
    /\ \A x \in Actors : Busy(x) /\ call[x].op = "close" => phase[call[x].on] # "ended"
    /\ \A x \in Actors :
          call[x].at \in {"drop", "delete", "unlock", "put", "look"} => pooled[call[x].on]
    /\ \A x \in Actors : call[x].at \in {"look", "hang"} => call[x].op = "close"
    /\ ~dead

Careful == ~crossed => Alone

LEMMA InitCareful == Init => Careful
BY DEF Init, Careful, Alone, Busy, Idle

LEMMA MovesAlone ==
    ASSUME TypeOK, Alone, NEW x \in Actors, NEW at \in Points, NEW to \in Points,
           At(x, at), Moves(x, to), UNCHANGED <<phase, pooled, dead>>,
           lock' = Admin => lock = Admin,
           to \in {"drop", "delete", "unlock", "put", "look"} =>
               at \in {"drop", "delete", "unlock", "put", "look"},
           to \in {"look", "hang"} => call[x].op = "close"
    PROVE  Alone'
<1>1. Busy(x) /\ call[x].at = at
  BY AtBusy DEF At
<1>2. /\ call'[x].at = to /\ call'[x].on = call[x].on /\ call'[x].op = call[x].op
      /\ \A y \in Actors \ {x} : call'[y] = call[y]
  BY <1>1, MovesOn
<1>3. \A y \in Actors : Busy(y)' => Busy(y)
  BY <1>1, <1>2 DEF Busy
<1> QED BY <1>1, <1>2, <1>3 DEF Alone

\* When the only call ends, nobody is in the pool.
LEMMA EndsAlone ==
    ASSUME TypeOK, Alone, NEW x \in Actors, Busy(x), call' = [call EXCEPT ![x] = Idle], ~dead'
    PROVE  Alone'
<1>1. call'[x] = Idle /\ \A y \in Actors \ {x} : call'[y] = call[y]
  BY CallReplaced DEF Calls
<1>2. \A y \in Actors : ~Busy(y)'
  BY <1>1 DEF Alone, Busy, Idle
<1>3. \A y \in Actors : call'[y].at = "idle"
  BY <1>2 DEF Busy
<1> QED BY <1>2, <1>3 DEF Alone

LEMMA InsideCareful ==
    ASSUME TypeOK, Careful, NEW x \in Actors, Inside(x)
    PROVE  Careful'
<1> SUFFICES ASSUME ~crossed' PROVE Alone'
  BY DEF Careful
<1>a. Alone
  BY DEF Careful, Inside, PutSession, PutConn, PutEnds, LockForKey, DropOldKey, UnlockForKey,
     PutNewKey, AssignKey, Look, RemoveSession, RemoveConn, RemoveKey, RemoveEnds, HangUp,
     HangUpPanics, PoolHasGone, histVars
<1>0. \A at \in Entering \cup Setting \cup Removing : at \in Points
  BY DEF Points
<1>k. ~dead /\ Admin \notin Sessions /\ Nobody # Admin
  BY <1>a, NamesAssumption DEF Alone
<1>1. CASE PutSession(x)
  BY <1>0, <1>a, <1>1, MovesAlone DEF PutSession, Entering
<1>2. CASE PutConn(x)
  BY <1>0, <1>a, <1>2, MovesAlone DEF PutConn, Entering
<1>3. CASE PutEnds(x)
  BY <1>a, <1>k, <1>3, EndsAlone DEF PutEnds, At, Busy
<1>4. CASE LockForKey(x)
  <2>1. lock' = Admin => x = Admin
    BY <1>4 DEF LockForKey
  <2>2. Busy(x) /\ call[x].at = "drop" /\ pooled[call[x].on]
    BY <1>a, <1>4 DEF LockForKey, At, Busy, Alone
  <2>3. /\ call'[x].at = "delete" /\ call'[x].on = call[x].on /\ call'[x].op = call[x].op
        /\ \A y \in Actors \ {x} : call'[y] = call[y]
    BY <1>0, <1>4, <2>2, MovesOn DEF LockForKey, Setting
  <2>4. \A y \in Actors : Busy(y)' => y = x
    BY <1>a, <2>2, <2>3 DEF Busy, Alone
  <2>5. UNCHANGED <<phase, pooled, dead>>
    BY <1>4 DEF LockForKey
  <2> QED BY <1>a, <2>1, <2>2, <2>3, <2>4, <2>5 DEF Alone
<1>5. CASE DropOldKey(x)
  BY <1>0, <1>a, <1>5, MovesAlone DEF DropOldKey, Setting
<1>6. CASE UnlockForKey(x)
  BY <1>0, <1>a, <1>k, <1>6, MovesAlone DEF UnlockForKey, Setting
<1>7. CASE PutNewKey(x)
  BY <1>0, <1>a, <1>7, MovesAlone DEF PutNewKey, Setting
<1>8. CASE AssignKey(x)
  BY <1>a, <1>k, <1>8, EndsAlone DEF AssignKey, Returns, At, Busy
<1>9. CASE PoolHasGone(x)
  BY <1>a, <1>9 DEF PoolHasGone, Alone
<1>10. CASE Look(x)
  <2>1. ASSUME NEW to \in {"unlist", "hang"}, Moves(x, to)
        PROVE  Alone'
    <3>1. call[x].at = "look" /\ UNCHANGED <<phase, pooled, dead, lock>>
      BY <1>10 DEF Look, At
    <3>2. /\ call'[x].at = to /\ call'[x].on = call[x].on /\ call'[x].op = call[x].op
          /\ \A y \in Actors \ {x} : call'[y] = call[y]
      BY <1>0, <2>1, <3>1, MovesOn DEF Busy, Removing
    <3>3. \A y \in Actors : Busy(y)' => Busy(y)
      BY <3>1, <3>2 DEF Busy
    <3>4. call[x].op = "close"
      BY <1>a, <3>1 DEF Alone
    <3> QED BY <1>a, <2>1, <3>1, <3>2, <3>3, <3>4 DEF Alone
  <2> QED BY <1>10, <2>1 DEF Look
<1>11. CASE RemoveSession(x)
  BY <1>0, <1>a, <1>11, MovesAlone DEF RemoveSession, Removing
<1>12. CASE RemoveConn(x)
  BY <1>0, <1>a, <1>12, MovesAlone DEF RemoveConn, Removing
<1>13. CASE RemoveKey(x)
  BY <1>0, <1>a, <1>13, MovesAlone DEF RemoveKey, Removing
<1>14. CASE RemoveEnds(x)
  <2>1. Busy(x) /\ call[x].at = "unpool" /\ UNCHANGED <<dead, lock>>
    BY <1>14 DEF RemoveEnds, At, Busy
  <2>2. CASE call[x].op = "close"
    <3>1. /\ call'[x].at = "hang" /\ call'[x].on = call[x].on /\ call'[x].op = call[x].op
          /\ \A y \in Actors \ {x} : call'[y] = call[y]
      BY <1>0, <1>14, <2>1, <2>2, MovesOn DEF RemoveEnds, Removing
    <3>2. UNCHANGED phase /\ \A y \in Actors : Busy(y)' => y = x
      BY <1>14, <1>a, <2>1, <2>2, <3>1 DEF RemoveEnds, Alone, Busy
    <3>3. \A y \in Actors : call'[y].at \in {"drop", "delete", "unlock", "put", "look"}
             => Busy(y)'
      BY DEF Busy
    <3>4. \A y \in Actors : call'[y].at \in {"look", "hang"} => Busy(y)'
      BY DEF Busy
    <3> QED BY <1>a, <2>1, <2>2, <3>1, <3>2, <3>3, <3>4 DEF Alone
  <2>3. CASE call[x].op # "close"
    BY <1>14, <1>a, <1>k, <2>1, <2>3, EndsAlone DEF RemoveEnds, Returns
  <2> QED BY <2>2, <2>3
<1>15. CASE HangUp(x)
  BY <1>a, <1>k, <1>15, EndsAlone DEF HangUp, Returns, At, Busy
<1>16. CASE HangUpPanics(x)
  BY <1>a, <1>16 DEF HangUpPanics, At, Busy, Alone
<1> QED BY <1>1, <1>2, <1>3, <1>4, <1>5, <1>6, <1>7, <1>8, <1>9, <1>10, <1>11, <1>12, <1>13,
           <1>14, <1>15, <1>16, Inside(x) DEF Inside

\* A goroutine that begins a call while nobody else is in the pool.
LEMMA BeginsCareful ==
    ASSUME TypeOK, Careful, NEW x \in Actors, ~Busy(x), NEW s \in Sessions, NEW c \in Calls,
           Begins(x, s, c), c.on = s, UNCHANGED <<pooled, dead>>,
           lock' = Admin => lock = Admin,
           c.at \in {"drop", "delete", "unlock", "put", "look"} => pooled[s],
           c.at \in {"look", "hang"} => c.op = "close",
           c.op = "close" => phase'[s] = phase[s] \/ phase'[s] = "closing"
    PROVE  Careful'
<1> SUFFICES ASSUME ~crossed' PROVE Alone'
  BY DEF Careful
<1>1. ~crossed /\ ~OthersIn(x) /\ (c.op = "close" => phase[s] # "ended")
  BY DEF Begins
<1>2. Alone
  BY <1>1 DEF Careful
<1>3. call'[x] = c /\ \A y \in Actors \ {x} : call'[y] = call[y]
  BY CallReplaced DEF Begins
<1>4. \A y \in Actors \ {x} : ~Busy(y)
  BY <1>1 DEF OthersIn
<1>5. \A y \in Actors : Busy(y)' => y = x
  BY <1>3, <1>4 DEF Busy
<1>6. lock' = Admin => x = Admin
  BY <1>1 DEF OthersIn, Actors
<1>7. c.op = "close" => phase'[s] # "ended"
  BY <1>1
<1>8. \A y \in Actors :
         call'[y].at \in {"drop", "delete", "unlock", "put", "look", "hang"} => Busy(y)'
  BY DEF Busy
<1> QED BY <1>2, <1>3, <1>5, <1>6, <1>7, <1>8 DEF Alone

LEMMA CallsCareful ==
    ASSUME TypeOK, Careful, NEW x \in Actors, NEW s \in Sessions,
           Close(x, s) \/ \E k \in Keys : SetKey(x, s, k)
    PROVE  Careful'
<1>1. CASE Close(x, s)
  <2> DEFINE c == [on |-> s, key |-> Empty, op |-> "close",
                   at |-> IF pooled[s] THEN "look" ELSE "hang"]
  <2>1. /\ c \in Calls /\ c.on = s /\ c.op = "close"
        /\ c.at \in {"drop", "delete", "unlock", "put", "look"} => pooled[s]
    BY NamesAssumption DEF Calls, Removing
  <2>2. Begins(x, s, c) /\ ~Busy(x) /\ UNCHANGED <<phase, pooled, dead, lock>>
    BY <1>1 DEF Close, CloseSteps
  <2> HIDE DEF c
  <2> QED BY <2>1, <2>2, BeginsCareful
<1>2. ASSUME NEW k \in Keys, SetKey(x, s, k)
      PROVE  Careful'
  <2> DEFINE c == [on |-> s, key |-> k, op |-> "set",
                   at |-> IF ~pooled[s] THEN "assign"
                          ELSE IF key[s] # Empty THEN "drop" ELSE "put"]
  <2>1. /\ c \in Calls /\ c.on = s /\ c.at \notin {"look", "hang"}
        /\ c.at \in {"drop", "delete", "unlock", "put", "look"} => pooled[s]
        /\ c.op = "set"
    BY DEF Calls, Setting
  <2>2. Begins(x, s, c) /\ ~Busy(x) /\ UNCHANGED <<phase, pooled, dead, lock>>
    BY <1>2 DEF SetKey
  <2> HIDE DEF c
  <2> QED BY <2>1, <2>2, BeginsCareful
<1> QED BY <1>1, <1>2

LEMMA SessionCareful ==
    ASSUME TypeOK, Who, Careful, NEW s \in Sessions,
           Put(s) \/ Leave(s) \/ PeerGoes(s) \/ RemoveByID(s)
    PROVE  Careful'
<1>0. s \in Actors /\ Admin \in Actors /\ s # Admin
  BY NamesAssumption DEF Actors
<1>1. CASE Put(s)
  <2> DEFINE c == [at |-> "list", on |-> s, key |-> Empty, op |-> "put"]
  <2>1. c \in Calls /\ c.on = s /\ c.at = "list" /\ c.op = "put"
    BY NamesAssumption DEF Calls, Entering
  <2>2. Begins(s, s, c) /\ phase[s] = "new" /\ lock' # Admin /\ UNCHANGED <<pooled, dead>>
    BY <1>0, <1>1 DEF Put
  <2>3. ~Busy(s)
    BY <1>0, <2>2 DEF Who
  <2> HIDE DEF c
  <2> QED BY <1>0, <2>1, <2>2, <2>3, BeginsCareful
<1>2. CASE Leave(s)
  <2> DEFINE c == [on |-> s, key |-> Empty, op |-> "close",
                   at |-> IF pooled[s] THEN "look" ELSE "hang"]
  <2>1. /\ c \in Calls /\ c.on = s /\ c.op = "close"
        /\ c.at \in {"drop", "delete", "unlock", "put", "look"} => pooled[s]
    BY NamesAssumption DEF Calls, Removing
  <2>2. /\ Begins(s, s, c) /\ ~Busy(s) /\ UNCHANGED <<pooled, dead, lock>>
        /\ phase'[s] = "closing"
    BY <1>2 DEF Leave, CloseSteps, TypeOK
  <2> HIDE DEF c
  <2> QED BY <1>0, <2>1, <2>2, BeginsCareful
<1>3. CASE PeerGoes(s)
  BY <1>3 DEF PeerGoes, Careful, Alone, Busy, histVars
<1>4. CASE RemoveByID(s)
  <2> DEFINE c == [at |-> "unlist", on |-> s, key |-> Empty, op |-> "remove"]
  <2>1. c \in Calls /\ c.on = s /\ c.at = "unlist" /\ c.op = "remove"
    BY NamesAssumption DEF Calls, Removing
  <2>2. Begins(Admin, s, c) /\ ~Busy(Admin) /\ UNCHANGED <<phase, pooled, dead, lock>>
    BY <1>4 DEF RemoveByID
  <2> HIDE DEF c
  <2> QED BY <1>0, <2>1, <2>2, BeginsCareful
<1> QED BY <1>1, <1>2, <1>3, <1>4

LEMMA PoolCareful ==
    ASSUME TypeOK, Careful,
           (\E k \in Keys : RemoveByKey(k)) \/ Purge \/ PurgeEnds \/ MapFault \/ GetFault
    PROVE  Careful'
<1>1. ASSUME NEW k \in Keys, RemoveByKey(k)
      PROVE  Careful'
  <2> DEFINE s == keys[k]
             c == [at |-> "unlist", on |-> s, key |-> k, op |-> "remove key"]
  <2>1. s \in Sessions /\ Admin \in Actors
    BY <1>1 DEF RemoveByKey, TypeOK, Actors
  <2>2. c \in Calls /\ c.on = s /\ c.at = "unlist" /\ c.op = "remove key"
    BY <2>1 DEF Calls, Removing
  <2>3. Begins(Admin, s, c) /\ ~Busy(Admin) /\ UNCHANGED <<phase, pooled, dead, lock>>
    BY <1>1 DEF RemoveByKey
  <2> HIDE DEF c, s
  <2> QED BY <2>1, <2>2, <2>3, BeginsCareful
<1>2. CASE Purge
  <2> SUFFICES ASSUME ~crossed' PROVE Alone'
    BY DEF Careful
  <2>1. /\ ~crossed /\ ~Busy(Admin) /\ ~OthersIn(Admin)
        /\ UNCHANGED <<phase, pooled, call, dead>>
    BY <1>2 DEF Purge
  <2>2. Alone /\ \A x \in Actors : ~Busy(x)
    BY <2>1 DEF Careful, OthersIn
  <2>3. \A x \in Actors : ~Busy(x)'
    BY <2>1, <2>2 DEF Busy
  <2> QED BY <2>1, <2>2, <2>3 DEF Alone
<1>3. CASE PurgeEnds
  BY <1>3, NamesAssumption DEF PurgeEnds, Careful, Alone, Busy, histVars
<1>4. CASE MapFault
  <2>1. PICK x, y \in Actors :
           x # y /\ Changes(x) \cap (Changes(y) \cup Reads(y)) # {}
    BY <1>4 DEF MapFault
  <2>2. \A z \in Actors : Changes(z) # {} => Busy(z)
    BY DEF Changes, Busy
  <2>3. Reads(y) # {} => Busy(y) \/ (y = Admin /\ lock = Admin)
    BY DEF Reads, Busy
  <2>4. Busy(x) /\ (Busy(y) \/ (y = Admin /\ lock = Admin))
    BY <2>1, <2>2, <2>3
  <2>5. ~Alone /\ UNCHANGED crossed
    BY <1>4, <2>1, <2>4 DEF Alone, MapFault, histVars
  <2> QED BY <2>5 DEF Careful
<1>5. CASE GetFault
  BY <1>5 DEF GetFault, Careful
<1> QED BY <1>1, <1>2, <1>3, <1>4, <1>5

\* The process dies only of crossing ways: a goroutine that is alone in the pool, and
\* closes no session that has ended, never meets a nil pool, a connection that has been
\* given back, or a map that another one is changing.
THEOREM DiesOfCrossing == Spec => []DiesOnlyOfCrossing
<1>1. Careful /\ UNCHANGED vars => Careful'
  BY DEF Careful, Alone, Busy, vars, histVars
<1>2. TypeOK /\ Who /\ Careful /\ [Next]_vars => Careful'
  BY <1>1, InsideCareful, CallsCareful, SessionCareful, PoolCareful DEF Next
<1>3. Careful => DiesOnlyOfCrossing
  BY DEF Careful, Alone, DiesOnlyOfCrossing
<1> QED BY <1>2, <1>3, InitCareful, TypeCorrect, WhoAlways, PTL DEF Spec

\* Both together: the end of a session, however it comes about and whatever goes on at the
\* same time, takes it out of the pool, and takes the process down only if somebody else
\* was in the pool meanwhile or a session was closed after its end (EndsWell).
THEOREM EndsAreGood == Spec => []EndsWell
<1>1. EndedIsUnlisted /\ DiesOnlyOfCrossing => EndsWell
  BY DEF EndsWell
<1> QED BY <1>1, EndedAreUnlisted, DiesOfCrossing, PTL

-----------------------------------------------------------------------------
(* Where the keys lead.                                                     *)

\* The histories: a key is in the map, on its way there, on its way out or in s.Key only
\* for a session that was given it, and a session that has not got in has none.
Given ==
    /\ \A s \in Sessions : key[s] # Empty => s \in had[key[s]]
    /\ \A k \in Keys : keys[k] # Nobody => keys[k] \in had[k]
    /\ \A x \in Actors :
          Busy(x) /\ (call[x].at \in Setting \/ call[x].op = "remove key")
          => call[x].on \in had[call[x].key]
    /\ \A s \in Sessions : phase[s] \in {"new", "entering"} => key[s] = Empty

\* One goroutine at most is inside a call of s, and finds the pool it is going to look at.
Single(s) ==
    /\ \A x, y \in Actors : call[x].on = s /\ call[y].on = s => x = y
    /\ \A x \in Actors :
          /\ call[x].on = s
          /\ call[x].at \in {"drop", "delete", "unlock", "put", "look"}
          => pooled[s]

\* A key that leads to s is that of s.Key or, between the last two steps of SetKey, the new
\* one; s is in the pool, or on its way out and its key about to follow.  Between the steps
\* before, and later in the removal, no key leads to it.
LeadsHere(s) ==
    \A k \in Keys : keys[k] = s =>
        /\ \/ s \in listed
           \/ \E x \in Actors : call[x].on = s /\ call[x].at \in {"unconn", "unkey"}
        /\ \A x \in Actors : call[x].on = s =>
              /\ call[x].at \notin {"unlock", "put", "unpool", "hang"}
              /\ call[x].at = "assign" \/ call[x].op = "remove key" => call[x].key = k
        /\ (\A x \in Actors : call[x].on = s => call[x].at # "assign") => key[s] = k

\* And the key that s alone was given leads to it, except between those steps.
Leads(s) ==
    s \in listed =>
        /\ /\ key[s] # Empty /\ had[key[s]] = {s}
           /\ \A x \in Actors : call[x].on = s => call[x].at \notin {"unlock", "put", "assign"}
           => keys[key[s]] = s
        /\ \A x \in Actors :
              /\ call[x].on = s /\ call[x].at = "assign"
              /\ call[x].key # Empty /\ had[call[x].key] = {s}
              => keys[call[x].key] = s

Led(s) ==
    s \notin raced => /\ Single(s)
                      /\ had[Empty] = {} => LeadsHere(s)
                      /\ Leads(s)

KeysInv == Given /\ \A s \in Sessions : Led(s)

LEMMA InitKeys == Init => KeysInv
<1> SUFFICES ASSUME Init PROVE KeysInv
  OBVIOUS
<1>1. /\ \A x \in Actors : ~Busy(x) /\ call[x].on \notin Sessions
      /\ \A k \in Keys : keys[k] = Nobody
      /\ \A s \in Sessions : key[s] = Empty /\ s \notin listed /\ s # Nobody
  BY NamesAssumption DEF Init, Busy, Idle
<1>2. Given
  BY <1>1 DEF Given
<1>3. \A s \in Sessions : Led(s)
  BY <1>1 DEF Led, Single, LeadsHere, Leads
<1> QED BY <1>2, <1>3 DEF KeysInv

\* What a step of a call does to the calls: the goroutine goes on, with the same session,
\* key and operation, or its call is over.
LEMMA InsideCall ==
    ASSUME TypeOK, NEW x \in Actors, Inside(x)
    PROVE  /\ Busy(x) /\ call[x].on \in Sessions /\ call[x].key \in Keys
           /\ \A y \in Actors \ {x} : call'[y] = call[y]
           /\ \/ call'[x] = Idle
              \/ /\ call'[x].on = call[x].on /\ call'[x].key = call[x].key
                 /\ call'[x].op = call[x].op /\ call'[x].at \in Points
                 /\ call'[x].at \in Setting => call[x].at \in Setting
           /\ UNCHANGED <<had, raced>>
<1>0. \A at \in Entering \cup Setting \cup Removing : at \in Points
  BY DEF Points
<1>1. ASSUME NEW to \in Points, Busy(x), Moves(x, to), to \in Setting => call[x].at \in Setting
      PROVE  /\ \A y \in Actors \ {x} : call'[y] = call[y]
             /\ call'[x].on = call[x].on /\ call'[x].key = call[x].key
             /\ call'[x].op = call[x].op /\ call'[x].at \in Points
             /\ call'[x].at \in Setting => call[x].at \in Setting
  BY <1>1, MovesOn
<1>2. ASSUME Busy(x), call' = [call EXCEPT ![x] = Idle]
      PROVE  call'[x] = Idle /\ \A y \in Actors \ {x} : call'[y] = call[y]
  BY <1>2, CallReplaced DEF Calls
<1>3. Busy(x) /\ UNCHANGED <<had, raced>>
  BY DEF Inside, PutSession, PutConn, PutEnds, LockForKey, DropOldKey, UnlockForKey,
     PutNewKey, AssignKey, Look, RemoveSession, RemoveConn, RemoveKey, RemoveEnds, HangUp,
     HangUpPanics, PoolHasGone, histVars, At, Busy
<1>4. call[x].on \in Sessions /\ call[x].key \in Keys
  BY <1>3, BusyOnSession
<1>5. \/ call' = [call EXCEPT ![x] = Idle]
      \/ \E to \in Points : Moves(x, to) /\ (to \in Setting => call[x].at \in Setting)
  <2>1. CASE PutSession(x) \/ PutConn(x) \/ PutEnds(x)
    BY <1>0, <2>1 DEF PutSession, PutConn, PutEnds, Entering, Setting
  <2>2. CASE LockForKey(x) \/ DropOldKey(x) \/ UnlockForKey(x) \/ PutNewKey(x)
    BY <1>0, <2>2 DEF LockForKey, DropOldKey, UnlockForKey, PutNewKey, At, Setting
  <2>3. CASE AssignKey(x) \/ PoolHasGone(x) \/ HangUp(x) \/ HangUpPanics(x)
    BY <2>3 DEF AssignKey, PoolHasGone, HangUp, HangUpPanics, Returns, Panics
  <2>4. CASE Look(x)
    BY <1>0, <2>4 DEF Look, Removing, Setting
  <2>5. CASE RemoveSession(x) \/ RemoveConn(x) \/ RemoveKey(x) \/ RemoveEnds(x)
    BY <1>0, <2>5 DEF RemoveSession, RemoveConn, RemoveKey, RemoveEnds, Returns, Removing,
       Setting
  <2> QED BY <2>1, <2>2, <2>3, <2>4, <2>5, Inside(x) DEF Inside
<1>6. CASE call' = [call EXCEPT ![x] = Idle]
  BY <1>2, <1>3, <1>4, <1>6
<1>7. ASSUME NEW to \in Points, Moves(x, to), to \in Setting => call[x].at \in Setting
      PROVE  /\ \A y \in Actors \ {x} : call'[y] = call[y]
             /\ call'[x].on = call[x].on /\ call'[x].key = call[x].key
             /\ call'[x].op = call[x].op /\ call'[x].at \in Points
             /\ call'[x].at \in Setting => call[x].at \in Setting
  BY <1>1, <1>3, <1>7
<1> QED BY <1>3, <1>4, <1>5, <1>6, <1>7

\* What it does to s.Key, p.keys and where the sessions are.
LEMMA InsideMaps ==
    ASSUME TypeOK, NEW x \in Actors, Inside(x)
    PROVE  /\ \A s \in Sessions \ {call[x].on} :
                 /\ key'[s] = key[s] /\ pooled'[s] = pooled[s]
                 /\ s \in listed' <=> s \in listed
           /\ \A k \in Keys :
                 \/ keys'[k] = keys[k]
                 \/ keys'[k] = Nobody /\ k = key[call[x].on]
                 \/ /\ keys'[k] = Nobody /\ k = call[x].key
                    /\ call[x].op = "remove key"
                 \/ /\ keys'[k] = call[x].on /\ k = call[x].key
                    /\ call[x].at \in Setting
<1>0. call[x].on \in Sessions /\ call[x].key \in Keys /\ key[call[x].on] \in Keys
  BY InsideCall DEF TypeOK
<1>1. CASE PutSession(x) \/ PutConn(x) \/ PutEnds(x)
  BY <1>0, <1>1 DEF PutSession, PutConn, PutEnds, mapVars, TypeOK
<1>2. CASE LockForKey(x) \/ UnlockForKey(x) \/ Look(x) \/ HangUp(x)
  BY <1>2 DEF LockForKey, UnlockForKey, Look, HangUp, mapVars
<1>3. CASE DropOldKey(x)
  BY <1>0, <1>3 DEF DropOldKey, TypeOK
<1>4. CASE PutNewKey(x)
  BY <1>0, <1>4 DEF PutNewKey, TypeOK, At, Setting
<1>5. CASE AssignKey(x)
  BY <1>0, <1>5 DEF AssignKey, mapVars, TypeOK
<1>6. CASE PoolHasGone(x) \/ HangUpPanics(x)
  BY <1>6 DEF PoolHasGone, HangUpPanics, mapVars
<1>7. CASE RemoveSession(x) \/ RemoveConn(x)
  BY <1>7 DEF RemoveSession, RemoveConn
<1>8. CASE RemoveKey(x)
  BY <1>0, <1>8 DEF RemoveKey, OldKeys, TypeOK
<1>9. CASE RemoveEnds(x)
  BY <1>0, <1>9 DEF RemoveEnds, mapVars, TypeOK
<1> QED BY <1>1, <1>2, <1>3, <1>4, <1>5, <1>6, <1>7, <1>8, <1>9, Inside(x) DEF Inside

\* Given after a step of a call.
LEMMA InsideGiven ==
    ASSUME TypeOK, Who, Given, NEW x \in Actors, Inside(x)
    PROVE  Given'
<1> DEFINE t == call[x].on
<1>0. /\ Busy(x) /\ t \in Sessions /\ call[x].key \in Keys
      /\ \A y \in Actors \ {x} : call'[y] = call[y]
      /\ \/ call'[x] = Idle
         \/ /\ call'[x].on = t /\ call'[x].key = call[x].key
            /\ call'[x].op = call[x].op /\ call'[x].at \in Points
            /\ call'[x].at \in Setting => call[x].at \in Setting
      /\ had' = had
  BY InsideCall
<1>1. \/ key' = key
      \/ key' = [key EXCEPT ![t] = call[x].key] /\ call[x].at = "assign"
  BY DEF Inside, PutSession, PutConn, PutEnds, LockForKey, DropOldKey, UnlockForKey,
     PutNewKey, AssignKey, Look, RemoveSession, RemoveConn, RemoveKey, RemoveEnds, HangUp,
     HangUpPanics, PoolHasGone, At
<1>2. \A k \in Keys : \/ keys'[k] = keys[k]
                      \/ keys'[k] = Nobody
                      \/ keys'[k] = t /\ k = call[x].key /\ call[x].at \in Setting
  BY InsideMaps
<1>3. \A s \in Sessions : phase'[s] \in {"new", "entering"} => phase'[s] = phase[s]
  <2>1. \/ phase' = phase
        \/ \E s \in Sessions : \E p \in {"open", "ended"} : phase' = [phase EXCEPT ![s] = p]
    <3>1. CASE PutEnds(x)
      BY <1>0, <3>1 DEF PutEnds
    <3>2. CASE ~PutEnds(x)
      BY <3>2 DEF Inside, PutSession, PutConn, LockForKey, DropOldKey, UnlockForKey,
         PutNewKey, AssignKey, Look, RemoveSession, RemoveConn, RemoveKey, RemoveEnds, HangUp,
         HangUpPanics, PoolHasGone, Returns, Panics, Actors
    <3> QED BY <3>1, <3>2
  <2> QED BY <2>1 DEF TypeOK
<1>4. call[x].at \in Setting => t \in had[call[x].key]
  BY <1>0 DEF Given
<1>5. Idle.at = "idle"
  BY DEF Idle
<1>6. ASSUME NEW s \in Sessions PROVE key'[s] # Empty => s \in had'[key'[s]]
  <2>1. CASE key' = key
    BY <1>0, <2>1 DEF Given
  <2>2. CASE key' = [key EXCEPT ![t] = call[x].key] /\ call[x].at = "assign"
    BY <1>0, <1>4, <2>2 DEF Given, TypeOK, Setting
  <2> QED BY <1>1, <2>1, <2>2
<1>7. ASSUME NEW k \in Keys PROVE keys'[k] # Nobody => keys'[k] \in had'[k]
  BY <1>0, <1>2, <1>4 DEF Given
<1>8. ASSUME NEW y \in Actors, Busy(y)', call'[y].at \in Setting \/ call'[y].op = "remove key"
      PROVE  call'[y].on \in had'[call'[y].key]
  <2>1. CASE y = x
    <3>1. call'[x] # Idle
      BY <1>5, <1>8, <2>1 DEF Busy
    <3> QED BY <1>0, <1>8, <2>1, <3>1 DEF Given
  <2>2. CASE y # x
    <3>1. call'[y] = call[y] /\ Busy(y)
      BY <1>0, <1>8, <2>2 DEF Busy
    <3> QED BY <1>0, <1>8, <3>1 DEF Given
  <2> QED BY <2>1, <2>2
<1>9. ASSUME NEW s \in Sessions, phase'[s] \in {"new", "entering"} PROVE key'[s] = Empty
  <2>1. phase[s] \in {"new", "entering"} /\ key[s] = Empty
    BY <1>3, <1>9 DEF Given
  <2>2. CASE key' = key
    BY <2>1, <2>2
  <2>3. CASE key' = [key EXCEPT ![t] = call[x].key] /\ call[x].at = "assign"
    <3>1. call[x].at \notin Entering
      BY <2>3 DEF Entering
    <3>2. t # s
      BY <1>0, <2>1, <3>1 DEF Who
    <3> QED BY <2>1, <2>3, <3>2 DEF TypeOK
  <2> QED BY <1>1, <2>2, <2>3
<1> QED BY <1>6, <1>7, <1>8, <1>9 DEF Given

\* A step that is of another session, as far as s can tell.
LEMMA OthersLed ==
    ASSUME TypeOK, NEW s \in Sessions, Led(s), raced \subseteq raced',
           \A y \in Actors : call'[y].on = s => call[y].on = s,
           \A y \in Actors : call[y].on = s => call'[y] = call[y],
           key'[s] = key[s], pooled'[s] = pooled[s], s \in listed' <=> s \in listed,
           \A k \in Keys : keys'[k] = s => keys[k] = s,
           \A k \in Keys : k # Empty /\ had[k] = {s} /\ keys[k] = s => keys'[k] = s,
           \A k \in Keys : had'[k] = {s} /\ s \in had[k] => had[k] = {s},
           had'[Empty] = {} => had[Empty] = {}, Given
    PROVE  Led(s)'
<1> SUFFICES ASSUME s \notin raced'
             PROVE  Single(s)' /\ (had'[Empty] = {} => LeadsHere(s)') /\ Leads(s)'
  BY DEF Led
<1>1. Single(s) /\ (had[Empty] = {} => LeadsHere(s)) /\ Leads(s)
  BY DEF Led
<1>2. /\ \A y \in Actors : call[y].on = s <=> call'[y].on = s
      /\ \A y \in Actors : call[y].on = s => call'[y] = call[y]
  OBVIOUS
<1>3. key[s] \in Keys /\ \A y \in Actors : call[y].on = s => Busy(y) /\ call[y].key \in Keys
  <2>1. \A y \in Actors : call[y].on = s => Busy(y)
    BY IdleOnNobody
  <2> QED BY <2>1, BusyOnSession DEF TypeOK
<1>4. Single(s)'
  BY <1>1, <1>2 DEF Single
<1>5. ASSUME had'[Empty] = {} PROVE LeadsHere(s)'
  <2>1. LeadsHere(s)
    BY <1>1, <1>5
  <2> SUFFICES ASSUME NEW k \in Keys, keys'[k] = s
               PROVE  /\ \/ s \in listed'
                         \/ \E x \in Actors : /\ call'[x].on = s
                                              /\ call'[x].at \in {"unconn", "unkey"}
                      /\ \A x \in Actors : call'[x].on = s =>
                            /\ call'[x].at \notin {"unlock", "put", "unpool", "hang"}
                            /\ call'[x].at = "assign" \/ call'[x].op = "remove key"
                               => call'[x].key = k
                      /\ (\A x \in Actors : call'[x].on = s => call'[x].at # "assign")
                         => key'[s] = k
    BY DEF LeadsHere
  <2>2. keys[k] = s
    OBVIOUS
  <2>3. s \in listed' \/ \E x \in Actors : call'[x].on = s /\ call'[x].at \in {"unconn", "unkey"}
    BY <1>2, <2>1, <2>2 DEF LeadsHere
  <2>4. ASSUME NEW x \in Actors, call'[x].on = s
        PROVE  /\ call'[x].at \notin {"unlock", "put", "unpool", "hang"}
               /\ call'[x].at = "assign" \/ call'[x].op = "remove key" => call'[x].key = k
    <3>1. call'[x] = call[x] /\ call[x].on = s
      BY <1>2, <2>4
    <3>2. call[x].at \notin {"unlock", "put", "unpool", "hang"}
      BY <2>1, <2>2, <3>1 DEF LeadsHere
    <3>3. call[x].at = "assign" \/ call[x].op = "remove key" => call[x].key = k
      BY <2>1, <2>2, <3>1 DEF LeadsHere
    <3> QED BY <3>1, <3>2, <3>3
  <2>5. ASSUME \A x \in Actors : call'[x].on = s => call'[x].at # "assign"
        PROVE  key'[s] = k
    <3>1. \A x \in Actors : call[x].on = s => call[x].at # "assign"
      BY <1>2, <2>5
    <3> QED BY <2>1, <2>2, <3>1 DEF LeadsHere
  <2> QED BY <2>3, <2>4, <2>5
<1>6. Leads(s)'
  <2> SUFFICES ASSUME s \in listed'
               PROVE  /\ /\ key'[s] # Empty /\ had'[key'[s]] = {s}
                         /\ \A x \in Actors :
                               call'[x].on = s => call'[x].at \notin {"unlock", "put", "assign"}
                         => keys'[key'[s]] = s
                      /\ \A x \in Actors :
                            /\ call'[x].on = s /\ call'[x].at = "assign"
                            /\ call'[x].key # Empty /\ had'[call'[x].key] = {s}
                            => keys'[call'[x].key] = s
    BY DEF Leads
  <2>1. Leads(s) /\ s \in listed
    BY <1>1
  <2>2. ASSUME key'[s] # Empty, had'[key'[s]] = {s},
               \A x \in Actors :
                  call'[x].on = s => call'[x].at \notin {"unlock", "put", "assign"}
        PROVE  keys'[key'[s]] = s
    <3>1. \A x \in Actors : call[x].on = s => call[x].at \notin {"unlock", "put", "assign"}
      BY <1>2, <2>2
    <3>2. key[s] # Empty /\ had[key[s]] = {s}
      BY <1>3, <2>2 DEF Given
    <3>3. keys[key[s]] = s
      BY <2>1, <3>1, <3>2 DEF Leads
    <3> QED BY <1>3, <3>2, <3>3
  <2>3. ASSUME NEW x \in Actors, call'[x].on = s, call'[x].at = "assign",
               call'[x].key # Empty, had'[call'[x].key] = {s}
        PROVE  keys'[call'[x].key] = s
    <3>1. call'[x] = call[x] /\ call[x].on = s /\ Busy(x) /\ call[x].key \in Keys
      BY <1>2, <1>3, <2>3
    <3>2. s \in had[call[x].key]
      <4>1. call[x].at \in Setting
        BY <2>3, <3>1 DEF Setting
      <4> QED BY <3>1, <4>1 DEF Given
    <3>3. had[call[x].key] = {s}
      BY <2>3, <3>1, <3>2
    <3>4. keys[call[x].key] = s
      BY <2>1, <2>3, <3>1, <3>3 DEF Leads
    <3> QED BY <2>3, <3>1, <3>3, <3>4
  <2> QED BY <2>2, <2>3
<1> QED BY <1>4, <1>5, <1>6

\* A step of a call of another session.
LEMMA InsideOther ==
    ASSUME TypeOK, Given, NEW x \in Actors, Inside(x), NEW s \in Sessions, Led(s),
           call[x].on # s
    PROVE  Led(s)'
<1> DEFINE t == call[x].on
<1>1. /\ Busy(x) /\ t \in Sessions /\ call[x].key \in Keys
      /\ \A y \in Actors \ {x} : call'[y] = call[y]
      /\ call'[x] = Idle \/ call'[x].on = t
      /\ UNCHANGED <<had, raced>>
  BY InsideCall
<1>2. /\ key'[s] = key[s] /\ pooled'[s] = pooled[s] /\ (s \in listed' <=> s \in listed)
      /\ \A k \in Keys : \/ keys'[k] = keys[k]
                         \/ keys'[k] = Nobody /\ k = key[t]
                         \/ keys'[k] = Nobody /\ k = call[x].key /\ call[x].op = "remove key"
                         \/ keys'[k] = t /\ k = call[x].key /\ call[x].at \in Setting
  BY InsideMaps
<1>3. s # Nobody /\ Idle.on \notin Sessions
  BY NamesAssumption DEF Idle
<1> HIDE DEF Idle
<1>4. \A y \in Actors : call'[y].on = s => call[y].on = s
  BY <1>1, <1>3
<1>5. \A y \in Actors : call[y].on = s => call'[y] = call[y]
  BY <1>1
<1>6. \A k \in Keys : keys'[k] = s => keys[k] = s
  BY <1>2, <1>3
<1>7. ASSUME NEW k \in Keys, k # Empty, had[k] = {s}, keys[k] = s
      PROVE  keys'[k] = s
  <2>1. t \notin had[k]
    BY <1>7
  <2>2. k # key[t]
    BY <1>1, <1>7, <2>1 DEF Given
  <2>3. call[x].at \in Setting \/ call[x].op = "remove key" => k # call[x].key
    BY <1>1, <2>1 DEF Given
  <2> QED BY <1>2, <1>7, <2>2, <2>3
<1> QED BY <1>1, <1>2, <1>4, <1>5, <1>6, <1>7, OthersLed

\* What is known of s when x is the one that is inside a call of it.
LEMMA OwnKnown ==
    ASSUME TypeOK, NEW x \in Actors, NEW s \in Sessions, call[x].on = s,
           Single(s), had[Empty] = {} => LeadsHere(s), Leads(s)
    PROVE  /\ \A y \in Actors \ {x} : call[y].on # s
           /\ call[x].at \in {"drop", "delete", "unlock", "put", "look"} => pooled[s]
           /\ had[Empty] = {} =>
                 \A k \in Keys : keys[k] = s =>
                    /\ s \in listed \/ call[x].at \in {"unconn", "unkey"}
                    /\ call[x].at \notin {"unlock", "put", "unpool", "hang"}
                    /\ call[x].at = "assign" \/ call[x].op = "remove key" => call[x].key = k
                    /\ call[x].at # "assign" => key[s] = k
           /\ s \in listed /\ key[s] # Empty /\ had[key[s]] = {s}
                 /\ call[x].at \notin {"unlock", "put", "assign"} => keys[key[s]] = s
           /\ s \in listed /\ call[x].at = "assign" /\ call[x].key # Empty
                 /\ had[call[x].key] = {s} => keys[call[x].key] = s
<1>1. \A y \in Actors \ {x} : call[y].on # s
  BY DEF Single
<1>2. call[x].at \in {"drop", "delete", "unlock", "put", "look"} => pooled[s]
  BY DEF Single
<1>3. ASSUME had[Empty] = {}, NEW k \in Keys, keys[k] = s
      PROVE  /\ s \in listed \/ call[x].at \in {"unconn", "unkey"}
             /\ call[x].at \notin {"unlock", "put", "unpool", "hang"}
             /\ call[x].at = "assign" \/ call[x].op = "remove key" => call[x].key = k
             /\ call[x].at # "assign" => key[s] = k
  <2>1. s \in listed \/ call[x].at \in {"unconn", "unkey"}
    BY <1>1, <1>3 DEF LeadsHere
  <2>2. call[x].at \notin {"unlock", "put", "unpool", "hang"}
    BY <1>3 DEF LeadsHere
  <2>3. call[x].at = "assign" \/ call[x].op = "remove key" => call[x].key = k
    BY <1>3 DEF LeadsHere
  <2>4. call[x].at # "assign" => key[s] = k
    BY <1>1, <1>3 DEF LeadsHere
  <2> QED BY <2>1, <2>2, <2>3, <2>4
<1>4. ASSUME s \in listed, key[s] # Empty, had[key[s]] = {s},
             call[x].at \notin {"unlock", "put", "assign"}
      PROVE  keys[key[s]] = s
  BY <1>1, <1>4 DEF Leads
<1>5. ASSUME s \in listed, call[x].at = "assign", call[x].key # Empty, had[call[x].key] = {s}
      PROVE  keys[call[x].key] = s
  BY <1>5 DEF Leads
<1> QED BY <1>1, <1>2, <1>3, <1>4, <1>5

\* And what has to be known after a step of x on s.
LEMMA OwnHolds ==
    ASSUME NEW x \in Actors, NEW s \in Sessions, call'[x].on = s,
           \A y \in Actors \ {x} : call'[y].on # s,
           call'[x].at \in {"drop", "delete", "unlock", "put", "look"} => pooled'[s],
           ASSUME had'[Empty] = {}, NEW k \in Keys, keys'[k] = s
           PROVE  /\ s \in listed' \/ call'[x].at \in {"unconn", "unkey"}
                  /\ call'[x].at \notin {"unlock", "put", "unpool", "hang"}
                  /\ call'[x].at = "assign" \/ call'[x].op = "remove key" => call'[x].key = k
                  /\ call'[x].at # "assign" => key'[s] = k,
           s \in listed' /\ key'[s] # Empty /\ had'[key'[s]] = {s}
              /\ call'[x].at \notin {"unlock", "put", "assign"} => keys'[key'[s]] = s,
           s \in listed' /\ call'[x].at = "assign" /\ call'[x].key # Empty
              /\ had'[call'[x].key] = {s} => keys'[call'[x].key] = s
    PROVE  Led(s)'
<1>1. Single(s)'
  BY DEF Single
<1>2. ASSUME had'[Empty] = {} PROVE LeadsHere(s)'
  <2> SUFFICES ASSUME NEW k \in Keys, keys'[k] = s
               PROVE  /\ \/ s \in listed'
                         \/ \E y \in Actors : /\ call'[y].on = s
                                              /\ call'[y].at \in {"unconn", "unkey"}
                      /\ \A y \in Actors : call'[y].on = s =>
                            /\ call'[y].at \notin {"unlock", "put", "unpool", "hang"}
                            /\ call'[y].at = "assign" \/ call'[y].op = "remove key"
                               => call'[y].key = k
                      /\ (\A y \in Actors : call'[y].on = s => call'[y].at # "assign")
                         => key'[s] = k
    BY DEF LeadsHere
  <2>1. /\ s \in listed' \/ call'[x].at \in {"unconn", "unkey"}
        /\ call'[x].at \notin {"unlock", "put", "unpool", "hang"}
        /\ call'[x].at = "assign" \/ call'[x].op = "remove key" => call'[x].key = k
        /\ call'[x].at # "assign" => key'[s] = k
    BY <1>2
  <2>2. \A y \in Actors : call'[y].on = s => y = x
    OBVIOUS
  <2> QED BY <2>1, <2>2
<1>3. Leads(s)'
  BY DEF Leads
<1> QED BY <1>1, <1>2, <1>3 DEF Led

\* A step of x's call that leaves the keys alone.
LEMMA OwnMoves ==
    ASSUME TypeOK, NEW x \in Actors, NEW s \in Sessions, call[x].on = s,
           s \notin raced, Led(s), UNCHANGED <<key, keys, had>>,
           call'[x].on = s, call'[x].key = call[x].key, call'[x].op = call[x].op,
           \A y \in Actors \ {x} : call'[y].on # s,
           call[x].at \notin {"assign", "unlock", "put"},
           call'[x].at \notin {"assign", "unlock", "put", "unpool", "hang"},
           call'[x].at \in {"drop", "delete", "unlock", "put", "look"} => pooled'[s],
           s \in listed' => s \in listed,
           s \in listed \/ call[x].at \in {"unconn", "unkey"}
               => s \in listed' \/ call'[x].at \in {"unconn", "unkey"}
    PROVE  Led(s)'
<1>1. Single(s) /\ (had[Empty] = {} => LeadsHere(s)) /\ Leads(s)
  BY DEF Led
<1>2. /\ \A y \in Actors \ {x} : call[y].on # s
      /\ call[x].at \in {"drop", "delete", "unlock", "put", "look"} => pooled[s]
      /\ had[Empty] = {} =>
            \A k \in Keys : keys[k] = s =>
               /\ s \in listed \/ call[x].at \in {"unconn", "unkey"}
               /\ call[x].at \notin {"unlock", "put", "unpool", "hang"}
               /\ call[x].at = "assign" \/ call[x].op = "remove key" => call[x].key = k
               /\ call[x].at # "assign" => key[s] = k
      /\ s \in listed /\ key[s] # Empty /\ had[key[s]] = {s}
            /\ call[x].at \notin {"unlock", "put", "assign"} => keys[key[s]] = s
      /\ s \in listed /\ call[x].at = "assign" /\ call[x].key # Empty
            /\ had[call[x].key] = {s} => keys[call[x].key] = s
  BY <1>1, OwnKnown
<1>3. ASSUME had'[Empty] = {}, NEW k \in Keys, keys'[k] = s
      PROVE  /\ s \in listed' \/ call'[x].at \in {"unconn", "unkey"}
             /\ call'[x].at \notin {"unlock", "put", "unpool", "hang"}
             /\ call'[x].at = "assign" \/ call'[x].op = "remove key" => call'[x].key = k
             /\ call'[x].at # "assign" => key'[s] = k
  <2>1. had[Empty] = {} /\ keys[k] = s
    BY <1>3
  <2>2. s \in listed' \/ call'[x].at \in {"unconn", "unkey"}
    BY <1>2, <2>1
  <2>3. call'[x].at = "assign" \/ call'[x].op = "remove key" => call'[x].key = k
    BY <1>2, <2>1
  <2>4. key'[s] = k
    BY <1>2, <2>1
  <2> QED BY <2>2, <2>3, <2>4
<1>4. s \in listed' /\ key'[s] # Empty /\ had'[key'[s]] = {s} => keys'[key'[s]] = s
  BY <1>2
<1> QED BY <1>3, <1>4, OwnHolds

\* The same when nobody is inside a call of s any more.
LEMMA NoneHolds ==
    ASSUME NEW s \in Sessions, \A y \in Actors : call'[y].on # s,
           ASSUME had'[Empty] = {}, NEW k \in Keys, keys'[k] = s
           PROVE  s \in listed' /\ key'[s] = k,
           s \in listed' /\ key'[s] # Empty /\ had'[key'[s]] = {s} => keys'[key'[s]] = s
    PROVE  Led(s)'
<1>1. Single(s)'
  BY DEF Single
<1>2. ASSUME had'[Empty] = {} PROVE LeadsHere(s)'
  BY <1>2 DEF LeadsHere
<1>3. Leads(s)'
  BY DEF Leads
<1> QED BY <1>1, <1>2, <1>3 DEF Led

\* A step of x's own call of s.
LEMMA InsideOwn ==
    ASSUME TypeOK, Who, Known, Where, Given, NEW x \in Actors, Inside(x),
           NEW s \in Sessions, call[x].on = s, Led(s)
    PROVE  Led(s)'
<1>0. /\ Busy(x) /\ call[x].key \in Keys
      /\ \A y \in Actors \ {x} : call'[y] = call[y]
      /\ UNCHANGED <<had, raced>>
  BY InsideCall
<1> SUFFICES ASSUME s \notin raced PROVE Led(s)'
  BY <1>0 DEF Led
<1>a. Single(s) /\ (had[Empty] = {} => LeadsHere(s)) /\ Leads(s)
  BY DEF Led
<1>b. /\ \A y \in Actors \ {x} : call[y].on # s
      /\ call[x].at \in {"drop", "delete", "unlock", "put", "look"} => pooled[s]
      /\ had[Empty] = {} =>
            \A k \in Keys : keys[k] = s =>
               /\ s \in listed \/ call[x].at \in {"unconn", "unkey"}
               /\ call[x].at \notin {"unlock", "put", "unpool", "hang"}
               /\ call[x].at = "assign" \/ call[x].op = "remove key" => call[x].key = k
               /\ call[x].at # "assign" => key[s] = k
      /\ s \in listed /\ key[s] # Empty /\ had[key[s]] = {s}
            /\ call[x].at \notin {"unlock", "put", "assign"} => keys[key[s]] = s
      /\ s \in listed /\ call[x].at = "assign" /\ call[x].key # Empty
            /\ had[call[x].key] = {s} => keys[call[x].key] = s
  BY <1>a, OwnKnown
<1>c. \A y \in Actors \ {x} : call'[y].on # s
  BY <1>0, <1>b
<1>d. \A at \in Entering \cup Setting \cup Removing : at \in Points
  BY DEF Points
<1>e. ASSUME NEW to \in Points, Moves(x, to)
      PROVE  /\ call'[x].at = to /\ call'[x].on = s
             /\ call'[x].key = call[x].key /\ call'[x].op = call[x].op
  BY <1>0, <1>e, MovesOn
<1>f. ASSUME call' = [call EXCEPT ![x] = Idle]
      PROVE  \A y \in Actors : call'[y].on # s
  BY <1>c, <1>f, NamesAssumption DEF TypeOK, Idle
<1>g. s # Nobody /\ key[s] \in Keys
  BY NamesAssumption DEF TypeOK
<1>h. ASSUME call[x].at \in Entering
      PROVE  key[s] = Empty /\ \A k \in Keys : keys[k] # s
  <2>1. phase[s] = "entering"
    BY <1>0, <1>h DEF Who
  <2> QED BY <1>g, <2>1 DEF Given, Known
<1>1. CASE PutSession(x)
  <2>1. call'[x].at = "conn" /\ call'[x].on = s /\ UNCHANGED <<key, keys>>
    BY <1>1, <1>d, <1>e DEF PutSession, Entering
  <2>2. key[s] = Empty /\ \A k \in Keys : keys[k] # s
    BY <1>1, <1>h DEF PutSession, At, Entering
  <2> QED BY <1>c, <2>1, <2>2, OwnHolds
<1>2. CASE PutConn(x)
  <2>1. call'[x].at = "own" /\ call'[x].on = s /\ UNCHANGED <<key, keys>>
    BY <1>2, <1>d, <1>e DEF PutConn, Entering
  <2>2. key[s] = Empty /\ \A k \in Keys : keys[k] # s
    BY <1>2, <1>h DEF PutConn, At, Entering
  <2> QED BY <1>c, <2>1, <2>2, OwnHolds
<1>3. CASE PutEnds(x)
  <2>1. (\A y \in Actors : call'[y].on # s) /\ UNCHANGED <<key, keys>>
    BY <1>3, <1>f DEF PutEnds, mapVars
  <2>2. key[s] = Empty /\ \A k \in Keys : keys[k] # s
    BY <1>3, <1>h DEF PutEnds, At, Entering
  <2> QED BY <2>1, <2>2, NoneHolds
<1>4. CASE LockForKey(x)
  <2>1. call[x].at = "drop" /\ UNCHANGED <<key, keys, listed, pooled>>
    BY <1>4 DEF LockForKey, At, mapVars
  <2>2. call'[x].at = "delete" /\ call'[x].on = s /\ call'[x].key = call[x].key
        /\ call'[x].op = call[x].op
    BY <1>4, <1>d, <1>e DEF LockForKey, Setting
  <2> QED BY <1>0, <1>b, <1>c, <2>1, <2>2, OwnMoves
<1>5. CASE DropOldKey(x)
  <2>1. /\ call[x].at = "delete" /\ UNCHANGED <<key, listed, pooled>>
        /\ keys' = [keys EXCEPT ![key[s]] = Nobody]
    BY <1>5 DEF DropOldKey, At
  <2>2. call'[x].at = "unlock" /\ call'[x].on = s
    BY <1>5, <1>d, <1>e DEF DropOldKey, Setting
  <2>3. \A k \in Keys : keys'[k] = IF k = key[s] THEN Nobody ELSE keys[k]
    BY <2>1 DEF TypeOK
  <2>4. had[Empty] = {} => \A k \in Keys : keys'[k] # s
    BY <1>b, <1>g, <2>1, <2>3
  <2> QED BY <1>0, <1>b, <1>c, <2>1, <2>2, <2>4, OwnHolds
<1>6. CASE UnlockForKey(x)
  <2>1. call[x].at = "unlock" /\ UNCHANGED <<key, keys, listed, pooled>>
    BY <1>6 DEF UnlockForKey, At, mapVars
  <2>2. call'[x].at = "put" /\ call'[x].on = s
    BY <1>6, <1>d, <1>e DEF UnlockForKey, Setting
  <2>3. had[Empty] = {} => \A k \in Keys : keys'[k] # s
    BY <1>b, <2>1
  <2> QED BY <1>0, <1>b, <1>c, <2>1, <2>2, <2>3, OwnHolds
<1>7. CASE PutNewKey(x)
  <2>1. /\ call[x].at = "put" /\ UNCHANGED <<key, listed, pooled>>
        /\ keys' = [keys EXCEPT ![call[x].key] = s]
    BY <1>7 DEF PutNewKey, At
  <2>2. call'[x].at = "assign" /\ call'[x].on = s /\ call'[x].key = call[x].key
    BY <1>7, <1>d, <1>e DEF PutNewKey, Setting
  <2>3. \A k \in Keys : keys'[k] = IF k = call[x].key THEN s ELSE keys[k]
    BY <2>1 DEF TypeOK
  <2>4. s \in listed
    <3>1. pooled[s] /\ \A y \in Actors : call[y].on = s => call[y].at = "put"
      BY <1>b, <2>1
    <3> QED BY <3>1 DEF Where
  <2>5. had[Empty] = {} => \A k \in Keys : keys'[k] = s => k = call[x].key
    BY <1>b, <2>1, <2>3
  <2>6. keys'[call[x].key] = s
    BY <1>0, <2>3
  <2> QED BY <1>0, <1>b, <1>c, <2>1, <2>2, <2>4, <2>5, <2>6, OwnHolds
<1>8. CASE AssignKey(x)
  <2>1. /\ call[x].at = "assign" /\ UNCHANGED <<keys, listed>>
        /\ key' = [key EXCEPT ![s] = call[x].key]
        /\ \A y \in Actors : call'[y].on # s
    BY <1>8, <1>f DEF AssignKey, At, Returns, mapVars
  <2>2. key'[s] = call[x].key
    BY <2>1 DEF TypeOK
  <2> QED BY <1>0, <1>b, <2>1, <2>2, NoneHolds
<1>9. CASE PoolHasGone(x)
  BY <1>9, <1>b DEF PoolHasGone
<1>10. CASE Look(x)
  <2>1. call[x].at = "look" /\ UNCHANGED <<key, keys, listed, pooled>>
    BY <1>10 DEF Look, At, mapVars
  <2>2. CASE s \in listed
    <3>1. call'[x].at = "unlist" /\ call'[x].on = s /\ call'[x].key = call[x].key
          /\ call'[x].op = call[x].op
      BY <1>10, <1>d, <1>e, <2>2 DEF Look, Removing
    <3> QED BY <1>0, <1>b, <1>c, <2>1, <2>2, <3>1, OwnMoves
  <2>3. CASE s \notin listed
    <3>1. call'[x].at = "hang" /\ call'[x].on = s
      BY <1>10, <1>d, <1>e, <2>3 DEF Look, Removing
    <3>2. had[Empty] = {} => \A k \in Keys : keys'[k] # s
      BY <1>b, <2>1, <2>3
    <3> QED BY <1>0, <1>c, <2>1, <2>3, <3>1, <3>2, OwnHolds
  <2> QED BY <2>2, <2>3
<1>11. CASE RemoveSession(x)
  <2>1. call[x].at = "unlist" /\ UNCHANGED <<key, keys>> /\ s \notin listed'
    BY <1>11 DEF RemoveSession, At
  <2>2. call'[x].at = "unconn" /\ call'[x].on = s /\ call'[x].key = call[x].key
        /\ call'[x].op = call[x].op
    BY <1>11, <1>d, <1>e DEF RemoveSession, Removing
  <2> QED BY <1>0, <1>b, <1>c, <2>1, <2>2, OwnMoves
<1>12. CASE RemoveConn(x)
  <2>1. call[x].at = "unconn" /\ UNCHANGED <<key, keys>> /\ s \notin listed'
    BY <1>12 DEF RemoveConn, At, Where
  <2>2. call'[x].at = "unkey" /\ call'[x].on = s /\ call'[x].key = call[x].key
        /\ call'[x].op = call[x].op
    BY <1>12, <1>d, <1>e DEF RemoveConn, Removing
  <2> QED BY <1>0, <1>b, <1>c, <2>1, <2>2, OwnMoves
<1>13. CASE RemoveKey(x)
  <2>1. /\ call[x].at = "unkey" /\ UNCHANGED key /\ s \notin listed'
        /\ \A k \in Keys : keys'[k] = IF k \in OldKeys(x) THEN Nobody ELSE keys[k]
    BY <1>13 DEF RemoveKey, At, Where
  <2>2. call'[x].at = "unpool" /\ call'[x].on = s
    BY <1>13, <1>d, <1>e DEF RemoveKey, Removing
  <2>3. ASSUME had[Empty] = {}, NEW k \in Keys PROVE keys'[k] # s
    <3> SUFFICES ASSUME keys[k] = s, k \notin OldKeys(x) PROVE FALSE
      BY <1>g, <2>1
    <3>1. key[s] = k /\ (call[x].op = "remove key" => call[x].key = k)
      BY <1>b, <2>1, <2>3
    <3>2. k # Empty
      BY <1>g, <2>3 DEF Given
    <3> QED BY <3>1, <3>2 DEF OldKeys
  <2> QED BY <1>0, <1>c, <2>1, <2>2, <2>3, OwnHolds
<1>14. CASE RemoveEnds(x)
  <2>1. call[x].at = "unpool" /\ UNCHANGED <<key, keys>> /\ s \notin listed'
    BY <1>14 DEF RemoveEnds, At, Where, mapVars
  <2>2. had[Empty] = {} => \A k \in Keys : keys'[k] # s
    BY <1>b, <2>1
  <2>3. CASE call[x].op = "close"
    <3>1. call'[x].at = "hang" /\ call'[x].on = s
      BY <1>14, <1>d, <1>e, <2>3 DEF RemoveEnds, Removing
    <3> QED BY <1>0, <1>c, <2>1, <2>2, <3>1, OwnHolds
  <2>4. CASE call[x].op # "close"
    <3>1. \A y \in Actors : call'[y].on # s
      BY <1>14, <1>f, <2>4 DEF RemoveEnds, Returns
    <3> QED BY <1>0, <2>1, <2>2, <3>1, NoneHolds
  <2> QED BY <2>3, <2>4
<1>15. CASE HangUp(x) \/ HangUpPanics(x)
  <2>1. /\ call[x].at = "hang" /\ UNCHANGED <<key, keys>> /\ s \notin listed'
        /\ \A y \in Actors : call'[y].on # s
    BY <1>15, <1>f DEF HangUp, HangUpPanics, At, Where, mapVars, Returns, Panics
  <2>2. had[Empty] = {} => \A k \in Keys : keys'[k] # s
    BY <1>b, <2>1
  <2> QED BY <1>0, <2>1, <2>2, NoneHolds
<1> QED BY <1>1, <1>2, <1>3, <1>4, <1>5, <1>6, <1>7, <1>8, <1>9, <1>10, <1>11, <1>12, <1>13,
           <1>14, <1>15, Inside(x) DEF Inside

\* What no step touches.
LEMMA Unmoved ==
    ASSUME UNCHANGED <<phase, key, pooled, listed, keys, call, had, raced>>, Given
    PROVE  Given' /\ \A s \in Sessions : Led(s) => Led(s)'
<1>1. Given'
  BY DEF Given, Busy
<1>2. ASSUME NEW s \in Sessions, Led(s) PROVE Led(s)'
  <2>1. Single(s) => Single(s)'
    BY DEF Single
  <2>2. LeadsHere(s) => LeadsHere(s)'
    BY DEF LeadsHere
  <2>3. Leads(s) => Leads(s)'
    BY DEF Leads
  <2> QED BY <1>2, <2>1, <2>2, <2>3 DEF Led
<1> QED BY <1>1, <1>2

\* A goroutine that begins a call of t: if another one is inside a call of t, t is raced.
LEMMA BeginsLed ==
    ASSUME TypeOK, Where, Given, NEW x \in Actors, ~Busy(x), NEW t \in Sessions,
           NEW c \in Calls, Begins(x, t, c), c.on = t, c.at \in Points,
           c.at \notin {"unlock", "unpool"},
           c.at \in {"drop", "delete", "put", "look"} => pooled[t],
           c.at = "put" => key[t] = Empty,
           c.at \in {"assign", "hang"} => ~pooled[t] /\ phase[t] # "entering",
           c.op = "remove key" => keys[c.key] = t,
           UNCHANGED <<key, pooled, listed, keys>>,
           \A k \in Keys : had[k] \subseteq had'[k],
           NEW s \in Sessions, Led(s)
    PROVE  Led(s)'
<1>1. call'[x] = c /\ \A y \in Actors \ {x} : call'[y] = call[y]
  BY CallReplaced DEF Begins
<1>2. call[x].on \notin Sessions
  BY IdleOnNobody
<1>3. raced \subseteq raced'
  BY DEF Begins
<1>4. had'[Empty] = {} => had[Empty] = {}
  BY NamesAssumption
<1>5. \A k \in Keys : had'[k] = {s} /\ s \in had[k] => had[k] = {s}
  OBVIOUS
<1>6. CASE s # t
  <2>1. call[x].on # s /\ call'[x].on # s
    BY <1>1, <1>2, <1>6
  <2>2. \A y \in Actors : call'[y].on = s => call[y].on = s
    BY <1>1, <2>1
  <2>3. \A y \in Actors : call[y].on = s => call'[y] = call[y]
    BY <1>1, <2>1
  <2>4. /\ key'[s] = key[s] /\ pooled'[s] = pooled[s] /\ (s \in listed' <=> s \in listed)
        /\ \A k \in Keys : keys'[k] = keys[k]
    OBVIOUS
  <2> QED BY <1>3, <1>4, <1>5, <2>2, <2>3, <2>4, OthersLed
<1>7. CASE s = t
  <2> SUFFICES ASSUME s \notin raced' PROVE Led(s)'
    BY DEF Led
  <2>1. \A y \in Actors : call[y].on # s
    <3> SUFFICES ASSUME NEW y \in Actors, y # x, call[y].on = s PROVE FALSE
      BY <1>2, <1>7
    <3>1. Busy(y)
      BY IdleOnNobody
    <3> QED BY <1>7, <3>1 DEF Begins
  <2>2. Single(s) /\ (had[Empty] = {} => LeadsHere(s)) /\ Leads(s)
    BY <1>3 DEF Led
  <2>3. ASSUME had[Empty] = {}, NEW k \in Keys, keys[k] = s
        PROVE  s \in listed /\ key[s] = k /\ k # Empty
    <3>1. s \in listed /\ key[s] = k
      BY <2>1, <2>2, <2>3 DEF LeadsHere
    <3>2. k # Empty
      BY <2>3, NamesAssumption DEF Given
    <3> QED BY <3>1, <3>2
  <2>4. s \in listed /\ key[s] # Empty /\ had[key[s]] = {s} => keys[key[s]] = s
    BY <2>1, <2>2 DEF Leads
  <2>5. \A y \in Actors \ {x} : call'[y].on # s
    BY <1>1, <2>1
  <2>6. c.at \in {"assign", "hang"} => s \notin listed
    BY <1>7 DEF Where
  <2>7. ASSUME had'[Empty] = {}, NEW k \in Keys, keys'[k] = s
        PROVE  /\ s \in listed' \/ call'[x].at \in {"unconn", "unkey"}
               /\ call'[x].at \notin {"unlock", "put", "unpool", "hang"}
               /\ call'[x].at = "assign" \/ call'[x].op = "remove key" => call'[x].key = k
               /\ call'[x].at # "assign" => key'[s] = k
    <3>1. s \in listed /\ key[s] = k /\ k # Empty
      BY <1>4, <2>3, <2>7
    <3>2. c.at \notin {"unlock", "put", "unpool", "hang", "assign"}
      BY <1>7, <2>6, <3>1
    <3>3. ASSUME c.op = "remove key" PROVE c.key = k
      <4>1. c.key \in Keys
        <5>1. c # Idle
          BY ONLY c.at \in Points DEF Idle, Points, Entering, Setting, Removing
        <5> QED BY <5>1 DEF Calls
      <4>2. keys[c.key] = s
        BY <1>7, <3>3
      <4>3. key[s] = c.key
        BY <1>4, <2>3, <2>7, <4>1, <4>2
      <4> QED BY <3>1, <4>3
    <3> QED BY <1>1, <3>1, <3>2, <3>3
  <2>8. key[s] \in Keys /\ (key[s] # Empty => s \in had[key[s]])
    BY DEF TypeOK, Given
  <2>9. s \in listed' /\ key'[s] # Empty /\ had'[key'[s]] = {s} => keys'[key'[s]] = s
    BY <1>5, <2>4, <2>8
  <2>10. ~(s \in listed' /\ call'[x].at = "assign")
    BY <1>1, <2>6
  <2>11. call'[x].on = s
    BY <1>1, <1>7
  <2>12. call'[x].at \in {"drop", "delete", "unlock", "put", "look"} => pooled'[s]
    BY <1>1, <1>7
  <2>13. s \in listed' /\ key'[s] # Empty /\ had'[key'[s]] = {s}
            /\ call'[x].at \notin {"unlock", "put", "assign"} => keys'[key'[s]] = s
    BY <2>9
  <2>14. s \in listed' /\ call'[x].at = "assign" /\ call'[x].key # Empty
            /\ had'[call'[x].key] = {s} => keys'[call'[x].key] = s
    BY <2>10
  <2>15. Single(s)'
    BY ONLY <2>5, <2>11, <2>12 DEF Single
  <2>16. had'[Empty] = {} => LeadsHere(s)'
    BY ONLY <2>5, <2>7, <2>11 DEF LeadsHere
  <2>17. Leads(s)'
    BY ONLY <2>5, <2>11, <2>13, <2>14 DEF Leads
  <2> QED BY ONLY <2>15, <2>16, <2>17 DEF Led
<1> QED BY <1>6, <1>7

\* And the histories after it.
LEMMA BeginsGiven ==
    ASSUME TypeOK, Given, NEW x \in Actors, NEW t \in Sessions, NEW c \in Calls,
           Begins(x, t, c), c.at \in Setting \/ c.op = "remove key" => c.on \in had'[c.key],
           UNCHANGED <<key, keys>>, \A k \in Keys : had[k] \subseteq had'[k],
           \A s \in Sessions : phase'[s] \in {"new", "entering"}
                               => phase[s] \in {"new", "entering"}
    PROVE  Given'
<1>1. call'[x] = c /\ \A y \in Actors \ {x} : call'[y] = call[y]
  BY CallReplaced DEF Begins
<1>2. ASSUME NEW s \in Sessions PROVE key'[s] # Empty => s \in had'[key'[s]]
  BY DEF Given, TypeOK
<1>3. ASSUME NEW k \in Keys PROVE keys'[k] # Nobody => keys'[k] \in had'[k]
  BY DEF Given
<1>4. ASSUME NEW y \in Actors, Busy(y)', call'[y].at \in Setting \/ call'[y].op = "remove key"
      PROVE  call'[y].on \in had'[call'[y].key]
  <2>1. CASE y = x
    BY <1>1, <1>4, <2>1
  <2>2. CASE y # x
    <3>1. call'[y] = call[y] /\ Busy(y)
      BY <1>1, <1>4, <2>2 DEF Busy
    <3>2. call[y].key \in Keys
      BY <3>1, BusyOnSession
    <3>3. call[y].on \in had[call[y].key]
      BY <1>4, <3>1 DEF Given
    <3> QED BY <3>1, <3>2, <3>3
  <2> QED BY <2>1, <2>2
<1>5. ASSUME NEW s \in Sessions, phase'[s] \in {"new", "entering"} PROVE key'[s] = Empty
  BY <1>5 DEF Given
<1> QED BY <1>2, <1>3, <1>4, <1>5 DEF Given

LEMMA CallsKeys ==
    ASSUME TypeOK, Where, Given, NEW x \in Actors, NEW t \in Sessions,
           Close(x, t) \/ \E k \in Keys : SetKey(x, t, k)
    PROVE  Given' /\ \A s \in Sessions : Led(s) => Led(s)'
<1>1. CASE Close(x, t)
  <2> DEFINE c == [on |-> t, key |-> Empty, op |-> "close",
                   at |-> IF pooled[t] THEN "look" ELSE "hang"]
  <2>1. /\ c \in Calls /\ c.on = t /\ c.at \in {"look", "hang"} /\ c.op = "close"
        /\ c.at = "look" => pooled[t]
        /\ c.at = "hang" => ~pooled[t]
    BY NamesAssumption DEF Calls, Removing
  <2>2. /\ Begins(x, t, c) /\ ~Busy(x) /\ phase[t] # "entering"
        /\ UNCHANGED <<phase, key, pooled, listed, keys, had>>
    BY <1>1 DEF Close, CloseSteps, MayCall, Knows, mapVars
  <2> HIDE DEF c
  <2>3. c.at \in Points /\ c.at \notin Setting
    BY <2>1 DEF Points, Removing, Setting
  <2>4. Given'
    BY <2>1, <2>2, <2>3, BeginsGiven
  <2> QED BY <2>1, <2>2, <2>3, <2>4, BeginsLed
<1>2. ASSUME NEW k \in Keys, SetKey(x, t, k)
      PROVE  Given' /\ \A s \in Sessions : Led(s) => Led(s)'
  <2> DEFINE c == [on |-> t, key |-> k, op |-> "set",
                   at |-> IF ~pooled[t] THEN "assign"
                          ELSE IF key[t] # Empty THEN "drop" ELSE "put"]
  <2>1. /\ c \in Calls /\ c.on = t /\ c.key = k /\ c.op = "set"
        /\ c.at \in {"drop", "put", "assign"}
        /\ c.at \in {"drop", "put"} => pooled[t]
        /\ c.at = "put" => key[t] = Empty
        /\ c.at = "assign" => ~pooled[t]
    BY DEF Calls, Setting
  <2>2. /\ Begins(x, t, c) /\ ~Busy(x) /\ phase[t] # "entering"
        /\ UNCHANGED <<phase, key, pooled, listed, keys>>
        /\ had' = [had EXCEPT ![k] = @ \cup {t}]
    BY <1>2 DEF SetKey, MayCall, Knows, mapVars
  <2> HIDE DEF c
  <2>3. c.at \in Points
    BY <2>1 DEF Points, Setting
  <2>4. t \in had'[k] /\ \A j \in Keys : had[j] \subseteq had'[j]
    BY <2>2 DEF TypeOK
  <2>5. Given'
    BY <2>1, <2>2, <2>4, BeginsGiven
  <2> QED BY <2>1, <2>2, <2>3, <2>4, <2>5, BeginsLed
<1> QED BY <1>1, <1>2

LEMMA SessionKeys ==
    ASSUME TypeOK, Who, Where, Given, NEW t \in Sessions,
           Put(t) \/ Leave(t) \/ PeerGoes(t) \/ RemoveByID(t)
    PROVE  Given' /\ \A s \in Sessions : Led(s) => Led(s)'
<1>0. t \in Actors /\ Admin \in Actors
  BY DEF Actors
<1>1. CASE Put(t)
  <2> DEFINE c == [at |-> "list", on |-> t, key |-> Empty, op |-> "put"]
  <2>1. c \in Calls /\ c.on = t /\ c.at = "list" /\ c.op = "put"
    BY NamesAssumption DEF Calls, Entering
  <2>2. /\ Begins(t, t, c) /\ phase' = [phase EXCEPT ![t] = "entering"] /\ phase[t] = "new"
        /\ UNCHANGED <<key, pooled, listed, keys, had>>
    BY <1>1 DEF Put, mapVars
  <2> HIDE DEF c
  <2>3. ~Busy(t) /\ \A s \in Sessions : phase'[s] \in {"new", "entering"}
                                        => phase[s] \in {"new", "entering"}
    BY <1>0, <2>2 DEF Who, TypeOK
  <2>4. c.at \in Points /\ c.at \notin Setting
    BY <2>1 DEF Points, Entering, Setting
  <2>5. Given'
    BY <1>0, <2>1, <2>2, <2>3, <2>4, BeginsGiven
  <2> QED BY <1>0, <2>1, <2>2, <2>3, <2>4, <2>5, BeginsLed
<1>2. CASE Leave(t)
  <2> DEFINE c == [on |-> t, key |-> Empty, op |-> "close",
                   at |-> IF pooled[t] THEN "look" ELSE "hang"]
  <2>1. /\ c \in Calls /\ c.on = t /\ c.at \in {"look", "hang"} /\ c.op = "close"
        /\ c.at = "look" => pooled[t]
        /\ c.at = "hang" => ~pooled[t]
    BY NamesAssumption DEF Calls, Removing
  <2>2. /\ Begins(t, t, c) /\ ~Busy(t) /\ phase[t] = "open"
        /\ phase' = [phase EXCEPT ![t] = "closing"]
        /\ UNCHANGED <<key, pooled, listed, keys, had>>
    BY <1>2 DEF Leave, CloseSteps, mapVars
  <2> HIDE DEF c
  <2>3. \A s \in Sessions : phase'[s] \in {"new", "entering"}
                            => phase[s] \in {"new", "entering"}
    BY <2>2 DEF TypeOK
  <2>4. c.at \in Points /\ c.at \notin Setting
    BY <2>1 DEF Points, Removing, Setting
  <2>5. Given'
    BY <1>0, <2>1, <2>2, <2>3, <2>4, BeginsGiven
  <2> QED BY <1>0, <2>1, <2>2, <2>4, <2>5, BeginsLed
<1>3. CASE PeerGoes(t)
  BY <1>3, Unmoved DEF PeerGoes, mapVars, histVars
<1>4. CASE RemoveByID(t)
  <2> DEFINE c == [at |-> "unlist", on |-> t, key |-> Empty, op |-> "remove"]
  <2>1. c \in Calls /\ c.on = t /\ c.at = "unlist" /\ c.op = "remove"
    BY NamesAssumption DEF Calls, Removing
  <2>2. /\ Begins(Admin, t, c) /\ ~Busy(Admin)
        /\ UNCHANGED <<phase, key, pooled, listed, keys, had>>
    BY <1>4 DEF RemoveByID, mapVars
  <2> HIDE DEF c
  <2>3. c.at \in Points /\ c.at \notin Setting
    BY <2>1 DEF Points, Removing, Setting
  <2>4. Given'
    BY <1>0, <2>1, <2>2, <2>3, BeginsGiven
  <2> QED BY <1>0, <2>1, <2>2, <2>3, <2>4, BeginsLed
<1> QED BY <1>1, <1>2, <1>3, <1>4

LEMMA PoolKeys ==
    ASSUME TypeOK, Where, Given,
           (\E k \in Keys : RemoveByKey(k)) \/ Purge \/ PurgeEnds \/ MapFault \/ GetFault
    PROVE  Given' /\ \A s \in Sessions : Led(s) => Led(s)'
<1>1. ASSUME NEW k \in Keys, RemoveByKey(k)
      PROVE  Given' /\ \A s \in Sessions : Led(s) => Led(s)'
  <2> DEFINE t == keys[k]
             c == [at |-> "unlist", on |-> t, key |-> k, op |-> "remove key"]
  <2>1. t \in Sessions /\ Admin \in Actors /\ t \in had[k]
    BY <1>1 DEF RemoveByKey, TypeOK, Actors, Given
  <2>2. c \in Calls /\ c.on = t /\ c.at = "unlist" /\ c.op = "remove key" /\ c.key = k
    BY <2>1 DEF Calls, Removing
  <2>3. /\ Begins(Admin, t, c) /\ ~Busy(Admin)
        /\ UNCHANGED <<phase, key, pooled, listed, keys, had>>
    BY <1>1 DEF RemoveByKey, mapVars
  <2>4. keys[c.key] = t
    BY <2>2
  <2> HIDE DEF c, t
  <2>5. c.at \in Points
    BY <2>2 DEF Points, Removing
  <2>6. Given'
    BY <2>1, <2>2, <2>3, BeginsGiven
  <2> QED BY <2>1, <2>2, <2>3, <2>4, <2>5, <2>6, BeginsLed
<1>2. CASE Purge \/ PurgeEnds \/ MapFault \/ GetFault
  BY <1>2, Unmoved DEF Purge, PurgeEnds, MapFault, GetFault, histVars, mapVars
<1> QED BY <1>1, <1>2

\* For any number of sessions, keys and calls: as long as no calls overlapped on a session,
\* the key that it alone was given finds it while it is in the pool, and, if no session was
\* given the empty key, no key leads to it once its removal is through; what other
\* sessions do with their own keys does not matter (KeysLead, of SetKey and the Remove
\* functions).
THEOREM KeysAreRight == Spec => []KeysLead
<1>1. KeysInv /\ UNCHANGED vars => KeysInv'
  BY Unmoved DEF KeysInv, vars, mapVars, histVars
<1>2. TypeOK /\ Who /\ Known /\ Where /\ KeysInv /\ [Next]_vars => KeysInv'
  <2> SUFFICES ASSUME TypeOK, Who, Known, Where, KeysInv, [Next]_vars PROVE KeysInv'
    OBVIOUS
  <2>1. ASSUME NEW x \in Actors, Inside(x) PROVE KeysInv'
    <3>1. \A s \in Sessions : Led(s)'
      BY <2>1, InsideOther, InsideOwn DEF KeysInv
    <3> QED BY <2>1, <3>1, InsideGiven DEF KeysInv
  <2>2. ASSUME NEW x \in Actors, NEW s \in Sessions,
               Close(x, s) \/ \E k \in Keys : SetKey(x, s, k)
        PROVE  KeysInv'
    BY <2>2, CallsKeys DEF KeysInv
  <2>3. ASSUME NEW s \in Sessions, Put(s) \/ Leave(s) \/ PeerGoes(s) \/ RemoveByID(s)
        PROVE  KeysInv'
    BY <2>3, SessionKeys DEF KeysInv
  <2>4. CASE (\E k \in Keys : RemoveByKey(k)) \/ Purge \/ PurgeEnds \/ MapFault \/ GetFault
    BY <2>4, PoolKeys DEF KeysInv
  <2> QED BY <1>1, <2>1, <2>2, <2>3, <2>4 DEF Next
<1>3. TypeOK /\ KeysInv => KeysLead
  <2> SUFFICES ASSUME TypeOK, KeysInv PROVE KeysAreListed /\ SoleOwnerIsFound
    BY DEF KeysLead
  <2>1. KeysAreListed
    <3> SUFFICES ASSUME had[Empty] = {}, NEW k \in Keys, keys[k] \notin raced,
                        keys[k] # Nobody
                 PROVE  keys[k] \in listed \cup {call[x].on : x \in Actors}
      BY DEF KeysAreListed
    <3>1. keys[k] \in Sessions
      BY DEF TypeOK
    <3>2. LeadsHere(keys[k])
      BY <3>1 DEF KeysInv, Led
    <3> QED BY <3>1, <3>2 DEF LeadsHere
  <2>2. SoleOwnerIsFound
    BY DEF TypeOK, KeysInv, Led, Leads, SoleOwnerIsFound
  <2> QED BY <2>1, <2>2
<1> QED BY <1>2, <1>3, InitKeys, TypeCorrect, WhoAlways, WhereAlways, PTL DEF Spec
=============================================================================
