----------------------- MODULE BrokersRequests_proofs -----------------------
(***************************************************************************)
(* Proofs about Brokers and Requests.                                      *)
(*                                                                         *)
(* The brokers have no lock, and what is proved of them is what holds as    *)
(* long as calls do not overlap.  A call is many steps all the same, the    *)
(* library closes connections and drops what is subscribed on them between  *)
(* any two of these, and a handler of nsq may be missing: Alone says what a *)
(* call that is in its middle can rely on, and Numbered what holds          *)
(* whatever overlaps.                                                       *)
(*                                                                         *)
(* The requests share fiber's contexts one after the other and the tracers' *)
(* providers; what a request has logged is related to the step it is at.    *)
(***************************************************************************)
EXTENDS Brokers, Requests, FiniteSetTheorems, SequenceTheorems, TLAPS

-----------------------------------------------------------------------------
(* The brokers: types, and what numbers stand for.                          *)

\* The call of c has become this; the others go on.
LEMMA GoesType ==
    ASSUME TypeOK, NEW c \in Callers, NEW new \in Calls, Goes(c, new)
    PROVE  /\ call' \in [Callers -> Calls]
           /\ call'[c] = new
           /\ \A d \in Callers \ {c} : call'[d] = call[d]
<1>1. call \in [Callers -> Calls]
  BY DEF TypeOK
<1> QED BY <1>1 DEF Goes

LEMMA NoCallType == NoCall \in Calls
BY BoundsAssumption DEF NoCall, Calls

\* A call of the type Calls, part by part.
LEMMA CallType ==
    ASSUME TypeOK, NEW c \in Callers
    PROVE  /\ call[c].job \in {"none", "connect", "disconnect"}
           /\ call[c].todo \subseteq Topics
           /\ call[c].at \in {"idle", "loop", "admitted", "made", "unmade", "publishing"}
           /\ call[c].topic \in Topics \cup {NoTopic}
           /\ call[c].sub \in 0..MaxSubs
<1>1. call[c] \in Calls
  BY DEF TypeOK
<1> QED BY <1>1 DEF Calls

\* The part of a call that deals with one topic ends.
LEMMA BackType ==
    ASSUME TypeOK, NEW c \in Callers, Back(c)
    PROVE  /\ call' \in [Callers -> Calls]
           /\ call'[c].at \in {"idle", "loop"}
           /\ \A d \in Callers \ {c} : call'[d] = call[d]
<1> DEFINE looping == [NoCall EXCEPT !.job = call[c].job, !.todo = call[c].todo, !.at = "loop"]
<1>1. looping \in Calls /\ looping.at = "loop"
  <2>1. call[c].job \in {"none", "connect", "disconnect"} /\ call[c].todo \in SUBSET Topics
    BY CallType
  <2> QED BY <2>1, NoCallType DEF Calls
<1>2. CASE call[c].job = "none"
  <2>1. Goes(c, NoCall)
    BY <1>2 DEF Back
  <2> QED BY <2>1, NoCallType, GoesType DEF NoCall
<1>3. CASE call[c].job # "none"
  <2>1. Goes(c, looping)
    <3>1. call' = [call EXCEPT ![c] = IF call[c].job = "none" THEN NoCall ELSE looping]
      BY Zenon DEF Back, Goes
    <3> QED BY <1>3, <3>1, Zenon DEF Goes
  <2> HIDE DEF looping
  <2> QED BY <1>1, <2>1, GoesType
<1> QED BY <1>2, <1>3

\* A call turns to topic t.
LEMMA GoesWithType ==
    ASSUME TypeOK, NEW c \in Callers, NEW t \in Topics, NEW at \in {"admitted", "unmade"},
           GoesWith(c, t, at)
    PROVE  /\ call' \in [Callers -> Calls]
           /\ call'[c].at = at /\ call'[c].topic = t
           /\ \A d \in Callers \ {c} : call'[d] = call[d]
<1> DEFINE new == [call[c] EXCEPT !.at = at, !.topic = t, !.todo = @ \ {t}]
<1>1. call[c] \in Calls
  BY DEF TypeOK
<1>2. new \in Calls
  <2>1. call[c].todo \ {t} \in SUBSET Topics
    BY CallType
  <2> QED BY <1>1, <2>1 DEF Calls
<1>3. new.at = at /\ new.topic = t
  BY <1>1 DEF Calls
<1>4. Goes(c, new)
  BY DEF GoesWith
<1> HIDE DEF new
<1> QED BY <1>2, <1>3, <1>4, GoesType

\* A call leaves topic t out.
LEMMA SkipsType ==
    ASSUME TypeOK, NEW c \in Callers, NEW t \in Topics, Skips(c, t)
    PROVE  /\ call' \in [Callers -> Calls]
           /\ call'[c].at = call[c].at
           /\ \A d \in Callers \ {c} : call'[d] = call[d]
<1> DEFINE new == [call[c] EXCEPT !.todo = @ \ {t}]
<1>1. call[c] \in Calls
  BY DEF TypeOK
<1>2. new \in Calls
  <2>1. call[c].todo \ {t} \in SUBSET Topics
    BY CallType
  <2> QED BY <1>1, <2>1 DEF Calls
<1>3. new.at = call[c].at
  BY <1>1 DEF Calls
<1>4. Goes(c, new)
  BY DEF Skips
<1> HIDE DEF new
<1> QED BY <1>2, <1>3, <1>4, GoesType

\* A subscription is one of its topic, and on a connection that was made unless it is a
\* consumer of nsq; what is live is on one that is not closed.
Numbered ==
    /\ \A c \in Callers :
          /\ call[c].at \in {"admitted", "made", "unmade"} => call[c].topic \in Topics
          /\ call[c].at = "made" => /\ call[c].sub \in DOMAIN made
                                    /\ made[call[c].sub].topic = call[c].topic
    /\ \A t \in Topics : subs[t] # 0 => made[subs[t]].topic = t
    /\ kind # "nsq" => /\ \A s \in DOMAIN made : made[s].on \in DOMAIN net
                       /\ \A s \in live : net[made[s].on] # "closed"
                   /\ draining = {}

-----------------------------------------------------------------------------
(* The brokers as long as calls do not overlap.                             *)

\* The subscription is one that the library has dropped with its connection.
WentWithConnection(s) == kind # "nsq" /\ net[made[s].on] = "closed"

\* What a call can rely on while no other has begun.
OneCaller ==
    /\ ~panicked
    /\ \A c, d \in Callers : ~Idle(c) /\ ~Idle(d) => c = d

CallIsSure(c) ==
    /\ call[c].at \in {"admitted", "made"} => subs[call[c].topic] = 0
    /\ call[c].at = "made" => /\ call[c].sub \in live \/ WentWithConnection(call[c].sub)
                              /\ call[c].sub \notin draining
    /\ call[c].at = "unmade" => subs[call[c].topic] \notin live
    /\ call[c].at = "publishing" => conn # 0

\* The map has every subscription that is live, or is about to.
LiveIsFound(s) ==
    \/ subs[made[s].topic] = s
    \/ \E c \in Callers : call[c].at = "made" /\ call[c].sub = s

\* What was told to stop has left the map, or is about to.
DrainsBeside(s) ==
    subs[made[s].topic] = s =>
        \E c \in Callers : call[c].at = "unmade" /\ call[c].topic = made[s].topic

\* What the map has of a topic is live, or went with its connection, or is about to leave.
SubIsExplained(t) ==
    \/ subs[t] = 0 \/ subs[t] \in live \/ WentWithConnection(subs[t])
    \/ \E c \in Callers : call[c].at = "unmade" /\ call[c].topic = t

\* Connections that brk.conn does not name are closed.
OthersAreClosed ==
    kind # "nsq" /\ ~replaced => \A n \in DOMAIN net : n # conn => net[n] = "closed"

Alone ==
    /\ OneCaller
    /\ \A c \in Callers : CallIsSure(c)
    /\ \A s \in live : LiveIsFound(s)
    /\ \A s \in draining : DrainsBeside(s)
    /\ \A t \in Topics : SubIsExplained(t)
    /\ OthersAreClosed

BrokerInv == TypeOK /\ Numbered /\ (~raced => Alone)

LEMMA InitBrokers == Init => BrokerInv
<1> SUFFICES ASSUME Init PROVE BrokerInv
  OBVIOUS
<1>1. TypeOK
  <2>1. call \in [Callers -> Calls]
    BY NoCallType DEF Init
  <2>2. /\ subs \in [Topics -> 0..Len(made)]
        /\ conn \in 0..Len(net)
    BY DEF Init
  <2>3. /\ net \in Seq({"up", "down", "closed"}) /\ Len(net) <= MaxConns
        /\ made \in Seq([topic : Topics, on : 0..MaxConns]) /\ Len(made) <= MaxSubs
    BY BoundsAssumption DEF Init
  <2> QED BY <2>1, <2>2, <2>3 DEF Init, TypeOK
<1>2. Numbered /\ Alone
  BY DEF Init, Numbered, Alone, OneCaller, CallIsSure, LiveIsFound, DrainsBeside,
         SubIsExplained, OthersAreClosed, NoCall, Idle
<1> QED BY <1>1, <1>2 DEF BrokerInv

\* A step of a call begins it or is one of its own, and as long as none have overlapped
\* all others are idle.
LEMMA OnlyCaller ==
    ASSUME BrokerInv, NEW c \in Callers, Step(c)
    PROVE  /\ raced' \in BOOLEAN
           /\ ~raced' => Alone /\ \A d \in Callers \ {c} : Idle(d)
<1>1. Begins(c) \/ (~Idle(c) /\ UNCHANGED raced)
  BY DEF Step, Connect, ConnectFails, ConnectEnds, Disconnect, DisconnectEnds, MakeSub,
         MakeSubFails, Record, Forget, PublishChecks, Publish, Handle, Admit, Refuse, Unmake,
         UnmakeNothing, Turns, Idle
<1> QED BY <1>1 DEF BrokerInv, TypeOK, Alone, OneCaller, Begins, Idle

\* The steps of a call that only look, and where it stands then.
Looks(c) ==
    \/ Disconnect(c) \/ ConnectEnds(c) \/ MakeSubFails(c) \/ PublishChecks(c) \/ Publish(c)
    \/ \E t \in Topics : Handle(c, t) \/ Admit(c, t) \/ Refuse(c, t) \/ UnmakeNothing(c, t)

Looked(c) ==
    /\ UNCHANGED <<kind, conn, net, subs, made, live, draining, ignored, replaced>>
    /\ call' \in [Callers -> Calls]
    /\ \A d \in Callers \ {c} : call'[d] = call[d]
    /\ call'[c].at = "admitted" => /\ call'[c].topic \in Topics
                                   /\ subs[call'[c].topic] = 0
    /\ call'[c].at = "publishing" => conn # 0
    /\ call'[c].at \notin {"made", "unmade"}
    /\ handlers' \subseteq Topics
    /\ panicked' \in BOOLEAN
    /\ panicked' => panicked \/ (call[c].at = "publishing" /\ conn = 0)

LEMMA LooksOn == ASSUME BrokerInv, NEW c \in Callers, Looks(c) PROVE Looked(c)
<1> USE DEF Looked, Goes
<1>0. /\ call \in [Callers -> Calls] /\ handlers \subseteq Topics
      /\ subs \in [Topics -> 0..Len(made)]
      /\ panicked \in BOOLEAN
      /\ TypeOK /\ call[c] \in Calls
  BY DEF BrokerInv, TypeOK
<1>a. NoCall.at = "idle"
  BY DEF NoCall
<1> HIDE DEF Goes
<1>1. CASE Disconnect(c)
  <2> DEFINE todo == IF kind = "nsq" THEN {t \in Topics : subs[t] # 0} ELSE handlers
  <2>1. todo \in SUBSET Topics
    BY <1>0
  <2> DEFINE new == [call[c] EXCEPT !.job = "disconnect", !.at = "loop", !.todo = todo]
  <2>2. Goes(c, new)
    BY <1>1, Zenon DEF Disconnect
  <2> HIDE DEF todo
  <2>3. new \in Calls
    BY <1>0, <2>1 DEF Calls
  <2>4. new.at = "loop"
    BY <1>0 DEF Calls
  <2> HIDE DEF new
  <2>5. /\ call'[c].at = "loop" /\ call' \in [Callers -> Calls]
        /\ \A d \in Callers \ {c} : call'[d] = call[d]
    BY <1>0, <2>2, <2>3, <2>4, GoesType
  <2> QED BY <1>0, <1>1, <2>5 DEF Disconnect
<1>2. CASE ConnectEnds(c)
  BY <1>0, <1>a, <1>2, NoCallType, GoesType DEF ConnectEnds
<1>3. CASE MakeSubFails(c)
  BY <1>3, <1>0, BackType DEF MakeSubFails, BrokerInv
<1>4. CASE PublishChecks(c)
  <2> DEFINE new == [call[c] EXCEPT !.at = "publishing"]
  <2>1. new \in Calls
    BY <1>0 DEF Calls
  <2>2. new.at = "publishing"
    BY <1>0 DEF Calls
  <2>3. Goes(c, new)
    BY <1>4 DEF PublishChecks
  <2> HIDE DEF new
  <2>4. /\ call'[c].at = "publishing" /\ call' \in [Callers -> Calls]
        /\ \A d \in Callers \ {c} : call'[d] = call[d]
    BY <1>0, <2>1, <2>2, <2>3, GoesType
  <2> QED BY <1>0, <1>4, <2>4 DEF PublishChecks
<1>5. CASE Publish(c)
  <2>1. /\ call'[c].at = "idle" /\ call' \in [Callers -> Calls]
        /\ \A d \in Callers \ {c} : call'[d] = call[d]
    BY <1>0, <1>a, <1>5, NoCallType, GoesType DEF Publish
  <2>2. panicked' = (conn = 0) /\ call[c].at = "publishing"
    BY <1>5 DEF Publish
  <2> QED BY <1>0, <1>5, <2>1, <2>2 DEF Publish
<1>6. ASSUME NEW t \in Topics, Handle(c, t) PROVE Looked(c)
  BY <1>0, <1>6 DEF Handle, Idle
<1>7. ASSUME NEW t \in Topics, Admit(c, t) PROVE Looked(c)
  <2>1. GoesWith(c, t, "admitted")
    BY <1>7 DEF Admit
  <2>2. /\ call'[c].at = "admitted" /\ call'[c].topic = t /\ call' \in [Callers -> Calls]
        /\ \A d \in Callers \ {c} : call'[d] = call[d]
    BY <1>0, <2>1, GoesWithType
  <2> QED BY <1>0, <1>7, <2>2 DEF Admit
<1>8. ASSUME NEW t \in Topics, Refuse(c, t) \/ UnmakeNothing(c, t) PROVE Looked(c)
  <2>1. Skips(c, t) /\ call[c].at = "loop"
    BY <1>8 DEF Refuse, UnmakeNothing
  <2>2. /\ call'[c].at = "loop" /\ call' \in [Callers -> Calls]
        /\ \A d \in Callers \ {c} : call'[d] = call[d]
    BY <1>0, <2>1, SkipsType
  <2> QED BY <1>0, <1>8, <2>2 DEF Refuse, UnmakeNothing
<1> QED BY <1>1, <1>2, <1>3, <1>4, <1>5, <1>6, <1>7, <1>8, Looks(c) DEF Looks

LEMMA LooksInv == ASSUME BrokerInv, NEW c \in Callers, Looks(c), Step(c) PROVE BrokerInv'
<1>0. Looked(c)
  BY LooksOn
<1>1. TypeOK'
  BY <1>0, OnlyCaller DEF Looked, BrokerInv, TypeOK
<1>2. Numbered'
  BY <1>0 DEF Looked, BrokerInv, TypeOK, Numbered
<1>3. ASSUME ~raced' PROVE Alone'
  <2>1. Alone /\ \A d \in Callers \ {c} : Idle(d)
    BY <1>3, OnlyCaller
  <2>2. call[c].at \notin {"made", "unmade"}
    BY DEF Looks, Disconnect, ConnectEnds, MakeSubFails, PublishChecks, Publish, Handle, Admit,
           Refuse, UnmakeNothing, Idle, Turns
  <2> QED BY <1>0, <2>1, <2>2
          DEF Looked, Alone, OneCaller, CallIsSure, LiveIsFound, DrainsBeside, SubIsExplained,
              OthersAreClosed, Idle, WentWithConnection
<1> QED BY <1>1, <1>2, <1>3 DEF BrokerInv

-----------------------------------------------------------------------------
(* The steps that dial, close and subscribe.                                *)

LEMMA KnownSubs ==
    ASSUME TypeOK, NEW t \in Topics PROVE subs[t] = 0 \/ subs[t] \in DOMAIN made
BY DEF TypeOK

LEMMA LiveSubs ==
    ASSUME TypeOK, NEW s \in live \cup draining PROVE s \in DOMAIN made /\ made[s].topic \in Topics
<1>1. s \in DOMAIN made /\ made \in Seq([topic : Topics, on : 0..MaxConns])
  BY DEF TypeOK
<1>2. made[s] \in [topic : Topics, on : 0..MaxConns]
  BY <1>1, LenProperties
<1> QED BY <1>1, <1>2

\* The library dials.
LEMMA DialsType ==
    ASSUME TypeOK, Dials
    PROVE  /\ net' \in Seq({"up", "down", "closed"}) /\ Len(net') <= MaxConns
           /\ Len(net') = Len(net) + 1 /\ DOMAIN net \subseteq DOMAIN net'
           /\ \A n \in DOMAIN net : net'[n] = net[n]
           /\ \A n \in DOMAIN net' \ DOMAIN net : n = Len(net) + 1
BY BoundsAssumption DEF TypeOK, Dials

LEMMA DialInv ==
    ASSUME BrokerInv, NEW c \in Callers, Connect(c) \/ ConnectFails(c)
    PROVE  BrokerInv'
<1>0. /\ call \in [Callers -> Calls] /\ handlers \subseteq Topics
      /\ TypeOK /\ Numbered
      /\ Step(c)
  BY DEF BrokerInv, TypeOK, Step
<1>1. Dials /\ UNCHANGED <<kind, handlers, subs, made, live, draining, panicked, ignored>>
  BY DEF Connect, ConnectFails
<1>2. /\ conn' \in {conn, Len(net) + 1} /\ replaced' \in BOOLEAN
      /\ call' \in [Callers -> Calls]
      /\ call[c].at = "idle" /\ call'[c].at \in {"idle", "loop"}
      /\ \A d \in Callers \ {c} : call'[d] = call[d]
  <2>1. CASE Connect(c)
    <3> DEFINE new == [call[c] EXCEPT !.job = "connect", !.at = "loop", !.todo = handlers]
    <3>1. call[c] \in Calls /\ handlers \in SUBSET Topics
      BY <1>0
    <3>2. new \in Calls
      BY <3>1 DEF Calls
    <3>3. new.at = "loop"
      BY <3>1 DEF Calls
    <3>4. Goes(c, new)
      BY <2>1 DEF Connect
    <3> HIDE DEF new
    <3>5. /\ call'[c].at = "loop" /\ call' \in [Callers -> Calls]
          /\ \A d \in Callers \ {c} : call'[d] = call[d]
      BY <1>0, <3>2, <3>3, <3>4, GoesType
    <3>6. /\ conn' = Len(net) + 1 /\ call[c].at = "idle"
          /\ replaced' = (replaced \/ (conn # 0 /\ net[conn] # "closed"))
      BY <2>1 DEF Connect, Idle
    <3>7. replaced' \in BOOLEAN
      BY <1>0, <3>6, Zenon DEF TypeOK
    <3> QED BY <3>5, <3>6, <3>7
  <2>2. CASE ConnectFails(c)
    BY <1>0, <2>2 DEF ConnectFails, Idle
  <2> QED BY <2>1, <2>2
<1>d. /\ net' \in Seq({"up", "down", "closed"}) /\ Len(net') <= MaxConns
      /\ Len(net') = Len(net) + 1 /\ DOMAIN net \subseteq DOMAIN net'
      /\ \A n \in DOMAIN net : net'[n] = net[n]
      /\ \A n \in DOMAIN net' \ DOMAIN net : n = Len(net) + 1
  BY <1>0, <1>1, DialsType
<1>3. TypeOK'
  <2>1. conn' \in 0..Len(net')
    <3>1. Len(net) \in Nat /\ conn \in 0..Len(net)
      BY <1>0 DEF TypeOK
    <3> QED BY <1>2, <1>d, <3>1
  <2>2. raced' \in BOOLEAN
    BY <1>0, OnlyCaller
  <2> QED BY <1>0, <1>1, <1>2, <1>d, <2>1, <2>2 DEF TypeOK
<1>4. Numbered'
  <2>1. \A d \in Callers :
           call'[d].at \in {"admitted", "made", "unmade"} => call'[d] = call[d]
    BY <1>2
  <2>2. live \subseteq DOMAIN made
    BY <1>0 DEF TypeOK
  <2> QED BY <1>0, <1>1, <1>d, <2>1, <2>2 DEF Numbered
<1>5. ASSUME ~raced' PROVE Alone'
  <2>1. Alone /\ \A d \in Callers \ {c} : Idle(d)
    BY <1>0, <1>5, OnlyCaller
  <2>2. OthersAreClosed'
    <3>1. CASE Connect(c)
      <4> SUFFICES ASSUME kind # "nsq", ~replaced', NEW n \in DOMAIN net', n # conn'
                   PROVE  net'[n] = "closed"
        BY <1>1 DEF OthersAreClosed
      <4>1. ~replaced /\ (conn = 0 \/ net[conn] = "closed") /\ conn' = Len(net) + 1
        BY <1>0, <3>1 DEF Connect, TypeOK
      <4>2. n \in DOMAIN net /\ net'[n] = net[n]
        BY <1>0, <1>1, <4>1, DialsType
      <4> QED BY <2>1, <4>1, <4>2 DEF Alone, OthersAreClosed
    <3>2. CASE ConnectFails(c)
      BY <3>2 DEF ConnectFails, OthersAreClosed
    <3> QED BY <3>1, <3>2
  <2>3. \A s \in DOMAIN made : WentWithConnection(s) => WentWithConnection(s)'
    BY <1>0, <1>1, DialsType DEF WentWithConnection, Numbered
  <2>4. OneCaller' /\ \A d \in Callers : CallIsSure(d)'
    BY <1>0, <1>1, <1>2, <2>1, <2>3 DEF Alone, OneCaller, CallIsSure, Idle, Numbered
  <2>5. /\ \A s \in live' : LiveIsFound(s)'
        /\ \A t \in Topics : SubIsExplained(t)'
    BY <1>0, <1>1, <1>2, <2>1, <2>3, KnownSubs DEF Alone, LiveIsFound, SubIsExplained, Idle
  <2>6. \A s \in draining' : DrainsBeside(s)'
    BY <1>1, <1>2, <2>1 DEF Alone, DrainsBeside, Idle
  <2> QED BY <2>2, <2>4, <2>5, <2>6 DEF Alone
<1> QED BY <1>3, <1>4, <1>5 DEF BrokerInv

LEMMA DisconnectEndsInv ==
    ASSUME BrokerInv, NEW c \in Callers, DisconnectEnds(c)
    PROVE  BrokerInv'
<1>0. TypeOK /\ Numbered /\ Step(c)
  BY DEF BrokerInv, Step
<1>1. /\ UNCHANGED <<kind, handlers, subs, made, draining, panicked, ignored, raced, replaced>>
      /\ conn' = 0 /\ call[c].at = "loop"
      /\ call' \in [Callers -> Calls] /\ call'[c].at = "idle"
      /\ \A d \in Callers \ {c} : call'[d] = call[d]
  <2>1. Goes(c, NoCall) /\ NoCall.at = "idle"
    BY DEF DisconnectEnds, NoCall
  <2> QED BY <1>0, <2>1, GoesType, NoCallType DEF DisconnectEnds
<1>2. /\ net' \in Seq({"up", "down", "closed"}) /\ Len(net') = Len(net)
      /\ DOMAIN net' = DOMAIN net
      /\ \A n \in DOMAIN net : net'[n] = IF n = conn THEN "closed" ELSE net[n]
  <2>1. /\ net \in Seq({"up", "down", "closed"})
        /\ net' = [n \in DOMAIN net |-> IF n = conn THEN "closed" ELSE net[n]]
    BY <1>0 DEF DisconnectEnds, TypeOK
  <2>2. net' \in [1..Len(net) -> {"up", "down", "closed"}] /\ Len(net) \in Nat
    BY <2>1
  <2>3. net' \in Seq({"up", "down", "closed"})
    BY <2>2, SeqDef
  <2> QED BY <2>1, <2>2, <2>3, LenProperties
<1>3. live' = {s \in live : kind = "nsq" \/ made[s].on # conn}
  BY DEF DisconnectEnds
<1>4. TypeOK'
  <2>1. conn' \in 0..Len(net')
    BY <1>0, <1>1, <1>2 DEF TypeOK
  <2>2. live' \subseteq DOMAIN made
    BY <1>0, <1>3 DEF TypeOK
  <2> QED BY <1>0, <1>1, <1>2, <2>1, <2>2 DEF TypeOK
<1>5. Numbered'
  <2>1. \A d \in Callers :
           call'[d].at \in {"admitted", "made", "unmade"} => call'[d] = call[d]
    BY <1>1
  <2>2. kind # "nsq" => \A s \in live' : s \in live /\ made[s].on # conn
    BY <1>3
  <2>3. live \subseteq DOMAIN made
    BY <1>0 DEF TypeOK
  <2> QED BY <1>0, <1>1, <1>2, <2>1, <2>2, <2>3 DEF Numbered
<1>6. ASSUME ~raced' PROVE Alone'
  <2>1. Alone /\ \A d \in Callers \ {c} : Idle(d)
    BY <1>0, <1>6, OnlyCaller
  <2>2. \A s \in DOMAIN made : /\ WentWithConnection(s) => WentWithConnection(s)'
                               /\ s \in live \ live' => WentWithConnection(s)'
    BY <1>0, <1>1, <1>2, <1>3 DEF WentWithConnection, Numbered
  <2>3. OneCaller' /\ OthersAreClosed'
    BY <1>0, <1>1, <1>2, <2>1 DEF Alone, OneCaller, OthersAreClosed, Idle
  <2>4. \A d \in Callers : CallIsSure(d)'
    BY <1>0, <1>1, <1>3, <2>1, <2>2 DEF Alone, CallIsSure, Idle, Numbered
  <2>5. \A s \in live' : LiveIsFound(s)'
    BY <1>0, <1>1, <1>3, <2>1 DEF Alone, LiveIsFound, Idle
  <2>6. \A t \in Topics : SubIsExplained(t)'
    BY <1>0, <1>1, <2>1, <2>2, KnownSubs DEF Alone, SubIsExplained, Idle
  <2>7. \A s \in draining' : DrainsBeside(s)'
    BY <1>1, <2>1 DEF Alone, DrainsBeside, Idle
  <2> QED BY <2>3, <2>4, <2>5, <2>6, <2>7 DEF Alone
<1> QED BY <1>4, <1>5, <1>6 DEF BrokerInv

LEMMA NetChangesInv ==
    ASSUME BrokerInv, NEW n \in DOMAIN net, NEW to \in {"up", "down", "closed"},
           NetChanges(n, to)
    PROVE  BrokerInv'
<1>0. TypeOK /\ Numbered
  BY DEF BrokerInv
<1>1. UNCHANGED <<kind, handlers, conn, subs, made, draining, call, panicked, ignored, raced,
                 replaced>>
  BY DEF NetChanges
<1>2. /\ net' \in Seq({"up", "down", "closed"}) /\ Len(net') = Len(net)
      /\ DOMAIN net' = DOMAIN net
      /\ \A m \in DOMAIN net : net'[m] = IF m = n THEN to ELSE net[m]
      /\ net[n] # "closed"
  BY <1>0 DEF NetChanges, TypeOK
<1>3. live' = {s \in live : to # "closed" \/ made[s].on # n}
  BY DEF NetChanges
<1>4. TypeOK'
  BY <1>0, <1>1, <1>2, <1>3 DEF TypeOK
<1>5. Numbered'
  BY <1>0, <1>1, <1>2, <1>3 DEF TypeOK, Numbered
<1>6. ASSUME ~raced' PROVE Alone'
  <2>1. Alone
    BY <1>1, <1>6 DEF BrokerInv
  <2>2. \A s \in DOMAIN made : /\ WentWithConnection(s) => WentWithConnection(s)'
                               /\ s \in live \ live' => WentWithConnection(s)'
    BY <1>0, <1>1, <1>2, <1>3 DEF WentWithConnection, Numbered, NetChanges
  <2>3. OneCaller' /\ OthersAreClosed'
    BY <1>0, <1>1, <1>2, <2>1 DEF Alone, OneCaller, OthersAreClosed, Idle
  <2>4. \A d \in Callers : CallIsSure(d)'
    BY <1>0, <1>1, <1>3, <2>1, <2>2 DEF Alone, CallIsSure, Idle, Numbered
  <2>5. \A s \in live' : LiveIsFound(s)'
    BY <1>0, <1>1, <1>3, <2>1 DEF Alone, LiveIsFound, Idle
  <2>6. \A t \in Topics : SubIsExplained(t)'
    BY <1>0, <1>1, <2>1, <2>2, KnownSubs DEF Alone, SubIsExplained, Idle
  <2>7. \A s \in draining' : DrainsBeside(s)'
    BY <1>1, <2>1 DEF Alone, DrainsBeside, Idle
  <2> QED BY <2>3, <2>4, <2>5, <2>6, <2>7 DEF Alone
<1> QED BY <1>4, <1>5, <1>6 DEF BrokerInv

LEMMA MakeSubInv == ASSUME BrokerInv, NEW c \in Callers, MakeSub(c) PROVE BrokerInv'
<1> DEFINE new == Len(made) + 1
<1>0. /\ TypeOK /\ Numbered /\ Step(c)
      /\ call[c].topic \in Topics /\ call[c].at = "admitted"
  BY DEF BrokerInv, Step, MakeSub, Numbered
<1>1. UNCHANGED <<kind, handlers, conn, net, subs, draining, panicked, ignored, raced, replaced>>
  BY DEF MakeSub
<1>2. /\ made' \in Seq([topic : Topics, on : 0..MaxConns])
      /\ Len(made') = new /\ new <= MaxSubs
      /\ new \in DOMAIN made' /\ made'[new] = [topic |-> call[c].topic, on |-> conn]
      /\ DOMAIN made' = DOMAIN made \cup {new} /\ new \notin DOMAIN made
      /\ \A s \in DOMAIN made : made'[s] = made[s]
  <2>1. conn \in 0..MaxConns /\ Len(net) <= MaxConns
    BY <1>0, BoundsAssumption DEF TypeOK
  <2> DEFINE it == [topic |-> call[c].topic, on |-> conn]
  <2>2. it \in [topic : Topics, on : 0..MaxConns]
    BY <1>0, <2>1
  <2>3. /\ made \in Seq([topic : Topics, on : 0..MaxConns]) /\ Len(made) < MaxSubs
        /\ made' = Append(made, it)
    BY <1>0 DEF MakeSub, TypeOK
  <2> HIDE DEF it
  <2>4. /\ made' \in Seq([topic : Topics, on : 0..MaxConns])
        /\ Len(made') = new /\ made'[new] = it
        /\ \A s \in DOMAIN made : made'[s] = made[s]
    BY <2>2, <2>3
  <2>5. new <= MaxSubs /\ new \in Nat /\ Len(made) \in Nat
    BY <2>3, BoundsAssumption
  <2>6. DOMAIN made' = 1..new /\ DOMAIN made = 1..Len(made)
    BY <2>3, <2>4
  <2>7. /\ new \in DOMAIN made' /\ new \notin DOMAIN made
        /\ DOMAIN made' = DOMAIN made \cup {new}
    BY <2>5, <2>6
  <2> QED BY <2>4, <2>5, <2>7 DEF it
<1>3. live' = live \cup {new}
  BY DEF MakeSub
<1>4. /\ call' \in [Callers -> Calls]
      /\ call'[c].at = "made" /\ call'[c].sub = new /\ call'[c].topic = call[c].topic
      /\ \A d \in Callers \ {c} : call'[d] = call[d]
  <2>1. new \in 0..MaxSubs
    BY <1>0, <1>2, BoundsAssumption DEF TypeOK
  <2>2. call[c] \in Calls
    BY <1>0 DEF TypeOK
  <2> DEFINE it == [call[c] EXCEPT !.at = "made", !.sub = new]
  <2>3. Goes(c, it)
    BY DEF MakeSub
  <2> HIDE DEF new
  <2>4. it \in Calls
    BY <2>1, <2>2 DEF Calls
  <2>5. it.at = "made" /\ it.sub = new /\ it.topic = call[c].topic
    BY <2>2 DEF Calls
  <2> HIDE DEF it
  <2> QED BY <1>0, <2>3, <2>4, <2>5, GoesType
<1>5. kind # "nsq" => conn \in DOMAIN net /\ net[conn] # "closed"
  BY <1>0 DEF MakeSub, TypeOK
<1> HIDE DEF new
<1>6. TypeOK'
  <2>1. subs' \in [Topics -> 0..Len(made')]
    BY <1>0, <1>1, <1>2 DEF TypeOK, new
  <2> QED BY <1>0, <1>1, <1>2, <1>3, <1>4, <2>1 DEF TypeOK
<1>7. Numbered'
  <2>1. \A d \in Callers :
           /\ call'[d].at \in {"admitted", "made", "unmade"} => call'[d].topic \in Topics
           /\ call'[d].at = "made" => /\ call'[d].sub \in DOMAIN made'
                                      /\ made'[call'[d].sub].topic = call'[d].topic
    BY <1>0, <1>2, <1>4 DEF Numbered
  <2>2. \A t \in Topics : subs'[t] # 0 => made'[subs'[t]].topic = t
    BY <1>0, <1>1, <1>2, KnownSubs DEF Numbered
  <2>3. kind' # "nsq" => /\ \A s \in DOMAIN made' : made'[s].on \in DOMAIN net'
                         /\ \A s \in live' : net'[made'[s].on] # "closed"
                         /\ draining' = {}
    <3>1. \A s \in DOMAIN made' : s \in DOMAIN made \/ s = new
      BY <1>2
    <3>2. \A s \in live' : s \in live \/ s = new
      BY <1>3
    <3>3. \A s \in live : s \in DOMAIN made
      BY <1>0 DEF TypeOK
    <3> QED BY <1>0, <1>1, <1>2, <1>5, <3>1, <3>2, <3>3 DEF Numbered
  <2> QED BY <2>1, <2>2, <2>3 DEF Numbered
<1>8. ASSUME ~raced' PROVE Alone'
  <2>1. Alone /\ \A d \in Callers \ {c} : Idle(d)
    BY <1>0, <1>8, OnlyCaller
  <2>2. \A s \in DOMAIN made : WentWithConnection(s) => WentWithConnection(s)'
    BY <1>1, <1>2 DEF WentWithConnection
  <2>3. OneCaller' /\ OthersAreClosed'
    BY <1>1, <1>4, <2>1 DEF Alone, OneCaller, OthersAreClosed, Idle
  <2>4. \A d \in Callers : CallIsSure(d)'
    <3>1. new \notin draining
      BY <1>0, <1>2 DEF TypeOK
    <3> QED BY <1>0, <1>1, <1>3, <1>4, <2>1, <3>1 DEF Alone, CallIsSure, Idle
  <2>5. \A s \in live' : LiveIsFound(s)'
    <3> SUFFICES ASSUME NEW s \in live' PROVE LiveIsFound(s)'
      OBVIOUS
    <3>1. CASE s = new
      BY <1>4, <3>1 DEF LiveIsFound
    <3>2. CASE s # new
      <4>1. s \in live /\ s \in DOMAIN made
        BY <1>0, <1>3, <3>2 DEF TypeOK
      <4>2. \A d \in Callers : call[d].at # "made"
        BY <1>0, <2>1 DEF Idle
      <4>3. subs[made[s].topic] = s
        BY <2>1, <4>1, <4>2 DEF Alone, LiveIsFound
      <4> QED BY <1>1, <1>2, <4>1, <4>3 DEF LiveIsFound
    <3> QED BY <3>1, <3>2
  <2>6. \A t \in Topics : SubIsExplained(t)'
    BY <1>0, <1>1, <1>3, <2>1, <2>2, KnownSubs DEF Alone, SubIsExplained, Idle
  <2>7. \A s \in draining' : DrainsBeside(s)'
    <3> SUFFICES ASSUME NEW s \in draining, subs[made[s].topic] = s PROVE FALSE
      BY <1>0, <1>1, <1>2 DEF DrainsBeside, TypeOK
    <3> QED BY <1>0, <2>1 DEF Alone, DrainsBeside, Idle
  <2> QED BY <2>3, <2>4, <2>5, <2>6, <2>7 DEF Alone
<1> QED BY <1>6, <1>7, <1>8 DEF BrokerInv

LEMMA RecordInv == ASSUME BrokerInv, NEW c \in Callers, Record(c) PROVE BrokerInv'
<1> DEFINE t == call[c].topic
<1>0. /\ TypeOK /\ Numbered /\ Step(c)
      /\ t \in Topics /\ call[c].at = "made"
      /\ call[c].sub \in DOMAIN made /\ made[call[c].sub].topic = t
  BY DEF BrokerInv, Step, Record, Numbered
<1>1. /\ UNCHANGED <<kind, handlers, conn, net, made, live, draining, panicked, ignored, raced,
                   replaced>>
      /\ subs' = [subs EXCEPT ![t] = call[c].sub]
  BY DEF Record
<1>2. /\ call' \in [Callers -> Calls]
      /\ call'[c].at \in {"idle", "loop"}
      /\ \A d \in Callers \ {c} : call'[d] = call[d]
  BY <1>0, BackType DEF Record
<1>3. /\ subs' \in [Topics -> 0..Len(made)]
      /\ \A u \in Topics : subs'[u] = IF u = t THEN call[c].sub ELSE subs[u]
  BY <1>0, <1>1 DEF TypeOK
<1> HIDE DEF t
<1>4. TypeOK'
  BY <1>0, <1>1, <1>2, <1>3 DEF TypeOK
<1>5. Numbered'
  BY <1>0, <1>1, <1>2, <1>3 DEF Numbered
<1>6. ASSUME ~raced' PROVE Alone'
  <2>1. Alone /\ \A d \in Callers \ {c} : Idle(d)
    BY <1>0, <1>6, OnlyCaller
  <2>2. subs[t] = 0
    BY <1>0, <2>1 DEF Alone, CallIsSure, t
  <2>3. OneCaller' /\ OthersAreClosed'
    BY <1>1, <1>2, <2>1 DEF Alone, OneCaller, OthersAreClosed, Idle
  <2>4. \A d \in Callers : CallIsSure(d)'
    BY <1>2, <2>1 DEF CallIsSure, Idle
  <2>5. \A s \in live' : LiveIsFound(s)'
    <3> SUFFICES ASSUME NEW s \in live PROVE subs'[made[s].topic] = s
      BY <1>1 DEF LiveIsFound
    <3>1. s \in DOMAIN made /\ made[s].topic \in Topics
      BY <1>0, LiveSubs
    <3>2. s # 0
      BY <1>0, <3>1 DEF TypeOK
    <3>3. subs[made[s].topic] = s \/ s = call[c].sub
      BY <2>1 DEF Alone, LiveIsFound, Idle
    <3> QED BY <1>0, <1>3, <2>2, <3>1, <3>2, <3>3
  <2>6. \A u \in Topics : SubIsExplained(u)'
    BY <1>0, <1>1, <1>3, <2>1 DEF Alone, SubIsExplained, CallIsSure, Idle, WentWithConnection
  <2>7. \A s \in draining' : DrainsBeside(s)'
    <3> SUFFICES ASSUME NEW s \in draining PROVE subs'[made[s].topic] # s
      BY <1>1 DEF DrainsBeside
    <3>1. made[s].topic \in Topics
      BY <1>0, LiveSubs
    <3>2. s # call[c].sub /\ subs[made[s].topic] # s
      BY <1>0, <2>1 DEF Alone, CallIsSure, DrainsBeside, Idle
    <3> QED BY <1>3, <3>1, <3>2
  <2> QED BY <2>3, <2>4, <2>5, <2>6, <2>7 DEF Alone
<1> QED BY <1>4, <1>5, <1>6 DEF BrokerInv

LEMMA UnmakeInv ==
    ASSUME BrokerInv, NEW c \in Callers, NEW t \in Topics, Unmake(c, t)
    PROVE  BrokerInv'
<1>0. /\ TypeOK /\ Numbered /\ Step(c)
      /\ call[c].at \in {"idle", "loop"}
  BY DEF BrokerInv, Step, Unmake, Turns, Idle
<1>1. /\ UNCHANGED <<kind, handlers, conn, net, subs, made, panicked, ignored, replaced>>
      /\ live' = live \ {subs[t]}
      /\ draining' = IF kind = "nsq" THEN draining \cup (live \cap {subs[t]}) ELSE draining
  BY DEF Unmake
<1>2. /\ call' \in [Callers -> Calls]
      /\ call'[c].at = "unmade" /\ call'[c].topic = t
      /\ \A d \in Callers \ {c} : call'[d] = call[d]
  <2>1. GoesWith(c, t, "unmade")
    BY DEF Unmake
  <2> QED BY <1>0, <2>1, GoesWithType
<1>3. TypeOK'
  BY <1>0, <1>1, <1>2, OnlyCaller DEF TypeOK
<1>4. Numbered'
  BY <1>0, <1>1, <1>2 DEF Numbered
<1>5. ASSUME ~raced' PROVE Alone'
  <2>1. Alone /\ \A d \in Callers \ {c} : Idle(d)
    BY <1>0, <1>5, OnlyCaller
  <2>2. OneCaller' /\ OthersAreClosed'
    BY <1>1, <1>2, <2>1 DEF Alone, OneCaller, OthersAreClosed, Idle
  <2>3. \A d \in Callers : CallIsSure(d)'
    BY <1>1, <1>2, <2>1 DEF CallIsSure, Idle
  <2>4. \A s \in live' : LiveIsFound(s)'
    BY <1>0, <1>1, <1>2, <2>1 DEF Alone, LiveIsFound, Idle
  <2>5. \A u \in Topics : SubIsExplained(u)'
    <3> SUFFICES ASSUME NEW u \in Topics, u # t PROVE SubIsExplained(u)'
      BY <1>2 DEF SubIsExplained
    <3>1. subs[u] = 0 \/ subs[u] # subs[t]
      BY <1>0 DEF Numbered, Unmake
    <3>2. subs[u] = 0 \/ subs[u] \in live \/ WentWithConnection(subs[u])
      BY <1>0, <2>1 DEF Alone, SubIsExplained, Idle
    <3> QED BY <1>1, <3>1, <3>2 DEF SubIsExplained, WentWithConnection
  <2>6. \A s \in draining' : DrainsBeside(s)'
    <3>1. \A s \in draining' : s \in draining \/ (s = subs[t] /\ s \in live)
      BY <1>1
    <3>2. ASSUME NEW s \in draining PROVE subs[made[s].topic] # s
      BY <1>0, <2>1 DEF Alone, DrainsBeside, Idle
    <3>3. ASSUME subs[t] \in live PROVE made[subs[t]].topic = t
      BY <1>0 DEF Numbered, Unmake
    <3> QED BY <1>1, <1>2, <3>1, <3>2, <3>3 DEF DrainsBeside
  <2> QED BY <2>2, <2>3, <2>4, <2>5, <2>6 DEF Alone
<1> QED BY <1>3, <1>4, <1>5 DEF BrokerInv

LEMMA ForgetInv == ASSUME BrokerInv, NEW c \in Callers, Forget(c) PROVE BrokerInv'
<1> DEFINE t == call[c].topic
<1>0. /\ TypeOK /\ Numbered /\ Step(c)
      /\ t \in Topics /\ call[c].at = "unmade"
  BY DEF BrokerInv, Step, Forget, Numbered
<1>1. /\ UNCHANGED <<kind, handlers, conn, net, made, live, draining, panicked, ignored, raced,
                   replaced>>
      /\ subs' = [subs EXCEPT ![t] = 0]
  BY DEF Forget
<1>2. /\ call' \in [Callers -> Calls]
      /\ call'[c].at \in {"idle", "loop"}
      /\ \A d \in Callers \ {c} : call'[d] = call[d]
  BY <1>0, BackType DEF Forget
<1>3. /\ subs' \in [Topics -> 0..Len(made)]
      /\ \A u \in Topics : subs'[u] = IF u = t THEN 0 ELSE subs[u]
  BY <1>0, <1>1 DEF TypeOK
<1>4. TypeOK'
  BY <1>0, <1>1, <1>2, <1>3 DEF TypeOK
<1>5. Numbered'
  BY <1>0, <1>1, <1>2, <1>3 DEF Numbered
<1>6. ASSUME ~raced' PROVE Alone'
  <2>1. Alone /\ \A d \in Callers \ {c} : Idle(d)
    BY <1>0, <1>6, OnlyCaller
  <2>2. subs[t] \notin live
    BY <1>0, <2>1 DEF Alone, CallIsSure
  <2> HIDE DEF t
  <2>3. OneCaller' /\ OthersAreClosed'
    BY <1>1, <1>2, <2>1 DEF Alone, OneCaller, OthersAreClosed, Idle
  <2>4. \A d \in Callers : CallIsSure(d)'
    BY <1>2, <2>1 DEF CallIsSure, Idle
  <2>5. \A s \in live' : LiveIsFound(s)'
    <3> SUFFICES ASSUME NEW s \in live PROVE subs'[made[s].topic] = s
      BY <1>1 DEF LiveIsFound
    <3>1. made[s].topic \in Topics
      BY <1>0, LiveSubs
    <3>2. subs[made[s].topic] = s
      BY <1>0, <2>1 DEF Alone, LiveIsFound, Idle
    <3> QED BY <1>3, <2>2, <3>1, <3>2
  <2>6. \A u \in Topics : SubIsExplained(u)'
    BY <1>0, <1>1, <1>3, <2>1 DEF Alone, SubIsExplained, Idle, WentWithConnection, t
  <2>7. \A s \in draining' : DrainsBeside(s)'
    <3> SUFFICES ASSUME NEW s \in draining PROVE subs'[made[s].topic] # s
      BY <1>1 DEF DrainsBeside
    <3>1. made[s].topic \in Topics
      BY <1>0, LiveSubs
    <3>2. s # 0
      BY <1>0 DEF TypeOK
    <3>3. ASSUME subs[made[s].topic] = s PROVE made[s].topic = t
      <4>1. PICK d \in Callers : call[d].at = "unmade" /\ call[d].topic = made[s].topic
        BY <2>1, <3>3 DEF Alone, DrainsBeside
      <4>2. d = c
        BY <2>1, <4>1 DEF Idle
      <4> QED BY <4>1, <4>2 DEF t
    <3> QED BY <1>3, <3>1, <3>2, <3>3
  <2> QED BY <2>3, <2>4, <2>5, <2>6, <2>7 DEF Alone
<1> QED BY <1>4, <1>5, <1>6 DEF BrokerInv

LEMMA DropInv ==
    ASSUME BrokerInv, NEW s \in live \cup draining, Drop(s) \/ Drained(s)
    PROVE  BrokerInv'
<1>1. /\ UNCHANGED <<kind, handlers, conn, net, subs, made, live, call, panicked, raced, replaced>>
      /\ draining' \subseteq draining
      /\ ignored' \in BOOLEAN
  BY DEF Drop, Drained, BrokerInv, TypeOK
<1>2. TypeOK'
  BY <1>1 DEF BrokerInv, TypeOK
<1>3. Numbered' /\ (~raced' => Alone')
  BY <1>1 DEF BrokerInv, Numbered, Alone, OneCaller, CallIsSure, LiveIsFound, DrainsBeside,
              SubIsExplained, OthersAreClosed, Idle, WentWithConnection
<1> QED BY <1>2, <1>3 DEF BrokerInv

LEMMA BrokerInvAlways == Spec => []BrokerInv
<1>1. BrokerInv /\ UNCHANGED vars => BrokerInv'
  BY DEF vars, BrokerInv, TypeOK, Numbered, Alone, OneCaller, CallIsSure, LiveIsFound,
         DrainsBeside, SubIsExplained, OthersAreClosed, Idle, WentWithConnection
<1>2. ASSUME BrokerInv, NEW c \in Callers, Step(c) PROVE BrokerInv'
  BY <1>2, LooksInv, DialInv, DisconnectEndsInv, MakeSubInv, RecordInv, UnmakeInv, ForgetInv
     DEF Step, Looks
<1>3. BrokerInv /\ [Next]_vars => BrokerInv'
  BY <1>1, <1>2, NetChangesInv, DropInv DEF Next
<1> QED BY <1>3, InitBrokers, PTL DEF Spec

\* The brokers are well typed: what the map has is a subscription that was made, and the
\* connection one that was.
THEOREM BrokersTypeCorrect == Spec => []TypeOK
<1>1. BrokerInv => TypeOK
  BY DEF BrokerInv
<1> QED BY <1>1, BrokerInvAlways, PTL

\* As long as calls do not overlap, each subscription that goes on delivering is in the map
\* or about to be, and one that was told to stop, a consumer of nsq, has left it or is about
\* to: for any number of topics, reconnections and calls, whatever the library closes in
\* between (Subscribe, Connect and Unsubscribe of the three brokers).
THEOREM LiveAreRecorded == Spec => []LiveIsRecorded
<1>1. BrokerInv => LiveIsRecorded
  BY DEF BrokerInv, Numbered, Alone, LiveIsFound, DrainsBeside, LiveIsRecorded
<1> QED BY <1>1, BrokerInvAlways, PTL

\* A subscription that no longer delivers stays in the map only if the library closed the
\* connection it was made on, never with nsq (Disconnect, Subscribe and Unsubscribe).
THEOREM DeadLostTheirConnection == Spec => []DeadHadItsConnectionClosed
<1>1. BrokerInv => DeadHadItsConnectionClosed
  BY DEF BrokerInv, Alone, SubIsExplained, DeadHadItsConnectionClosed, WentWithConnection,
         AllIdle, Idle
<1> QED BY <1>1, BrokerInvAlways, PTL

\* After Disconnect nothing of nats and jetstream delivers or is open, and Publish finds its
\* connection, as long as calls do not overlap (Disconnect, Publish).
THEOREM DisconnectsAreSafe == Spec => []DisconnectIsSafe
<1>1. BrokerInv => DisconnectedIsQuiet
  <2> SUFFICES ASSUME BrokerInv, kind # "nsq", conn = 0, ~raced, ~replaced
               PROVE  live = {} /\ \A n \in DOMAIN net : net[n] = "closed"
    BY DEF DisconnectedIsQuiet
  <2>1. \A n \in DOMAIN net : net[n] = "closed"
    BY DEF BrokerInv, Alone, OthersAreClosed, TypeOK
  <2>2. \A s \in live : s \in DOMAIN made
    BY DEF BrokerInv, TypeOK
  <2> QED BY <2>1, <2>2 DEF BrokerInv, Numbered
<1>2. BrokerInv => PanicOnlyInRace
  BY DEF BrokerInv, Alone, OneCaller, PanicOnlyInRace, TypeOK
<1>3. BrokerInv => DisconnectIsSafe
  BY <1>1, <1>2 DEF DisconnectIsSafe
<1> QED BY <1>3, BrokerInvAlways, PTL

-----------------------------------------------------------------------------
(* Requests: what the invariants are.                                       *)

\* What a request was given is in place: it was let in once all that makes spans was made,
\* and what the handler and the access logger have is what the middleware makes of it.
Entered ==
    \A r \in Requests : IF stage[r] = "waiting" THEN rpc[r] = "none" ELSE
        /\ \A m \in Makers : captured[m] # Unmade
        /\ in[r] \in Contexts /\ holds[in[r]] \in Requests
        /\ out[r] = Chain(r).out /\ logging[r] = Chain(r).logging

\* A context is that of the request that is in it until that is answered.
ContextsAreOwn ==
    \A r \in Requests : stage[r] \notin {"waiting", "answered"} => holds[in[r]] = r

\* What an identifier of a request says while it is in its context.
Own(r, f) == IF Chain(r).out[f] = Header THEN <<"caller", r>> ELSE Chain(r).out[f]

\* What a log line shows of its request: what that was given; a late line of the gRPC server
\* may show something else for a header.
LineIsOwn(l) ==
    /\ stage[l.of] # "waiting"
    /\ l.hop = 1 => ~l.late /\ \A f \in Fields : l.ids[f] = Own(l.of, f)
    /\ l.hop = 2 =>
          /\ l.ids["span"] = None
          /\ l.ids["parent"] = Own(l.of, "span")
          /\ \A f \in {"request", "trace"} :
                l.ids[f] = Own(l.of, f) \/ (l.late /\ Chain(l.of).out[f] = Header)

\* The lines of the access log for a request.
AccessLines(r) == {l \in lines : l.hop = 1 /\ l.of = r}

\* How far the error and the log line of a request are at every stage.
Logged(r) ==
    IF outcome[r] = "panic" THEN AccessLines(r) = {}
    ELSE \E l \in lines : AccessLines(r) = {l} /\ (l.failed <=> outcome[r] = "error")

Progress(r) ==
    /\ stage[r] \in {"waiting", "handling"} =>
          ~failing[r] /\ handled[r] = 0 /\ AccessLines(r) = {}
    /\ stage[r] = "returned" =>
          /\ failing[r] = (outcome[r] # "ok") /\ handled[r] = 0 /\ AccessLines(r) = {}
          /\ outcome[r] # "none"
    /\ stage[r] = "logged" =>
          /\ failing[r] = (outcome[r] = "panic")
          /\ handled[r] = IF outcome[r] = "error" THEN 1 ELSE 0
          /\ Logged(r) /\ outcome[r] # "none"
    /\ stage[r] = "answered" =>
          /\ ~failing[r]
          /\ handled[r] = IF outcome[r] = "ok" THEN 0 ELSE 1
          /\ Logged(r) /\ outcome[r] # "none"

\* Who was given a tracer was given one that came up.
TracersHaveRun ==
    LET ran == {t \in Providers : tracer[t] \in {"up", "stopped", "broken"}} IN
    /\ default \in ran \cup {Nothing}
    /\ \A m \in Makers : captured[m] \in ran \cup {Nothing, Unmade}

\* What becomes of one span, if `spans' is what has become of each: only what has got a
\* tracer has spans, and the rest is SpansAreKept.
KeptIn(s, spans) ==
    LET t == captured[s[1]] IN
    /\ spans[s] # "none" => t \in Providers
    /\ spans[s] = "queued" => tracer[t] = "up"
    /\ spans[s] = "late" => tracer[t] \in {"stopped", "broken"}
    /\ spans[s] = "lost" => exited \/ tracer[t] = "broken" \/ t \in refused

Fits(t, spans) ==
    IsFiniteSet(Queue(t, spans)) /\ Cardinality(Queue(t, spans)) <= QueueSize

WellKept(spans) ==
    /\ \A s \in Spans : KeptIn(s, spans)
    /\ \A t \in Providers : Fits(t, spans)

ClosedWithRequest(r) == stage[r] = "answered" => span[<<"fiber", r>>] # "open"

RequestInv ==
    /\ RequestsTypeOK /\ Entered /\ ContextsAreOwn
    /\ \A l \in lines : LineIsOwn(l)
    /\ \A r \in Requests : Progress(r)
    /\ TracersHaveRun /\ WellKept(span)
    /\ \A r \in Requests : ClosedWithRequest(r)
-----------------------------------------------------------------------------
(* Requests: what the middleware makes, and types.                          *)

\* Whose trace it is: with a tracer one of the request's own.
TraceOf(r) ==
    IF Traced("fiber")
    THEN <<IF {"trace", "span"} \subseteq sent[r] THEN "caller" ELSE "fiber", r>>
    ELSE Get(r, "trace")

\* The middleware gives the handler and the access logger the same identifiers.
LEMMA ChainGives ==
    ASSUME NEW r \in Requests
    PROVE  /\ Chain(r).out = [f \in Fields |->
                 CASE f = "request" -> IF "request" \in sent[r] THEN Header ELSE <<"fiber", r>>
                   [] f = "trace" -> TraceOf(r)
                   [] f = "span" -> <<"fiber", r>>
                   [] f = "parent" -> Get(r, "span")]
           /\ Chain(r).logging = Chain(r).out
<1> DEFINE first == Propagation(r, Bare)
           second == Tracer(r, first)
<1> DEFINE request == IF "request" \in sent[r] THEN Header ELSE <<"fiber", r>>
           parent == Get(r, "span")
           trace == Get(r, "trace")
<1>a. Propagation(r, Bare) =
         [Bare EXCEPT !.locals.request = request, !.locals.trace = trace, !.locals.parent = parent]
  BY DEF Propagation
<1> HIDE DEF request, parent, trace
<1>1. /\ DOMAIN first = {"locals", "out", "logging"}
      /\ first.locals = [f \in Fields |->
            CASE f = "request" -> request [] f = "trace" -> trace
              [] f = "span" -> None [] f = "parent" -> parent]
  <2>1. first.locals = [Blank EXCEPT !.request = request, !.trace = trace, !.parent = parent]
    BY <1>a DEF Bare
  <2>2. DOMAIN first = {"locals", "out", "logging"}
    BY <1>a DEF Bare
  <2> QED BY <2>1, <2>2 DEF Blank, Fields
<1> HIDE DEF first
<1>2. /\ DOMAIN second = {"locals", "out", "logging"}
      /\ second.locals = [f \in Fields |->
            CASE f = "request" -> request [] f = "trace" -> TraceOf(r)
              [] f = "span" -> <<"fiber", r>> [] f = "parent" -> parent]
  <2>1. CASE Traced("fiber")
    <3>1. second = [first EXCEPT !.locals.span = <<"fiber", r>>, !.locals.trace = TraceOf(r)]
      BY <2>1 DEF Tracer, TraceOf
    <3>2. second.locals = [first.locals EXCEPT !.span = <<"fiber", r>>, !.trace = TraceOf(r)]
      BY <1>1, <3>1
    <3>3. DOMAIN second = {"locals", "out", "logging"}
      BY <1>1, <3>1
    <3> QED BY <1>1, <3>2, <3>3 DEF Fields
  <2>2. CASE ~Traced("fiber")
    BY <1>1, <2>2 DEF Tracer, TraceOf, Fields, trace
  <2> QED BY <2>1, <2>2
<1>3. Chain(r) = AccessLogger(r, Metadata(r, second))
  BY DEF Chain, first
<1> HIDE DEF second
<1> QED BY <1>2, <1>3 DEF AccessLogger, Metadata, request, parent

\* Identifiers are told apart.
LEMMA IdsDiffer ==
    ASSUME NEW r \in Requests
    PROVE  /\ <<"fiber", r>> \in Ids /\ <<"caller", r>> \in Ids /\ None \in Ids
           /\ Header # <<"fiber", r>> /\ Header # <<"caller", r>> /\ Header # None
           /\ None # <<"fiber", r>> /\ None # <<"caller", r>>
BY DEF Ids, Header, None

LEMMA ChainType ==
    ASSUME NEW r \in Requests
    PROVE  /\ Chain(r).out \in [Fields -> Values] /\ Chain(r).logging = Chain(r).out
           /\ Chain(r).out["span"] = <<"fiber", r>>
           /\ Chain(r).out["request"] \in {Header, <<"fiber", r>>}
           /\ Chain(r).out["trace"] \in {Header, None, <<"fiber", r>>, <<"caller", r>>}
           /\ Chain(r).out["parent"] \in {Header, None}
           /\ Chain(r).out["request"] = Header => "request" \in sent[r]
           /\ Chain(r).out["trace"] = Header => "trace" \in sent[r] /\ ~Traced("fiber")
<1> DEFINE request == IF "request" \in sent[r] THEN Header ELSE <<"fiber", r>>
           parent == Get(r, "span")
           trace == TraceOf(r)
<1>1. /\ request \in {Header, <<"fiber", r>>} /\ (request = Header => "request" \in sent[r])
      /\ parent \in {Header, None}
  BY IdsDiffer DEF Get
<1>2. /\ trace \in {Header, None, <<"fiber", r>>, <<"caller", r>>}
      /\ trace = Header => "trace" \in sent[r] /\ ~Traced("fiber")
  <2>1. CASE Traced("fiber")
    <3>1. trace = <<"caller", r>> \/ trace = <<"fiber", r>>
      BY <2>1 DEF TraceOf
    <3> QED BY <3>1, IdsDiffer
  <2>2. CASE ~Traced("fiber")
    BY <2>2, IdsDiffer DEF TraceOf, Get
  <2> QED BY <2>1, <2>2
<1>3. /\ Chain(r).out = [f \in Fields |->
             CASE f = "request" -> request [] f = "trace" -> trace
               [] f = "span" -> <<"fiber", r>> [] f = "parent" -> parent]
      /\ Chain(r).logging = Chain(r).out
  BY ChainGives
<1>4. {Header, None, <<"fiber", r>>, <<"caller", r>>} \subseteq Values
  BY IdsDiffer DEF Values
<1> HIDE DEF request, parent, trace
<1>5. /\ Chain(r).out["span"] = <<"fiber", r>>
      /\ Chain(r).out["request"] = request /\ Chain(r).out["trace"] = trace
      /\ Chain(r).out["parent"] = parent
  BY <1>3 DEF Fields
<1>6. Chain(r).out \in [Fields -> Values]
  <2>1. \A f \in Fields : Chain(r).out[f] \in Values
    BY <1>1, <1>2, <1>4, <1>5 DEF Fields
  <2> QED BY <1>3, <2>1
<1> QED BY <1>1, <1>2, <1>3, <1>5, <1>6

LEMMA OwnType == ASSUME NEW r \in Requests, NEW f \in Fields PROVE Own(r, f) \in Ids
BY ChainType, IdsDiffer DEF Own, Values

\* What the middleware makes depends on what the caller has sent and on whether the fiber
\* server has a tracer.
LEMMA ChainStays ==
    ASSUME UNCHANGED sent, Traced("fiber")' = Traced("fiber")
    PROVE  \A r \in Requests : /\ Chain(r)' = Chain(r)
                               /\ \A f \in Fields : Own(r, f)' = Own(r, f)
<1> SUFFICES ASSUME NEW r \in Requests
             PROVE  Chain(r)' = Chain(r) /\ \A f \in Fields : Own(r, f)' = Own(r, f)
  OBVIOUS
<1>1. Propagation(r, Bare)' = Propagation(r, Bare)
  BY DEF Propagation, Bare, Blank, Get
<1>2. Tracer(r, Propagation(r, Bare))' = Tracer(r, Propagation(r, Bare))
  BY <1>1 DEF Tracer
<1>3. Metadata(r, Tracer(r, Propagation(r, Bare)))' = Metadata(r, Tracer(r, Propagation(r, Bare)))
  BY <1>2 DEF Metadata
<1>4. Chain(r)' = Chain(r)
  BY <1>3 DEF Chain, AccessLogger
<1> QED BY <1>4 DEF Own

LEMMA InitTypes == RequestsInit => RequestsTypeOK
<1> SUFFICES ASSUME RequestsInit PROVE RequestsTypeOK
  OBVIOUS
<1>1. TracersTypeOK
  BY DEF RequestsInit, TracersInit, TracersTypeOK, SpanStates
<1>2. Blank \in [Fields -> Values]
  BY DEF Blank, Values, Ids
<1>3. /\ sent \in [Requests -> Sendings]
      /\ holds \in [Contexts -> Requests \cup {Nothing}]
      /\ in \in [Requests -> Contexts \cup {Nothing}]
      /\ out \in [Requests -> [Fields -> Values]] /\ logging \in [Requests -> [Fields -> Values]]
      /\ lines \subseteq Lines
  BY <1>2 DEF RequestsInit
<1>4. /\ stage \in [Requests -> {"waiting", "handling", "returned", "logged", "answered"}]
      /\ outcome \in [Requests -> {"none", "ok", "error", "panic"}]
      /\ failing \in [Requests -> BOOLEAN]
      /\ handled \in [Requests -> 0..2]
      /\ rpc \in [Requests -> {"none", "forked", "inline", "sending", "done"}]
  BY DEF RequestsInit
<1> QED BY <1>1, <1>3, <1>4 DEF RequestsTypeOK

LEMMA SpanOf ==
    ASSUME NEW r \in Requests, NEW m \in {"fiber", "client", "grpc"}
    PROVE  <<m, r>> \in Spans /\ <<m, r>>[1] = m /\ <<m, r>>[2] = r
BY MakersAssumption DEF Spans

\* A span that ends is never open afterwards, and no other span changes.
LEMMA EndType ==
    ASSUME NEW spans \in [Spans -> SpanStates], NEW s \in Spans
    PROVE  LET new == AfterEnd(s, spans) IN
           /\ new \in [Spans -> SpanStates]
           /\ new[s] # "open"
           /\ \A o \in Spans \ {s} : new[o] = spans[o]
           /\ spans[s] # "open" => new = spans
           /\ spans[s] = "open" =>
                 \/ new[s] = "late" /\ tracer[captured[s[1]]] # "up"
                 \/ /\ new[s] = "queued" /\ tracer[captured[s[1]]] = "up"
                    /\ Cardinality(Queue(captured[s[1]], spans)) < QueueSize
                 \/ new[s] = "crowded" /\ tracer[captured[s[1]]] = "up"
BY DEF AfterEnd, SpanStates

LEMMA StartType ==
    ASSUME NEW spans \in [Spans -> SpanStates], NEW s \in Spans, NEW state \in Starts(s[1])
    PROVE  /\ [spans EXCEPT ![s] = state] \in [Spans -> SpanStates]
           /\ state \in {"none", "open"} /\ (state = "open" => Traced(s[1]))
BY DEF Starts, SpanStates

LEMMA TracersTypes == RequestsTypeOK /\ TracersNext => TracersTypeOK'
<1> SUFFICES ASSUME RequestsTypeOK, TracersNext PROVE TracersTypeOK'
  OBVIOUS
<1> USE DEF RequestsTypeOK, TracersTypeOK
<1>0. \A t \in Providers, fate \in {"exported", "lost"} :
         Flush(t, fate) => span' \in [Spans -> SpanStates]
  BY DEF Flush, SpanStates
<1>a. \A t \in Providers :
         Send(t) => span' \in [Spans -> SpanStates] /\ refused' \subseteq Providers
  BY <1>0 DEF Send
<1>1. ASSUME NEW t \in Providers, NewTracer(t) \/ NewTracerFails(t) PROVE TracersTypeOK'
  BY <1>1 DEF NewTracer, NewTracerFails, Creates
<1>2. ASSUME NEW t \in Providers, Export(t) PROVE TracersTypeOK'
  BY <1>a, <1>2 DEF Export
<1>3. ASSUME NEW t \in Providers, StopTracer(t) \/ StopTracerFails(t) PROVE TracersTypeOK'
  BY <1>0, <1>a, <1>3 DEF StopTracer, StopTracerFails, ShutDown
<1>4. ASSUME NEW m \in Makers, Make(m) PROVE TracersTypeOK'
  BY <1>4 DEF Make
<1>5. CASE ProcessExits
  BY <1>5 DEF ProcessExits, SpanStates
<1> QED BY <1>1, <1>2, <1>3, <1>4, <1>5 DEF TracersNext

\* What an identifier of a request that is in its context says is one.
LEMMA ReadsType ==
    ASSUME RequestsTypeOK, Entered, NEW r \in Requests, stage[r] # "waiting", NEW v \in Values
    PROVE  Reads(r, v) \in Ids
BY DEF Entered, Reads, Values, Ids

LEMMA LineTypes ==
    ASSUME RequestsTypeOK, Entered, NEW r \in Requests, stage[r] # "waiting"
    PROVE  /\ GrpcLine(r) \in Lines
           /\ \A failed \in BOOLEAN : AccessLine(r, failed) \in Lines
<1>1. \A f \in Fields : /\ Reads(r, out[r][f]) \in Ids
                        /\ Reads(r, logging[r][f]) \in Ids
  BY ReadsType DEF RequestsTypeOK
<1>2. None \in Ids
  BY DEF Ids
<1>3. [f \in Fields |-> Reads(r, out[r][f])] \in [Fields -> Ids]
  BY <1>1
<1>4. GrpcLine(r).ids \in [Fields -> Ids] /\ (stage[r] # "handling") \in BOOLEAN
  BY <1>2, <1>3 DEF GrpcLine, Fields
<1> QED BY <1>1, <1>4 DEF GrpcLine, AccessLine, Lines

\* What a step of a request does to its span, and that it leaves the tracers alone.
LEMMA SpanStepType ==
    ASSUME RequestsTypeOK, NEW r \in Requests, RequestStep(r)
    PROVE  /\ UNCHANGED <<providerVars, sent>>
           /\ span' \in [Spans -> SpanStates]
<1>0. span \in [Spans -> SpanStates]
  BY DEF RequestsTypeOK, TracersTypeOK
<1>a. \A m \in {"fiber", "client", "grpc"} : <<m, r>> \in Spans /\ <<m, r>>[1] = m
  BY SpanOf
<1>1. ASSUME NEW c \in Contexts, Enter(r, c)
      PROVE  UNCHANGED <<providerVars, sent>> /\ span' \in [Spans -> SpanStates]
  BY <1>0, <1>a, <1>1, StartType DEF Enter, Opens
<1>2. CASE CallBegins(r)
  BY <1>0, <1>a, <1>2, StartType DEF CallBegins, Opens
<1>3. CASE CallFails(r) \/ Answer(r)
  BY <1>0, <1>a, <1>3, EndType DEF CallFails, Answer
<1>4. CASE CallIsServed(r)
  <2>1. PICK state \in Starts("grpc") :
           span' = AfterEnd(<<"client", r>>,
                            AfterEnd(<<"grpc", r>>, [span EXCEPT ![<<"grpc", r>>] = state]))
    BY <1>4 DEF CallIsServed
  <2>2. [span EXCEPT ![<<"grpc", r>>] = state] \in [Spans -> SpanStates]
    BY <1>0, <1>a, StartType
  <2>3. span' \in [Spans -> SpanStates]
    BY <1>a, <2>1, <2>2, EndType
  <2> QED BY <1>4, <2>3 DEF CallIsServed
<1>5. CASE \/ Fork(r) \/ CallIsCancelled(r) \/ LogAccess(r) \/ Unwinds(r)
           \/ \E result \in {"ok", "error", "panic"} : HandlerReturns(r, result)
  BY <1>0, <1>5 DEF Fork, CallIsCancelled, LogAccess, LogAccessAnd, Unwinds, HandlerReturns,
                    tracerVars
<1> QED BY <1>1, <1>2, <1>3, <1>4, <1>5, RequestStep(r) DEF RequestStep

LEMMA RequestStepTypes ==
    ASSUME RequestInv, NEW r \in Requests, RequestStep(r)
    PROVE  RequestsTypeOK'
<1>0. RequestsTypeOK /\ Entered /\ Progress(r)
  BY DEF RequestInv
<1>1. TracersTypeOK' /\ sent' \in [Requests -> Sendings]
  BY <1>0, SpanStepType DEF RequestsTypeOK, TracersTypeOK, providerVars
<1> USE <1>0 DEF RequestsTypeOK
<1>2. ASSUME NEW c \in Contexts, Enter(r, c) PROVE RequestsTypeOK'
  BY <1>1, <1>2, ChainType DEF Enter
<1>3. CASE Fork(r) \/ CallBegins(r) \/ CallIsCancelled(r) \/ CallFails(r)
  BY <1>1, <1>3 DEF Fork, CallBegins, CallIsCancelled, CallFails
<1>4. CASE CallIsServed(r)
  <2>1. stage[r] # "waiting"
    BY <1>4 DEF CallIsServed, Entered
  <2> QED BY <1>1, <1>4, <2>1, LineTypes DEF CallIsServed
<1>5. ASSUME NEW result \in {"ok", "error", "panic"}, HandlerReturns(r, result)
      PROVE  RequestsTypeOK'
  BY <1>1, <1>5 DEF HandlerReturns
<1>6. CASE LogAccess(r)
  <2>1. AccessLine(r, failing[r]) \in Lines
    BY <1>6, LineTypes DEF LogAccess, LogAccessAnd
  <2>2. handled[r] = 0
    BY <1>6 DEF LogAccess, LogAccessAnd, Progress
  <2> QED BY <1>1, <1>6, <2>1, <2>2 DEF LogAccess, LogAccessAnd
<1>7. CASE Unwinds(r)
  BY <1>1, <1>7 DEF Unwinds
<1>8. CASE Answer(r)
  <2>1. failing[r] => outcome[r] = "panic" /\ handled[r] = 0
    BY <1>8 DEF Answer, Progress
  <2>2. handled' \in [Requests -> 0..2]
    BY <1>8, <2>1 DEF Answer
  <2> QED BY <1>1, <1>8, <2>2 DEF Answer
<1> QED BY <1>2, <1>3, <1>4, <1>5, <1>6, <1>7, <1>8, RequestStep(r) DEF RequestStep

LEMMA TypesStep == RequestInv /\ RequestsNext => RequestsTypeOK'
<1>1. ASSUME RequestInv, TracersNext, UNCHANGED requestVars PROVE RequestsTypeOK'
  BY <1>1, TracersTypes DEF RequestInv, RequestsTypeOK, requestVars
<1> QED BY <1>1, RequestStepTypes DEF RequestsNext

-----------------------------------------------------------------------------
(* Requests: identifiers.                                                   *)

\* No tracer is asked for once a request has been let in, and none by a request.
LEMMA CapturedStays ==
    ASSUME RequestInv, RequestsNext,
           (\E r \in Requests : stage[r] # "waiting") \/ ~(TracersNext /\ UNCHANGED requestVars)
    PROVE  UNCHANGED <<captured, sent>>
<1>1. ASSUME NEW r \in Requests, RequestStep(r) PROVE UNCHANGED <<captured, sent>>
  BY <1>1, SpanStepType DEF RequestInv, providerVars
<1>2. CASE TracersNext /\ UNCHANGED requestVars
  <2>1. \A m \in Makers : captured[m] # Unmade
    BY <1>2 DEF RequestInv, Entered
  <2> QED BY <1>2, <2>1 DEF TracersNext, NewTracer, NewTracerFails, Creates, Export, StopTracer,
          StopTracerFails, ShutDown, Make, ProcessExits, providerVars, requestVars
<1> QED BY <1>1, <1>2 DEF RequestsNext

\* What the middleware makes of a request that is in stays.
LEMMA GivenStays ==
    ASSUME RequestInv, RequestsNext, NEW r \in Requests, stage'[r] # "waiting"
    PROVE  Chain(r)' = Chain(r) /\ \A f \in Fields : Own(r, f)' = Own(r, f)
<1>1. UNCHANGED <<captured, sent>>
  <2>1. CASE TracersNext /\ UNCHANGED requestVars
    BY <2>1, CapturedStays DEF requestVars
  <2>2. CASE ~(TracersNext /\ UNCHANGED requestVars)
    BY <2>2, CapturedStays
  <2> QED BY <2>1, <2>2
<1>2. Traced("fiber")' = Traced("fiber")
  BY <1>1 DEF Traced
<1> QED BY <1>1, <1>2, ChainStays

\* A step of a request lets it in or takes it further; the others stay where they are.
OnlyMoves(r) ==
    \A q \in Requests \ {r} :
        /\ stage'[q] = stage[q] /\ in'[q] = in[q] /\ rpc'[q] = rpc[q]
        /\ out'[q] = out[q] /\ logging'[q] = logging[q]

GoesOn(r) ==
    /\ UNCHANGED <<holds, in, out, logging>>
    /\ stage[r] # "waiting"
    /\ stage'[r] \in {stage[r], "returned", "logged", "answered"}
    /\ stage[r] = "answered" => stage'[r] = "answered"

LEMMA StageStep ==
    ASSUME RequestInv, NEW r \in Requests, RequestStep(r)
    PROVE  OnlyMoves(r) /\ ((\E c \in Contexts : Enter(r, c)) \/ GoesOn(r))
<1>0. /\ stage \in [Requests -> {"waiting", "handling", "returned", "logged", "answered"}]
      /\ rpc \in [Requests -> {"none", "forked", "inline", "sending", "done"}]
      /\ in \in [Requests -> Contexts \cup {Nothing}]
      /\ out \in [Requests -> [Fields -> Values]]
      /\ logging \in [Requests -> [Fields -> Values]]
      /\ stage[r] = "waiting" => rpc[r] = "none"
  BY DEF RequestInv, RequestsTypeOK, Entered
<1>1. ASSUME NEW c \in Contexts, Enter(r, c) PROVE OnlyMoves(r)
  BY <1>0, <1>1 DEF Enter, OnlyMoves
<1>2. CASE Fork(r) \/ CallBegins(r) \/ CallIsCancelled(r)
  BY <1>0, <1>2 DEF Fork, CallBegins, CallIsCancelled, OnlyMoves, GoesOn
<1>3. CASE CallFails(r) \/ CallIsServed(r)
  BY <1>0, <1>3 DEF CallFails, CallIsServed, OnlyMoves, GoesOn
<1>4. CASE LogAccess(r) \/ Unwinds(r) \/ Answer(r)
  BY <1>0, <1>4 DEF LogAccess, LogAccessAnd, Unwinds, Answer, OnlyMoves, GoesOn
<1>5. ASSUME NEW result \in {"ok", "error", "panic"}, HandlerReturns(r, result)
      PROVE  OnlyMoves(r) /\ GoesOn(r)
  BY <1>0, <1>5 DEF HandlerReturns, OnlyMoves, GoesOn
<1> QED BY <1>1, <1>2, <1>3, <1>4, <1>5, RequestStep(r) DEF RequestStep

LEMMA EnteredStep == RequestInv /\ RequestsNext => Entered' /\ ContextsAreOwn'
<1> SUFFICES ASSUME RequestInv, RequestsNext PROVE Entered' /\ ContextsAreOwn'
  OBVIOUS
<1>0. Entered /\ ContextsAreOwn /\ RequestsTypeOK
  BY DEF RequestInv
<1>1. CASE TracersNext /\ UNCHANGED requestVars
  <2> SUFFICES ASSUME NEW q \in Requests
               PROVE  /\ IF stage[q] = "waiting" THEN rpc[q] = "none"
                         ELSE /\ \A m \in Makers : captured'[m] # Unmade
                              /\ in[q] \in Contexts /\ holds[in[q]] \in Requests
                              /\ out[q] = Chain(q)'.out /\ logging[q] = Chain(q)'.logging
                      /\ stage[q] \notin {"waiting", "answered"} => holds[in[q]] = q
    BY <1>1 DEF requestVars, Entered, ContextsAreOwn
  <2>1. CASE stage[q] = "waiting"
    BY <1>0, <2>1 DEF Entered
  <2>2. CASE stage[q] # "waiting"
    <3>1. Chain(q)' = Chain(q) /\ captured' = captured
      BY <1>1, <2>2, GivenStays, CapturedStays DEF requestVars
    <3> QED BY <1>0, <2>2, <3>1 DEF Entered, ContextsAreOwn
  <2> QED BY <2>1, <2>2
<1>2. ASSUME NEW r \in Requests, RequestStep(r) PROVE Entered' /\ ContextsAreOwn'
  <2>1. captured' = captured
    BY <1>2, SpanStepType DEF RequestInv, providerVars
  <2>2. \A q \in Requests : stage'[q] # "waiting" => Chain(q)' = Chain(q)
    BY GivenStays
  <2>3. ASSUME NEW c \in Contexts, Enter(r, c) PROVE Entered' /\ ContextsAreOwn'
    <3>1. /\ stage' = [stage EXCEPT ![r] = "handling"] /\ in' = [in EXCEPT ![r] = c]
          /\ holds' = [holds EXCEPT ![c] = r]
          /\ out'[r] = Chain(r).out /\ logging'[r] = Chain(r).logging
          /\ \A m \in Makers : captured[m] # Unmade
          /\ \A q \in Requests : in[q] = c => stage[q] = "answered"
      BY <1>0, <2>3 DEF Enter, RequestsTypeOK
    <3>2. OnlyMoves(r)
      BY <1>2, StageStep
    <3>3. \A x \in Contexts : holds'[x] = IF x = c THEN r ELSE holds[x]
      BY <1>0, <3>1 DEF RequestsTypeOK
    <3>4. /\ stage'[r] = "handling" /\ in'[r] = c
      BY <1>0, <3>1 DEF RequestsTypeOK
    <3>5. Entered'
      BY <1>0, <2>1, <2>2, <3>1, <3>2, <3>3, <3>4 DEF Entered, OnlyMoves
    <3>6. ContextsAreOwn'
      BY <1>0, <3>1, <3>2, <3>3, <3>4 DEF Entered, ContextsAreOwn, OnlyMoves
    <3> QED BY <3>5, <3>6
  <2>4. CASE GoesOn(r)
    <3>1. OnlyMoves(r)
      BY <1>2, StageStep
    <3>2. \A q \in Requests : /\ stage'[q] = "waiting" => stage[q] = "waiting" /\ q # r
                              /\ stage[q] = "waiting" => stage'[q] = "waiting"
                              /\ stage[q] = "answered" => stage'[q] = "answered"
      BY <2>4, <3>1 DEF GoesOn, OnlyMoves
    <3>3. Entered'
      BY <1>0, <2>1, <2>2, <2>4, <3>1, <3>2 DEF Entered, GoesOn, OnlyMoves
    <3>4. ContextsAreOwn'
      BY <1>0, <2>4, <3>2 DEF ContextsAreOwn, GoesOn
    <3> QED BY <3>3, <3>4
  <2> QED BY <1>2, <2>3, <2>4, StageStep
<1> QED BY <1>1, <1>2 DEF RequestsNext

\* What a string says to a request that is in its context, and to one that has left it.
LEMMA ReadsOwn ==
    ASSUME RequestInv, NEW r \in Requests, stage[r] # "waiting", NEW f \in Fields
    PROVE  /\ stage[r] # "answered" => Reads(r, Chain(r).out[f]) = Own(r, f)
           /\ Chain(r).out[f] # Header => Reads(r, Chain(r).out[f]) = Own(r, f)
BY DEF RequestInv, ContextsAreOwn, Reads, Own

LEMMA NewLines ==
    ASSUME RequestInv, NEW r \in Requests, stage[r] # "waiting"
    PROVE  /\ LineIsOwn(GrpcLine(r))
           /\ stage[r] # "answered" => \A failed \in BOOLEAN : LineIsOwn(AccessLine(r, failed))
<1>1. out[r] = Chain(r).out /\ logging[r] = Chain(r).out
  BY ChainType DEF RequestInv, Entered
<1>2. Chain(r).out["span"] # Header
  BY ChainType, IdsDiffer
<1>3. LineIsOwn(GrpcLine(r))
  <2>1. /\ GrpcLine(r).hop = 2 /\ GrpcLine(r).of = r
        /\ GrpcLine(r).late = (stage[r] # "handling")
        /\ GrpcLine(r).ids["span"] = None
        /\ GrpcLine(r).ids["parent"] = Reads(r, out[r]["span"])
        /\ GrpcLine(r).ids["request"] = Reads(r, out[r]["request"])
        /\ GrpcLine(r).ids["trace"] = Reads(r, out[r]["trace"])
    BY DEF GrpcLine, Fields
  <2>2. GrpcLine(r).ids["parent"] = Own(r, "span")
    BY <1>1, <1>2, <2>1, ReadsOwn DEF Fields
  <2>3. \A f \in {"request", "trace"} :
           GrpcLine(r).ids[f] = Own(r, f) \/ (GrpcLine(r).late /\ Chain(r).out[f] = Header)
    BY <1>1, <2>1, ReadsOwn DEF Fields
  <2> QED BY <2>1, <2>2, <2>3 DEF LineIsOwn
<1>4. ASSUME stage[r] # "answered", NEW failed \in BOOLEAN
      PROVE  LineIsOwn(AccessLine(r, failed))
  BY <1>1, <1>4, ReadsOwn DEF AccessLine, LineIsOwn
<1> QED BY <1>3, <1>4

LEMMA LinesStep == RequestInv /\ RequestsNext => \A l \in lines' : LineIsOwn(l)'
<1> SUFFICES ASSUME RequestInv, RequestsNext, NEW l \in lines' PROVE LineIsOwn(l)'
  OBVIOUS
<1>0. RequestsTypeOK /\ \A k \in lines : LineIsOwn(k)
  BY DEF RequestInv
<1>1. \A q \in Requests : stage[q] # "waiting" => stage'[q] # "waiting"
  <2>1. CASE TracersNext /\ UNCHANGED requestVars
    BY <2>1 DEF requestVars
  <2>2. ASSUME NEW r \in Requests, RequestStep(r), NEW q \in Requests, stage[q] # "waiting"
        PROVE  stage'[q] # "waiting"
    BY <1>0, <2>2, StageStep DEF OnlyMoves, GoesOn, Enter
  <2> QED BY <2>1, <2>2 DEF RequestsNext
<1>2. ASSUME NEW k \in Lines, LineIsOwn(k) PROVE LineIsOwn(k)'
  <2>1. k.of \in Requests /\ stage'[k.of] # "waiting"
    BY <1>1, <1>2 DEF LineIsOwn, Lines
  <2>2. Chain(k.of)' = Chain(k.of) /\ \A f \in Fields : Own(k.of, f)' = Own(k.of, f)
    BY <2>1, GivenStays
  <2> QED BY <1>2, <2>1, <2>2 DEF LineIsOwn, Fields
<1>3. \/ l \in lines
      \/ \E r \in Requests : stage[r] # "waiting" /\ l = GrpcLine(r)
      \/ \E r \in Requests : stage[r] = "returned" /\ l = AccessLine(r, failing[r])
  <2>1. CASE TracersNext /\ UNCHANGED requestVars
    BY <2>1 DEF requestVars
  <2>2. ASSUME NEW r \in Requests, CallIsServed(r) PROVE l \in lines \/ l = GrpcLine(r)
    BY <2>2 DEF CallIsServed
  <2>3. ASSUME NEW r \in Requests, CallIsServed(r) PROVE stage[r] # "waiting"
    BY <2>3 DEF CallIsServed, RequestInv, Entered
  <2>4. ASSUME NEW r \in Requests, LogAccess(r)
        PROVE  l \in lines \/ (stage[r] = "returned" /\ l = AccessLine(r, failing[r]))
    BY <2>4 DEF LogAccess, LogAccessAnd
  <2>5. ASSUME NEW r \in Requests, RequestStep(r), ~CallIsServed(r), ~LogAccess(r)
        PROVE  l \in lines
    BY <2>5 DEF RequestStep, Enter, Fork, CallBegins, CallIsCancelled, CallFails,
                HandlerReturns, Unwinds, Answer
  <2> QED BY <2>1, <2>2, <2>3, <2>4, <2>5 DEF RequestsNext
<1>4. l \in Lines /\ LineIsOwn(l)
  <2>1. \A r \in Requests : failing[r] \in BOOLEAN
    BY <1>0 DEF RequestsTypeOK
  <2>2. l \in Lines
    BY TypesStep DEF RequestsTypeOK
  <2> QED BY <1>0, <1>3, <2>1, <2>2, NewLines
<1> QED BY <1>2, <1>4

-----------------------------------------------------------------------------
(* Requests: errors and the access log.                                     *)

\* What is said of one request is as it was.
SameProgress(q) ==
    /\ stage'[q] = stage[q] /\ outcome'[q] = outcome[q] /\ failing'[q] = failing[q]
    /\ handled'[q] = handled[q]
    /\ AccessLines(q)' = AccessLines(q)

LEMMA ProgressStays ==
    ASSUME NEW q \in Requests, Progress(q), SameProgress(q) PROVE Progress(q)'
<1>1. (\E l \in lines : AccessLines(q) = {l} /\ (l.failed <=> outcome[q] = "error"))
         => \E l \in lines' : AccessLines(q)' = {l} /\ (l.failed <=> outcome'[q] = "error")
  BY DEF SameProgress, AccessLines
<1>2. Logged(q) => Logged(q)'
  BY <1>1 DEF SameProgress, Logged
<1> QED BY <1>2 DEF Progress, SameProgress

LEMMA ProgressStep == RequestInv /\ RequestsNext => \A q \in Requests : Progress(q)'
<1> SUFFICES ASSUME RequestInv, RequestsNext, NEW q \in Requests PROVE Progress(q)'
  OBVIOUS
<1>0. /\ Progress(q) /\ RequestsTypeOK
      /\ stage \in [Requests -> {"waiting", "handling", "returned", "logged", "answered"}]
      /\ outcome \in [Requests -> {"none", "ok", "error", "panic"}]
      /\ failing \in [Requests -> BOOLEAN]
      /\ handled \in [Requests -> 0..2]
  BY DEF RequestInv, RequestsTypeOK
<1>1. CASE TracersNext /\ UNCHANGED requestVars
  BY <1>0, <1>1, ProgressStays DEF requestVars, SameProgress, AccessLines
<1>2. ASSUME NEW r \in Requests, RequestStep(r) PROVE Progress(q)'
  <2>1. CASE \/ \E c \in Contexts : Enter(r, c)
    <3>1. CASE q = r
      BY <1>0, <2>1, <3>1 DEF Enter, Progress, AccessLines
    <3>2. CASE q # r
      BY <1>0, <2>1, <3>2, ProgressStays DEF Enter, SameProgress, AccessLines
    <3> QED BY <3>1, <3>2
  <2>2. CASE Fork(r) \/ CallBegins(r) \/ CallIsCancelled(r) \/ CallFails(r)
    BY <1>0, <2>2, ProgressStays
    DEF Fork, CallBegins, CallIsCancelled, CallFails, SameProgress, AccessLines
  <2>3. CASE CallIsServed(r)
    <3>1. GrpcLine(r).hop = 2
      BY DEF GrpcLine
    <3>2. AccessLines(q)' = AccessLines(q)
      BY <2>3, <3>1 DEF CallIsServed, AccessLines
    <3> QED BY <1>0, <2>3, <3>2, ProgressStays DEF CallIsServed, SameProgress
  <2>4. ASSUME NEW result \in {"ok", "error", "panic"}, HandlerReturns(r, result)
        PROVE  Progress(q)'
    <3>1. CASE q = r
      BY <1>0, <2>4, <3>1 DEF HandlerReturns, Progress, AccessLines
    <3>2. CASE q # r
      BY <1>0, <2>4, <3>2, ProgressStays DEF HandlerReturns, SameProgress, AccessLines
    <3> QED BY <3>1, <3>2
  <2>5. CASE LogAccess(r)
    <3> DEFINE new == AccessLine(r, failing[r])
    <3>1. lines' = lines \cup {new} /\ new.hop = 1 /\ new.of = r /\ new.failed = failing[r]
      BY <2>5 DEF LogAccess, LogAccessAnd, AccessLine
    <3> HIDE DEF new
    <3>2. CASE q = r
      <4>1. /\ outcome[r] \in {"ok", "error"} /\ stage[r] = "returned"
            /\ AccessLines(r) = {} /\ handled[r] = 0 /\ failing[r] = (outcome[r] = "error")
        BY <1>0, <2>5, <3>2 DEF LogAccess, LogAccessAnd, Progress
      <4>2. AccessLines(r)' = {new}
        BY <3>1, <4>1 DEF AccessLines
      <4>3. /\ stage'[r] = "logged" /\ outcome' = outcome /\ failing'[r] = FALSE
            /\ handled'[r] = IF outcome[r] = "error" THEN 1 ELSE 0
        BY <1>0, <2>5, <4>1 DEF LogAccess, LogAccessAnd
      <4>4. Logged(r)'
        BY <3>1, <4>1, <4>2, <4>3 DEF Logged
      <4> QED BY <3>2, <4>1, <4>3, <4>4 DEF Progress
    <3>3. CASE q # r
      <4>1. AccessLines(q)' = AccessLines(q)
        BY <3>1, <3>3 DEF AccessLines
      <4> QED BY <1>0, <2>5, <3>3, <4>1, ProgressStays DEF LogAccess, LogAccessAnd, SameProgress
    <3> QED BY <3>2, <3>3
  <2>6. CASE Unwinds(r)
    <3>1. CASE q = r
      BY <1>0, <2>6, <3>1 DEF Unwinds, Progress, Logged, AccessLines
    <3>2. CASE q # r
      BY <1>0, <2>6, <3>2, ProgressStays DEF Unwinds, SameProgress, AccessLines
    <3> QED BY <3>1, <3>2
  <2>7. CASE Answer(r)
    <3>0. AccessLines(q)' = AccessLines(q) /\ lines' = lines /\ outcome' = outcome
      BY <2>7 DEF Answer, AccessLines
    <3>1. CASE q = r
      <4>1. /\ stage[r] = "logged" /\ failing[r] = (outcome[r] = "panic")
            /\ handled[r] = IF outcome[r] = "error" THEN 1 ELSE 0
            /\ Logged(r) /\ outcome[r] \in {"ok", "error", "panic"}
        BY <1>0, <2>7, <3>1 DEF Answer, Progress
      <4>2. /\ stage'[r] = "answered" /\ failing'[r] = FALSE
            /\ handled'[r] = handled[r] + (IF outcome[r] = "panic" THEN 1 ELSE 0)
        BY <1>0, <2>7, <4>1 DEF Answer
      <4>3. Logged(r)'
        BY <3>0, <3>1, <4>1 DEF Logged
      <4> QED BY <3>0, <3>1, <4>1, <4>2, <4>3 DEF Progress
    <3>2. CASE q # r
      BY <1>0, <2>7, <3>0, <3>2, ProgressStays DEF Answer, SameProgress
    <3> QED BY <3>1, <3>2
  <2> QED BY <1>2, <2>1, <2>2, <2>3, <2>4, <2>5, <2>6, <2>7 DEF RequestStep
<1> QED BY <1>1, <1>2 DEF RequestsNext

-----------------------------------------------------------------------------
(* Requests: spans.                                                         *)

\* A queue that something has left has room still.
LEMMA QueueShrinks ==
    ASSUME NEW A, NEW B, IsFiniteSet(A), Cardinality(A) <= QueueSize, B \subseteq A
    PROVE  IsFiniteSet(B) /\ Cardinality(B) <= QueueSize
<1>1. IsFiniteSet(B) /\ Cardinality(B) <= Cardinality(A)
  BY FS_Subset
<1> QED BY <1>1, FS_CardinalityType, QueueAssumption

\* A span may start whatever its sampler says.
LEMMA StartKeeps ==
    ASSUME RequestsTypeOK, NEW spans \in [Spans -> SpanStates], WellKept(spans),
           NEW s \in Spans, NEW state \in Starts(s[1])
    PROVE  WellKept([spans EXCEPT ![s] = state])
<1> DEFINE new == [spans EXCEPT ![s] = state]
<1>1. state \in {"none", "open"} /\ (state = "open" => captured[s[1]] \in Providers)
  BY DEF Starts, Traced
<1>2. new[s] = state /\ \A o \in Spans \ {s} : new[o] = spans[o]
  OBVIOUS
<1> HIDE DEF new
<1>3. \A o \in Spans : KeptIn(o, new)
  BY <1>1, <1>2 DEF WellKept, KeptIn
<1>4. ASSUME NEW t \in Providers PROVE Fits(t, new)
  <2>1. Queue(t, new) \subseteq Queue(t, spans)
    BY <1>1, <1>2 DEF Queue, Of
  <2> QED BY <2>1, QueueShrinks DEF WellKept, Fits
<1> QED BY <1>3, <1>4 DEF WellKept, new

\* A span that ends is put into a queue that has room for it, of a provider that is up.
LEMMA EndKeeps ==
    ASSUME RequestsTypeOK, TracersHaveRun,
           NEW spans \in [Spans -> SpanStates], WellKept(spans), NEW s \in Spans
    PROVE  WellKept(AfterEnd(s, spans))
<1> DEFINE new == AfterEnd(s, spans)
           t == captured[s[1]]
<1>0. s[1] \in Makers
  BY DEF Spans
<1>1. CASE spans[s] # "open"
  BY <1>1, EndType
<1>2. CASE spans[s] = "open"
  <2>1. /\ \A o \in Spans \ {s} : new[o] = spans[o]
        /\ \/ new[s] = "late" /\ tracer[t] # "up"
           \/ /\ new[s] = "queued" /\ tracer[t] = "up"
              /\ Cardinality(Queue(t, spans)) < QueueSize
           \/ new[s] = "crowded" /\ tracer[t] = "up"
    BY <1>2, EndType
  <2>2. t \in Providers
    BY <1>2 DEF WellKept, KeptIn
  <2>3. tracer[t] \in {"up", "stopped", "broken"}
    BY <1>0, <2>2, NothingAssumption, UnmadeAssumption DEF TracersHaveRun
  <2> HIDE DEF new, t
  <2>4. \A o \in Spans \ {s} : KeptIn(o, new)
    BY <2>1 DEF WellKept, KeptIn
  <2>5. KeptIn(s, new)
    BY <2>1, <2>2, <2>3 DEF KeptIn, t
  <2>6. ASSUME NEW u \in Providers PROVE Fits(u, new)
    <3>0. IsFiniteSet(Queue(u, spans)) /\ Cardinality(Queue(u, spans)) <= QueueSize
      BY DEF WellKept, Fits
    <3>1. CASE u = t /\ new[s] = "queued"
      <4>1. Queue(u, new) = Queue(u, spans) \cup {s}
        BY <2>1, <3>1 DEF Queue, Of, t
      <4>2. /\ IsFiniteSet(Queue(u, spans) \cup {s})
            /\ Cardinality(Queue(u, spans) \cup {s}) <= Cardinality(Queue(u, spans)) + 1
        BY <3>0, FS_AddElement, FS_CardinalityType
      <4>3. Cardinality(Queue(u, spans)) < QueueSize
        BY <2>1, <3>1
      <4>4. Cardinality(Queue(u, spans)) \in Nat /\ Cardinality(Queue(u, spans) \cup {s}) \in Nat
        BY <3>0, <4>2, FS_CardinalityType
      <4>5. Cardinality(Queue(u, spans) \cup {s}) <= QueueSize
        BY ONLY <4>2, <4>3, <4>4, QueueAssumption
      <4> QED BY <4>1, <4>2, <4>5 DEF Fits
    <3>2. CASE ~(u = t /\ new[s] = "queued")
      <4>1. Queue(u, new) \subseteq Queue(u, spans)
        BY <2>1, <3>2 DEF Queue, Of, t
      <4> QED BY <3>0, <4>1, QueueShrinks DEF Fits
    <3> QED BY <3>1, <3>2
  <2> QED BY <2>4, <2>5, <2>6 DEF WellKept, new
<1> QED BY <1>1, <1>2

\* What waits goes out or is lost where that is allowed, and no queue grows.
LEMMA FlushKeeps ==
    ASSUME RequestInv, NEW t \in Providers, NEW fate \in {"exported", "lost"}, Flush(t, fate),
           UNCHANGED <<captured, exited>>,
           \A u \in Providers \ {t} : tracer'[u] = tracer[u],
           tracer[t] = "up", tracer'[t] \in {"up", "stopped", "broken"},
           refused \subseteq refused',
           fate = "lost" => tracer'[t] = "broken" \/ t \in refused'
    PROVE  /\ WellKept(span)'
           /\ \A s \in Spans : span'[s] = "open" => span[s] = "open"
<1>0. /\ \A s \in Spans : KeptIn(s, span)
      /\ \A u \in Providers : Fits(u, span)
      /\ \A s \in Spans : s[1] \in Makers
  BY DEF RequestInv, WellKept, Spans
<1>1. \A s \in Spans : /\ s \in Queue(t, span) => span'[s] = fate
                       /\ s \notin Queue(t, span) => span'[s] = span[s]
  BY DEF Flush
<1>2. ASSUME NEW s \in Spans PROVE KeptIn(s, span)'
  <2>1. CASE s \in Queue(t, span)
    BY <1>0, <1>1, <2>1 DEF KeptIn, Queue, Of
  <2>2. CASE s \notin Queue(t, span)
    BY <1>0, <1>1, <2>2 DEF KeptIn, Queue, Of
  <2> QED BY <2>1, <2>2
<1>3. ASSUME NEW u \in Providers PROVE Fits(u, span)'
  <2>1. Queue(u, span)' \subseteq Queue(u, span)
    BY <1>1 DEF Queue, Of
  <2> QED BY <1>0, <2>1, QueueShrinks DEF Fits
<1>4. \A s \in Spans : span'[s] = "open" => span[s] = "open"
  BY <1>1
<1> QED BY <1>2, <1>3, <1>4 DEF WellKept

\* A tracer changes only from being up, or from being unmade; then nobody has asked for it.
LEMMA TracersKeepSpans ==
    ASSUME RequestInv, TracersNext, UNCHANGED requestVars
    PROVE  /\ TracersHaveRun' /\ WellKept(span)'
           /\ \A r \in Requests : ClosedWithRequest(r)'
<1>0. /\ TracersHaveRun
      /\ \A s \in Spans : KeptIn(s, span) /\ s[1] \in Makers
      /\ \A t \in Providers : Fits(t, span)
      /\ tracer \in [Providers -> {"unmade", "nil", "up", "stopped", "broken"}]
      /\ captured \in [Makers -> Providers \cup {Nothing, Unmade}]
  BY DEF RequestInv, WellKept, RequestsTypeOK, TracersTypeOK, Spans
<1>a. Nothing \notin Providers /\ Unmade \notin Providers
  BY NothingAssumption, UnmadeAssumption
<1> DEFINE Result == /\ TracersHaveRun' /\ WellKept(span)'
                     /\ \A s \in Spans : span'[s] = "open" => span[s] = "open"
<1>1. ASSUME NEW t \in Providers, NewTracer(t) \/ NewTracerFails(t) PROVE Result
  <2>1. /\ UNCHANGED <<captured, span, refused, exited>>
        /\ tracer[t] = "unmade" /\ tracer' = [tracer EXCEPT ![t] = tracer'[t]]
        /\ default' = default \/ (default' = t /\ tracer'[t] = "up")
    BY <1>0, <1>1 DEF NewTracer, NewTracerFails, Creates
  <2>2. TracersHaveRun'
    BY <1>0, <1>a, <2>1 DEF TracersHaveRun
  <2>3. \A s \in Spans : KeptIn(s, span)'
    BY <1>0, <1>a, <2>1 DEF KeptIn, TracersHaveRun
  <2>4. \A u \in Providers : Fits(u, span)'
    BY <1>0, <2>1 DEF Fits, Queue, Of
  <2> QED BY <2>1, <2>2, <2>3, <2>4 DEF WellKept
<1>2. ASSUME NEW t \in Providers, Export(t) PROVE Result
  <2>1. PICK fate \in {"exported", "lost"} :
           /\ Flush(t, fate) /\ refused \subseteq refused'
           /\ fate = "lost" => t \in refused'
    BY <1>2 DEF Export, Send
  <2>2. UNCHANGED <<tracer, default, captured, exited>> /\ tracer[t] = "up"
    BY <1>2 DEF Export
  <2>3. WellKept(span)' /\ \A s \in Spans : span'[s] = "open" => span[s] = "open"
    BY <2>1, <2>2, FlushKeeps
  <2> QED BY <1>0, <2>2, <2>3 DEF TracersHaveRun
<1>3. ASSUME NEW t \in Providers, StopTracer(t) \/ StopTracerFails(t) PROVE Result
  <2>1. PICK fate \in {"exported", "lost"} :
           /\ Flush(t, fate) /\ refused \subseteq refused'
           /\ fate = "lost" => tracer'[t] = "broken" \/ t \in refused'
    BY <1>0, <1>3 DEF StopTracer, StopTracerFails, ShutDown, Send
  <2>2. /\ UNCHANGED <<default, captured, exited>> /\ tracer[t] = "up"
        /\ tracer'[t] \in {"stopped", "broken"}
        /\ \A u \in Providers \ {t} : tracer'[u] = tracer[u]
    BY <1>0, <1>3 DEF StopTracer, StopTracerFails, ShutDown
  <2>3. WellKept(span)' /\ \A s \in Spans : span'[s] = "open" => span[s] = "open"
    BY <2>1, <2>2, FlushKeeps
  <2>4. TracersHaveRun'
    BY <1>0, <2>2 DEF TracersHaveRun
  <2> QED BY <2>3, <2>4
<1>4. ASSUME NEW m \in Makers, Make(m) PROVE Result
  <2>1. /\ UNCHANGED <<tracer, default, span, refused, exited>>
        /\ captured[m] = Unmade /\ captured' = [captured EXCEPT ![m] = default]
    BY <1>4 DEF Make
  <2>2. TracersHaveRun'
    BY <1>0, <2>1 DEF TracersHaveRun
  <2>3. \A s \in Spans : span[s] # "none" => captured'[s[1]] = captured[s[1]]
    BY <1>0, <1>a, <2>1 DEF KeptIn
  <2>4. \A s \in Spans : KeptIn(s, span)'
    BY <1>0, <2>1, <2>3 DEF KeptIn
  <2>5. \A u \in Providers : Queue(u, span)' = Queue(u, span)
    BY <2>1, <2>3 DEF Queue, Of
  <2>6. \A u \in Providers : Fits(u, span)'
    BY <1>0, <2>5 DEF Fits
  <2> QED BY <2>1, <2>2, <2>4, <2>6 DEF WellKept
<1>5. ASSUME ProcessExits PROVE Result
  <2>1. /\ UNCHANGED <<tracer, default, captured, refused>> /\ exited'
        /\ \A s \in Spans :
              \/ span'[s] = "lost" /\ span[s] \in {"open", "queued"}
              \/ span'[s] = span[s] /\ span[s] \notin {"open", "queued"}
    BY <1>5 DEF ProcessExits
  <2>2. \A s \in Spans : KeptIn(s, span)'
    BY <1>0, <2>1 DEF KeptIn
  <2>3. ASSUME NEW u \in Providers PROVE Fits(u, span)'
    <3>1. Queue(u, span)' \subseteq Queue(u, span)
      BY <2>1 DEF Queue, Of
    <3> QED BY <1>0, <3>1, QueueShrinks DEF Fits
  <2>4. TracersHaveRun'
    BY <1>0, <2>1 DEF TracersHaveRun
  <2> QED BY <2>1, <2>2, <2>3, <2>4 DEF WellKept
<1>6. Result
  BY <1>1, <1>2, <1>3, <1>4, <1>5 DEF TracersNext
<1>7. \A r \in Requests : ClosedWithRequest(r)'
  BY <1>6, SpanOf DEF RequestInv, ClosedWithRequest, requestVars
<1> QED BY <1>6, <1>7

LEMMA RequestKeepsSpans ==
    ASSUME RequestInv, NEW r \in Requests, RequestStep(r)
    PROVE  /\ TracersHaveRun' /\ WellKept(span)'
           /\ \A q \in Requests : ClosedWithRequest(q)'
<1>0. /\ RequestsTypeOK /\ TracersHaveRun /\ WellKept(span)
      /\ \A q \in Requests : ClosedWithRequest(q)
      /\ span \in [Spans -> SpanStates]
      /\ stage \in [Requests -> {"waiting", "handling", "returned", "logged", "answered"}]
  BY DEF RequestInv, RequestsTypeOK, TracersTypeOK
<1>a. /\ \A m \in {"fiber", "client", "grpc"} : <<m, r>> \in Spans /\ <<m, r>>[1] = m
      /\ \A q \in Requests : <<"fiber", q>> \in Spans
  BY SpanOf
<1>b. UNCHANGED <<tracer, default, captured, refused, exited>>
  BY <1>0, SpanStepType DEF providerVars
<1>c. TracersHaveRun'
  BY <1>0, <1>b DEF TracersHaveRun
<1>d. ASSUME WellKept(span') PROVE WellKept(span)'
  BY <1>b, <1>d DEF WellKept, KeptIn, Fits, Queue, Of
<1> DEFINE Result == WellKept(span') /\ \A q \in Requests : ClosedWithRequest(q)'
<1> SUFFICES Result
  BY <1>c, <1>d
<1>1. ASSUME NEW c \in Contexts, Enter(r, c) PROVE Result
  <2>1. PICK state \in Starts("fiber") : span' = [span EXCEPT ![<<"fiber", r>>] = state]
    BY <1>a, <1>1 DEF Enter, Opens
  <2>2. WellKept(span')
    BY <1>0, <1>a, <2>1, StartKeeps
  <2>3. \A q \in Requests : stage'[q] = "answered" => q # r /\ stage[q] = "answered"
    BY <1>0, <1>1 DEF Enter
  <2>4. \A q \in Requests \ {r} : span'[<<"fiber", q>>] = span[<<"fiber", q>>]
    BY <1>0, <1>a, <2>1
  <2> QED BY <1>0, <2>2, <2>3, <2>4 DEF ClosedWithRequest
<1>2. CASE CallBegins(r)
  <2>1. PICK state \in Starts("client") : span' = [span EXCEPT ![<<"client", r>>] = state]
    BY <1>a, <1>2 DEF CallBegins, Opens
  <2>2. WellKept(span')
    BY <1>0, <1>a, <2>1, StartKeeps
  <2>3. stage' = stage /\ \A q \in Requests : span'[<<"fiber", q>>] = span[<<"fiber", q>>]
    BY <1>0, <1>2, <2>1 DEF CallBegins
  <2> QED BY <1>0, <2>2, <2>3 DEF ClosedWithRequest
<1>3. CASE CallFails(r)
  <2>1. span' = AfterEnd(<<"client", r>>, span) /\ stage' = stage
    BY <1>3 DEF CallFails
  <2>2. WellKept(span')
    BY <1>0, <1>a, <2>1, EndKeeps
  <2>3. \A o \in Spans \ {<<"client", r>>} : span'[o] = span[o]
    <3>1. <<"client", r>> \in Spans
      BY <1>a
    <3> QED BY <1>0, <2>1, <3>1, EndType
  <2>4. \A q \in Requests : span'[<<"fiber", q>>] = span[<<"fiber", q>>]
    BY <1>a, <2>3
  <2> QED BY <1>0, <2>1, <2>2, <2>4 DEF ClosedWithRequest
<1>4. CASE Answer(r)
  <2>1. /\ span' = AfterEnd(<<"fiber", r>>, span)
        /\ \A q \in Requests \ {r} : stage'[q] = stage[q]
    BY <1>0, <1>4 DEF Answer
  <2>2. WellKept(span')
    BY <1>0, <1>a, <2>1, EndKeeps
  <2>3. /\ span'[<<"fiber", r>>] # "open"
        /\ \A o \in Spans \ {<<"fiber", r>>} : span'[o] = span[o]
    BY <1>0, <1>a, <2>1, EndType
  <2>4. \A q \in Requests \ {r} : span'[<<"fiber", q>>] = span[<<"fiber", q>>]
    BY <1>a, <2>3
  <2> QED BY <1>0, <2>1, <2>2, <2>3, <2>4 DEF ClosedWithRequest
<1>5. CASE CallIsServed(r)
  <2>1. PICK state \in Starts("grpc") :
           span' = AfterEnd(<<"client", r>>,
                            AfterEnd(<<"grpc", r>>, [span EXCEPT ![<<"grpc", r>>] = state]))
    BY <1>5 DEF CallIsServed
  <2> DEFINE opened == [span EXCEPT ![<<"grpc", r>>] = state]
             served == AfterEnd(<<"grpc", r>>, opened)
  <2>2. /\ opened \in [Spans -> SpanStates] /\ WellKept(opened)
        /\ \A o \in Spans \ {<<"grpc", r>>} : opened[o] = span[o]
    BY <1>0, <1>a, StartType, StartKeeps
  <2> HIDE DEF opened
  <2>3. /\ served \in [Spans -> SpanStates] /\ WellKept(served)
        /\ \A o \in Spans \ {<<"grpc", r>>} : served[o] = opened[o]
    <3>1. WellKept(served)
      BY <1>0, <1>a, <2>2, EndKeeps
    <3> QED BY <1>a, <2>2, <3>1, EndType
  <2>4. span' = AfterEnd(<<"client", r>>, served)
    BY <2>1 DEF opened
  <2> HIDE DEF served
  <2>5. /\ WellKept(span')
        /\ \A o \in Spans \ {<<"client", r>>} : span'[o] = served[o]
    <3>1. <<"client", r>> \in Spans
      BY <1>a
    <3>2. WellKept(span')
      BY <1>0, <2>3, <2>4, <3>1, EndKeeps
    <3> QED BY <2>3, <2>4, <3>1, <3>2, EndType
  <2>6. \A q \in Requests : span'[<<"fiber", q>>] = span[<<"fiber", q>>]
    BY <1>a, <2>2, <2>3, <2>5
  <2>7. stage' = stage
    BY <1>5 DEF CallIsServed
  <2> QED BY <1>0, <2>5, <2>6, <2>7 DEF ClosedWithRequest
<1>6. CASE Fork(r) \/ CallIsCancelled(r)
  <2>1. span' = span /\ stage' = stage
    BY <1>6 DEF Fork, CallIsCancelled, tracerVars
  <2> QED BY <1>0, <2>1 DEF ClosedWithRequest
<1>7. CASE \/ LogAccess(r) \/ Unwinds(r)
           \/ \E result \in {"ok", "error", "panic"} : HandlerReturns(r, result)
  <2>1. span' = span /\ \A q \in Requests : stage'[q] = "answered" => stage[q] = "answered"
    BY <1>0, <1>7 DEF LogAccess, LogAccessAnd, Unwinds, HandlerReturns, tracerVars
  <2> QED BY <1>0, <2>1 DEF ClosedWithRequest
<1> QED BY <1>1, <1>2, <1>3, <1>4, <1>5, <1>6, <1>7, RequestStep(r) DEF RequestStep

-----------------------------------------------------------------------------
(* Requests: the invariant, and what follows from it.                       *)

LEMMA InitRequests == RequestsInit => RequestInv
<1> SUFFICES ASSUME RequestsInit PROVE RequestInv
  OBVIOUS
<1>1. Entered /\ ContextsAreOwn /\ \A l \in lines : LineIsOwn(l)
  BY DEF RequestsInit, Entered, ContextsAreOwn
<1>2. \A r \in Requests : Progress(r)
  BY DEF RequestsInit, Progress, AccessLines
<1>3. /\ TracersHaveRun /\ \A r \in Requests : ClosedWithRequest(r)
      /\ \A s \in Spans : KeptIn(s, span)
  BY DEF RequestsInit, TracersInit, TracersHaveRun, ClosedWithRequest, KeptIn, Spans
<1>4. ASSUME NEW t \in Providers PROVE Fits(t, span)
  <2>1. Queue(t, span) = {}
    BY DEF RequestsInit, TracersInit, Queue, Of
  <2>2. IsFiniteSet({}) /\ Cardinality({}) = 0
    BY FS_EmptySet
  <2> QED BY <2>1, <2>2, QueueAssumption DEF Fits
<1> QED BY <1>1, <1>2, <1>3, <1>4, InitTypes DEF RequestInv, WellKept

LEMMA RequestInvAlways == RequestsSpec => []RequestInv
<1>1. RequestInv /\ RequestsNext => RequestInv'
  <2> SUFFICES ASSUME RequestInv, RequestsNext PROVE RequestInv'
    OBVIOUS
  <2>1. TracersHaveRun' /\ WellKept(span)' /\ \A r \in Requests : ClosedWithRequest(r)'
    BY TracersKeepSpans, RequestKeepsSpans DEF RequestsNext
  <2> QED BY <2>1, TypesStep, EnteredStep, LinesStep, ProgressStep DEF RequestInv
<1>2. RequestInv /\ UNCHANGED <<tracerVars, requestVars>> => RequestInv'
  <2> SUFFICES ASSUME RequestInv, UNCHANGED <<tracerVars, requestVars>> PROVE RequestInv'
    OBVIOUS
  <2>1. /\ UNCHANGED <<tracer, default, captured, refused, exited, span>>
        /\ UNCHANGED <<sent, holds, in, out, logging, stage, outcome, failing, handled, rpc, lines>>
    BY DEF tracerVars, providerVars, requestVars
  <2>2. \A r \in Requests : Chain(r)' = Chain(r) /\ \A f \in Fields : Own(r, f)' = Own(r, f)
    BY <2>1, ChainStays DEF Traced
  <2>3. RequestsTypeOK' /\ Entered' /\ ContextsAreOwn'
    BY <2>1, <2>2 DEF RequestInv, RequestsTypeOK, TracersTypeOK, Entered, ContextsAreOwn
  <2>4. \A l \in lines' : LineIsOwn(l)'
    <3>1. \A l \in lines : l.of \in Requests
      BY DEF RequestInv, RequestsTypeOK, Lines
    <3> QED BY <2>1, <2>2, <3>1 DEF RequestInv, LineIsOwn, Fields
  <2>5. \A r \in Requests : Progress(r)'
    BY <2>1, ProgressStays DEF RequestInv, SameProgress, AccessLines
  <2>6. TracersHaveRun' /\ WellKept(span)' /\ \A r \in Requests : ClosedWithRequest(r)'
    BY <2>1 DEF RequestInv, TracersHaveRun, ClosedWithRequest, WellKept, KeptIn, Fits, Queue, Of
  <2> QED BY <2>3, <2>4, <2>5, <2>6 DEF RequestInv
<1> QED BY <1>1, <1>2, InitRequests, PTL DEF RequestsSpec

\* Requests, contexts, log lines, tracers and spans keep their types.
THEOREM RequestsTypeCorrect == RequestsSpec => []RequestsTypeOK
<1>1. RequestInv => RequestsTypeOK
  BY DEF RequestInv
<1> QED BY <1>1, RequestInvAlways, PTL

\* However many requests use fiber's contexts one after the other: no log line shows an
\* identifier of another request, but for a header in a line of the gRPC server for a call
\* that outlived its handler (propagation.go, metadata.go and logger.go of server/fiber).
THEOREM IdentifiersAreOwn == RequestsSpec => []IdsAreOwn
<1>1. RequestInv => IdsAreOwn
  <2> SUFFICES ASSUME RequestInv, NEW l \in lines, NEW f \in Fields
               PROVE  \/ l.ids[f] = None \/ l.ids[f][2] = l.of
                      \/ /\ l.late /\ f # "parent" /\ SentAs(f) \in sent[l.of]
                         /\ f = "trace" => ~Traced("fiber")
    BY DEF IdsAreOwn
  <2>1. l.of \in Requests /\ l.hop \in {1, 2} /\ LineIsOwn(l)
    BY DEF RequestInv, RequestsTypeOK, Lines
  <2>2. \A g \in Fields : Own(l.of, g) = None \/ Own(l.of, g)[2] = l.of
    <3>1. /\ <<"fiber", l.of>>[2] = l.of /\ <<"caller", l.of>>[2] = l.of
      OBVIOUS
    <3> QED BY <2>1, <3>1, ChainType DEF Own, Fields
  <2>3. \/ l.ids[f] = None \/ \E g \in Fields : l.ids[f] = Own(l.of, g)
        \/ l.late /\ f \in {"request", "trace"} /\ Chain(l.of).out[f] = Header
    BY <2>1 DEF LineIsOwn, Fields
  <2> QED BY <2>1, <2>2, <2>3, ChainType DEF SentAs
<1> QED BY <1>1, RequestInvAlways, PTL

\* The two servers' logs fit together: the same request and trace, and the caller's span as
\* the parent (the order of the middleware in New, fiber.go; logger.go of server/grpc).
THEOREM LogsFit == RequestsSpec => []LogsChain
<1>1. RequestInv => LogsChain
  <2> SUFFICES ASSUME RequestInv, NEW l \in lines, NEW m \in lines,
                      l.hop = 1, m.hop = 2, l.of = m.of, ~m.late
               PROVE  /\ m.ids.parent = l.ids.span
                      /\ m.ids.request = l.ids.request
                      /\ m.ids.trace = l.ids.trace
    BY DEF LogsChain
  <2>1. LineIsOwn(l) /\ LineIsOwn(m)
    BY DEF RequestInv
  <2> QED BY <2>1 DEF LineIsOwn, Fields
<1> QED BY <1>1, RequestInvAlways, PTL

\* Every error is handled once and every request that does not panic is logged once, as what
\* it is (logger.go and tracer.go of server/fiber).
THEOREM ErrorsAreHandledOnce == RequestsSpec => []HandledOnce
<1>1. RequestInv => HandledOnce
  <2> SUFFICES ASSUME RequestInv, NEW r \in Requests, stage[r] = "answered"
               PROVE  /\ handled[r] = IF outcome[r] = "ok" THEN 0 ELSE 1
                      /\ Cardinality(AccessLines(r)) = IF outcome[r] = "panic" THEN 0 ELSE 1
                      /\ \A l \in AccessLines(r) : l.failed <=> outcome[r] = "error"
    BY DEF HandledOnce, AccessLines
  <2>1. handled[r] = (IF outcome[r] = "ok" THEN 0 ELSE 1) /\ Logged(r)
    BY DEF RequestInv, Progress
  <2>2. CASE outcome[r] = "panic"
    BY <2>1, <2>2, FS_EmptySet DEF Logged
  <2>3. CASE outcome[r] # "panic"
    <3>1. PICK l \in lines : AccessLines(r) = {l} /\ (l.failed <=> outcome[r] = "error")
      BY <2>1, <2>3 DEF Logged
    <3>2. Cardinality(AccessLines(r)) = 1
      BY <3>1, FS_Singleton
    <3> QED BY <2>1, <2>3, <3>1, <3>2
  <2> QED BY <2>2, <2>3
<1> QED BY <1>1, RequestInvAlways, PTL

\* Spans close with their requests; no more of them wait than a batcher has room for, none in
\* a provider that was shut down; and what has waited is lost only with the process, with a
\* provider that could not shut down in time, or in an export that failed (New and Stop of
\* the tracers; tracer.go of server/fiber).
THEOREM SpansAreKeptAlways == RequestsSpec => []SpansAreKept
<1>1. RequestInv => SpansAreKept
  BY DEF RequestInv, WellKept, KeptIn, Fits, ClosedWithRequest, SpansAreKept
<1> QED BY <1>1, RequestInvAlways, PTL
=============================================================================
