------------------------------ MODULE Brokers ------------------------------
(***************************************************************************)
(* The three brokers (broker/nats, jetstream, nsq).  All keep a map of the  *)
(* topics they have subscribed to and a map of handlers that Connect        *)
(* subscribes, and none of them has a lock: Run calls Connect and           *)
(* Disconnect, the application everything else, from any goroutine.         *)
(*   - nats and jetstream subscribe on their connection, which may be lost, *)
(*     come back, or be closed by the library for good; nsq makes a         *)
(*     consumer with a connection of its own for every topic, which goes on *)
(*     with what is in flight after it was told to stop;                    *)
(*   - Disconnect of nats and jetstream unsubscribes the topics of the      *)
(*     handlers, that of nsq everything the map holds.                      *)
(* A call of Subscribe or Unsubscribe is the steps between which another    *)
(* call may get in: what it looks at, what it asks of the library, what it  *)
(* writes.                                                                  *)
(***************************************************************************)
EXTENDS Naturals, Sequences, SequencesExt, FiniteSets

CONSTANTS
    Kinds,      \* the brokers to look at
    Topics,
    NoTopic,    \* the topic of no call
    Callers,    \* goroutines that call the broker
    MaxConns,   \* bound on the connections that TLC makes
    MaxSubs     \* bound on the subscriptions that TLC makes

ASSUME KindsAssumption == Kinds \subseteq {"nats", "jetstream", "nsq"}
ASSUME NoTopicAssumption == NoTopic \notin Topics
ASSUME BoundsAssumption == MaxConns \in Nat /\ MaxSubs \in Nat

VARIABLES
    kind,
    handlers,   \* topics with a handler of Handle
    conn,       \* brk.conn or brk.producer: the number of a connection, or 0 for nil
    net,        \* the connections made so far
    subs,       \* brk.subscriptions: the number of a subscription, or 0 for nil
    made,       \* the subscriptions made so far, each with its topic and connection
    live,       \* those that deliver messages, and go on to
    draining,   \* nsq: those that were told to stop and still deliver what is in flight
    call,       \* the call of each goroutine
    panicked,
    ignored,    \* history: a message reached no handler
    raced,      \* history: calls have overlapped
    replaced    \* history: Connect has left an open connection behind

vars == <<kind, handlers, conn, net, subs, made, live, draining, call, panicked, ignored,
          raced, replaced>>

\* A call: which loop it is in, the topics left there, its step, topic and subscription.
Calls == [job : {"none", "connect", "disconnect"}, todo : SUBSET Topics,
          at : {"idle", "loop", "admitted", "made", "unmade", "publishing"},
          topic : Topics \cup {NoTopic}, sub : 0..MaxSubs]

NoCall == [job |-> "none", todo |-> {}, at |-> "idle", topic |-> NoTopic, sub |-> 0]

TypeOK ==
    /\ kind \in Kinds
    /\ handlers \subseteq Topics
    /\ conn \in 0..Len(net)
    /\ net \in Seq({"up", "down", "closed"}) /\ Len(net) <= MaxConns
    /\ subs \in [Topics -> 0..Len(made)]
    /\ made \in Seq([topic : Topics, on : 0..MaxConns]) /\ Len(made) <= MaxSubs
    /\ live \subseteq DOMAIN made
    /\ draining \subseteq DOMAIN made
    /\ call \in [Callers -> Calls]
    /\ panicked \in BOOLEAN
    /\ ignored \in BOOLEAN
    /\ raced \in BOOLEAN
    /\ replaced \in BOOLEAN

\* New.
Init ==
    /\ kind \in Kinds
    /\ handlers = {}
    /\ conn = 0 /\ net = <<>>
    /\ subs = [t \in Topics |-> 0] /\ made = <<>> /\ live = {} /\ draining = {}
    /\ call = [c \in Callers |-> NoCall]
    /\ panicked = FALSE /\ ignored = FALSE /\ raced = FALSE /\ replaced = FALSE

Idle(c) == call[c].at = "idle"

AllIdle == \A c \in Callers : Idle(c)

\* A call begins.  Once two have overlapped they are followed to their end, and no more
\* begin.
Begins(c) ==
    /\ ~raced
    /\ raced' = \E d \in Callers \ {c} : ~Idle(d)

Goes(c, new) == call' = [call EXCEPT ![c] = new]

\* The part of a call that deals with one topic is over: on with the loop, if it is in one.
Back(c) == Goes(c, IF call[c].job = "none" THEN NoCall
                   ELSE [NoCall EXCEPT !.job = call[c].job, !.todo = call[c].todo,
                                       !.at = "loop"])

\* nats and jetstream: brk.conn is there and connected.
Connected == conn # 0 /\ net[conn] = "up"

-----------------------------------------------------------------------------
(* Handle, Connect, Disconnect.                                             *)

\* Handlers that come after Connect wait for the next one.
Handle(c, t) ==
    /\ Idle(c) /\ t \notin handlers
    /\ handlers' = handlers \cup {t}
    /\ Begins(c)
    /\ UNCHANGED <<kind, conn, net, subs, made, live, draining, call, panicked, ignored, replaced>>

\* The library dials: there is a connection more.
Dials ==
    /\ Len(net) < MaxConns
    /\ net' = Append(net, "up")

\* A new connection takes the place of the old one, which nobody closes.
Connect(c) ==
    /\ Idle(c)
    /\ Dials
    /\ conn' = Len(net) + 1
    /\ replaced' = (replaced \/ (conn # 0 /\ net[conn] # "closed"))
    /\ Goes(c, [call[c] EXCEPT !.job = "connect", !.at = "loop", !.todo = handlers])
    /\ Begins(c)
    /\ UNCHANGED <<kind, handlers, subs, made, live, draining, panicked, ignored>>

\* jetstream makes its context and stream after it has dialled; if that fails, the
\* connection it has made is forgotten open.
ConnectFails(c) ==
    /\ Idle(c)
    /\ kind = "jetstream"
    /\ Dials
    /\ replaced' = TRUE
    /\ Begins(c)
    /\ UNCHANGED <<kind, handlers, conn, subs, made, live, draining, call, panicked, ignored>>

Disconnect(c) ==
    /\ Idle(c)
    /\ kind = "nsq" \/ (conn # 0 /\ net[conn] # "closed")
    /\ Goes(c, [call[c] EXCEPT !.job = "disconnect", !.at = "loop",
                   !.todo = IF kind = "nsq" THEN {t \in Topics : subs[t] # 0} ELSE handlers])
    /\ Begins(c)
    /\ UNCHANGED <<kind, handlers, conn, net, subs, made, live, draining, panicked, ignored,
                   replaced>>

\* The loop of Connect is through.
ConnectEnds(c) ==
    /\ call[c].at = "loop" /\ call[c].job = "connect" /\ call[c].todo = {}
    /\ Goes(c, NoCall)
    /\ UNCHANGED <<kind, handlers, conn, net, subs, made, live, draining, panicked, ignored, raced,
                   replaced>>

\* Mutant: brk.conn is set to nil and not closed.
DisconnectEndsOpen(c) ==
    /\ call[c].at = "loop" /\ call[c].job = "disconnect" /\ call[c].todo = {}
    /\ Goes(c, NoCall)
    /\ conn' = 0
    /\ UNCHANGED <<kind, handlers, net, subs, made, live, draining, panicked, ignored, raced,
                   replaced>>

\* The loop of Disconnect is through: the connection is closed, with what is subscribed
\* on it; a consumer of nsq has its own.
DisconnectEnds(c) ==
    /\ call[c].at = "loop" /\ call[c].job = "disconnect" /\ call[c].todo = {}
    /\ Goes(c, NoCall)
    /\ conn' = 0
    /\ net' = [n \in DOMAIN net |-> IF n = conn THEN "closed" ELSE net[n]]
    /\ live' = {s \in live : kind = "nsq" \/ made[s].on # conn}
    /\ UNCHANGED <<kind, handlers, subs, made, draining, panicked, ignored, raced, replaced>>

-----------------------------------------------------------------------------
(* Subscribe, from the application or from Connect.                         *)

\* The topic a call turns to next.
Turns(c, t) ==
    \/ Idle(c) /\ Begins(c)
    \/ /\ call[c].at = "loop" /\ t \in call[c].todo
       /\ UNCHANGED raced

May(c, job) == call[c].job \in {"none", job}

\* It is with topic t now; in a loop, t is done with after this.
GoesWith(c, t, at) == Goes(c, [call[c] EXCEPT !.at = at, !.topic = t, !.todo = @ \ {t}])

\* The loop leaves out topic t.
Skips(c, t) == Goes(c, [call[c] EXCEPT !.todo = @ \ {t}])

\* Mutant: a topic may be subscribed to again.
AdmitSubscribedToo(c, t) ==
    /\ May(c, "connect") /\ Turns(c, t)
    /\ kind = "nsq" \/ Connected
    /\ GoesWith(c, t, "admitted")
    /\ UNCHANGED <<kind, handlers, conn, net, subs, made, live, draining, panicked, ignored,
                   replaced>>

\* The checks at the head of Subscribe let the call pass.
Admit(c, t) ==
    /\ May(c, "connect") /\ Turns(c, t)
    /\ kind = "nsq" \/ Connected
    /\ subs[t] = 0
    /\ GoesWith(c, t, "admitted")
    /\ UNCHANGED <<kind, handlers, conn, net, subs, made, live, draining, panicked, ignored,
                   replaced>>

\* They do not: "broker not connected", "topic already subscribed"; Connect logs it.
Refuse(c, t) ==
    /\ call[c].at = "loop" /\ call[c].job = "connect" /\ t \in call[c].todo
    /\ (kind # "nsq" /\ ~Connected) \/ subs[t] # 0
    /\ Skips(c, t)
    /\ UNCHANGED <<kind, handlers, conn, net, subs, made, live, draining, panicked, ignored, raced,
                   replaced>>

\* The library makes a subscription, on the connection there is by now.
MakeSub(c) ==
    /\ call[c].at = "admitted"
    /\ Len(made) < MaxSubs
    /\ kind = "nsq" \/ (conn # 0 /\ net[conn] # "closed")
    /\ made' = Append(made, [topic |-> call[c].topic, on |-> conn])
    /\ live' = live \cup {Len(made) + 1}
    /\ Goes(c, [call[c] EXCEPT !.at = "made", !.sub = Len(made) + 1])
    /\ UNCHANGED <<kind, handlers, conn, net, subs, draining, panicked, ignored, raced,
                   replaced>>

\* It returns an error, to be returned by Subscribe.
MakeSubFails(c) ==
    /\ call[c].at = "admitted"
    /\ Back(c)
    /\ UNCHANGED <<kind, handlers, conn, net, subs, made, live, draining, panicked, ignored, raced,
                   replaced>>

Record(c) ==
    /\ call[c].at = "made"
    /\ subs' = [subs EXCEPT ![call[c].topic] = call[c].sub]
    /\ Back(c)
    /\ UNCHANGED <<kind, handlers, conn, net, made, live, draining, panicked, ignored, raced,
                   replaced>>

(* Unsubscribe, from the application or from Disconnect.                    *)

\* nats and jetstream hand out no more; a consumer of nsq is told to stop, and nobody waits
\* for it to have done so.
Unmake(c, t) ==
    /\ May(c, "disconnect") /\ Turns(c, t)
    /\ subs[t] # 0
    /\ live' = live \ {subs[t]}
    /\ draining' = IF kind = "nsq" THEN draining \cup (live \cap {subs[t]}) ELSE draining
    /\ GoesWith(c, t, "unmade")
    /\ UNCHANGED <<kind, handlers, conn, net, subs, made, panicked, ignored, replaced>>

\* There is nothing to unsubscribe.
UnmakeNothing(c, t) ==
    /\ call[c].at = "loop" /\ call[c].job = "disconnect" /\ t \in call[c].todo
    /\ subs[t] = 0
    /\ Skips(c, t)
    /\ UNCHANGED <<kind, handlers, conn, net, subs, made, live, draining, panicked, ignored, raced,
                   replaced>>

\* Mutant: the topic stays in the map.
ForgetNot(c) ==
    /\ call[c].at = "unmade"
    /\ Back(c)
    /\ UNCHANGED <<kind, handlers, conn, net, subs, made, live, draining, panicked, ignored, raced,
                   replaced>>

Forget(c) ==
    /\ call[c].at = "unmade"
    /\ subs' = [subs EXCEPT ![call[c].topic] = 0]
    /\ Back(c)
    /\ UNCHANGED <<kind, handlers, conn, net, made, live, draining, panicked, ignored, raced,
                   replaced>>

-----------------------------------------------------------------------------
(* Publish, and what comes from the library.                                *)

\* Publish finds the connection, or the producer, not to be nil ...
PublishChecks(c) ==
    /\ Idle(c)
    /\ conn # 0
    /\ Goes(c, [call[c] EXCEPT !.at = "publishing"])
    /\ Begins(c)
    /\ UNCHANGED <<kind, handlers, conn, net, subs, made, live, draining, panicked, ignored,
                   replaced>>

\* ... and calls a method of it, for which it reads the field again: IsConnected of nats
\* and jetstream, Publish of nsq.  Both panic if it has become nil.
Publish(c) ==
    /\ call[c].at = "publishing"
    /\ Goes(c, NoCall)
    /\ panicked' = (conn = 0)
    /\ UNCHANGED <<kind, handlers, conn, net, subs, made, live, draining, ignored, raced,
                   replaced>>

\* The network of a connection fails and returns, or the library gives it up.
NetChanges(n, to) ==
    /\ kind # "nsq"
    /\ n \in DOMAIN net
    /\ <<net[n], to>> \in {<<"up", "down">>, <<"down", "up">>, <<"down", "closed">>}
    /\ net' = [net EXCEPT ![n] = to]
    /\ live' = {s \in live : to # "closed" \/ made[s].on # n}
    /\ UNCHANGED <<kind, handlers, conn, subs, made, draining, call, panicked, ignored, raced,
                   replaced>>

\* A message arrives and nobody handles it.  nats and jetstream call the handler that
\* Subscribe was given; nsq looks for one of Handle and drops the message if there is none.
Drop(s) ==
    /\ s \in live \cup draining
    /\ kind = "nsq" /\ made[s].topic \notin handlers
    /\ ignored' = TRUE
    /\ UNCHANGED <<kind, handlers, conn, net, subs, made, live, draining, call, panicked, raced,
                   replaced>>

\* A consumer that was told to stop has handed out its last message.
Drained(s) ==
    /\ s \in draining
    /\ draining' = draining \ {s}
    /\ UNCHANGED <<kind, handlers, conn, net, subs, made, live, call, panicked, ignored, raced,
                   replaced>>

Step(c) ==
    \/ Connect(c) \/ ConnectFails(c) \/ ConnectEnds(c) \/ Disconnect(c) \/ DisconnectEnds(c)
    \/ MakeSub(c) \/ MakeSubFails(c) \/ Record(c) \/ Forget(c)
    \/ PublishChecks(c) \/ Publish(c)
    \/ \E t \in Topics : \/ Handle(c, t) \/ Admit(c, t) \/ Refuse(c, t)
                         \/ Unmake(c, t) \/ UnmakeNothing(c, t)

Next ==
    /\ ~panicked
    /\ \/ \E c \in Callers : Step(c)
       \/ \E n \in DOMAIN net, to \in {"up", "down", "closed"} : NetChanges(n, to)
       \/ \E s \in live \cup draining : Drop(s) \/ Drained(s)

Spec == Init /\ [][Next]_vars

-----------------------------------------------------------------------------
(* Properties.                                                              *)

\* As long as calls do not overlap, a subscription that goes on delivering messages is the
\* one the map has of its topic, or about to get there: across any number of connections
\* there is one of a topic, and Unsubscribe finds it.  What still delivers although it was
\* told to stop is a consumer of nsq, and has left the map, but for the Unsubscribe that is
\* at it: a Subscribe makes a new one beside it (Subscribe, Unsubscribe and Connect).
LiveIsRecorded ==
    ~raced =>
        /\ \A s \in live :
              \/ subs[made[s].topic] = s
              \/ \E c \in Callers : call[c].at = "made" /\ call[c].sub = s
        /\ \A s \in draining :
              /\ kind = "nsq"
              /\ subs[made[s].topic] = s =>
                    \E c \in Callers : call[c].at = "unmade" /\ call[c].topic = made[s].topic

\* The map keeps a subscription that does not go on delivering only if the connection it was
\* made on has gone: what makes a later Subscribe of the topic fail.
DeadHadItsConnectionClosed ==
    \A t \in Topics :
        ~raced /\ AllIdle /\ subs[t] # 0 /\ subs[t] \notin live
            => kind # "nsq" /\ net[made[subs[t]].on] = "closed"

\* After Disconnect nothing of nats or jetstream delivers messages or stays connected, if
\* calls did not overlap and Connect was not called on top of an open connection.
DisconnectedIsQuiet ==
    kind # "nsq" /\ conn = 0 /\ AllIdle /\ ~raced /\ ~replaced
        => live = {} /\ \A n \in DOMAIN net : net[n] = "closed"

\* Publish panics only if another call ran between its check and its use.
PanicOnlyInRace == panicked => raced

\* Both: a Disconnect leaves nothing behind, and takes the connection from nobody's hands,
\* unless calls overlapped (Disconnect and Publish of nats.go and jetstream.go).
DisconnectIsSafe == DisconnectedIsQuiet /\ PanicOnlyInRace

\* "topic already subscribed" (nats.go, Subscribe): a topic for which a connected broker
\* gives this answer is one it is subscribed to.
AlreadySubscribed ==
    \A t \in Topics : AllIdle /\ Connected /\ subs[t] # 0 => subs[t] \in live

\* "Subscriber topic" Subscribe(topic, h) (broker.go): a message of a topic that was
\* subscribed to reaches a handler.
MessagesAreHandled == ~ignored
=============================================================================
