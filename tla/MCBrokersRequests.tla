-------------------------- MODULE MCBrokersRequests --------------------------
(***************************************************************************)
(* Instances for TLC of the brokers, and of the way of a request through   *)
(* two servers.  They share no state: a behaviour is one of either.  There *)
(* are two instances of the requests: two of them, of which the sampler    *)
(* keeps no span, and one of them with all that can happen to its spans.   *)
(***************************************************************************)
EXTENDS Brokers, Requests, TLC

CONSTANTS
    r1, r2,
    NsqSubs   \* bound on the subscriptions of nsq: each consumer goes on by itself

VARIABLE part   \* the one that moves

\* Everything the middleware looks for, or a trace without the span it belongs to.
SendingsDef == {{"request", "trace", "span"}, {"trace"}}

\* The two requests differ in that.
Differing == (r1 :> {"request", "trace", "span"}) @@ (r2 :> {"trace"})

\* Nothing tells fiber's contexts, or a broker's callers or its topics, apart.
Symmetries == Permutations(Contexts) \cup Permutations(Callers) \cup Permutations(Topics)

BrokersMove ==
    /\ part = "brokers" /\ Next
    /\ kind = "nsq" => Len(made') <= NsqSubs
    /\ UNCHANGED <<tracerVars, requestVars, part>>

RequestsMove ==
    /\ part # "brokers" /\ RequestsNext
    /\ part = "requests" => UNCHANGED <<span, refused, exited>>
    /\ part = "spans" => stage'[r2] = "waiting"
    /\ UNCHANGED <<vars, part>>

BrokersRequestsInit ==
    /\ part \in {"brokers", "requests", "spans"}
    /\ Init /\ RequestsInit
    /\ part # "brokers" => kind = "nsq" /\ sent = Differing
    /\ part = "brokers" => sent = [r \in Requests |-> {"trace"}]

BrokersRequestsSpec ==
    BrokersRequestsInit
        /\ [][BrokersMove \/ RequestsMove]_<<vars, tracerVars, requestVars, part>>
=============================================================================
