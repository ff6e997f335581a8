------------------------------- MODULE Requests -------------------------------
(***************************************************************************)
(* One request after the other, and beside the other, through the fiber    *)
(* server's middleware (server/fiber), a gRPC client that its handler uses *)
(* (client/grpc) and the gRPC server at the other end (server/grpc): which *)
(* identifiers each log line and each call carries, who handles an error,  *)
(* and what becomes of the spans.                                          *)
(*                                                                         *)
(* Fiber serves requests in contexts that it uses again, with the buffers  *)
(* of the headers in them, and Get returns a string that points into these *)
(* buffers.  "header" is such a string: what it says is up to the request  *)
(* that is in the context when it is read.  Everything else is a string of *)
(* its own.  The sampled flag goes the way of the trace and is left out.   *)
(***************************************************************************)
EXTENDS Tracers

CONSTANTS
    Contexts,   \* fiber's contexts
    Sendings    \* the headers a caller may send, of "request", "trace" and "span"

ASSUME MakersAssumption == Makers = {"fiber", "client", "grpc"}

VARIABLES
    sent,      \* headers of each request
    holds,     \* the request whose headers are in the buffers of a context
    in,        \* context of a request
    out,       \* metadata for outgoing calls in the user context that a handler is given
    logging,   \* what the access logger has read from the locals before the handler
    stage,     \* how far a request is
    outcome,   \* of its handler
    failing,   \* the error is still being returned from handler to handler
    handled,   \* history: calls of the ErrorHandler for a request
    rpc,       \* the gRPC call of a request's handler
    lines      \* history: the access logs of both servers

requestVars ==
    <<sent, holds, in, out, logging, stage, outcome, failing, handled, rpc, lines>>

Fields == {"request", "trace", "span", "parent"}

\* An identifier: none, or the caller's or made by "fiber" for a request.
None == <<"none">>
Ids == {None} \cup ({"caller", "fiber"} \X Requests)
Header == <<"header">>
Values == Ids \cup {Header}

Blank == [f \in Fields |-> None]

Lines == [hop : {1, 2}, of : Requests, ids : [Fields -> Ids], late : BOOLEAN, failed : BOOLEAN]

RequestsTypeOK ==
    /\ TracersTypeOK
    /\ sent \in [Requests -> Sendings]
    /\ holds \in [Contexts -> Requests \cup {Nothing}]
    /\ in \in [Requests -> Contexts \cup {Nothing}]
    /\ out \in [Requests -> [Fields -> Values]]
    /\ logging \in [Requests -> [Fields -> Values]]
    /\ stage \in [Requests -> {"waiting", "handling", "returned", "logged", "answered"}]
    /\ outcome \in [Requests -> {"none", "ok", "error", "panic"}]
    /\ failing \in [Requests -> BOOLEAN]
    /\ handled \in [Requests -> 0..2]
    /\ rpc \in [Requests -> {"none", "forked", "inline", "sending", "done"}]
    /\ lines \subseteq Lines

RequestsInit ==
    /\ TracersInit
    /\ sent \in [Requests -> Sendings]
    /\ holds = [c \in Contexts |-> Nothing]
    /\ in = [r \in Requests |-> Nothing]
    /\ out = [r \in Requests |-> Blank]
    /\ logging = [r \in Requests |-> Blank]
    /\ stage = [r \in Requests |-> "waiting"]
    /\ outcome = [r \in Requests |-> "none"]
    /\ failing = [r \in Requests |-> FALSE]
    /\ handled = [r \in Requests |-> 0]
    /\ rpc = [r \in Requests |-> "none"]
    /\ lines = {}

-----------------------------------------------------------------------------
(* The middleware up to the handler.  x is [locals, out, logging] of a      *)
(* request r so far.                                                        *)

Get(r, header) == IF header \in sent[r] THEN Header ELSE None

\* The caller's span is the parent; a request without an identifier is given one.
Propagation(r, x) ==
    [x EXCEPT !.locals.request = IF "request" \in sent[r] THEN Header ELSE <<"fiber", r>>,
              !.locals.trace = Get(r, "trace"),
              !.locals.parent = Get(r, "span")]

\* Without a tracer a span is made up; with one, the caller's trace goes on if it sent a
\* trace and a span, and a new one begins otherwise.
Tracer(r, x) ==
    IF ~Traced("fiber") THEN [x EXCEPT !.locals.span = <<"fiber", r>>]
    ELSE [x EXCEPT !.locals.span = <<"fiber", r>>,
                   !.locals.trace = <<IF {"trace", "span"} \subseteq sent[r]
                                      THEN "caller" ELSE "fiber", r>>]

Metadata(r, x) == [x EXCEPT !.out = x.locals]

AccessLogger(r, x) == [x EXCEPT !.logging = x.locals]

Bare == [locals |-> Blank, out |-> Blank, logging |-> Blank]

\* Mutant: the metadata is made before the tracer runs.
ChainMetadataFirst(r) == AccessLogger(r, Tracer(r, Metadata(r, Propagation(r, Bare))))

\* The order of the middleware.
Chain(r) == AccessLogger(r, Metadata(r, Tracer(r, Propagation(r, Bare))))

Opens(s) == \E state \in Starts(s[1]) : span' = [span EXCEPT ![s] = state]

\* The request gets as far as its handler, in a context that is free.
Enter(r, c) ==
    /\ ~exited
    /\ Unmade \notin {captured[m] : m \in Makers}
    /\ stage[r] = "waiting"
    /\ \A q \in Requests : in[q] = c => stage[q] = "answered"
    /\ holds' = [holds EXCEPT ![c] = r]
    /\ in' = [in EXCEPT ![r] = c]
    /\ out' = [out EXCEPT ![r] = Chain(r).out]
    /\ logging' = [logging EXCEPT ![r] = Chain(r).logging]
    /\ stage' = [stage EXCEPT ![r] = "handling"]
    /\ Opens(<<"fiber", r>>)
    /\ UNCHANGED <<providerVars, sent, outcome, failing, handled, rpc, lines>>

-----------------------------------------------------------------------------
(* The handler's gRPC call, and the server that answers it.                 *)

Returned(r) == stage[r] \in {"logged", "answered"}

\* The handler leaves the call to a goroutine.
Fork(r) ==
    /\ ~exited
    /\ stage[r] = "handling" /\ rpc[r] = "none"
    /\ rpc' = [rpc EXCEPT ![r] = "forked"]
    /\ UNCHANGED <<tracerVars, sent, holds, in, out, logging, stage, outcome, failing,
                   handled, lines>>

\* The client's interceptors open a span, which the metadata does not show, and log.  The
\* tracer middleware cancels the context of the call when it returns.
CallBegins(r) ==
    /\ ~exited
    /\ \/ /\ stage[r] = "handling" /\ rpc[r] = "none"
          /\ rpc' = [rpc EXCEPT ![r] = "inline"]
       \/ /\ rpc[r] = "forked" /\ ~(Traced("fiber") /\ Returned(r))
          /\ rpc' = [rpc EXCEPT ![r] = "sending"]
    /\ Opens(<<"client", r>>)
    /\ UNCHANGED <<providerVars, sent, holds, in, out, logging, stage,
                   outcome, failing, handled, lines>>

\* A goroutine that comes too late finds its context cancelled.
CallIsCancelled(r) ==
    /\ ~exited
    /\ rpc[r] = "forked" /\ Traced("fiber") /\ Returned(r)
    /\ rpc' = [rpc EXCEPT ![r] = "done"]
    /\ UNCHANGED <<tracerVars, sent, holds, in, out, logging, stage, outcome, failing,
                   handled, lines>>

\* What a string says now.
Reads(r, v) == IF v = Header THEN <<"caller", holds[in[r]]>> ELSE v

\* A call that fails, at the client or at the server, is logged there and its span ends.
CallFails(r) ==
    /\ ~exited
    /\ rpc[r] \in {"inline", "sending"}
    /\ rpc' = [rpc EXCEPT ![r] = "done"]
    /\ span' = AfterEnd(<<"client", r>>, span)
    /\ UNCHANGED <<providerVars, sent, holds, in, out, logging, stage,
                   outcome, failing, handled, lines>>

\* The gRPC server's log shows what comes first under each name: the caller's identifiers,
\* and its span as the parent.
GrpcLine(r) ==
    LET got == [f \in Fields |-> Reads(r, out[r][f])] IN
    [hop |-> 2, of |-> r, late |-> stage[r] # "handling", failed |-> FALSE,
     ids |-> [got EXCEPT !.parent = got.span, !.span = None]]

\* The metadata is written to the wire; the server's interceptors make a span of it, whose
\* parent is the span it names, add that behind what has come, and log, at whatever level.
CallIsServed(r) ==
    /\ ~exited
    /\ rpc[r] \in {"inline", "sending"}
    /\ rpc' = [rpc EXCEPT ![r] = "done"]
    /\ lines' = lines \cup {GrpcLine(r)}
    /\ \E state \in Starts("grpc") :
          LET served == AfterEnd(<<"grpc", r>>, [span EXCEPT ![<<"grpc", r>>] = state]) IN
          span' = AfterEnd(<<"client", r>>, served)
    /\ UNCHANGED <<providerVars, sent, holds, in, out, logging, stage,
                   outcome, failing, handled>>

-----------------------------------------------------------------------------
(* The way back.                                                            *)

HandlerReturns(r, result) ==
    /\ ~exited
    /\ stage[r] = "handling" /\ rpc[r] # "inline"
    /\ stage' = [stage EXCEPT ![r] = "returned"]
    /\ outcome' = [outcome EXCEPT ![r] = result]
    /\ failing' = [failing EXCEPT ![r] = result # "ok"]
    /\ UNCHANGED <<tracerVars, sent, holds, in, out, logging, handled, rpc, lines>>

AccessLine(r, failed) ==
    [hop |-> 1, of |-> r, late |-> FALSE, failed |-> failed,
     ids |-> [f \in Fields |-> Reads(r, logging[r][f])]]

\* The access logger has the error handled, which sets the status, then it logs.
LogAccessAnd(r, still) ==
    /\ ~exited
    /\ stage[r] = "returned" /\ outcome[r] # "panic"
    /\ stage' = [stage EXCEPT ![r] = "logged"]
    /\ handled' = [handled EXCEPT ![r] = @ + IF failing[r] THEN 1 ELSE 0]
    /\ failing' = [failing EXCEPT ![r] = still]
    /\ lines' = lines \cup {AccessLine(r, failing[r])}
    /\ UNCHANGED <<tracerVars, sent, holds, in, out, logging, outcome, rpc>>

\* Mutant: a goroutine writes the access log, maybe after the answer.
LogAccessLater(r) ==
    \/ LogAccessAnd(r, FALSE)
    \/ /\ stage[r] = "answered" /\ outcome[r] # "panic"
       /\ lines' = lines \cup {AccessLine(r, outcome[r] = "error")}
       /\ UNCHANGED <<tracerVars, sent, holds, in, out, logging, outcome, rpc, stage, handled,
                      failing>>

\* Mutant: the access logger passes the error on.
LogAccessPassesOn(r) == LogAccessAnd(r, failing[r])

\* It returns nil whatever the handler has returned.
LogAccess(r) == LogAccessAnd(r, FALSE)

\* A panic passes the access logger by.
Unwinds(r) ==
    /\ ~exited
    /\ stage[r] = "returned" /\ outcome[r] = "panic"
    /\ stage' = [stage EXCEPT ![r] = "logged"]
    /\ UNCHANGED <<tracerVars, sent, holds, in, out, logging, outcome, failing,
                   handled, rpc, lines>>

\* The tracer ends its span and handles an error that it is returned; recover makes an error
\* of a panic; what is an error still, fiber handles.  The context is free again.
Answer(r) ==
    /\ ~exited
    /\ stage[r] = "logged"
    /\ stage' = [stage EXCEPT ![r] = "answered"]
    /\ span' = AfterEnd(<<"fiber", r>>, span)
    /\ handled' = [handled EXCEPT ![r] =
           @ + (IF failing[r] /\ outcome[r] # "panic" /\ Traced("fiber") THEN 1 ELSE 0)
             + (IF failing[r] THEN 1 ELSE 0)]
    /\ failing' = [failing EXCEPT ![r] = FALSE]
    /\ UNCHANGED <<providerVars, sent, holds, in, out, logging,
                   outcome, rpc, lines>>

RequestStep(r) ==
    \/ \E c \in Contexts : Enter(r, c)
    \/ Fork(r) \/ CallBegins(r) \/ CallIsCancelled(r) \/ CallFails(r) \/ CallIsServed(r)
    \/ \E result \in {"ok", "error", "panic"} : HandlerReturns(r, result)
    \/ LogAccess(r) \/ Unwinds(r) \/ Answer(r)

RequestsNext ==
    \/ \E r \in Requests : RequestStep(r)
    \/ TracersNext /\ UNCHANGED requestVars

RequestsSpec == RequestsInit /\ [][RequestsNext]_<<tracerVars, requestVars>>

-----------------------------------------------------------------------------
(* Properties.                                                              *)

\* The header that an identifier of the first log may come from.
SentAs(f) == IF f = "parent" THEN "span" ELSE f

\* No log line of either server, and so no call, shows an identifier of another request,
\* however contexts and their buffers are used again (Get and Locals, propagation.go,
\* metadata.go, logger.go).  The exception is a call of a goroutine that its handler has
\* left behind, and then it is one that the caller had sent and the tracer did not replace.
IdsAreOwn ==
    \A l \in lines : \A f \in Fields :
        LET id == l.ids[f]
            mine == id = None \/ id[2] = l.of IN
        IF ~l.late THEN mine
        ELSE mine \/ /\ f # "parent" /\ SentAs(f) \in sent[l.of]
                     /\ f = "trace" => ~Traced("fiber")

\* The logs of the two servers fit together: the one that is called names the request of
\* the one that calls, its trace, and as the parent the span that the caller's log has
\* (the order of the middleware in New, fiber.go; logger.go of server/grpc).
LogsChain ==
    \A l, m \in lines :
        l.hop = 1 /\ m.hop = 2 /\ l.of = m.of /\ ~m.late =>
            /\ m.ids.parent = l.ids.span
            /\ m.ids.request = l.ids.request
            /\ m.ids.trace = l.ids.trace

\* An error of a handler is handled once, by the access logger or, if it was a panic, by
\* fiber, with a tracer and without; every request but a panicking one is in the access
\* log, once, as failed if it has (logger.go and tracer.go of server/fiber).
HandledOnce ==
    \A r \in Requests :
        LET mine == {l \in lines : l.hop = 1 /\ l.of = r} IN
        stage[r] = "answered" =>
            /\ handled[r] = IF outcome[r] = "ok" THEN 0 ELSE 1
            /\ Cardinality(mine) = IF outcome[r] = "panic" THEN 0 ELSE 1
            /\ \A l \in mine : l.failed <=> outcome[r] = "error"

\* A span is closed with its request, even if that panics.  What then waits is never more
\* than the batcher has room for, nor left behind in a provider that was shut down: it is
\* out when Stop returns nil, unless an export has failed (New and Stop of tracer/grpc, http
\* and stdout; tracer.go of server/fiber).
SpansAreKept ==
    /\ \A r \in Requests : stage[r] = "answered" => span[<<"fiber", r>>] # "open"
    /\ \A t \in Providers : Cardinality(Queue(t, span)) <= QueueSize
    /\ \A s \in Spans :
          LET t == captured[s[1]] IN
          /\ span[s] = "queued" => tracer[t] = "up"
          /\ span[s] = "late" => tracer[t] \in {"stopped", "broken"}
          /\ span[s] = "lost" => exited \/ tracer[t] = "broken" \/ t \in refused
=============================================================================
