------------------------------- MODULE Tracers -------------------------------
(***************************************************************************)
(* The tracers of a process (tracer/tracer.go, tracer/grpc, tracer/http,   *)
(* tracer/stdout) and the spans they are given.  The first tracer that     *)
(* comes up is the default one for good; a server or client asks for it    *)
(* once, when it is made.  The provider's sampler keeps a span or does not *)
(* when it starts; one that was kept waits in a queue of the batcher when  *)
(* it has ended, if there is room, until the exporter sends what waits.    *)
(* sicky.Run neither starts nor stops a tracer: the application may.       *)
(***************************************************************************)
EXTENDS Naturals, FiniteSets

CONSTANTS
    QueueSize,   \* spans a batcher has room for
    Providers,   \* tracers an application makes
    Makers,      \* what makes spans: servers and clients, each made once
    Requests,    \* what spans are made for
    Nothing      \* no tracer

ASSUME QueueAssumption == QueueSize \in Nat
ASSUME NothingAssumption == Nothing \notin Providers

Spans == Makers \X Requests

VARIABLES
    tracer,     \* each tracer: "unmade", "nil" (New failed), "up", "stopped" or "broken"
    default,    \* defaultTracer
    captured,   \* what a server or client has got from Default when it was made
    span,       \* each span: "none", or one of SpanStates if the sampler keeps it
    refused,    \* history: tracers of which an export has failed
    exited      \* the process has ended

providerVars == <<tracer, default, captured, refused, exited>>
tracerVars == <<providerVars, span>>

\* "late": its provider was shut down before it ended; "crowded": there was no room.
SpanStates == {"none", "open", "queued", "exported", "late", "crowded", "lost"}

Unmade == "unmade"

ASSUME UnmadeAssumption == Unmade \notin Providers

TracersTypeOK ==
    /\ tracer \in [Providers -> {"unmade", "nil", "up", "stopped", "broken"}]
    /\ default \in Providers \cup {Nothing}
    /\ captured \in [Makers -> Providers \cup {Nothing, Unmade}]
    /\ span \in [Spans -> SpanStates]
    /\ refused \subseteq Providers
    /\ exited \in BOOLEAN

TracersInit ==
    /\ tracer = [t \in Providers |-> "unmade"]
    /\ default = Nothing
    /\ captured = [m \in Makers |-> Unmade]
    /\ span = [s \in Spans |-> "none"]
    /\ refused = {}
    /\ exited = FALSE

\* The spans of what was made with tracer t.
Of(t) == {s \in Spans : captured[s[1]] = t}

\* New is called, and the tracer becomes this.
Creates(t, state) ==
    /\ ~exited
    /\ tracer[t] = "unmade"
    /\ tracer' = [tracer EXCEPT ![t] = state]
    /\ UNCHANGED <<captured, span, refused, exited>>

\* New sets the tracer; Set makes it the default if there is none.
NewTracer(t) ==
    /\ Creates(t, "up")
    /\ default' = IF default = Nothing THEN t ELSE default

\* The exporter or the resource failed: New returns nil and sets nothing.
NewTracerFails(t) == Creates(t, "nil") /\ UNCHANGED default

\* A server or client asks for the default tracer in New, and never again.
Make(m) ==
    /\ ~exited
    /\ captured[m] = Unmade
    /\ captured' = [captured EXCEPT ![m] = default]
    /\ UNCHANGED <<tracer, default, span, refused, exited>>

Traced(m) == captured[m] \in Providers

\* A span starts, or the sampler leaves it out.
Starts(m) == {"none"} \cup (IF Traced(m) THEN {"open"} ELSE {})

\* What waits in the batcher of t, if `spans' is what has become of each span.
Queue(t, spans) == {s \in Of(t) : spans[s] = "queued"}

\* The same after span s has ended.
AfterEnd(s, spans) ==
    LET t == captured[s[1]] IN
    IF spans[s] # "open" THEN spans
    ELSE [spans EXCEPT ![s] = IF tracer[t] # "up" THEN "late"
                              ELSE IF Cardinality(Queue(t, spans)) < QueueSize THEN "queued"
                              ELSE "crowded"]

\* What waits in the batcher of t comes to this.
Flush(t, fate) == span' = [s \in Spans |-> IF s \in Queue(t, span) THEN fate ELSE span[s]]

\* The exporter takes what waits; or it fails, which an error handler of the library is
\* told, and what it was given is thrown away.
Send(t) ==
    \/ Flush(t, "exported") /\ UNCHANGED refused
    \/ Flush(t, "lost") /\ refused' = refused \cup {t}

\* The batcher's goroutine.
Export(t) ==
    /\ ~exited
    /\ tracer[t] = "up"
    /\ Queue(t, span) # {}
    /\ Send(t)
    /\ UNCHANGED <<tracer, default, captured, exited>>

ShutDown(t, state) ==
    /\ ~exited
    /\ tracer[t] = "up"
    /\ tracer' = [tracer EXCEPT ![t] = state]
    /\ UNCHANGED <<default, captured, exited>>

\* Mutant: the exporter is shut down before the provider.
StopTracerExporterFirst(t) ==
    ShutDown(t, "stopped") /\ Flush(t, "lost") /\ UNCHANGED refused

\* Stop shuts the provider down, which sends what waits; that this failed it does not say.
StopTracer(t) == ShutDown(t, "stopped") /\ Send(t)

\* The context has ended first: the exporter is shut down, before what waits was sent or
\* after, and the error returned.
StopTracerFails(t) ==
    /\ ShutDown(t, "broken")
    /\ \E fate \in {"exported", "lost"} : Flush(t, fate)
    /\ UNCHANGED refused

\* Run returns, or a fatal log ends the process: what waits in a queue is gone.
ProcessExits ==
    /\ ~exited
    /\ exited' = TRUE
    /\ span' = [s \in Spans |-> IF span[s] \in {"open", "queued"} THEN "lost" ELSE span[s]]
    /\ UNCHANGED <<tracer, default, captured, refused>>

TracersNext ==
    \/ \E t \in Providers :
          NewTracer(t) \/ NewTracerFails(t) \/ Export(t) \/ StopTracer(t) \/ StopTracerFails(t)
    \/ \E m \in Makers : Make(m)
    \/ ProcessExits
=============================================================================
