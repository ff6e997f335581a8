---------------------------- MODULE StaticRunner ----------------------------
(***************************************************************************)
(* The static runner (runner/static/static.go): a channel of tasks that a  *)
(* fixed number of worker goroutines range over.  Task and Stop read and   *)
(* write the field r.task without a lock: Task looks at it to see whether  *)
(* the runner is there and again to send, Stop looks at it, closes the     *)
(* channel and then sets the field to nil, and a worker looks at it once,  *)
(* when its goroutine gets to run.  Each look is a step of its own here.   *)
(***************************************************************************)
EXTENDS Naturals, Sequences, SequencesExt

CONSTANTS
    Tasks,        \* one call of Task each, from a goroutine of its own
    NoTask,       \* what an idle worker runs
    Stoppers,     \* one call of Stop each
    NThreads,     \* options.NThreads
    BufferSize,   \* options.BufferSize; 0 makes an unbuffered channel
    MaxStarts     \* calls of Start: each one adds NThreads workers

ASSUME NoTaskAssumption == NoTask \notin Tasks
ASSUME ThreadsAssumption == NThreads \in Nat \ {0}
ASSUME BufferAssumption == BufferSize \in Nat
ASSUME StartsAssumption == MaxStarts \in Nat

Workers == (1..MaxStarts) \X (1..NThreads)

VARIABLES
    present,    \* r.task is not nil
    closed,     \* the channel is closed
    buf,        \* tasks in the channel's buffer
    call,       \* step of each call of Task
    stop,       \* step of each call of Stop
    worker,     \* step of each worker
    work,       \* the task a worker's handler runs
    starts,     \* calls of Start so far
    panicked,   \* a goroutine panicked: the process is gone
    sent,       \* history: tasks the channel took, in order
    taken,      \* history: tasks the workers took, in order
    done,       \* history: tasks whose handler has returned
    raced       \* history: calls of Task and Stop that overlapped another Stop's steps

vars == <<present, closed, buf, call, stop, worker, work, starts, panicked, sent, taken,
          done, raced>>

CallSteps == {"idle", "checked", "sending", "sent", "dropped", "stuck", "panic"}
StopSteps == {"idle", "checked", "closed", "done", "panic"}
WorkerSteps == {"none", "spawned", "waiting", "busy", "ended", "stuck"}

TypeOK ==
    /\ present \in BOOLEAN
    /\ closed \in BOOLEAN
    /\ buf \in Seq(Tasks) /\ Len(buf) <= BufferSize
    /\ call \in [Tasks -> CallSteps]
    /\ stop \in [Stoppers -> StopSteps]
    /\ worker \in [Workers -> WorkerSteps]
    /\ work \in [Workers -> Tasks \cup {NoTask}]
    /\ starts \in 0..MaxStarts
    /\ panicked \in BOOLEAN
    /\ sent \in Seq(Tasks)
    /\ taken \in Seq(Tasks)
    /\ done \subseteq Tasks
    /\ raced \subseteq Tasks \cup Stoppers

\* New makes the channel.
Init ==
    /\ present = TRUE
    /\ closed = FALSE
    /\ buf = <<>>
    /\ call = [t \in Tasks |-> "idle"]
    /\ stop = [s \in Stoppers |-> "idle"]
    /\ worker = [w \in Workers |-> "none"]
    /\ work = [w \in Workers |-> NoTask]
    /\ starts = 0
    /\ panicked = FALSE
    /\ sent = <<>>
    /\ taken = <<>>
    /\ done = {}
    /\ raced = {}

histVars == <<sent, taken, done>>

-----------------------------------------------------------------------------
(* Task.                                                                    *)

CallStep(t, from, to) ==
    /\ call[t] = from
    /\ call' = [call EXCEPT ![t] = to]

\* A Stop has closed the channel and not cleared r.task yet.
HalfStopped == \E s \in Stoppers : stop[s] = "closed"

CheckTask(t) ==
    /\ CallStep(t, "idle", IF present THEN "checked" ELSE "dropped")
    /\ raced' = IF HalfStopped THEN raced \cup {t} ELSE raced
    /\ UNCHANGED <<present, closed, buf, stop, worker, work, starts, panicked, histVars>>

\* A build may read r.task again for the send, or send to what the check has read; a
\* send on a nil channel never ends.
ReadForSend(t) ==
    /\ \/ CallStep(t, "checked", "sending")
       \/ ~present /\ CallStep(t, "checked", "stuck")
    /\ UNCHANGED <<present, closed, buf, stop, worker, work, starts, panicked, histVars, raced>>

SendToBuffer(t) ==
    /\ CallStep(t, "sending", "sent")
    /\ ~closed
    /\ Len(buf) < BufferSize
    /\ buf' = Append(buf, t)
    /\ sent' = Append(sent, t)
    /\ UNCHANGED <<present, closed, stop, worker, work, starts, panicked, taken, done, raced>>

\* A worker that waits takes the task from the hand of the sender.
SendToWorker(t, w) ==
    /\ CallStep(t, "sending", "sent")
    /\ ~closed
    /\ worker[w] = "waiting" /\ buf = <<>>
    /\ worker' = [worker EXCEPT ![w] = "busy"]
    /\ work' = [work EXCEPT ![w] = t]
    /\ sent' = Append(sent, t)
    /\ taken' = Append(taken, t)
    /\ UNCHANGED <<present, closed, buf, stop, starts, panicked, done, raced>>

\* A send on a closed channel panics, also one that was blocked when it was closed.
SendPanics(t) ==
    /\ CallStep(t, "sending", "panic")
    /\ closed
    /\ panicked' = TRUE
    /\ UNCHANGED <<present, closed, buf, stop, worker, work, starts, histVars, raced>>

-----------------------------------------------------------------------------
(* Stop.                                                                    *)

StopStep(s, from, to) ==
    /\ stop[s] = from
    /\ stop' = [stop EXCEPT ![s] = to]

Race(s) ==
    raced' = raced \cup {t \in Tasks : call[t] \in {"checked", "sending"}}
                   \cup {r \in Stoppers \ {s} : stop[r] = "checked"}

CheckStop(s) ==
    /\ StopStep(s, "idle", IF present THEN "checked" ELSE "done")
    /\ raced' = IF HalfStopped THEN raced \cup {s} ELSE raced
    /\ UNCHANGED <<present, closed, buf, call, worker, work, starts, panicked, histVars>>

CloseChannel(s) ==
    /\ StopStep(s, "checked", "closed")
    /\ present /\ ~closed
    /\ closed' = TRUE
    /\ Race(s)
    /\ UNCHANGED <<present, buf, call, worker, work, starts, panicked, histVars>>

\* Another Stop came first: close of a closed or nil channel panics.
ClosePanics(s) ==
    /\ StopStep(s, "checked", "panic")
    /\ closed \/ ~present
    /\ panicked' = TRUE
    /\ UNCHANGED <<present, closed, buf, call, worker, work, starts, histVars, raced>>

\* Mutant: the field keeps the closed channel.
ClearTaskNot(s) ==
    /\ StopStep(s, "closed", "done")
    /\ Race(s)
    /\ UNCHANGED <<present, closed, buf, call, worker, work, starts, panicked, histVars>>

ClearTask(s) ==
    /\ StopStep(s, "closed", "done")
    /\ present' = FALSE
    /\ Race(s)
    /\ UNCHANGED <<closed, buf, call, worker, work, starts, panicked, histVars>>

-----------------------------------------------------------------------------
(* Start and the workers.                                                   *)

\* Start does not ask whether the runner runs.
Start ==
    /\ starts < MaxStarts
    /\ starts' = starts + 1
    /\ worker' = [w \in Workers |-> IF w[1] = starts + 1 THEN "spawned" ELSE worker[w]]
    /\ UNCHANGED <<present, closed, buf, call, stop, work, panicked, histVars, raced>>

WorkerStep(w, from, to) ==
    /\ worker[w] = from
    /\ worker' = [worker EXCEPT ![w] = to]

\* The range evaluates r.task once; a range over a nil channel never ends.
Attach(w) ==
    /\ WorkerStep(w, "spawned", IF present THEN "waiting" ELSE "stuck")
    /\ UNCHANGED <<present, closed, buf, call, stop, work, starts, panicked, histVars, raced>>

\* Mutant: a worker takes what is left after Stop, and does not run it.
TakeDropsLeft(w) ==
    /\ WorkerStep(w, "waiting", IF closed THEN "waiting" ELSE "busy")
    /\ buf # <<>>
    /\ work' = [work EXCEPT ![w] = IF closed THEN NoTask ELSE Head(buf)]
    /\ taken' = Append(taken, Head(buf))
    /\ buf' = Tail(buf)
    /\ UNCHANGED <<present, closed, call, stop, starts, panicked, sent, done, raced>>

Take(w) ==
    /\ WorkerStep(w, "waiting", "busy")
    /\ buf # <<>>
    /\ work' = [work EXCEPT ![w] = Head(buf)]
    /\ taken' = Append(taken, Head(buf))
    /\ buf' = Tail(buf)
    /\ UNCHANGED <<present, closed, call, stop, starts, panicked, sent, done, raced>>

\* The handler has returned; its error is logged.
Finish(w) ==
    /\ WorkerStep(w, "busy", "waiting")
    /\ done' = done \cup {work[w]}
    /\ work' = [work EXCEPT ![w] = NoTask]
    /\ UNCHANGED <<present, closed, buf, call, stop, starts, panicked, sent, taken, raced>>

\* Mutant: a worker ends as soon as the channel is closed.
EndWorkerEarly(w) ==
    /\ WorkerStep(w, "waiting", "ended")
    /\ closed
    /\ UNCHANGED <<present, closed, buf, call, stop, work, starts, panicked, histVars, raced>>

\* Mutant: a loop that receives without asking whether the channel is closed.
EndWorkerSpins(w) ==
    /\ WorkerStep(w, "waiting", "waiting")
    /\ closed /\ buf = <<>>
    /\ UNCHANGED <<present, closed, buf, call, stop, work, starts, panicked, histVars, raced>>

\* A closed channel is drained before the range ends.
EndWorker(w) ==
    /\ WorkerStep(w, "waiting", "ended")
    /\ closed /\ buf = <<>>
    /\ UNCHANGED <<present, closed, buf, call, stop, work, starts, panicked, histVars, raced>>

TaskStep(t) ==
    \/ CheckTask(t) \/ ReadForSend(t) \/ SendToBuffer(t) \/ SendPanics(t)
    \/ \E w \in Workers : SendToWorker(t, w)

StopCall(s) == CheckStop(s) \/ CloseChannel(s) \/ ClosePanics(s) \/ ClearTask(s)

WorkerLoop(w) == Attach(w) \/ Take(w) \/ Finish(w) \/ EndWorker(w)

Next ==
    /\ ~panicked
    /\ \/ Start
       \/ \E t \in Tasks : TaskStep(t)
       \/ \E s \in Stoppers : StopCall(s)
       \/ \E w \in Workers : WorkerLoop(w)

Spec == Init /\ [][Next]_vars

Send(t) == SendToBuffer(t) \/ \E w \in Workers : SendToWorker(t, w)

\* Goroutines run on; handlers return; the queue of senders of a channel is first in,
\* first out, so that a blocked sender is not passed over for ever.
Fairness ==
    /\ \A w \in Workers : WF_vars(~panicked /\ WorkerLoop(w))
    /\ \A t \in Tasks : SF_vars(~panicked /\ Send(t))

FairSpec == Spec /\ Fairness

-----------------------------------------------------------------------------
(* Properties.                                                              *)

\* The channel loses, repeats and reorders nothing, open, closed or drained: what the
\* workers took, followed by what is in the buffer, is what the channel was given.
Conservation == sent = taken \o buf

\* No task runs twice, or in two workers at once, and what has run had been sent.
RunsOnce ==
    /\ \A v, w \in Workers :
          v # w /\ worker[v] = "busy" /\ worker[w] = "busy" => work[v] # work[w]
    /\ \A w \in Workers : worker[w] = "busy" => work[w] \notin done
    /\ done \subseteq ToSet(taken)

\* What a worker took, its handler runs on or has run on: a worker that stops, or finds the
\* channel closed, has nothing in its hands.
TakenAreHeld ==
    ToSet(taken) \subseteq done \cup {work[w] : w \in {v \in Workers : worker[v] = "busy"}}

\* All three: every task that Task has sent is waiting, in one worker's hands, or has run
\* once (Task, Start, Stop and the workers of static.go).
EachRunsOnce == Conservation /\ RunsOnce /\ TakenAreHeld

\* A call of Task hangs for ever or takes the process down, and a call of Stop takes the
\* process down, only if it overlapped a Stop: one that closed the channel or set r.task
\* to nil after the call had begun, or that was between these two steps as it began.
LostOnlyInRace ==
    /\ \A t \in Tasks : call[t] \in {"stuck", "panic"} => t \in raced
    /\ \A s \in Stoppers : stop[s] = "panic" => s \in raced

Attached(w) == worker[w] \in {"waiting", "busy"}

\* A task that the channel has taken runs, also after Stop, provided that a worker got
\* to look at r.task before Stop cleared it.
SentRuns ==
    \A t \in Tasks :
        call[t] = "sent" /\ (\E w \in Workers : Attached(w)) ~> t \in done \/ panicked

\* Once the channel is closed, every worker that ranges over it ends.
WorkersEnd == \A w \in Workers : closed /\ Attached(w) ~> worker[w] = "ended" \/ panicked
=============================================================================
