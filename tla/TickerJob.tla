----------------------------- MODULE TickerJob -----------------------------
(***************************************************************************)
(* The ticker job (job/ticker/ticker.go).  Add, Start and Stop hold the    *)
(* job's lock; the goroutine that Start spawns does not: it looks at       *)
(* job.ticker when it first runs, at job.tasks at every tick, and at the   *)
(* counter twice for every task.  It never ends: Stop silences the ticker  *)
(* and does not close its channel, so that a goroutine which first runs    *)
(* after a Stop and a Start shares the new ticker with the next one, and a *)
(* goroutine whose handlers are slow goes on next to its successor.        *)
(***************************************************************************)
EXTENDS Naturals, Sequences, SequencesExt

CONSTANTS
    Intevals,   \* task.Inteval of the tasks an application adds
    MaxTasks,   \* bound: calls of Add
    MaxTickers, \* bound: calls of Start that find the job stopped
    MaxTicks    \* bound: ticks of the tickers

ASSUME IntevalsAssumption == Intevals \subseteq Nat
ASSUME BoundsAssumption == MaxTasks \in Nat /\ MaxTickers \in Nat /\ MaxTicks \in Nat

Loops == 1..MaxTickers

VARIABLES
    running,
    tickers,    \* tickers made; the last one is job.ticker
    fired,      \* ticks so far
    pending,    \* the current ticker's channel holds a tick
    tasks,      \* Inteval of each task of job.tasks
    adding,     \* what an Add has half appended: the length is written, the task is not
    counter,
    loop,       \* each goroutine: its step, the ticker it ranges over, its tasks to do
    dead,       \* a goroutine panicked: the process is gone
    begun,      \* history: for each count, how many tasks the tick that began at it saw
    calls,      \* history: calls of the handlers, [task, count] with repetitions
    shared      \* history: two goroutines were in their tasks at once

tickerVars == <<running, tickers, fired, pending, tasks, adding, counter, loop, dead, begun,
                calls, shared>>

Nothing == <<>>

NoLoop == [pc |-> "none", chan |-> 0, seen |-> <<>>, torn |-> FALSE, at |-> 1]

\* New.
TickerInit ==
    /\ running = FALSE /\ tickers = 0 /\ fired = 0 /\ pending = FALSE
    /\ tasks = <<>> /\ adding = Nothing
    /\ counter = 0
    /\ loop = [l \in Loops |-> NoLoop]
    /\ dead = FALSE
    /\ begun = [c \in 0..MaxTicks |-> 0]
    /\ calls = <<>>
    /\ shared = FALSE

LoopTo(l, pc) == loop' = [loop EXCEPT ![l].pc = pc]

NextTask(l) == loop' = [loop EXCEPT ![l].pc = "tasks", ![l].at = @ + 1]

tickHistory == <<begun, calls, shared>>

-----------------------------------------------------------------------------
(* Add, Start, Stop and the clock.                                          *)

\* The lock keeps two calls of Add apart, and not an Add and a goroutine.
AddBegins(i) ==
    /\ adding = Nothing
    /\ Len(tasks) < MaxTasks
    /\ adding' = <<i>>
    /\ UNCHANGED <<running, tickers, fired, pending, tasks, counter, loop, dead, tickHistory>>

AddEnds ==
    /\ adding # Nothing
    /\ tasks' = tasks \o adding
    /\ adding' = Nothing
    /\ UNCHANGED <<running, tickers, fired, pending, counter, loop, dead, tickHistory>>

\* The interval of the ticker is positive after Ensure: NewTicker does not panic.
StartTicker ==
    /\ adding = Nothing
    /\ ~running /\ tickers < MaxTickers
    /\ running' = TRUE
    /\ tickers' = tickers + 1
    /\ pending' = FALSE
    /\ LoopTo(tickers + 1, "spawned")
    /\ UNCHANGED <<fired, tasks, adding, counter, dead, tickHistory>>

\* Mutant: a ticker whose channel keeps a tick after Stop.
StopTickerKeepsTick ==
    /\ adding = Nothing
    /\ running
    /\ running' = FALSE
    /\ UNCHANGED <<tickers, fired, pending, tasks, adding, counter, loop, dead, tickHistory>>

\* No tick is received after the ticker's Stop has returned.
StopTicker ==
    /\ adding = Nothing
    /\ running
    /\ running' = FALSE
    /\ pending' = FALSE
    /\ UNCHANGED <<tickers, fired, tasks, adding, counter, loop, dead, tickHistory>>

\* A tick that finds the channel full is dropped.
Fire ==
    /\ running /\ ~pending /\ fired < MaxTicks
    /\ pending' = TRUE
    /\ fired' = fired + 1
    /\ UNCHANGED <<running, tickers, tasks, adding, counter, loop, dead, tickHistory>>

-----------------------------------------------------------------------------
(* The goroutine.                                                           *)

\* The range evaluates job.ticker.C when the goroutine gets to run.
TakeTicker(l) ==
    /\ loop[l].pc = "spawned"
    /\ loop' = [loop EXCEPT ![l].pc = "waiting", ![l].chan = tickers]
    /\ UNCHANGED <<running, tickers, fired, pending, tasks, adding, counter, dead, tickHistory>>

ReceiveTick(l) ==
    /\ loop[l].pc = "waiting" /\ loop[l].chan = tickers
    /\ pending
    /\ pending' = FALSE
    /\ LoopTo(l, "ticked")
    /\ shared' = (shared \/ \E m \in Loops : loop[m].pc \in {"ticked", "tasks", "call"})
    /\ UNCHANGED <<running, tickers, fired, tasks, adding, counter, dead, begun, calls>>

\* The inner range evaluates job.tasks, without the lock: while Add appends, it may get
\* the new length with a place that is not written.
ReadTasks(l) ==
    /\ loop[l].pc = "ticked"
    /\ \E torn \in {FALSE, adding # Nothing} :
          loop' = [loop EXCEPT ![l] = [pc |-> "tasks", chan |-> @.chan, seen |-> tasks,
                                        torn |-> torn, at |-> 1]]
    /\ begun' = [begun EXCEPT ![counter] = Len(tasks)]
    /\ UNCHANGED <<running, tickers, fired, pending, tasks, adding, counter, dead, calls,
                   shared>>

Current(l) == loop[l].seen[loop[l].at]

HasTask(l) == loop[l].pc = "tasks" /\ loop[l].at <= Len(loop[l].seen)

\* Mutant: the test of the first tick is left out.
TestTaskFromOne(l) ==
    /\ HasTask(l) /\ Current(l) # 0
    /\ IF counter > 0 /\ counter % Current(l) = 0
          THEN LoopTo(l, "call")
          ELSE NextTask(l)
    /\ UNCHANGED <<running, tickers, fired, pending, tasks, adding, counter, dead, tickHistory>>

\* The first look at the counter.
TestTask(l) ==
    /\ HasTask(l) /\ Current(l) # 0
    /\ IF counter % Current(l) = 0
          THEN LoopTo(l, "call")
          ELSE NextTask(l)
    /\ UNCHANGED <<running, tickers, fired, pending, tasks, adding, counter, dead, tickHistory>>

\* The second look is the handler's argument; what the handler returns is logged.
CallTask(l) ==
    /\ loop[l].pc = "call"
    /\ calls' = Append(calls, [task |-> loop[l].at, count |-> counter])
    /\ NextTask(l)
    /\ UNCHANGED <<running, tickers, fired, pending, tasks, adding, counter, dead, begun,
                   shared>>

\* A remainder by zero, or a task that is not there.
TaskPanics(l) ==
    /\ \/ HasTask(l) /\ Current(l) = 0
       \/ loop[l].pc = "tasks" /\ ~HasTask(l) /\ loop[l].torn
    /\ dead' = TRUE
    /\ UNCHANGED <<running, tickers, fired, pending, tasks, adding, counter, loop, tickHistory>>

EndTick(l) ==
    /\ loop[l].pc = "tasks" /\ ~HasTask(l) /\ ~loop[l].torn
    /\ counter' = counter + 1
    /\ LoopTo(l, "waiting")
    /\ UNCHANGED <<running, tickers, fired, pending, tasks, adding, dead, tickHistory>>

LoopStep(l) ==
    \/ TakeTicker(l) \/ ReceiveTick(l) \/ ReadTasks(l)
    \/ TestTask(l) \/ CallTask(l) \/ TaskPanics(l) \/ EndTick(l)

TickerNext ==
    /\ ~dead
    /\ \/ \E i \in Intevals : AddBegins(i)
       \/ AddEnds \/ StartTicker \/ StopTicker \/ Fire
       \/ \E l \in Loops : LoopStep(l)

TickerSpec == TickerInit /\ [][TickerNext]_tickerVars

-----------------------------------------------------------------------------
(* Properties.                                                              *)

Handling(l) == loop[l].pc \in {"ticked", "tasks", "call"}

\* The calls of task t at count c.
Made(t, c) == {k \in 1..Len(calls) : calls[k] = [task |-> t, count |-> c]}

\* One call if the tick saw the task and the task was due, else none.
ExactAt(t, c) ==
    IF t <= begun[c] /\ c % tasks[t] = 0
    THEN \E k \in 1..Len(calls) : Made(t, c) = {k}
    ELSE Made(t, c) = {}

\* As long as no two goroutines were at their tasks at once, every count that is through
\* had each task that its tick saw called exactly once if the count is a multiple of the
\* task's interval and not at all otherwise: restarts, late goroutines and the two
\* unlocked looks at the counter skip and repeat nothing.
CallsAreExact ==
    ~shared => \A c \in 0..MaxTicks : c < counter => \A t \in 1..MaxTasks : ExactAt(t, c)

\* A stopped job takes up no tick, although its goroutines live on: what a Stop finds
\* under way is the last that runs before the next Start.
StoppedTakesNothing ==
    [][~running => \A l \in Loops : Handling(l)' => Handling(l)]_tickerVars
=============================================================================
