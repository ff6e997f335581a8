-------------------------- MODULE Background_proofs --------------------------
(***************************************************************************)
(* Proofs about StaticRunner and TickerJob.  The runner: its types, that    *)
(* what it was given is waiting, in one worker's hands or has run once, and *)
(* that only a Stop in between costs a task or the process.  The ticker: a  *)
(* stopped job takes up no tick, and Exact, what a goroutine in the middle  *)
(* of a tick has called while no other one is, which makes every count that *)
(* is through exact.                                                        *)
(***************************************************************************)
EXTENDS StaticRunner, TickerJob, SequenceTheorems, TLAPS

-----------------------------------------------------------------------------
(* What Append adds to the elements of a sequence.                          *)

LEMMA AppendSet ==
    ASSUME NEW S, NEW seq \in Seq(S), NEW e \in S
    PROVE  ToSet(Append(seq, e)) = ToSet(seq) \cup {e}
<1> DEFINE app == Append(seq, e)
<1>1. /\ app \in Seq(S) /\ Len(app) = Len(seq) + 1
      /\ \A i \in 1..Len(seq) : app[i] = seq[i]
      /\ app[Len(seq) + 1] = e
  BY AppendProperties
<1>2. /\ Len(seq) \in Nat
      /\ DOMAIN app = 1..Len(app) /\ DOMAIN seq = 1..Len(seq)
  BY <1>1, LenProperties
<1>3. DOMAIN app = DOMAIN seq \cup {Len(seq) + 1}
  BY <1>1, <1>2
<1>4. \A i \in DOMAIN seq : app[i] = seq[i]
  BY <1>1, <1>2
<1> HIDE DEF app
<1> QED BY <1>1, <1>3, <1>4 DEF ToSet, app

\* The channel's sequence as it is sent to, and taken from.
LEMMA ConcatAppend ==
    ASSUME NEW S, NEW a \in Seq(S), NEW b \in Seq(S), NEW e \in S
    PROVE  a \o Append(b, e) = Append(a \o b, e)
<1>1. <<e>> \in Seq(S) /\ a \o b \in Seq(S)
  BY ConcatProperties
<1>2. Append(b, e) = b \o <<e>> /\ Append(a \o b, e) = (a \o b) \o <<e>>
  BY <1>1, AppendIsConcat
<1>3. (a \o b) \o <<e>> = a \o (b \o <<e>>)
  BY <1>1, ConcatAssociative
<1> QED BY <1>2, <1>3

LEMMA TakeHead ==
    ASSUME NEW S, NEW a \in Seq(S), NEW b \in Seq(S), b # <<>>
    PROVE  Append(a, Head(b)) \o Tail(b) = a \o b
<1>1. /\ Head(b) \in S /\ Tail(b) \in Seq(S) /\ <<Head(b)>> \in Seq(S)
      /\ b = <<Head(b)>> \o Tail(b)
  BY HeadTailProperties
<1>2. Append(a, Head(b)) = a \o <<Head(b)>>
  BY <1>1, AppendIsConcat
<1>3. (a \o <<Head(b)>>) \o Tail(b) = a \o (<<Head(b)>> \o Tail(b))
  BY <1>1, ConcatAssociative
<1> QED BY <1>1, <1>2, <1>3

-----------------------------------------------------------------------------
(* Type correctness of the runner.  A worker's handler runs on a task the   *)
(* worker took.                                                             *)

WorkIsTaken ==
    /\ \A w \in Workers : worker[w] = "busy" => work[w] \in ToSet(taken)
    /\ done \subseteq ToSet(taken)

Typed == TypeOK /\ WorkIsTaken

LEMMA TakenAreTasks == TypeOK => ToSet(taken) \subseteq Tasks
BY LenProperties, ElementOfSeq DEF TypeOK, ToSet

LEMMA InitTypeOK == Init => TypeOK
<1> SUFFICES ASSUME Init PROVE TypeOK
  OBVIOUS
<1>1. Len(<<>>) <= BufferSize /\ starts \in 0..MaxStarts
  BY BufferAssumption, StartsAssumption DEF Init
<1> QED BY <1>1, EmptySeq DEF Init, TypeOK, CallSteps, StopSteps, WorkerSteps

LEMMA TaskTypeOK ==
    ASSUME TypeOK, NEW t \in Tasks, TaskStep(t)
    PROVE  TypeOK'
<1> USE DEF TypeOK, CallSteps, CallStep, histVars
<1>1. CASE CheckTask(t)
  BY <1>1 DEF CheckTask
<1>2. CASE ReadForSend(t)
  BY <1>2 DEF ReadForSend
<1>3. CASE SendToBuffer(t)
  <2>1. Append(buf, t) \in Seq(Tasks) /\ Len(Append(buf, t)) = Len(buf) + 1
    BY AppendProperties
  <2>2. Append(sent, t) \in Seq(Tasks) /\ Len(buf) \in Nat
    BY AppendProperties, LenProperties
  <2> QED BY <1>3, <2>1, <2>2, BufferAssumption DEF SendToBuffer
<1>4. CASE SendPanics(t)
  BY <1>4 DEF SendPanics
<1>5. ASSUME NEW w \in Workers, SendToWorker(t, w)
      PROVE  TypeOK'
  <2>1. Append(sent, t) \in Seq(Tasks) /\ Append(taken, t) \in Seq(Tasks)
    BY AppendProperties
  <2> QED BY <1>5, <2>1 DEF SendToWorker, WorkerSteps
<1> QED BY <1>1, <1>2, <1>3, <1>4, <1>5 DEF TaskStep

LEMMA StopTypeOK ==
    ASSUME TypeOK, NEW s \in Stoppers, StopCall(s)
    PROVE  TypeOK'
BY DEF TypeOK, StopCall, StopStep, StopSteps, histVars, Race, CheckStop, CloseChannel,
       ClosePanics, ClearTask

LEMMA WorkerTypeOK ==
    ASSUME Typed, NEW w \in Workers, WorkerLoop(w)
    PROVE  TypeOK'
<1> USE DEF Typed, TypeOK, WorkerStep, WorkerSteps, histVars
<1>1. CASE Attach(w)
  BY <1>1 DEF Attach
<1>2. CASE Take(w)
  <2>1. /\ Head(buf) \in Tasks /\ Tail(buf) \in Seq(Tasks)
        /\ Len(Tail(buf)) = Len(buf) - 1
        /\ Len(buf) \in Nat
    BY <1>2, HeadTailProperties, LenProperties DEF Take
  <2>2. Append(taken, Head(buf)) \in Seq(Tasks)
    BY <2>1, AppendProperties
  <2> QED BY <1>2, <2>1, <2>2, BufferAssumption DEF Take
<1>3. CASE Finish(w)
  <2>1. work[w] \in Tasks
    BY <1>3, TakenAreTasks DEF Finish, WorkIsTaken
  <2> QED BY <1>3, <2>1 DEF Finish
<1>4. CASE EndWorker(w)
  BY <1>4 DEF EndWorker
<1> QED BY <1>1, <1>2, <1>3, <1>4 DEF WorkerLoop

LEMMA StartTypeOK ==
    ASSUME TypeOK, Start
    PROVE  TypeOK'
BY StartsAssumption DEF TypeOK, Start, WorkerSteps, histVars

\* What a worker starts on is appended to what was taken; nothing leaves it.
LEMMA WorkIsTakenStep ==
    ASSUME Typed, [Next]_vars
    PROVE  WorkIsTaken'
<1> USE DEF Typed, TypeOK, WorkIsTaken
<1>1. CASE UNCHANGED vars
  BY <1>1 DEF vars
<1>2. CASE Start
  BY <1>2 DEF Start, histVars
<1>3. ASSUME NEW t \in Tasks, TaskStep(t)
      PROVE  WorkIsTaken'
  <2>1. ASSUME NEW w \in Workers, SendToWorker(t, w)
        PROVE  WorkIsTaken'
    <3>1. ToSet(taken') = ToSet(taken) \cup {t}
      BY <2>1, AppendSet DEF SendToWorker
    <3> QED BY <2>1, <3>1 DEF SendToWorker
  <2>2. CASE CheckTask(t) \/ ReadForSend(t) \/ SendToBuffer(t) \/ SendPanics(t)
    BY <2>2 DEF CheckTask, ReadForSend, SendToBuffer, SendPanics, histVars
  <2> QED BY <1>3, <2>1, <2>2 DEF TaskStep
<1>4. ASSUME NEW s \in Stoppers, StopCall(s)
      PROVE  WorkIsTaken'
  BY <1>4 DEF StopCall, CheckStop, CloseChannel, ClosePanics, ClearTask, histVars
<1>5. ASSUME NEW w \in Workers, WorkerLoop(w)
      PROVE  WorkIsTaken'
  <2>1. CASE Take(w)
    <3>1. Head(buf) \in Tasks
      BY <2>1, HeadTailProperties DEF Take
    <3>2. ToSet(taken') = ToSet(taken) \cup {Head(buf)}
      BY <2>1, <3>1, AppendSet DEF Take
    <3> QED BY <2>1, <3>2 DEF Take, WorkerStep
  <2>2. CASE Attach(w) \/ Finish(w) \/ EndWorker(w)
    BY <2>2 DEF Attach, Finish, EndWorker, WorkerStep, histVars
  <2> QED BY <1>5, <2>1, <2>2 DEF WorkerLoop
<1> QED BY <1>1, <1>2, <1>3, <1>4, <1>5 DEF Next

LEMMA NextTyped == Typed /\ [Next]_vars => Typed'
<1> SUFFICES ASSUME Typed, [Next]_vars PROVE TypeOK' /\ WorkIsTaken'
  BY DEF Typed
<1>1. CASE UNCHANGED vars
  BY <1>1, WorkIsTakenStep DEF vars, Typed, TypeOK
<1>2. CASE Next
  BY <1>2, WorkIsTakenStep, TaskTypeOK, StopTypeOK, WorkerTypeOK, StartTypeOK DEF Next, Typed
<1> QED BY <1>1, <1>2

\* The variables of the runner keep their types, and what a handler runs on or has run on
\* is a task that a worker took from the channel (the loop that Start spawns).
THEOREM TypeCorrect == Spec => []Typed
<1>1. Init => Typed
  BY InitTypeOK DEF Typed, WorkIsTaken, Init
<1> QED BY <1>1, NextTyped, PTL DEF Spec

-----------------------------------------------------------------------------
(* The channel.  What it was given is one sequence: the part that has been  *)
(* taken and the part that waits.  A task is in it at most once, since its  *)
(* call of Task has not sent anything before.                               *)

SentOnce ==
    /\ \A t \in Tasks : call[t] # "sent" => t \notin ToSet(sent)
    /\ \A i, j \in 1..Len(sent) : sent[i] = sent[j] => i = j

Channel == Conservation /\ SentOnce

\* The task at the head of the buffer has not been taken, and is not taken twice over.
LEMMA HeadIsNew ==
    ASSUME TypeOK, Channel, buf # <<>>
    PROVE  Head(buf) \notin ToSet(taken)
<1>1. /\ Len(taken) \in Nat /\ DOMAIN taken = 1..Len(taken)
      /\ Len(buf) \in Nat \ {0} /\ Head(buf) = buf[1]
  BY LenProperties, EmptySeq DEF TypeOK
<1>2. /\ Len(sent) = Len(taken) + Len(buf)
      /\ \A i \in 1..Len(taken) + Len(buf) :
            sent[i] = IF i <= Len(taken) THEN taken[i] ELSE buf[i - Len(taken)]
  BY ConcatProperties DEF TypeOK, Channel, Conservation
<1>3. sent[Len(taken) + 1] = Head(buf) /\ Len(taken) + 1 \in 1..Len(sent)
  BY <1>1, <1>2
<1>4. ASSUME NEW i \in 1..Len(taken), taken[i] = Head(buf)
      PROVE  FALSE
  <2>1. i \in 1..Len(sent) /\ sent[i] = Head(buf)
    BY <1>1, <1>2, <1>4
  <2>2. i = Len(taken) + 1
    BY <1>3, <2>1 DEF Channel, SentOnce
  <2> QED BY <1>1, <2>2
<1> QED BY <1>1, <1>4 DEF ToSet

\* A task that is sent is new to the channel.
LEMMA SendKeepsOnce ==
    ASSUME TypeOK, SentOnce, NEW t \in Tasks, CallStep(t, "sending", "sent"),
           sent' = Append(sent, t)
    PROVE  SentOnce'
<1>1. /\ Len(sent') = Len(sent) + 1 /\ Len(sent) \in Nat
      /\ \A i \in 1..Len(sent) : sent'[i] = sent[i]
      /\ sent'[Len(sent) + 1] = t
  BY AppendProperties, LenProperties DEF TypeOK
<1>2. ToSet(sent') = ToSet(sent) \cup {t}
  BY AppendSet DEF TypeOK
<1>3. \A i \in 1..Len(sent) : sent[i] # t
  <2>1. DOMAIN sent = 1..Len(sent)
    BY LenProperties DEF TypeOK
  <2> QED BY <2>1 DEF SentOnce, CallStep, ToSet
<1>4. ASSUME NEW i \in 1..Len(sent'), NEW j \in 1..Len(sent'), sent'[i] = sent'[j]
      PROVE  i = j
  <2>1. (i \in 1..Len(sent) \/ i = Len(sent) + 1) /\ (j \in 1..Len(sent) \/ j = Len(sent) + 1)
    BY <1>1
  <2> QED BY <1>1, <1>3, <1>4, <2>1 DEF SentOnce
<1>5. \A u \in Tasks : call'[u] # "sent" => u \notin ToSet(sent')
  BY <1>2 DEF SentOnce, CallStep, TypeOK
<1> QED BY <1>4, <1>5 DEF SentOnce

LEMMA ChannelStep ==
    ASSUME Typed, Channel, [Next]_vars
    PROVE  Channel'
<1> USE DEF Typed
<1>1. CASE UNCHANGED vars
  BY <1>1 DEF vars, Channel, Conservation, SentOnce
<1>2. CASE Start
  BY <1>2 DEF Start, histVars, Channel, Conservation, SentOnce
<1>3. ASSUME NEW t \in Tasks, TaskStep(t)
      PROVE  Channel'
  <2>1. CASE SendToBuffer(t)
    <3>1. taken \o Append(buf, t) = Append(taken \o buf, t)
      BY ConcatAppend DEF TypeOK
    <3>2. Conservation'
      BY <2>1, <3>1 DEF SendToBuffer, Channel, Conservation
    <3> QED BY <2>1, <3>2, SendKeepsOnce DEF SendToBuffer, Channel
  <2>2. ASSUME NEW w \in Workers, SendToWorker(t, w)
        PROVE  Channel'
    <3>1. sent = taken
      BY <2>2, ConcatEmptySeq DEF SendToWorker, Channel, Conservation, TypeOK
    <3>2. Append(taken, t) \in Seq(Tasks)
      BY AppendProperties DEF TypeOK
    <3>3. Append(taken, t) \o <<>> = Append(taken, t)
      BY <3>2, ConcatEmptySeq
    <3>4. Conservation'
      BY <2>2, <3>1, <3>3 DEF SendToWorker, Conservation
    <3> QED BY <2>2, <3>4, SendKeepsOnce DEF SendToWorker, Channel
  <2>3. CASE CheckTask(t) \/ ReadForSend(t) \/ SendPanics(t)
    BY <2>3 DEF CheckTask, ReadForSend, SendPanics, CallStep, histVars, Channel,
                Conservation, SentOnce, TypeOK, CallSteps
  <2> QED BY <1>3, <2>1, <2>2, <2>3 DEF TaskStep
<1>4. ASSUME NEW s \in Stoppers, StopCall(s)
      PROVE  Channel'
  BY <1>4 DEF StopCall, CheckStop, CloseChannel, ClosePanics, ClearTask, histVars, Channel,
              Conservation, SentOnce
<1>5. ASSUME NEW w \in Workers, WorkerLoop(w)
      PROVE  Channel'
  <2>1. CASE Take(w)
    <3>1. buf # <<>> /\ taken' = Append(taken, Head(buf)) /\ buf' = Tail(buf)
          /\ UNCHANGED <<sent, call>>
      BY <2>1 DEF Take
    <3>2. Conservation'
      BY <3>1, TakeHead DEF TypeOK, Channel, Conservation
    <3> QED BY <3>1, <3>2 DEF Channel, SentOnce
  <2>2. CASE Attach(w) \/ Finish(w) \/ EndWorker(w)
    BY <2>2 DEF Attach, Finish, EndWorker, histVars, Channel, Conservation, SentOnce
  <2> QED BY <1>5, <2>1, <2>2 DEF WorkerLoop
<1> QED BY <1>1, <1>2, <1>3, <1>4, <1>5 DEF Next

-----------------------------------------------------------------------------
(* The workers.  A task that starts has not been taken before, so that no   *)
(* worker holds it and it has not run.                                      *)

\* A worker that starts on a task that was not taken keeps the others apart.
LEMMA StartsOnNew ==
    ASSUME Typed, RunsOnce, NEW w \in Workers, NEW t \in Tasks, t \notin ToSet(taken),
           worker' = [worker EXCEPT ![w] = "busy"], work' = [work EXCEPT ![w] = t],
           taken' = Append(taken, t), done' = done
    PROVE  RunsOnce'
<1>1. ToSet(taken') = ToSet(taken) \cup {t}
  BY AppendSet DEF Typed, TypeOK
<1>2. /\ \A v \in Workers : worker'[v] = IF v = w THEN "busy" ELSE worker[v]
      /\ \A v \in Workers : work'[v] = IF v = w THEN t ELSE work[v]
  BY DEF Typed, TypeOK
<1>3. \A v \in Workers : worker[v] = "busy" => work[v] # t
  BY DEF Typed, WorkIsTaken
<1>4. t \notin done
  BY DEF RunsOnce
<1> QED BY <1>1, <1>2, <1>3, <1>4 DEF RunsOnce

LEMMA RunsOnceStep ==
    ASSUME Typed, Channel, RunsOnce, [Next]_vars
    PROVE  RunsOnce'
<1>1. CASE UNCHANGED vars
  BY <1>1 DEF vars, RunsOnce
<1>2. CASE Start
  BY <1>2 DEF Start, histVars, RunsOnce
<1>3. ASSUME NEW t \in Tasks, TaskStep(t)
      PROVE  RunsOnce'
  <2>1. ASSUME NEW w \in Workers, SendToWorker(t, w)
        PROVE  RunsOnce'
    <3>1. sent = taken
      BY <2>1, ConcatEmptySeq DEF SendToWorker, Channel, Conservation, Typed, TypeOK
    <3>2. t \notin ToSet(taken)
      BY <2>1, <3>1 DEF SendToWorker, CallStep, Channel, SentOnce
    <3> QED BY <2>1, <3>2, StartsOnNew DEF SendToWorker
  <2>2. CASE CheckTask(t) \/ ReadForSend(t) \/ SendToBuffer(t) \/ SendPanics(t)
    BY <2>2 DEF CheckTask, ReadForSend, SendToBuffer, SendPanics, histVars, RunsOnce
  <2> QED BY <1>3, <2>1, <2>2 DEF TaskStep
<1>4. ASSUME NEW s \in Stoppers, StopCall(s)
      PROVE  RunsOnce'
  BY <1>4 DEF StopCall, CheckStop, CloseChannel, ClosePanics, ClearTask, histVars, RunsOnce
<1>5. ASSUME NEW w \in Workers, WorkerLoop(w)
      PROVE  RunsOnce'
  <2>1. CASE Take(w)
    <3>1. Head(buf) \in Tasks /\ Head(buf) \notin ToSet(taken)
      BY <2>1, HeadTailProperties, HeadIsNew DEF Take, Typed, TypeOK
    <3> QED BY <2>1, <3>1, StartsOnNew DEF Take, WorkerStep
  <2>2. CASE Finish(w)
    <3>1. /\ \A v \in Workers : worker'[v] = IF v = w THEN "waiting" ELSE worker[v]
          /\ \A v \in Workers \ {w} : work'[v] = work[v]
          /\ done' = done \cup {work[w]} /\ taken' = taken /\ worker[w] = "busy"
      BY <2>2 DEF Finish, WorkerStep, Typed, TypeOK
    <3> QED BY <3>1 DEF RunsOnce, Typed, WorkIsTaken
  <2>3. CASE Attach(w) \/ EndWorker(w)
    BY <2>3 DEF Attach, EndWorker, WorkerStep, histVars, RunsOnce, Typed, TypeOK
  <2> QED BY <1>5, <2>1, <2>2, <2>3 DEF WorkerLoop
<1> QED BY <1>1, <1>2, <1>3, <1>4, <1>5 DEF Next

\* What a worker takes it holds until its handler has returned.
Holding(t) == t \in done \/ \E w \in Workers : worker[w] = "busy" /\ work[w] = t

LEMMA HeldIsHolding == TakenAreHeld <=> \A t \in ToSet(taken) : Holding(t)
BY DEF TakenAreHeld, Holding

\* A worker that starts on a task holds it, and the others hold what they held.
LEMMA StartsHolding ==
    ASSUME Typed, TakenAreHeld, NEW w \in Workers, NEW t \in Tasks, worker[w] # "busy",
           worker' = [worker EXCEPT ![w] = "busy"], work' = [work EXCEPT ![w] = t],
           taken' = Append(taken, t), done' = done
    PROVE  TakenAreHeld'
<1>1. ToSet(taken') = ToSet(taken) \cup {t}
  BY AppendSet DEF Typed, TypeOK
<1>2. /\ worker'[w] = "busy" /\ work'[w] = t
      /\ \A v \in Workers \ {w} : worker'[v] = worker[v] /\ work'[v] = work[v]
  BY DEF Typed, TypeOK
<1>3. \A u \in ToSet(taken) : Holding(u)
  BY HeldIsHolding
<1>4. ASSUME NEW u \in ToSet(taken)
      PROVE  u \in done' \/ \E v \in Workers : worker'[v] = "busy" /\ work'[v] = u
  <2>1. CASE u \in done
    BY <2>1
  <2>2. ASSUME NEW v \in Workers, worker[v] = "busy", work[v] = u
        PROVE  worker'[v] = "busy" /\ work'[v] = u
    BY <1>2, <2>2
  <2> QED BY <1>3, <2>1, <2>2 DEF Holding
<1> QED BY <1>1, <1>2, <1>4 DEF TakenAreHeld

\* The workers of a Start that is still to come are not there.
NotYet == \A w \in Workers : w[1] > starts => worker[w] = "none"

LEMMA NotYetStep ==
    ASSUME Typed, NotYet, [Next]_vars
    PROVE  NotYet'
<1> USE DEF Typed, TypeOK, NotYet
<1>1. CASE UNCHANGED vars
  BY <1>1 DEF vars
<1>2. CASE Start
  BY <1>2, StartsAssumption DEF Start, Workers
<1>3. ASSUME NEW t \in Tasks, TaskStep(t)
      PROVE  NotYet'
  BY <1>3 DEF TaskStep, CheckTask, ReadForSend, SendToBuffer, SendPanics, SendToWorker
<1>4. ASSUME NEW s \in Stoppers, StopCall(s)
      PROVE  NotYet'
  BY <1>4 DEF StopCall, CheckStop, CloseChannel, ClosePanics, ClearTask
<1>5. ASSUME NEW w \in Workers, WorkerLoop(w)
      PROVE  NotYet'
  BY <1>5 DEF WorkerLoop, Attach, Take, Finish, EndWorker, WorkerStep
<1> QED BY <1>1, <1>2, <1>3, <1>4, <1>5 DEF Next

\* Whatever a step does, it drops nothing if the busy workers stay as they are or are
\* through with their task.
LEMMA KeepsHolding ==
    ASSUME TakenAreHeld, taken' = taken, done \subseteq done',
           \A w \in Workers : worker[w] = "busy" =>
               \/ worker'[w] = "busy" /\ work'[w] = work[w]
               \/ work[w] \in done'
    PROVE  TakenAreHeld'
BY DEF TakenAreHeld

LEMMA TakenAreHeldStep ==
    ASSUME Typed, NotYet, TakenAreHeld, [Next]_vars
    PROVE  TakenAreHeld'
<1>1. CASE UNCHANGED vars
  BY <1>1 DEF vars, TakenAreHeld
<1>2. CASE Start
  <2>1. ASSUME NEW w \in Workers, worker[w] = "busy"
        PROVE  worker'[w] = "busy"
    <3>1. w[1] # starts + 1
      <4>1. ~(w[1] > starts)
        BY <2>1 DEF NotYet
      <4>2. w[1] \in Int /\ starts \in Int
        BY StartsAssumption DEF Typed, TypeOK, Workers
      <4> QED BY <4>1, <4>2
    <3> QED BY <1>2, <2>1, <3>1 DEF Start
  <2> QED BY <1>2, <2>1, KeepsHolding DEF Start, histVars
<1>3. ASSUME NEW t \in Tasks, TaskStep(t)
      PROVE  TakenAreHeld'
  <2>1. ASSUME NEW w \in Workers, SendToWorker(t, w)
        PROVE  TakenAreHeld'
    BY <2>1, StartsHolding DEF SendToWorker
  <2>2. CASE CheckTask(t) \/ ReadForSend(t) \/ SendToBuffer(t) \/ SendPanics(t)
    BY <2>2 DEF CheckTask, ReadForSend, SendToBuffer, SendPanics, histVars, TakenAreHeld
  <2> QED BY <1>3, <2>1, <2>2 DEF TaskStep
<1>4. ASSUME NEW s \in Stoppers, StopCall(s)
      PROVE  TakenAreHeld'
  BY <1>4 DEF StopCall, CheckStop, CloseChannel, ClosePanics, ClearTask, histVars, TakenAreHeld
<1>5. ASSUME NEW w \in Workers, WorkerLoop(w)
      PROVE  TakenAreHeld'
  <2>1. CASE Take(w)
    <3>1. Head(buf) \in Tasks
      BY <2>1, HeadTailProperties DEF Take, Typed, TypeOK
    <3> QED BY <2>1, <3>1, StartsHolding DEF Take, WorkerStep
  <2>2. CASE Finish(w)
    <3>1. /\ done' = done \cup {work[w]} /\ taken' = taken
          /\ \A v \in Workers \ {w} : worker'[v] = worker[v] /\ work'[v] = work[v]
      BY <2>2 DEF Finish, WorkerStep, Typed, TypeOK
    <3> QED BY <3>1, KeepsHolding
  <2>3. CASE Attach(w) \/ EndWorker(w)
    <3>1. /\ done' = done /\ taken' = taken /\ work' = work /\ worker[w] # "busy"
          /\ \A v \in Workers \ {w} : worker'[v] = worker[v]
      BY <2>3 DEF Attach, EndWorker, WorkerStep, histVars, Typed, TypeOK
    <3> QED BY <3>1, KeepsHolding
  <2> QED BY <1>5, <2>1, <2>2, <2>3 DEF WorkerLoop
<1> QED BY <1>1, <1>2, <1>3, <1>4, <1>5 DEF Next

\* What Task has sent is neither lost nor repeated nor reordered by the channel, also
\* while and after Stop closes it; no task runs twice or in two workers at once; and none
\* that a worker has taken is dropped (Task, Start and Stop of static.go).
THEOREM TasksRunOnce == Spec => []EachRunsOnce
<1> DEFINE IInv == Typed /\ Channel /\ RunsOnce /\ NotYet /\ TakenAreHeld
<1>1. Init => IInv
  <2>1. Init => Channel /\ RunsOnce
    BY EmptySeq, ConcatEmptySeq
       DEF Init, Channel, Conservation, SentOnce, RunsOnce, ToSet
  <2>2. Init => NotYet /\ TakenAreHeld
    BY DEF Init, NotYet, TakenAreHeld, ToSet
  <2> QED BY <2>1, <2>2, InitTypeOK DEF Typed, WorkIsTaken, Init
<1>2. IInv /\ [Next]_vars => IInv'
  BY NextTyped, ChannelStep, RunsOnceStep, NotYetStep, TakenAreHeldStep
<1>3. IInv => EachRunsOnce
  BY DEF Channel, EachRunsOnce
<1> QED BY <1>1, <1>2, <1>3, PTL DEF Spec

-----------------------------------------------------------------------------
(* Stop.  Whoever is in the middle of a call when the channel is closed, or *)
(* begins one before r.task is cleared, has met the Stop that closed it.    *)

MetTheStop ==
    /\ closed => \A t \in Tasks : call[t] \in {"checked", "sending"} => t \in raced
    /\ closed => \A s \in Stoppers : stop[s] = "checked" => s \in raced

\* r.task is cleared only by a Stop that closed the channel before.
ClosedFirst ==
    /\ closed /\ present => HalfStopped
    /\ HalfStopped \/ ~present => closed

StopOrder == MetTheStop /\ ClosedFirst /\ LostOnlyInRace

LEMMA StopCallOrder ==
    ASSUME TypeOK, StopOrder, NEW s \in Stoppers, StopCall(s)
    PROVE  StopOrder'
<1> USE DEF StopOrder, TypeOK, StopStep, Race
<1>1. CASE CheckStop(s)
  BY <1>1 DEF CheckStop, MetTheStop, ClosedFirst, LostOnlyInRace, HalfStopped
<1>2. CASE CloseChannel(s)
  <2>1. \A r \in Stoppers : stop'[r] = IF r = s THEN "closed" ELSE stop[r]
    BY <1>2 DEF CloseChannel
  <2>2. closed' /\ HalfStopped'
    BY <1>2, <2>1 DEF CloseChannel, HalfStopped
  <2> QED BY <1>2, <2>1, <2>2 DEF CloseChannel, MetTheStop, ClosedFirst, LostOnlyInRace
<1>3. CASE ClosePanics(s)
  <2>1. closed /\ s \in raced
    BY <1>3 DEF ClosePanics, MetTheStop, ClosedFirst
  <2> QED BY <1>3, <2>1 DEF ClosePanics, MetTheStop, ClosedFirst, LostOnlyInRace, HalfStopped
<1>4. CASE ClearTask(s)
  <2>1. closed
    BY <1>4 DEF ClearTask, ClosedFirst, HalfStopped
  <2> QED BY <1>4, <2>1 DEF ClearTask, MetTheStop, ClosedFirst, LostOnlyInRace, HalfStopped
<1> QED BY <1>1, <1>2, <1>3, <1>4 DEF StopCall

LEMMA TaskOrder ==
    ASSUME TypeOK, StopOrder, NEW t \in Tasks, TaskStep(t)
    PROVE  StopOrder'
<1> USE DEF StopOrder, TypeOK, CallStep
<1>1. CASE CheckTask(t)
  BY <1>1 DEF CheckTask, MetTheStop, ClosedFirst, LostOnlyInRace, HalfStopped
<1>2. CASE ReadForSend(t)
  BY <1>2 DEF ReadForSend, MetTheStop, ClosedFirst, LostOnlyInRace, HalfStopped
<1>3. CASE SendToBuffer(t)
  BY <1>3 DEF SendToBuffer, MetTheStop, ClosedFirst, LostOnlyInRace, HalfStopped
<1>4. CASE SendPanics(t)
  BY <1>4 DEF SendPanics, MetTheStop, ClosedFirst, LostOnlyInRace, HalfStopped
<1>5. ASSUME NEW w \in Workers, SendToWorker(t, w)
      PROVE  StopOrder'
  BY <1>5 DEF SendToWorker, MetTheStop, ClosedFirst, LostOnlyInRace, HalfStopped
<1> QED BY <1>1, <1>2, <1>3, <1>4, <1>5 DEF TaskStep

\* A call of Task hangs or panics, and a call of Stop panics, only if it overlapped a Stop
\* (the unlocked looks at r.task in Task and Stop of static.go).
THEOREM TasksLostOnlyInRace == Spec => []LostOnlyInRace
<1>1. Init => StopOrder
  BY DEF Init, StopOrder, MetTheStop, ClosedFirst, LostOnlyInRace, HalfStopped
<1>2. TypeOK /\ StopOrder /\ [Next]_vars => StopOrder'
  <2> SUFFICES ASSUME TypeOK, StopOrder, [Next]_vars PROVE StopOrder'
    OBVIOUS
  <2> USE DEF StopOrder, MetTheStop, ClosedFirst, LostOnlyInRace, HalfStopped
  <2>1. CASE UNCHANGED vars
    BY <2>1 DEF vars
  <2>2. CASE Start
    BY <2>2 DEF Start
  <2>3. ASSUME NEW w \in Workers, WorkerLoop(w)
        PROVE  StopOrder'
    BY <2>3 DEF WorkerLoop, Attach, Take, Finish, EndWorker
  <2> QED BY <2>1, <2>2, <2>3, TaskOrder, StopCallOrder DEF Next
<1>3. Typed => TypeOK
  BY DEF Typed
<1>4. StopOrder => LostOnlyInRace
  BY DEF StopOrder
<1> QED BY <1>1, <1>2, <1>3, <1>4, TypeCorrect, PTL DEF Spec
-----------------------------------------------------------------------------
(* The ticker job.                                                          *)

LoopTypes == [pc : {"none", "spawned", "waiting", "ticked", "tasks", "call"}, chan : Nat,
              seen : Seq(Intevals), torn : BOOLEAN, at : Nat \ {0}]

TickerTypeOK ==
    /\ tickers \in 0..MaxTickers /\ fired \in Nat /\ counter \in Nat
    /\ tasks \in Seq(Intevals) /\ adding \in Seq(Intevals)
    /\ loop \in [Loops -> LoopTypes]
    /\ begun \in [0..MaxTicks -> Nat]
    /\ calls \in Seq([task : Nat \ {0}, count : Nat])

\* Each ticker made has started one goroutine.
OnlyStarted == \A l \in Loops : l > tickers => loop[l].pc = "none"

\* Stop leaves no tick behind.
Flags == /\ running \in BOOLEAN /\ pending \in BOOLEAN /\ dead \in BOOLEAN /\ shared \in BOOLEAN
         /\ pending => running

InTasks(l) == loop[l].pc \in {"tasks", "call"}

\* The inductive invariant of CallsAreExact, while no two goroutines have met.
Alone == \A l, m \in Loops : Handling(l) /\ Handling(m) => l = m

\* What a tick saw are the first tasks of job.tasks, to which Add appends.
SawTasks == \A c \in 0..MaxTicks : begun[c] <= Len(tasks)

\* The counts that are through.
Past == \A c \in 0..MaxTicks : c < counter => \A t \in Nat \ {0} : ExactAt(t, c)

\* At this count nothing is called but what the goroutine has been through.
NoneAhead ==
    \A k \in 1..Len(calls) :
        /\ calls[k].count <= counter
        /\ calls[k].count = counter
           => \E l \in Loops : InTasks(l) /\ calls[k].task < loop[l].at

ExactNow(t) ==
    IF counter % tasks[t] = 0
    THEN \E k \in 1..Len(calls) : Made(t, counter) = {k}
    ELSE Made(t, counter) = {}

\* A goroutine in its tasks has been through the ones before at.
HalfWay(l) ==
    /\ loop[l].at <= Len(loop[l].seen) + 1
    /\ Len(loop[l].seen) <= Len(tasks)
    /\ \A t \in 1..Len(loop[l].seen) : loop[l].seen[t] = tasks[t]
    /\ counter \in 0..MaxTicks => begun[counter] = Len(loop[l].seen)
    /\ loop[l].pc = "call" => loop[l].at <= Len(loop[l].seen) /\ counter % tasks[loop[l].at] = 0
    /\ \A t \in Nat \ {0} : t < loop[l].at => ExactNow(t)

Exact ==
    /\ Alone /\ SawTasks /\ Past /\ NoneAhead
    /\ \A l \in Loops : InTasks(l) => HalfWay(l)

TickerTyped == TickerTypeOK /\ OnlyStarted /\ Flags

TickerInv == TickerTyped /\ (~shared => Exact)

LEMMA TickerInitInv == TickerInit => TickerInv
<1> SUFFICES ASSUME TickerInit PROVE TickerInv
  OBVIOUS
<1>1. TickerTypeOK
  <2>1. NoLoop \in LoopTypes
    BY EmptySeq DEF NoLoop, LoopTypes
  <2>2. tickers \in 0..MaxTickers /\ tasks \in Seq(Intevals) /\ adding \in Seq(Intevals)
        /\ calls \in Seq([task : Nat \ {0}, count : Nat])
    BY EmptySeq, BoundsAssumption DEF TickerInit, Nothing
  <2> QED BY <2>1, <2>2 DEF TickerInit, TickerTypeOK
<1>2. OnlyStarted /\ Flags
  <2>1. OnlyStarted
    BY DEF TickerInit, OnlyStarted, NoLoop
  <2> QED BY <2>1, Zenon DEF TickerInit, Flags
<1>3. Len(tasks) = 0 /\ Len(calls) = 0 /\ \A l \in Loops : loop[l].pc = "none"
  BY EmptySeq DEF TickerInit, NoLoop
<1>4. Exact
  BY <1>3, BoundsAssumption
     DEF TickerInit, Exact, Alone, SawTasks, Past, NoneAhead, InTasks, Handling
<1> QED BY <1>1, <1>2, <1>4 DEF TickerInv, TickerTyped

LEMMA TickerFlags ==
    ASSUME Flags, [TickerNext]_tickerVars
    PROVE  Flags'
<1> USE DEF Flags, tickHistory
<1>1. CASE UNCHANGED tickerVars
  BY <1>1, Zenon DEF tickerVars
<1>2. ASSUME NEW i \in Intevals, AddBegins(i)
      PROVE  Flags'
  BY <1>2, Zenon DEF AddBegins
<1>3. CASE AddEnds
  BY <1>3, Zenon DEF AddEnds
<1>4. CASE StartTicker
  BY <1>4, Zenon DEF StartTicker
<1>5. CASE StopTicker
  BY <1>5, Zenon DEF StopTicker
<1>6. CASE Fire
  BY <1>6, Zenon DEF Fire
<1>7. ASSUME NEW l \in Loops, LoopStep(l)
      PROVE  Flags'
  <2>1. CASE TakeTicker(l)
    BY <2>1, Zenon DEF TakeTicker
  <2>2. CASE ReceiveTick(l)
    BY <2>2, Zenon DEF ReceiveTick
  <2>3. CASE ReadTasks(l)
    BY <2>3, Zenon DEF ReadTasks
  <2>4. CASE TestTask(l)
    BY <2>4, Zenon DEF TestTask
  <2>5. CASE CallTask(l)
    BY <2>5, Zenon DEF CallTask
  <2>6. CASE TaskPanics(l)
    BY <2>6, Zenon DEF TaskPanics
  <2>7. CASE EndTick(l)
    BY <2>7, Zenon DEF EndTick
  <2> QED BY <1>7, <2>1, <2>2, <2>3, <2>4, <2>5, <2>6, <2>7 DEF LoopStep
<1> QED BY <1>1, <1>2, <1>3, <1>4, <1>5, <1>6, <1>7 DEF TickerNext

\* A goroutine's record after one of its steps.
LEMMA LoopUpdate ==
    ASSUME NEW r \in LoopTypes, NEW n \in Nat,
           NEW pc \in {"none", "spawned", "waiting", "ticked", "tasks", "call"}
    PROVE  /\ [r EXCEPT !.pc = pc] \in LoopTypes
           /\ [r EXCEPT !.pc = pc, !.chan = n] \in LoopTypes
           /\ [r EXCEPT !.pc = pc, !.at = @ + 1] \in LoopTypes
<1>1. [r EXCEPT !.pc = pc] \in LoopTypes
  BY DEF LoopTypes
<1>2. [r EXCEPT !.pc = pc, !.chan = n] \in LoopTypes
  BY DEF LoopTypes
<1>3. ASSUME NEW a \in Nat \ {0} PROVE [r EXCEPT !.pc = pc, !.at = a] \in LoopTypes
  BY DEF LoopTypes
<1>4. r.at + 1 \in Nat \ {0}
  BY DEF LoopTypes
<1> QED BY <1>1, <1>2, <1>3, <1>4

LEMMA TickerTypes ==
    ASSUME TickerTypeOK, OnlyStarted, [TickerNext]_tickerVars
    PROVE  TickerTypeOK' /\ OnlyStarted'
<1> USE DEF TickerTypeOK, OnlyStarted, tickHistory
<1>1. CASE UNCHANGED tickerVars
  BY <1>1 DEF tickerVars
<1>2. ASSUME NEW i \in Intevals, AddBegins(i)
      PROVE  TickerTypeOK' /\ OnlyStarted'
  BY <1>2 DEF AddBegins
<1>3. CASE AddEnds
  <2>1. tasks \o adding \in Seq(Intevals)
    BY ConcatProperties
  <2> QED BY <1>3, <2>1, EmptySeq DEF AddEnds, Nothing
<1>4. CASE StartTicker
  <2>1. tickers + 1 \in Loops /\ tickers + 1 \in 0..MaxTickers
    BY <1>4, BoundsAssumption DEF StartTicker, Loops
  <2>2. [loop[tickers + 1] EXCEPT !.pc = "spawned"] \in LoopTypes
    BY <2>1 DEF LoopTypes
  <2>3. loop' = [loop EXCEPT ![tickers + 1] = [loop[tickers + 1] EXCEPT !.pc = "spawned"]]
    BY <1>4 DEF StartTicker, LoopTo
  <2>4. \A l \in Loops : l > tickers + 1 => l > tickers /\ loop'[l] = loop[l]
    BY <2>1, <2>3, BoundsAssumption DEF Loops
  <2> QED BY <1>4, <2>1, <2>2, <2>3, <2>4 DEF StartTicker
<1>5. CASE StopTicker \/ Fire
  BY <1>5 DEF StopTicker, Fire
<1>6. ASSUME NEW l \in Loops, LoopStep(l)
      PROVE  TickerTypeOK' /\ OnlyStarted'
  <2>0. loop[l] \in LoopTypes
    OBVIOUS
  <2>1. CASE TakeTicker(l)
    <3>1. loop' = [loop EXCEPT ![l] = [loop[l] EXCEPT !.pc = "waiting", !.chan = tickers]]
      BY <2>1 DEF TakeTicker
    <3>2. [loop[l] EXCEPT !.pc = "waiting", !.chan = tickers] \in LoopTypes
      <4>1. tickers \in Nat
        BY BoundsAssumption
      <4> QED BY <2>0, <4>1, LoopUpdate
    <3> QED BY <2>1, <3>1, <3>2 DEF TakeTicker
  <2>2. CASE ReceiveTick(l)
    BY <1>6, <2>0, <2>2 DEF ReceiveTick, LoopTo, LoopTypes
  <2>3. CASE ReadTasks(l)
    <3>1. PICK torn \in BOOLEAN :
             loop' = [loop EXCEPT ![l] = [pc |-> "tasks", chan |-> @.chan, seen |-> tasks,
                                          torn |-> torn, at |-> 1]]
      BY <2>3 DEF ReadTasks
    <3>2. [pc |-> "tasks", chan |-> loop[l].chan, seen |-> tasks, torn |-> torn, at |-> 1]
             \in LoopTypes
      BY <2>0 DEF LoopTypes
    <3>3. Len(tasks) \in Nat
      BY LenProperties
    <3>4. begun' \in [0..MaxTicks -> Nat]
      BY <2>3, <3>3 DEF ReadTasks
    <3> QED BY <1>6, <2>3, <3>1, <3>2, <3>4 DEF ReadTasks
  <2>4. CASE TestTask(l)
    <3>1. \E new \in LoopTypes : loop' = [loop EXCEPT ![l] = new] /\ loop[l].pc # "none"
      <4>1. CASE LoopTo(l, "call")
        <5>1. [loop[l] EXCEPT !.pc = "call"] \in LoopTypes
          BY <2>0, LoopUpdate
        <5> QED BY <2>4, <4>1, <5>1 DEF LoopTo, TestTask, HasTask
      <4>2. CASE NextTask(l)
        <5>1. [loop[l] EXCEPT !.pc = "tasks", !.at = @ + 1] \in LoopTypes
          BY <2>0, LoopUpdate
        <5> QED BY <2>4, <4>2, <5>1 DEF NextTask, TestTask, HasTask
      <4> QED BY <2>4, <4>1, <4>2 DEF TestTask
    <3> QED BY <2>4, <3>1 DEF TestTask
  <2>5. CASE CallTask(l)
    <3>1. [task |-> loop[l].at, count |-> counter] \in [task : Nat \ {0}, count : Nat]
      BY <2>0 DEF LoopTypes
    <3>2. calls' \in Seq([task : Nat \ {0}, count : Nat])
      BY <2>5, <3>1, AppendProperties DEF CallTask
    <3>3. [loop[l] EXCEPT !.pc = "tasks", !.at = @ + 1] \in LoopTypes
      BY <2>0, LoopUpdate
    <3>4. loop' = [loop EXCEPT ![l] = [loop[l] EXCEPT !.pc = "tasks", !.at = @ + 1]]
      BY <2>5 DEF CallTask, NextTask
    <3> QED BY <2>5, <3>2, <3>3, <3>4 DEF CallTask
  <2>6. CASE TaskPanics(l)
    BY <2>6 DEF TaskPanics
  <2>7. CASE EndTick(l)
    <3>1. [loop[l] EXCEPT !.pc = "waiting"] \in LoopTypes
      BY <2>0, LoopUpdate
    <3>2. loop' = [loop EXCEPT ![l] = [loop[l] EXCEPT !.pc = "waiting"]]
      BY <2>7 DEF EndTick, LoopTo
    <3> QED BY <2>7, <3>1, <3>2 DEF EndTick
  <2> QED BY <1>6, <2>1, <2>2, <2>3, <2>4, <2>5, <2>6, <2>7 DEF LoopStep
<1> QED BY <1>1, <1>2, <1>3, <1>4, <1>5, <1>6 DEF TickerNext

\* A stopped job takes up no tick, although its goroutines live on (Stop of ticker.go).
THEOREM StoppedJobTakesNothing == TickerSpec => StoppedTakesNothing
<1>1. TickerInit => TickerTyped
  BY TickerInitInv DEF TickerInv
<1>2. TickerTyped /\ [TickerNext]_tickerVars => TickerTyped'
  BY TickerTypes, TickerFlags DEF TickerTyped
<1>3. TickerTyped /\ [TickerNext]_tickerVars
      => [~running => \A l \in Loops : Handling(l)' => Handling(l)]_tickerVars
  <2> SUFFICES ASSUME TickerTyped, TickerNext, ~running, NEW m \in Loops, Handling(m)', ~Handling(m)
               PROVE  FALSE
    OBVIOUS
  <2> USE DEF TickerTyped, TickerTypeOK, Handling
  <2>1. CASE \E i \in Intevals : AddBegins(i)
    BY <2>1 DEF AddBegins
  <2>2. CASE AddEnds \/ StopTicker \/ Fire
    BY <2>2 DEF AddEnds, StopTicker, Fire
  <2>3. CASE StartTicker
    <3>1. loop' = [loop EXCEPT ![tickers + 1] = [loop[tickers + 1] EXCEPT !.pc = "spawned"]]
      BY <2>3 DEF StartTicker, LoopTo
    <3> QED BY <3>1 DEF LoopTypes
  <2>4. ASSUME NEW l \in Loops, LoopStep(l)
        PROVE  FALSE
    <3>1. CASE m # l
      BY <2>4, <3>1 DEF LoopStep, TakeTicker, ReceiveTick, ReadTasks, TestTask, CallTask,
                        TaskPanics, EndTick, LoopTo, NextTask
    <3>2. CASE m = l
      <4>1. ~ReceiveTick(l)
        BY Zenon DEF ReceiveTick, Flags
      <4>2. CASE TakeTicker(l)
        BY <3>2, <4>2 DEF TakeTicker, LoopTypes
      <4>3. CASE EndTick(l)
        BY <3>2, <4>3 DEF EndTick, LoopTo, LoopTypes
      <4>4. CASE ReadTasks(l) \/ TestTask(l) \/ CallTask(l) \/ TaskPanics(l)
        BY <3>2, <4>4 DEF ReadTasks, TestTask, CallTask, TaskPanics, HasTask
      <4> QED BY <2>4, <4>1, <4>2, <4>3, <4>4 DEF LoopStep
    <3> QED BY <3>1, <3>2
  <2> QED BY <2>1, <2>2, <2>3, <2>4 DEF TickerNext
<1> QED BY <1>1, <1>2, <1>3, PTL DEF TickerSpec, StoppedTakesNothing

-----------------------------------------------------------------------------
(* The calls of the handlers.                                               *)

\* Steps that leave the counter, the calls and whoever is in its tasks alone.
LEMMA ExactFrame ==
    ASSUME TickerTyped, Exact, UNCHANGED <<counter, begun, calls>>, Alone',
           NEW more \in Seq(Intevals), tasks' = tasks \o more,
           \A l \in Loops : InTasks(l) \/ InTasks(l)' => loop'[l] = loop[l]
    PROVE  Exact'
<1> USE DEF TickerTyped, TickerTypeOK
<1>1. /\ Len(tasks') = Len(tasks) + Len(more) /\ Len(tasks) \in Nat /\ Len(more) \in Nat
      /\ \A t \in 1..Len(tasks) : tasks'[t] = tasks[t]
  BY ConcatProperties, LenProperties
<1>2. \A t, c : Made(t, c)' = Made(t, c)
  BY DEF Made
<1>3. \A l \in Loops : InTasks(l)' <=> InTasks(l)
  BY DEF InTasks
<1>4. SawTasks'
  BY <1>1 DEF Exact, SawTasks
<1>5. Past'
  <2>1. SUFFICES ASSUME NEW c \in 0..MaxTicks, c < counter, NEW t \in Nat \ {0}
                 PROVE  ExactAt(t, c)'
    BY DEF Past
  <2>2. ExactAt(t, c)
    BY <2>1 DEF Exact, Past
  <2>3. t <= begun[c] => tasks'[t] = tasks[t]
    <3>1. begun[c] \in Nat /\ begun[c] <= Len(tasks)
      BY DEF Exact, SawTasks
    <3> QED BY <1>1, <3>1
  <2> QED BY <1>2, <2>2, <2>3 DEF ExactAt
<1>6. NoneAhead'
  BY <1>3 DEF Exact, NoneAhead
<1>7. ASSUME NEW l \in Loops, InTasks(l)' PROVE HalfWay(l)'
  <2>1. loop'[l] = loop[l] /\ HalfWay(l) /\ loop[l] \in LoopTypes
    BY <1>3, <1>7 DEF Exact
  <2>2. Len(loop[l].seen) \in Nat /\ loop[l].at \in Nat \ {0}
    BY <2>1, LenProperties DEF LoopTypes
  <2>3. \A t \in 1..Len(loop[l].seen) : tasks'[t] = tasks[t]
    BY <1>1, <2>1, <2>2 DEF HalfWay
  <2>4. ASSUME NEW t \in Nat \ {0}, t < loop[l].at PROVE ExactNow(t)'
    <3>1. t \in 1..Len(loop[l].seen) /\ ExactNow(t)
      BY <2>1, <2>2, <2>4 DEF HalfWay
    <3>2. tasks'[t] = tasks[t]
      BY <2>3, <3>1
    <3> QED BY <1>2, <3>1, <3>2 DEF ExactNow
  <2>5. Len(loop[l].seen) <= Len(tasks')
    BY <1>1, <2>1, <2>2 DEF HalfWay
  <2>6. loop[l].pc = "call" => loop[l].at \in 1..Len(loop[l].seen)
    BY <2>1, <2>2 DEF HalfWay
  <2> QED BY <2>1, <2>3, <2>4, <2>5, <2>6 DEF HalfWay
<1> QED BY <1>4, <1>5, <1>6, <1>7 DEF Exact

LEMMA CallTypes ==
    ASSUME TickerTypeOK, NEW k \in 1..Len(calls)
    PROVE  calls[k].task \in Nat \ {0} /\ calls[k].count \in Nat
<1> DEFINE T == [task : Nat \ {0}, count : Nat]
<1>1. calls \in Seq(T)
  BY DEF TickerTypeOK
<1>2. calls[k] \in T
  <2> HIDE DEF T
  <2> QED BY <1>1, ElementOfSeq
<1> QED BY <1>2

\* Nobody but l is at its tasks, and nothing is called at this count but before at.
LEMMA OnlyOne ==
    ASSUME TickerTyped, Exact, NEW l \in Loops, Handling(l)
    PROVE  /\ \A m \in Loops \ {l} : ~Handling(m) /\ ~InTasks(m)
           /\ \A k \in 1..Len(calls) : calls[k].count = counter
                                        => InTasks(l) /\ calls[k].task < loop[l].at
BY DEF Exact, Alone, NoneAhead, Handling, InTasks

LEMMA ReadTasksExact ==
    ASSUME TickerTyped, Exact, NEW l \in Loops, ReadTasks(l)
    PROVE  Exact'
<1> USE DEF TickerTyped, TickerTypeOK
<1>1. /\ loop'[l].pc = "tasks" /\ loop'[l].seen = tasks /\ loop'[l].at = 1
      /\ \A m \in Loops \ {l} : loop'[m] = loop[m]
  BY DEF ReadTasks
<1>2. UNCHANGED <<counter, calls, tasks>> /\ begun' = [begun EXCEPT ![counter] = Len(tasks)]
  BY DEF ReadTasks
<1>3. Handling(l) /\ ~InTasks(l)
  BY DEF ReadTasks, Handling, InTasks
<1>4. /\ \A m \in Loops \ {l} : ~Handling(m)' /\ ~InTasks(m)'
      /\ \A k \in 1..Len(calls) : calls[k].count # counter
  BY <1>1, <1>3, OnlyOne DEF Handling, InTasks
<1>5. Len(tasks) \in Nat
  BY LenProperties
<1>6. Alone'
  BY <1>4 DEF Alone
<1>7. SawTasks'
  BY <1>2, <1>5 DEF Exact, SawTasks
<1>8. Past'
  <2>1. SUFFICES ASSUME NEW c \in 0..MaxTicks, c < counter, NEW t \in Nat \ {0}
                 PROVE  ExactAt(t, c)'
    BY <1>2 DEF Past
  <2>2. ExactAt(t, c) /\ begun'[c] = begun[c]
    BY <1>2, <2>1 DEF Exact, Past
  <2> QED BY <1>2, <2>2 DEF ExactAt, Made
<1>9. NoneAhead'
  BY <1>2, <1>4 DEF Exact, NoneAhead
<1>10. HalfWay(l)'
  BY <1>1, <1>2, <1>5 DEF HalfWay
<1> QED BY <1>4, <1>6, <1>7, <1>8, <1>9, <1>10 DEF Exact

\* A task that is not due is passed by, and it had not been called.
LEMMA TestTaskExact ==
    ASSUME TickerTyped, Exact, NEW l \in Loops, TestTask(l)
    PROVE  Exact'
<1> USE DEF TickerTyped, TickerTypeOK
<1> DEFINE at == loop[l].at
<1>1. /\ \A m \in Loops \ {l} : loop'[m] = loop[m]
      /\ loop'[l].seen = loop[l].seen
      /\ \/ counter % Current(l) = 0 /\ loop'[l].pc = "call" /\ loop'[l].at = at
         \/ counter % Current(l) # 0 /\ loop'[l].pc = "tasks" /\ loop'[l].at = at + 1
  BY DEF TestTask, LoopTo, NextTask, LoopTypes
<1>2. UNCHANGED <<counter, calls, tasks, begun>>
  BY DEF TestTask, tickHistory
<1>3. InTasks(l) /\ Handling(l) /\ at <= Len(loop[l].seen)
  BY DEF TestTask, HasTask, Handling, InTasks
<1>4. /\ \A m \in Loops \ {l} : ~Handling(m)' /\ ~InTasks(m)'
      /\ \A k \in 1..Len(calls) : calls[k].count = counter => calls[k].task < at
  BY <1>1, <1>3, OnlyOne DEF Handling, InTasks
<1>5. Len(loop[l].seen) \in Nat /\ at \in Nat \ {0}
  BY LenProperties DEF LoopTypes
<1>6. HalfWay(l) /\ Current(l) = tasks[at]
  BY <1>3, <1>5 DEF Exact, HalfWay, Current
<1>7. Alone' /\ SawTasks'
  BY <1>2, <1>4 DEF Exact, Alone, SawTasks
<1>8. Past'
  BY <1>2 DEF Exact, Past, ExactAt, Made
<1>9. NoneAhead'
  <2>1. InTasks(l)' /\ loop'[l].at \in Nat /\ at <= loop'[l].at
    BY <1>1, <1>5 DEF InTasks
  <2>2. ASSUME NEW k \in 1..Len(calls), calls[k].count = counter
        PROVE  calls[k].task < loop'[l].at
    <3>1. calls[k].task < at /\ calls[k].task \in Nat
      BY <1>4, <2>2, CallTypes
    <3> HIDE DEF TickerTyped, TickerTypeOK, at
    <3> QED BY <1>5, <2>1, <3>1
  <2> QED BY <1>2, <2>1, <2>2 DEF Exact, NoneAhead
<1>10. HalfWay(l)'
  <2>1. Made(at, counter) = {}
    <3>1. ASSUME NEW k \in 1..Len(calls), calls[k] = [task |-> at, count |-> counter]
          PROVE  FALSE
      BY <1>4, <1>5, <3>1
    <3> QED BY <3>1 DEF Made
  <2>2. CASE counter % Current(l) = 0
    <3>1. \A t : ExactNow(t)' <=> ExactNow(t)
      BY <1>2 DEF ExactNow, Made
    <3>2. counter % tasks[at] = 0
      BY <1>6, <2>2
    <3>3. loop'[l].pc = "call" /\ loop'[l].at = at
      BY <1>1, <2>2
    <3> QED BY <1>1, <1>2, <1>3, <1>6, <3>1, <3>2, <3>3 DEF HalfWay
  <2>3. CASE counter % Current(l) # 0
    <3>1. ExactNow(at)
      BY <1>6, <2>1, <2>3 DEF ExactNow
    <3>2. \A t \in Nat \ {0} : t < at + 1 => ExactNow(t)
      BY <1>5, <1>6, <3>1 DEF HalfWay
    <3>3. \A t : ExactNow(t)' <=> ExactNow(t)
      BY <1>2 DEF ExactNow, Made
    <3>4. loop'[l].pc = "tasks" /\ loop'[l].at = at + 1
      BY <1>1, <2>3
    <3>5. at + 1 <= Len(loop[l].seen) + 1
      BY <1>3, <1>5
    <3> HIDE DEF TickerTyped, TickerTypeOK
    <3> QED BY <1>1, <1>2, <1>6, <3>2, <3>3, <3>4, <3>5 DEF HalfWay
  <2> QED BY <2>2, <2>3
<1> QED BY <1>4, <1>7, <1>8, <1>9, <1>10 DEF Exact

\* The handler is called with the counter that was tested, since nobody else adds to it.
LEMMA CallTaskExact ==
    ASSUME TickerTyped, Exact, NEW l \in Loops, CallTask(l)
    PROVE  Exact'
<1> USE DEF TickerTyped, TickerTypeOK
<1> DEFINE at == loop[l].at
           new == [task |-> at, count |-> counter]
<1>1. /\ \A m \in Loops \ {l} : loop'[m] = loop[m]
      /\ loop'[l].seen = loop[l].seen /\ loop'[l].pc = "tasks" /\ loop'[l].at = at + 1
  BY DEF CallTask, NextTask, LoopTypes
<1>2. UNCHANGED <<counter, tasks, begun>>
  BY DEF CallTask
<1>3. InTasks(l) /\ Handling(l) /\ loop[l].pc = "call"
  BY DEF CallTask, Handling, InTasks
<1>4. /\ \A m \in Loops \ {l} : ~Handling(m)' /\ ~InTasks(m)'
      /\ \A k \in 1..Len(calls) : calls[k].count = counter => calls[k].task < at
  BY <1>1, <1>3, OnlyOne DEF Handling, InTasks
<1>5. Len(loop[l].seen) \in Nat /\ at \in Nat \ {0}
  BY LenProperties DEF LoopTypes
<1>6. HalfWay(l) /\ at <= Len(loop[l].seen) /\ counter % tasks[at] = 0
  BY <1>3 DEF Exact, HalfWay
<1>7. /\ Len(calls') = Len(calls) + 1 /\ Len(calls) \in Nat
      /\ \A k \in 1..Len(calls) : calls'[k] = calls[k]
      /\ calls'[Len(calls) + 1] = new
  <2>1. new \in [task : Nat \ {0}, count : Nat] /\ calls' = Append(calls, new)
    BY <1>5 DEF CallTask
  <2> HIDE DEF new
  <2> QED BY <2>1, AppendProperties, LenProperties
<1>8. \A k \in 1..Len(calls') : k \in 1..Len(calls) \/ k = Len(calls) + 1
  BY <1>7
<1>9. ASSUME NEW t, t = at PROVE Made(t, counter)' = {Len(calls) + 1}
  <2>1. ASSUME NEW k \in 1..Len(calls), calls'[k] = new PROVE FALSE
    <3>1. calls[k].task = at /\ calls[k].count = counter
      BY <1>7, <2>1
    <3> QED BY <1>4, <1>5, <3>1
  <2>2. Len(calls) + 1 \in 1..Len(calls')
    BY <1>7
  <2>3. Made(t, counter)' = {k \in 1..Len(calls') : calls'[k] = new}
    BY <1>2, <1>9 DEF Made
  <2> HIDE DEF new, at
  <2> QED BY <1>7, <1>8, <2>1, <2>2, <2>3
<1>10. ASSUME NEW t, NEW c, t # at \/ c # counter PROVE Made(t, c)' = Made(t, c)
  <2>1. new # [task |-> t, count |-> c]
    BY <1>10
  <2>2. 1..Len(calls) \subseteq 1..Len(calls')
    BY <1>7
  <2> HIDE DEF new
  <2> QED BY <1>7, <1>8, <2>1, <2>2 DEF Made
<1>11. \A k : k \in 1..Len(calls) => k \in 1..Len(calls')
  BY <1>7
<1>12. Alone' /\ SawTasks'
  BY <1>2, <1>4 DEF Exact, Alone, SawTasks
<1>13. Past'
  <2>1. SUFFICES ASSUME NEW c \in 0..MaxTicks, c < counter, NEW t \in Nat \ {0}
                 PROVE  ExactAt(t, c)'
    BY <1>2 DEF Past
  <2>2. ExactAt(t, c) /\ Made(t, c)' = Made(t, c)
    BY <1>10, <2>1 DEF Exact, Past
  <2> QED BY <1>2, <1>11, <2>2 DEF ExactAt
<1>14. NoneAhead'
  <2>1. InTasks(l)' /\ loop'[l].at = at + 1
    BY <1>1 DEF InTasks
  <2>2. ASSUME NEW k \in 1..Len(calls)
        PROVE  /\ calls'[k].count <= counter
               /\ calls'[k].count = counter => calls'[k].task < at + 1
    <3>1. /\ calls[k].count <= counter /\ calls[k].task \in Nat
          /\ calls[k].count = counter => calls[k].task < at
      BY <1>4, CallTypes DEF Exact, NoneAhead
    <3> HIDE DEF TickerTyped, TickerTypeOK, at, new
    <3> QED BY <1>5, <1>7, <3>1
  <2>3. calls'[Len(calls) + 1].count <= counter /\ calls'[Len(calls) + 1].task < at + 1
    BY <1>5, <1>7
  <2> QED BY <1>2, <1>8, <2>1, <2>2, <2>3 DEF NoneAhead
<1>15. HalfWay(l)'
  <2>1. ASSUME NEW t \in Nat \ {0}, t < at + 1 PROVE ExactNow(t)'
    <3>1. CASE t = at
      <4>1. Len(calls) + 1 \in 1..Len(calls')
        BY <1>7
      <4>2. (counter % tasks[t] = 0)'
        BY <1>2, <1>6, <3>1
      <4>3. Made(t, counter)' = {Len(calls) + 1}
        BY <1>2, <1>9, <3>1
      <4> QED BY <4>1, <4>2, <4>3 DEF ExactNow
    <3>2. CASE t # at
      <4>1. t < at
        BY <1>5, <2>1, <3>2
      <4>2. ExactNow(t) /\ Made(t, counter)' = Made(t, counter)
        BY <1>2, <1>6, <1>10, <3>2, <4>1 DEF HalfWay
      <4> QED BY <1>2, <1>11, <4>2 DEF ExactNow
    <3> QED BY <3>1, <3>2
  <2> QED BY <1>1, <1>2, <1>5, <1>6, <2>1 DEF HalfWay
<1> QED BY <1>4, <1>12, <1>13, <1>14, <1>15 DEF Exact

\* The count is through: every task seen is exact, and none was called that was not seen.
LEMMA EndTickExact ==
    ASSUME TickerTyped, Exact, NEW l \in Loops, EndTick(l)
    PROVE  Exact'
<1> USE DEF TickerTyped, TickerTypeOK
<1> DEFINE at == loop[l].at
<1>1. /\ \A m \in Loops \ {l} : loop'[m] = loop[m]
      /\ loop'[l].pc = "waiting"
  BY DEF EndTick, LoopTo, LoopTypes
<1>2. counter' = counter + 1 /\ UNCHANGED <<tasks, begun, calls>>
  BY DEF EndTick, tickHistory
<1>3. InTasks(l) /\ Handling(l) /\ ~(at <= Len(loop[l].seen))
  BY DEF EndTick, HasTask, Handling, InTasks
<1>4. /\ \A m \in Loops : ~Handling(m)' /\ ~InTasks(m)'
      /\ \A k \in 1..Len(calls) : calls[k].count = counter => calls[k].task < at
  BY <1>1, <1>3, OnlyOne DEF Handling, InTasks
<1>5. Len(loop[l].seen) \in Nat /\ at \in Nat \ {0}
  BY LenProperties DEF LoopTypes
<1>6. HalfWay(l) /\ at = Len(loop[l].seen) + 1
  BY <1>3, <1>5 DEF Exact, HalfWay
<1>7. Alone' /\ SawTasks'
  BY <1>2, <1>4 DEF Exact, Alone, SawTasks
<1>8. Past'
  <2>1. SUFFICES ASSUME NEW c \in 0..MaxTicks, c < counter + 1, NEW t \in Nat \ {0}
                 PROVE  ExactAt(t, c)
    BY <1>2 DEF Past, ExactAt, Made
  <2>2. CASE c < counter
    BY <2>2 DEF Exact, Past
  <2>3. CASE c = counter
    <3>1. begun[c] = Len(loop[l].seen)
      BY <1>6, <2>3 DEF HalfWay
    <3>2. CASE t <= begun[c]
      <4>1. ExactNow(t)
        BY <1>5, <1>6, <3>1, <3>2 DEF HalfWay
      <4> QED BY <2>3, <3>2, <4>1 DEF ExactAt, ExactNow
    <3>3. CASE ~(t <= begun[c])
      <4>1. ASSUME NEW k \in 1..Len(calls), calls[k] = [task |-> t, count |-> counter]
            PROVE  FALSE
        <5>1. calls[k].task = t /\ calls[k].count = counter
          BY <4>1
        <5>2. t < at
          BY <1>4, <5>1
        <5> QED BY <1>5, <1>6, <3>1, <3>3, <5>2
      <4> QED BY <2>3, <3>3, <4>1 DEF ExactAt, Made
    <3> QED BY <3>2, <3>3
  <2> QED BY <2>1, <2>2, <2>3
<1>9. NoneAhead'
  <2>1. \A k \in 1..Len(calls) : calls[k].count \in Nat /\ calls[k].count <= counter
    BY CallTypes DEF Exact, NoneAhead
  <2>2. \A n \in Nat : n <= counter => n <= counter + 1 /\ n # counter + 1
    OBVIOUS
  <2> QED BY <1>2, <2>1, <2>2 DEF NoneAhead
<1> QED BY <1>4, <1>7, <1>8, <1>9 DEF Exact

\* One goroutine at most is at its tasks after a step that lets none meet another.
LEMMA ExactStep ==
    ASSUME TickerTyped, ~shared => Exact, TickerNext, ~shared'
    PROVE  Exact'
<1> USE DEF TickerTyped, TickerTypeOK
<1>0. <<>> \in Seq(Intevals) /\ tasks \o <<>> = tasks
  BY EmptySeq, ConcatEmptySeq
<1>1. ~shared
  <2>1. CASE \E i \in Intevals : AddBegins(i)
    BY <2>1 DEF AddBegins, tickHistory
  <2>2. CASE AddEnds \/ StartTicker \/ StopTicker \/ Fire
    <3>1. UNCHANGED shared
      BY <2>2, Zenon DEF AddEnds, StartTicker, StopTicker, Fire, tickHistory
    <3> QED BY <3>1
  <2>3. ASSUME NEW l \in Loops, LoopStep(l) PROVE ~shared
    BY <2>3, Zenon DEF LoopStep, TakeTicker, ReceiveTick, ReadTasks, TestTask, CallTask,
                       TaskPanics, EndTick, tickHistory
  <2> QED BY <2>1, <2>2, <2>3 DEF TickerNext
<1>2. Exact
  BY <1>1
<1>3. CASE (\E i \in Intevals : AddBegins(i)) \/ StopTicker \/ Fire
  <2>1. UNCHANGED <<counter, begun, calls, tasks, loop>>
    BY <1>3 DEF AddBegins, StopTicker, Fire, tickHistory
  <2>2. Alone'
    BY <1>2, <2>1 DEF Exact, Alone, Handling
  <2> QED BY <1>0, <1>2, <2>1, <2>2, ExactFrame
<1>4. CASE AddEnds
  <2>1. UNCHANGED <<counter, begun, calls, loop>> /\ tasks' = tasks \o adding
    BY <1>4 DEF AddEnds, tickHistory
  <2>2. Alone'
    BY <1>2, <2>1 DEF Exact, Alone, Handling
  <2> QED BY <1>2, <2>1, <2>2, ExactFrame
<1>5. CASE StartTicker
  <2>1. UNCHANGED <<counter, begun, calls, tasks>>
    BY <1>5 DEF StartTicker, tickHistory
  <2>2. tickers + 1 \in Loops /\ loop[tickers + 1].pc = "none"
    BY <1>5, BoundsAssumption DEF StartTicker, Loops, OnlyStarted
  <2>3. /\ \A m \in Loops \ {tickers + 1} : loop'[m] = loop[m]
        /\ loop'[tickers + 1].pc = "spawned"
    BY <1>5, <2>2 DEF StartTicker, LoopTo, LoopTypes
  <2>4. Alone'
    BY <1>2, <2>3 DEF Exact, Alone, Handling
  <2>5. \A m \in Loops : InTasks(m) \/ InTasks(m)' => loop'[m] = loop[m]
    BY <2>2, <2>3 DEF InTasks
  <2> QED BY <1>0, <1>2, <2>1, <2>4, <2>5, ExactFrame
<1>6. ASSUME NEW l \in Loops, LoopStep(l)
      PROVE  Exact'
  <2>1. CASE TakeTicker(l)
    <3>1. UNCHANGED <<counter, begun, calls, tasks>>
      BY <2>1 DEF TakeTicker, tickHistory
    <3>2. /\ \A m \in Loops \ {l} : loop'[m] = loop[m]
          /\ loop[l].pc = "spawned" /\ loop'[l].pc = "waiting"
      BY <2>1 DEF TakeTicker, LoopTypes
    <3>3. Alone'
      BY <1>2, <3>2 DEF Exact, Alone, Handling
    <3>4. \A m \in Loops : InTasks(m) \/ InTasks(m)' => loop'[m] = loop[m]
      BY <3>2 DEF InTasks
    <3> QED BY <1>0, <1>2, <3>1, <3>3, <3>4, ExactFrame
  <2>2. CASE ReceiveTick(l)
    <3>1. UNCHANGED <<counter, begun, calls, tasks>>
      BY <2>2 DEF ReceiveTick
    <3>2. /\ \A m \in Loops \ {l} : loop'[m] = loop[m]
          /\ loop[l].pc = "waiting" /\ loop'[l].pc = "ticked"
      BY <2>2 DEF ReceiveTick, LoopTo, LoopTypes
    <3>3. \A m \in Loops : ~Handling(m)
      BY <2>2, Zenon DEF ReceiveTick, Handling
    <3>4. Alone'
      BY <3>2, <3>3 DEF Alone, Handling
    <3>5. \A m \in Loops : InTasks(m) \/ InTasks(m)' => loop'[m] = loop[m]
      BY <3>2 DEF InTasks
    <3> QED BY <1>0, <1>2, <3>1, <3>4, <3>5, ExactFrame
  <2>3. CASE TaskPanics(l)
    <3>1. UNCHANGED <<counter, begun, calls, tasks, loop>>
      BY <2>3 DEF TaskPanics, tickHistory
    <3>2. Alone'
      BY <1>2, <3>1 DEF Exact, Alone, Handling
    <3> QED BY <1>0, <1>2, <3>1, <3>2, ExactFrame
  <2>4. CASE ReadTasks(l) \/ TestTask(l) \/ CallTask(l) \/ EndTick(l)
    BY <1>2, <2>4, ReadTasksExact, TestTaskExact, CallTaskExact, EndTickExact
  <2> QED BY <1>6, <2>1, <2>2, <2>3, <2>4 DEF LoopStep
<1> QED BY <1>3, <1>4, <1>5, <1>6 DEF TickerNext

\* While no two goroutines have been at their tasks at once, each count that is through had
\* each task that its tick saw called exactly once if it was due and not at all otherwise
\* (the goroutine of Start in ticker.go, with the tasks that Add appends meanwhile).
THEOREM TicksAreExact == TickerSpec => []CallsAreExact
<1>1. TickerInit => TickerInv
  BY TickerInitInv
<1>2. TickerInv /\ [TickerNext]_tickerVars => TickerInv'
  <2> SUFFICES ASSUME TickerInv, [TickerNext]_tickerVars PROVE TickerInv'
    OBVIOUS
  <2>1. TickerTyped'
    BY TickerTypes, TickerFlags DEF TickerInv, TickerTyped
  <2>2. CASE TickerNext
    BY <2>1, <2>2, ExactStep DEF TickerInv
  <2>3. CASE UNCHANGED tickerVars
    <3>1. Exact => Exact'
      BY <2>3, SMTT(30)
      DEF tickerVars, Exact, Alone, SawTasks, Past, NoneAhead, HalfWay, InTasks, Handling,
          ExactAt, ExactNow, Made
    <3>2. ~shared' => ~shared
      BY <2>3, Zenon DEF tickerVars
    <3> QED BY <2>1, <3>1, <3>2 DEF TickerInv
  <2> QED BY <2>2, <2>3
<1>3. TickerInv => CallsAreExact
  BY BoundsAssumption DEF TickerInv, Exact, Past, CallsAreExact
<1> QED BY <1>1, <1>2, <1>3, PTL DEF TickerSpec
=============================================================================
