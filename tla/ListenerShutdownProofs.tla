----------------------- MODULE ListenerShutdownProofs -----------------------
(***************************************************************************)
(* Proofs about ListenerShutdown, for any set of messages and any pool.    *)
(***************************************************************************)
EXTENDS ListenerShutdown, FiniteSetTheorems, TLAPS

Runner == "runner"
Background == "background"

Elems(s) == {s[i] : i \in 1..Len(s)}
Distinct(s) == \A i, j \in 1..Len(s) : s[i] = s[j] => i = j

\* The two queues hold exactly the messages of their state, each once, and a
\* task is queued or run by one of the two threads.
Queues ==
    /\ Distinct(incoming)
    /\ Distinct(tasks)
    /\ \A m \in Message : state[m] = "incoming" <=> m \in Elems(incoming)
    /\ \A m \in Message :
           state[m] = "acking"
               <=> m \in Elems(tasks) \/ m = current[Runner] \/ m = current[Background]
    /\ current[Runner] \notin Elems(tasks)
    /\ current[Background] \notin Elems(tasks)
    /\ current[Runner] = current[Background] => current[Runner] = NoMessage

\* A message that poll has returned is in the hands of the polling thread,
\* which submits it before it does anything else.
OneTaken ==
    /\ \A m \in Message : state[m] = "taken" => runner = "callback"
    /\ \A m, n \in Message : state[m] = "taken" /\ state[n] = "taken" => m = n

\* How far stop() and wait() are says how far the two threads are.
Phases ==
    /\ shutdown <=> stopper \notin {"serving", "unstarted"}
    /\ shutoff => /\ shutdown
                  /\ incoming = <<>>
                  /\ runner \in {"loop", "poll", "last", "ended"}
    /\ runner = "last" => shutdown
    /\ runner = "ended" => shutoff
    /\ background # "none" => shutoff
    /\ stopper \in {"serving", "unstarted", "shutting"} => background = "none"
    /\ stopper \in {"stopped", "cleaning", "closed"} => runner = "ended"
    /\ runner \notin {"process", "last"} => current[Runner] = NoMessage
    /\ background # "process" => current[Background] = NoMessage

\* Once the executor has shut down nothing enters it again.
Quiet == stopper \in {"cleaning", "closed"} => InExecutor = {}

\* The inductive invariant.
ListenerInv == TypeOK /\ Queues /\ OneTaken /\ Phases /\ Quiet

-----------------------------------------------------------------------------
(* Queues *)

LEMMA EmptyElems == Elems(<<>>) = {} /\ Distinct(<<>>)
  BY DEF Elems, Distinct

LEMMA ElemsEmpty ==
    ASSUME NEW S, NEW s \in Seq(S), Elems(s) = {}
    PROVE  s = <<>>
  <1>1. Len(s) \in Nat
    OBVIOUS
  <1>2. ASSUME Len(s) > 0 PROVE FALSE
    <2>1. 1 \in 1..Len(s)
      BY <1>1, <1>2
    <2> QED
      BY <2>1 DEF Elems
  <1> QED
    BY <1>1, <1>2

LEMMA AppendElems ==
    ASSUME NEW S, NEW s \in Seq(S), NEW e \in S, Distinct(s), e \notin Elems(s)
    PROVE  /\ Append(s, e) \in Seq(S)
           /\ Elems(Append(s, e)) = Elems(s) \cup {e}
           /\ Distinct(Append(s, e))
  <1> DEFINE n == Len(s)
             u == Append(s, e)
  <1>1. /\ u \in Seq(S) /\ n \in Nat /\ Len(u) = n + 1
        /\ \A i \in 1..n : u[i] = s[i]
        /\ u[n + 1] = e
    OBVIOUS
  <1>2. 1..Len(u) = 1..n \cup {n + 1}
    BY <1>1
  <1> HIDE DEF u, n
  <1>3. Elems(u) = {u[i] : i \in 1..n} \cup {u[n + 1]}
    BY <1>2 DEF Elems
  <1>4. {u[i] : i \in 1..n} = {s[i] : i \in 1..n}
    BY <1>1
  <1>5. Elems(u) = Elems(s) \cup {e}
    BY <1>1, <1>3, <1>4 DEF Elems, n
  <1>6. ASSUME NEW i \in 1..n PROVE u[i] # u[n + 1]
    BY <1>1, <1>6 DEF Elems, n
  <1>7. Distinct(u)
    <2> SUFFICES ASSUME NEW i \in 1..n \cup {n + 1}, NEW j \in 1..n \cup {n + 1}, u[i] = u[j]
                 PROVE  i = j
      BY <1>2 DEF Distinct
    <2>1. CASE i \in 1..n /\ j \in 1..n
      BY <1>1, <2>1 DEF Distinct, n
    <2> QED
      BY <1>6, <2>1
  <1> QED
    BY <1>1, <1>5, <1>7 DEF u

LEMMA TailElems ==
    ASSUME NEW S, NEW s \in Seq(S), s # <<>>, Distinct(s)
    PROVE  /\ Tail(s) \in Seq(S)
           /\ Head(s) \in S
           /\ Head(s) \in Elems(s)
           /\ Elems(Tail(s)) = Elems(s) \ {Head(s)}
           /\ Distinct(Tail(s))
  <1> DEFINE n == Len(s)
             u == Tail(s)
  <1>1. /\ u \in Seq(S) /\ n \in Nat /\ n > 0 /\ Len(u) = n - 1
        /\ \A i \in 1..(n - 1) : u[i] = s[i + 1]
        /\ Head(s) = s[1]
        /\ s[1] \in S
    OBVIOUS
  <1> HIDE DEF u, n
  <1>2. \A i \in 1..(n - 1) : i + 1 \in 1..n /\ i + 1 # 1
    BY <1>1
  <1>3. \A i \in 1..n : i # 1 => i - 1 \in 1..(n - 1) /\ s[i] = u[i - 1]
    BY <1>1
  <1>4. 1 \in 1..n
    BY <1>1
  <1>5. \A i \in 2..n : s[i] # s[1]
    BY <1>1, <1>4 DEF Distinct, n
  <1>6. Elems(u) = {u[i] : i \in 1..(n - 1)} /\ Elems(s) = {s[i] : i \in 1..n}
    BY <1>1 DEF Elems, n
  <1>7. ASSUME NEW x \in Elems(u) PROVE x \in Elems(s) /\ x # s[1]
    <2>1. PICK i \in 1..(n - 1) : x = u[i]
      BY <1>6
    <2>2. x = s[i + 1] /\ i + 1 \in 2..n /\ i + 1 \in 1..n
      BY <1>1, <2>1
    <2> QED
      BY <1>5, <1>6, <2>2
  <1>8. ASSUME NEW x \in Elems(s), x # s[1] PROVE x \in Elems(u)
    <2>1. PICK i \in 1..n : x = s[i]
      BY <1>6
    <2> QED
      BY <1>3, <1>6, <1>8, <2>1
  <1>9. Distinct(u)
    <2> SUFFICES ASSUME NEW i \in 1..(n - 1), NEW j \in 1..(n - 1), u[i] = u[j]
                 PROVE  i = j
      BY <1>1 DEF Distinct
    <2>1. s[i + 1] = s[j + 1] /\ i + 1 \in 1..n /\ j + 1 \in 1..n
      BY <1>1
    <2>2. i + 1 = j + 1
      BY <2>1 DEF Distinct, n
    <2> QED
      BY <2>2
  <1>10. Head(s) \in Elems(s)
    BY <1>1, <1>4, <1>6
  <1> QED
    BY <1>1, <1>7, <1>8, <1>9, <1>10 DEF u

-----------------------------------------------------------------------------
(* The steps *)

LEMMA ListenerInitial == Init => ListenerInv
  <1> SUFFICES ASSUME Init PROVE ListenerInv
    OBVIOUS
  <1> USE ListenerAssumption DEF Init, Runner, Background
  <1>1. TypeOK
    <2>1. /\ state \in [Message -> MessageState]
          /\ incoming \in Seq(Message)
          /\ tasks \in Seq(Message)
          /\ runner \in RunnerPC
          /\ background \in BackgroundPC
          /\ stopper \in StopperPC
      BY DEF MessageState, RunnerPC, BackgroundPC, StopperPC
    <2>2. current \in [{"runner", "background"} -> Message \cup {NoMessage}]
      OBVIOUS
    <2> QED
      BY <2>1, <2>2 DEF TypeOK
  <1>2. Queues
    BY EmptyElems DEF Queues
  <1>3. OneTaken /\ Phases /\ Quiet
    BY DEF OneTaken, Phases, Quiet
  <1> QED
    BY <1>1, <1>2, <1>3 DEF ListenerInv

\* Steps that move no message and no task.
Control ==
    \/ RunnerLoop \/ Poll \/ BeginConsume \/ Shutoff
    \/ Unstart \/ Shutdown \/ StartBackground \/ Stopped \/ Cleanup \/ CloseConnection
    \/ BackgroundCheck \/ BackgroundDone

LEMMA ControlKeeps ==
    ASSUME ListenerInv, Control
    PROVE  ListenerInv'
  <1> USE DEF ListenerInv, Control, stopVars, backVars, Runner, Background
  <1>1. UNCHANGED <<state, incoming, tasks, current>>
    BY DEF RunnerLoop, Poll, BeginConsume, Shutoff, Unstart, Shutdown, StartBackground, Stopped,
           Cleanup, CloseConnection, BackgroundCheck, BackgroundDone
  <1>2. Queues'
    BY <1>1 DEF Queues
  <1>3. TypeOK'
    BY <1>1
    DEF TypeOK, RunnerLoop, Poll, BeginConsume, Shutoff, Unstart, Shutdown, StartBackground,
        Stopped, Cleanup, CloseConnection, BackgroundCheck, BackgroundDone, RunnerPC,
        BackgroundPC, StopperPC
  <1>4. OneTaken'
    BY <1>1
    DEF OneTaken, RunnerLoop, Poll, BeginConsume, Shutoff, Unstart, Shutdown, StartBackground,
        Stopped, Cleanup, CloseConnection, BackgroundCheck, BackgroundDone
  <1>5. Phases'
    <2>1. CASE RunnerLoop \/ Poll
      BY <2>1 DEF Phases, RunnerLoop, Poll
    <2>2. CASE BeginConsume \/ Shutoff
      BY <2>2 DEF Phases, NoTask, BeginConsume, Shutoff
    <2>3. CASE Unstart \/ Shutdown
      BY <2>3 DEF Phases, Unstart, Shutdown
    <2>4. CASE StartBackground
      BY <2>4 DEF Phases, StartBackground
    <2>5. CASE Stopped \/ Cleanup \/ CloseConnection
      BY <2>5 DEF Phases, Stopped, Cleanup, CloseConnection
    <2>6. CASE BackgroundCheck \/ BackgroundDone
      BY <2>6 DEF Phases, NoTask, BackgroundCheck, BackgroundDone
    <2> QED
      BY <2>1, <2>2, <2>3, <2>4, <2>5, <2>6
  <1>6. Quiet'
    BY <1>1
    DEF Quiet, InExecutor, RunnerLoop, Poll, BeginConsume, Shutoff, Unstart, Shutdown,
        StartBackground, Stopped, Cleanup, CloseConnection, BackgroundCheck, BackgroundDone
  <1> QED
    BY <1>2, <1>3, <1>4, <1>5, <1>6

\* A thread takes a task out of the queue: it stays the task of one message.
LEMMA TaskBeginKeeps ==
    ASSUME ListenerInv, RunnerTaskBegin \/ BackgroundTaskBegin
    PROVE  ListenerInv'
  <1> USE DEF ListenerInv, Runner, Background
  <1>1. PICK t \in {Runner, Background} :
            /\ TaskBegin(t)
            /\ t = Runner => runner \in {"process", "last"}
            /\ t = Background => background = "process"
            /\ UNCHANGED <<runner, background>>
    BY DEF RunnerTaskBegin, BackgroundTaskBegin
  <1>2. /\ tasks # <<>>
        /\ current[t] = NoMessage
        /\ current' = [current EXCEPT ![t] = Head(tasks)]
        /\ tasks' = Tail(tasks)
        /\ UNCHANGED <<state, incoming, final, started, shutdown, shutoff, ops_shutdown, stopper>>
    BY <1>1 DEF TaskBegin
  <1>3. /\ tasks' \in Seq(Message)
        /\ Head(tasks) \in Message
        /\ Head(tasks) \in Elems(tasks)
        /\ Elems(tasks') = Elems(tasks) \ {Head(tasks)}
        /\ Distinct(tasks')
    BY <1>2, TailElems DEF TypeOK, Queues
  <1>4. /\ current'[t] = Head(tasks)
        /\ \A u \in {Runner, Background} : u # t => current'[u] = current[u]
    BY <1>2 DEF TypeOK
  <1>5. TypeOK'
    BY <1>1, <1>2, <1>3 DEF TypeOK
  <1>6. Queues'
    <2>1. /\ Distinct(incoming)' /\ Distinct(tasks)'
          /\ \A m \in Message : state'[m] = "incoming" <=> m \in Elems(incoming')
      BY <1>2, <1>3 DEF Queues
    <2>2. \A m \in Message :
             state'[m] = "acking"
               <=> m \in Elems(tasks') \/ m = current'[Runner] \/ m = current'[Background]
      BY <1>2, <1>3, <1>4, ListenerAssumption DEF Queues
    <2>3. /\ current'[Runner] \notin Elems(tasks')
          /\ current'[Background] \notin Elems(tasks')
          /\ current'[Runner] = current'[Background] => current'[Runner] = NoMessage
      BY <1>2, <1>3, <1>4 DEF Queues
    <2> QED
      BY <2>1, <2>2, <2>3 DEF Queues
  <1>7. OneTaken' /\ Quiet'
    BY <1>1, <1>2 DEF OneTaken, Quiet, InExecutor
  <1>8. Phases'
    BY <1>1, <1>2, <1>4 DEF Phases
  <1> QED
    BY <1>5, <1>6, <1>7, <1>8

\* A task ends or raises: its message goes on, the others keep their tasks.
LEMMA TaskEndKeeps ==
    ASSUME ListenerInv,
           RunnerTaskEnd \/ RunnerTaskRaises \/ BackgroundTaskEnd \/ BackgroundTaskRaises
    PROVE  ListenerInv'
  <1> USE DEF ListenerInv, Runner, Background
  <1>1. PICK t \in {Runner, Background} :
            /\ TaskEnd(t)
            /\ t = Runner => runner' \in {runner, "loop"} /\ background' = background
            /\ t = Background => background' \in {background, "died"} /\ runner' = runner
            /\ final' \in BOOLEAN
    BY DEF RunnerTaskEnd, RunnerTaskRaises, BackgroundTaskEnd, BackgroundTaskRaises, TypeOK
  <1>2. /\ current[t] # NoMessage
        /\ state' = [state EXCEPT ![current[t]] = "handling"]
        /\ current' = [current EXCEPT ![t] = NoMessage]
        /\ UNCHANGED <<incoming, tasks, started, shutdown, shutoff, ops_shutdown, stopper>>
    BY <1>1 DEF TaskEnd, Move
  <1>3. current[t] \in Message /\ state[current[t]] = "acking"
    BY <1>2 DEF TypeOK, Queues
  <1>4. /\ current'[t] = NoMessage
        /\ \A u \in {Runner, Background} : u # t => current'[u] = current[u]
        /\ \A m \in Message : state'[m] = IF m = current[t] THEN "handling" ELSE state[m]
    BY <1>2, <1>3 DEF TypeOK
  <1>5. TypeOK'
    BY <1>1, <1>2, <1>3 DEF TypeOK, MessageState, RunnerPC, BackgroundPC
  <1>6. Queues'
    <2>1. /\ Distinct(incoming)' /\ Distinct(tasks)'
          /\ \A m \in Message : state'[m] = "incoming" <=> m \in Elems(incoming')
      BY <1>2, <1>3, <1>4 DEF Queues
    <2>2. NoMessage \notin Elems(tasks)
      BY ListenerAssumption DEF Elems, TypeOK
    <2>3. \A m \in Message :
             state'[m] = "acking"
               <=> m \in Elems(tasks') \/ m = current'[Runner] \/ m = current'[Background]
      BY <1>2, <1>3, <1>4, ListenerAssumption DEF Queues
    <2>4. /\ current'[Runner] \notin Elems(tasks')
          /\ current'[Background] \notin Elems(tasks')
          /\ current'[Runner] = current'[Background] => current'[Runner] = NoMessage
      BY <1>2, <1>4, <2>2 DEF Queues
    <2> QED
      BY <2>1, <2>3, <2>4 DEF Queues
  <1>7. /\ t = Runner => runner \in {"process", "last"}
        /\ t = Background => background = "process"
    BY <1>2 DEF Phases
  <1>8. OneTaken'
    BY <1>1, <1>2, <1>4, <1>7 DEF OneTaken
  <1>9. Phases'
    BY <1>1, <1>2, <1>4, <1>7 DEF Phases
  <1>10. Quiet'
    BY <1>2, <1>3, <1>4 DEF Quiet, InExecutor
  <1> QED
    BY <1>5, <1>6, <1>8, <1>9, <1>10

LEMMA TakeKeeps ==
    ASSUME ListenerInv, Take
    PROVE  ListenerInv'
  <1> USE DEF ListenerInv, Runner, Background
  <1>1. /\ runner \in {"process", "last"} /\ runner' = "callback"
        /\ current[Runner] = NoMessage
        /\ incoming # <<>>
        /\ state' = [state EXCEPT ![Head(incoming)] = "taken"]
        /\ incoming' = Tail(incoming)
        /\ UNCHANGED <<tasks, final, shutoff, background, current, started, shutdown,
                       ops_shutdown, stopper>>
    BY DEF Take, Move, NoTask, stopVars
  <1>2. /\ incoming' \in Seq(Message)
        /\ Head(incoming) \in Message
        /\ Head(incoming) \in Elems(incoming)
        /\ Elems(incoming') = Elems(incoming) \ {Head(incoming)}
        /\ Distinct(incoming')
    BY <1>1, TailElems DEF TypeOK, Queues
  <1>3. /\ state[Head(incoming)] = "incoming"
        /\ \A m \in Message : state'[m] = IF m = Head(incoming) THEN "taken" ELSE state[m]
    BY <1>1, <1>2 DEF Queues, TypeOK
  <1>4. TypeOK'
    BY <1>1, <1>2 DEF TypeOK, MessageState, RunnerPC
  <1>5. Queues'
    BY <1>1, <1>2, <1>3 DEF Queues
  <1>6. OneTaken'
    BY <1>1, <1>3 DEF OneTaken
  <1>7. Phases' /\ Quiet'
    BY <1>1 DEF Phases, Quiet
  <1> QED
    BY <1>4, <1>5, <1>6, <1>7

LEMMA ConsumeKeeps ==
    ASSUME ListenerInv, Consume
    PROVE  ListenerInv'
  <1> USE DEF ListenerInv, Runner, Background
  <1>1. /\ runner = "consume" /\ runner' = "poll"
        /\ UNCHANGED <<tasks, final, shutoff, background, current, started, shutdown,
                       ops_shutdown, stopper>>
    BY DEF Consume, stopVars
  <1>2. Phases' /\ Quiet'
    BY <1>1 DEF Phases, Quiet
  <1>3. CASE UNCHANGED <<state, incoming>>
    <2>1. TypeOK' /\ Queues' /\ OneTaken'
      BY <1>1, <1>3 DEF TypeOK, RunnerPC, Queues, OneTaken
    <2> QED
      BY <1>2, <2>1
  <1>4. CASE \E m \in Message : /\ state[m] = "broker"
                                /\ Move(m, "incoming")
                                /\ incoming' = Append(incoming, m)
    <2>1. PICK m \in Message : /\ state[m] = "broker"
                               /\ state' = [state EXCEPT ![m] = "incoming"]
                               /\ incoming' = Append(incoming, m)
      BY <1>4 DEF Move
    <2>2. m \notin Elems(incoming)
      BY <2>1 DEF Queues
    <2>3. /\ incoming' \in Seq(Message)
          /\ Elems(incoming') = Elems(incoming) \cup {m}
          /\ Distinct(incoming')
      BY <2>1, <2>2, AppendElems DEF TypeOK, Queues
    <2>4. \A n \in Message : state'[n] = IF n = m THEN "incoming" ELSE state[n]
      BY <2>1 DEF TypeOK
    <2>5. TypeOK'
      BY <1>1, <2>1, <2>3 DEF TypeOK, MessageState, RunnerPC
    <2>6. Queues'
      BY <1>1, <2>1, <2>3, <2>4 DEF Queues
    <2>7. OneTaken'
      BY <1>1, <2>1, <2>4 DEF OneTaken
    <2> QED
      BY <1>2, <2>5, <2>6, <2>7
  <1> QED
    BY <1>3, <1>4 DEF Consume

LEMMA CallbackKeeps ==
    ASSUME ListenerInv, Callback
    PROVE  ListenerInv'
  <1> USE DEF ListenerInv, Runner, Background
  <1>1. /\ runner = "callback" /\ runner' \in {"poll", "loop"}
        /\ UNCHANGED <<incoming, tasks, final, shutoff, background, current, started, shutdown,
                       ops_shutdown, stopper>>
    BY DEF Callback, stopVars
  <1>2. PICK m \in Message : state[m] = "taken" /\ state' = [state EXCEPT ![m] = "submitted"]
    BY DEF Callback, Move
  <1>3. \A n \in Message : state'[n] = IF n = m THEN "submitted" ELSE state[n]
    BY <1>2 DEF TypeOK
  <1>4. TypeOK'
    BY <1>1, <1>2 DEF TypeOK, MessageState, RunnerPC
  <1>5. Queues'
    BY <1>1, <1>2, <1>3 DEF Queues
  <1>6. OneTaken'
    BY <1>1, <1>2, <1>3 DEF OneTaken
  <1>7. Phases' /\ Quiet'
    BY <1>1 DEF Phases, Quiet
  <1> QED
    BY <1>4, <1>5, <1>6, <1>7

LEMMA AcknowledgeKeeps ==
    ASSUME ListenerInv, NEW m \in Message, Acknowledge(m)
    PROVE  ListenerInv'
  <1> USE DEF ListenerInv, Runner, Background
  <1>1. /\ state[m] = "submitted"
        /\ state' = [state EXCEPT ![m] = "acking"]
        /\ tasks' = Append(tasks, m)
        /\ UNCHANGED <<incoming, runner, final, shutoff, background, current, started, shutdown,
                       ops_shutdown, stopper>>
    BY DEF Acknowledge, Move, stopVars
  <1>2. m \notin Elems(tasks) /\ m # current[Runner] /\ m # current[Background]
    BY <1>1 DEF Queues
  <1>3. /\ tasks' \in Seq(Message)
        /\ Elems(tasks') = Elems(tasks) \cup {m}
        /\ Distinct(tasks')
    BY <1>1, <1>2, AppendElems DEF TypeOK, Queues
  <1>4. \A n \in Message : state'[n] = IF n = m THEN "acking" ELSE state[n]
    BY <1>1 DEF TypeOK
  <1>5. TypeOK'
    BY <1>1, <1>3 DEF TypeOK, MessageState
  <1>6. Queues'
    BY <1>1, <1>2, <1>3, <1>4 DEF Queues
  <1>7. OneTaken'
    BY <1>1, <1>4 DEF OneTaken
  <1>8. Phases' /\ Quiet'
    BY <1>1 DEF Phases, Quiet, InExecutor
  <1> QED
    BY <1>5, <1>6, <1>7, <1>8

LEMMA HandleKeeps ==
    ASSUME ListenerInv, NEW m \in Message, Handle(m)
    PROVE  ListenerInv'
  <1> USE DEF ListenerInv, Runner, Background
  <1>1. /\ state[m] = "handling"
        /\ state' = [state EXCEPT ![m] = "done"]
        /\ UNCHANGED <<incoming, tasks, runner, final, shutoff, background, current, started,
                       shutdown, ops_shutdown, stopper>>
    BY DEF Handle, Move, stopVars
  <1>2. \A n \in Message : state'[n] = IF n = m THEN "done" ELSE state[n]
    BY <1>1 DEF TypeOK
  <1>3. TypeOK'
    BY <1>1 DEF TypeOK, MessageState
  <1>4. Queues'
    BY <1>1, <1>2 DEF Queues
  <1>5. OneTaken'
    BY <1>1, <1>2 DEF OneTaken
  <1>6. Phases' /\ Quiet'
    BY <1>1 DEF Phases, Quiet, InExecutor
  <1> QED
    BY <1>3, <1>4, <1>5, <1>6

LEMMA ListenerStep == ListenerInv /\ [Next]_vars => ListenerInv'
  <1> SUFFICES ASSUME ListenerInv, [Next]_vars PROVE ListenerInv'
    OBVIOUS
  <1>1. CASE RunnerStep
    BY <1>1, ControlKeeps, TaskBeginKeeps, TaskEndKeeps, TakeKeeps, ConsumeKeeps, CallbackKeeps
    DEF RunnerStep, Control
  <1>2. CASE BackgroundStep
    BY <1>2, ControlKeeps, TaskBeginKeeps, TaskEndKeeps DEF BackgroundStep, Control
  <1>3. CASE StopperStep \/ Unstart
    BY <1>3, ControlKeeps DEF StopperStep, Control
  <1>4. CASE \E m \in Message : Acknowledge(m) \/ Handle(m)
    BY <1>4, AcknowledgeKeeps, HandleKeeps
  <1>5. CASE UNCHANGED vars
    BY <1>5
    DEF vars, ListenerInv, TypeOK, Queues, OneTaken, Phases, Quiet, InExecutor, Elems, Distinct
  <1> QED
    BY <1>1, <1>2, <1>3, <1>4, <1>5 DEF Next

\* The inductive invariant holds throughout.
THEOREM ListenerInvariant == Spec => []ListenerInv
  BY ListenerInitial, ListenerStep, PTL DEF Spec

\* Every variable of the listener keeps its type.
THEOREM ListenerTypeCorrect == Spec => []TypeOK
  BY ListenerInvariant, PTL DEF ListenerInv

LEMMA InvLeavesNothing == ListenerInv => NothingLeftBehind
  BY EmptyElems DEF ListenerInv, NothingLeftBehind, Queues, OneTaken, Phases

\* Wherever stop() meets the polling thread, no consumed message stays in the
\* listener when it returns.
THEOREM StopLeavesNothing == Spec => []NothingLeftBehind
  BY ListenerInvariant, InvLeavesNothing, PTL

LEMMA InvQuiet == ListenerInv => ClosedWhenQuiet
  <1> SUFFICES ASSUME ListenerInv, stopper \in {"cleaning", "closed"}
               PROVE  /\ tasks = <<>>
                      /\ \A t \in {"runner", "background"} : current[t] = NoMessage
                      /\ InExecutor = {}
    BY DEF ClosedWhenQuiet
  <1> USE DEF ListenerInv
  <1>1. InExecutor = {}
    BY DEF Quiet
  <1>2. \A m \in Message : state[m] # "acking"
    BY <1>1 DEF InExecutor
  <1>3. \A t \in {"runner", "background"} : current[t] = NoMessage
    BY <1>2 DEF Queues, TypeOK, Runner, Background
  <1>4. Elems(tasks) \subseteq Message
    BY DEF TypeOK, Elems
  <1>5. Elems(tasks) = {}
    BY <1>2, <1>4 DEF Queues
  <1> QED
    BY <1>1, <1>3, <1>5, ElemsEmpty DEF TypeOK

\* cleanup() closes the connection when nobody waits for an acknowledgement
\* and none is being sent.
THEOREM CloseIsQuiet == Spec => []ClosedWhenQuiet
  BY ListenerInvariant, InvQuiet, PTL

LEMMA InvNoConsume == ListenerInv => NoConsumeBeside
  BY DEF ListenerInv, NoConsumeBeside, Phases

\* The background thread never works on the connection while the polling
\* thread consumes from it.
THEOREM BackgroundApart == Spec => []NoConsumeBeside
  BY ListenerInvariant, InvNoConsume, PTL

LEMMA InvTaskPerWaiter == ListenerInv => TaskPerWaiter
  <1> SUFFICES ASSUME ListenerInv, NEW m \in Message
               PROVE  Cardinality({i \in 1..Len(tasks) : tasks[i] = m})
                        + Cardinality({t \in {"runner", "background"} : current[t] = m})
                          = IF state[m] = "acking" THEN 1 ELSE 0
    BY DEF TaskPerWaiter
  <1> DEFINE Places == {i \in 1..Len(tasks) : tasks[i] = m}
             Runs == {t \in {"runner", "background"} : current[t] = m}
  <1> SUFFICES Cardinality(Places) + Cardinality(Runs) = IF state[m] = "acking" THEN 1 ELSE 0
    OBVIOUS
  <1> HIDE DEF Places, Runs
  <1> USE ListenerAssumption DEF ListenerInv, Runner, Background
  <1>2. CASE m \in Elems(tasks)
    <2>1. PICK i \in 1..Len(tasks) : m = tasks[i]
      BY <1>2 DEF Elems
    <2>2. Places = {i}
      BY <2>1 DEF Queues, Distinct, Places
    <2>3. Runs = {}
      BY <1>2 DEF Queues, Runs
    <2>4. state[m] = "acking"
      BY <1>2 DEF Queues
    <2>5. Cardinality(Places) = 1 /\ Cardinality(Runs) = 0
      BY <2>2, <2>3, FS_EmptySet, FS_Singleton
    <2> QED
      BY <2>4, <2>5
  <1>3. CASE m \notin Elems(tasks)
    <2>1. Places = {}
      BY <1>3 DEF Elems, Places
    <2>2. CASE m = current["runner"]
      <3>1. Runs = {"runner"} /\ state[m] = "acking"
        BY <2>2 DEF Queues, Runs
      <3>2. Cardinality(Places) = 0 /\ Cardinality(Runs) = 1
        BY <2>1, <3>1, FS_EmptySet, FS_Singleton
      <3> QED
        BY <3>1, <3>2
    <2>3. CASE m = current["background"]
      <3>1. Runs = {"background"} /\ state[m] = "acking"
        BY <2>3 DEF Queues, Runs
      <3>2. Cardinality(Places) = 0 /\ Cardinality(Runs) = 1
        BY <2>1, <3>1, FS_EmptySet, FS_Singleton
      <3> QED
        BY <3>1, <3>2
    <2>4. CASE m # current["runner"] /\ m # current["background"]
      <3>1. Runs = {} /\ state[m] # "acking"
        BY <1>3, <2>4 DEF Queues, Runs
      <3>2. Cardinality(Places) = 0 /\ Cardinality(Runs) = 0
        BY <2>1, <3>1, FS_EmptySet
      <3> QED
        BY <3>1, <3>2
    <2> QED
      BY <2>2, <2>3, <2>4
  <1> QED
    BY <1>2, <1>3

\* A greenthread in do() has exactly one task, whichever thread runs it.
THEOREM OneTaskPerWaiter == Spec => []TaskPerWaiter
  BY ListenerInvariant, InvTaskPerWaiter, PTL

-----------------------------------------------------------------------------
(* Who serves the acknowledgements *)

\* The background thread is there from the moment stop() has started it until
\* cleanup() has told it to end.
HandOverInv ==
    /\ ops_shutdown <=> stopper \in {"cleaning", "closed"}
    /\ background = "ended" => ops_shutdown
    /\ stopper \in {"joining", "stopped", "cleaning", "closed"} => background # "none"

LEMMA HandOverStep == ListenerInv /\ HandOverInv /\ [Next]_vars => HandOverInv'
  <1> SUFFICES ASSUME ListenerInv, HandOverInv, [Next]_vars PROVE HandOverInv'
    OBVIOUS
  <1> USE DEF HandOverInv, stopVars, backVars
  <1>1. CASE RunnerStep
    BY <1>1 DEF RunnerStep, RunnerLoop, Poll, RunnerTaskBegin, RunnerTaskEnd, RunnerTaskRaises,
                TaskBegin, TaskEnd, Take, BeginConsume, Consume, Shutoff, Callback
  <1>2. CASE BackgroundStep
    <2>1. /\ UNCHANGED <<ops_shutdown, stopper>>
          /\ background' # "none"
          /\ background' = "ended" => ops_shutdown \/ background = "ended"
      <3>1. background = "process" \/ background = "check"
        <4>1. current[Background] # NoMessage => background = "process"
          BY DEF ListenerInv, Phases
        <4> QED
          BY <1>2, <4>1 DEF BackgroundStep, BackgroundCheck, BackgroundTaskBegin,
               BackgroundTaskEnd, BackgroundTaskRaises, TaskEnd, BackgroundDone, Background
      <3> QED
        BY <1>2, <3>1 DEF BackgroundStep, BackgroundCheck, BackgroundTaskBegin, BackgroundTaskEnd,
             BackgroundTaskRaises, TaskBegin, TaskEnd, BackgroundDone
    <2> QED
      BY <2>1
  <1>3. CASE StopperStep \/ Unstart
    BY <1>3 DEF StopperStep, Unstart, Shutdown, StartBackground, Stopped, Cleanup, CloseConnection
  <1>4. CASE \E m \in Message : Acknowledge(m) \/ Handle(m)
    BY <1>4 DEF Acknowledge, Handle
  <1>5. CASE UNCHANGED vars
    BY <1>5 DEF vars
  <1> QED
    BY <1>1, <1>2, <1>3, <1>4, <1>5 DEF Next

\* A greenthread that waits for its acknowledgement has a thread that will
\* look at the tasks: the polling thread, or the background thread, which
\* runs or is about to be started, and has not been told to end.
WaiterServed ==
    (\E m \in Message : state[m] = "acking") =>
        \/ runner # "ended"
        \/ stopper = "shutting" /\ shutoff
        \/ background \in {"check", "process"} /\ ~ops_shutdown
        \/ background = "died"

\* do() never waits for a task that nobody will run, however the end of the
\* polling thread, the start of the background thread and cleanup() meet it,
\* unless a task that raised has killed the background thread.
THEOREM AcknowledgementsServed == Spec => []WaiterServed
  <1>1. Init => HandOverInv
    BY DEF Init, HandOverInv
  <1>2. ASSUME ListenerInv, HandOverInv PROVE WaiterServed
    <2> SUFFICES ASSUME NEW m \in Message, state[m] = "acking", runner = "ended",
                        stopper # "shutting", background # "died"
                 PROVE  background \in {"check", "process"} /\ ~ops_shutdown
      BY <1>2 DEF WaiterServed, ListenerInv, Phases
    <2>1. stopper \notin {"serving", "unstarted", "shutting"}
      BY <1>2 DEF ListenerInv, Phases
    <2>2. stopper \notin {"cleaning", "closed"}
      BY <1>2 DEF ListenerInv, Quiet, InExecutor
    <2> QED
      BY <1>2, <2>1, <2>2
      DEF HandOverInv, ListenerInv, TypeOK, StopperPC, BackgroundPC
  <1> QED
    BY <1>1, <1>2, HandOverStep, ListenerInvariant, PTL DEF Spec

-----------------------------------------------------------------------------
(* The refinement *)

\* A step that moves one message moves it in the contract, or not at all.
LEMMA MoveMapped ==
    ASSUME TypeOK, NEW m \in Message, NEW where \in MessageState, Move(m, where)
    PROVE  /\ state'[m] = where
           /\ \A n \in Message : n # m => StageOf(n)' = StageOf(n)
           /\ StageMap' = [StageMap EXCEPT ![m] = StageOf(m)']
           /\ StageOf(m)' = StageOf(m) => StageMap' = StageMap
           /\ StageMap[m] = StageOf(m)
  <1>1. state'[m] = where /\ \A n \in Message : n # m => state'[n] = state[n]
    BY DEF TypeOK, Move
  <1>2. \A n \in Message : n # m => StageOf(n)' = StageOf(n)
    BY <1>1 DEF StageOf
  <1>3. StageMap' = [StageMap EXCEPT ![m] = StageOf(m)'] /\ StageMap[m] = StageOf(m)
    BY <1>2 DEF StageMap
  <1>4. StageOf(m)' = StageOf(m) => StageMap' = StageMap
    BY <1>2 DEF StageMap
  <1> QED
    BY <1>1, <1>2, <1>3, <1>4

LEMMA DrainStep == ListenerInv /\ [Next]_vars => [Drain!DrainNext]_<<StageMap, PhaseMap>>
  <1> SUFFICES ASSUME ListenerInv, [Next]_vars
               PROVE  Drain!DrainNext \/ UNCHANGED <<StageMap, PhaseMap>>
    OBVIOUS
  <1>0. TypeOK
    BY DEF ListenerInv
  <1> USE DEF stopVars, backVars
  <1>1. ASSUME UNCHANGED state PROVE UNCHANGED StageMap
    BY <1>1 DEF StageMap, StageOf
  <1>2. ASSUME UNCHANGED stopper PROVE UNCHANGED PhaseMap
    BY <1>2 DEF PhaseMap
  <1>3. CASE UNCHANGED <<state, stopper>>
    BY <1>1, <1>2, <1>3
  <1>4. CASE Unstart \/ Shutdown \/ StartBackground \/ CloseConnection
    BY <1>1, <1>4 DEF Unstart, Shutdown, StartBackground, CloseConnection, PhaseMap
  <1>5. CASE Stopped
    <2>1. PhaseMap = "open" /\ PhaseMap' = "stopped" /\ UNCHANGED state
      BY <1>5 DEF Stopped, PhaseMap
    <2>2. \A m \in Message : state[m] \notin {"incoming", "taken"}
      BY <1>5, EmptyElems DEF Stopped, ListenerInv, Phases, Queues, OneTaken
    <2>3. \A m \in Message : StageMap[m] # "received"
      BY <2>2 DEF StageMap, StageOf
    <2> QED
      BY <1>1, <2>1, <2>3 DEF Drain!DrainNext, Drain!Stop
  <1>6. CASE Cleanup
    <2>1. PhaseMap = "stopped" /\ PhaseMap' = "closed" /\ UNCHANGED state
      BY <1>6 DEF Cleanup, PhaseMap
    <2>2. \A m \in Message : StageMap[m] # "handed"
      BY <1>0, <1>6 DEF Cleanup, InExecutor, StageMap, StageOf, TypeOK, MessageState
    <2> QED
      BY <1>1, <2>1, <2>2 DEF Drain!DrainNext, Drain!Close
  <1>7. ASSUME NEW t \in {Runner, Background}, TaskEnd(t)
        PROVE  UNCHANGED <<StageMap, PhaseMap>>
    <2>1. PICK m \in Message : m = current[t] /\ state[m] = "acking"
      BY <1>0, <1>7 DEF TaskEnd, TypeOK, ListenerInv, Queues, Runner, Background
    <2>2. Move(m, "handling") /\ "handling" \in MessageState /\ UNCHANGED stopper
      BY <1>7, <2>1 DEF TaskEnd, MessageState
    <2>3. state'[m] = "handling" /\ (StageOf(m)' = StageOf(m) => StageMap' = StageMap)
      BY <1>0, <2>2, MoveMapped
    <2> QED
      BY <1>2, <2>1, <2>2, <2>3 DEF StageOf
  <1>8. CASE Take
    <2>1. PICK m \in Message : m = Head(incoming) /\ state[m] = "incoming"
      BY <1>0, <1>8, TailElems DEF Take, ListenerInv, TypeOK, Queues
    <2>2. Move(m, "taken") /\ "taken" \in MessageState /\ UNCHANGED stopper
      BY <1>8, <2>1 DEF Take, MessageState
    <2>3. state'[m] = "taken" /\ (StageOf(m)' = StageOf(m) => StageMap' = StageMap)
      BY <1>0, <2>2, MoveMapped
    <2> QED
      BY <1>2, <2>1, <2>2, <2>3 DEF StageOf
  <1>9. ASSUME NEW m \in Message, state[m] = "broker", Move(m, "incoming"), runner = "consume",
               UNCHANGED stopper
        PROVE  Drain!DrainNext
    <2>1. PhaseMap = "open" /\ UNCHANGED PhaseMap
      BY <1>2, <1>9 DEF PhaseMap, ListenerInv, Phases
    <2>2. StageMap[m] = StageOf(m) /\ state'[m] = "incoming" /\ StageMap' = [StageMap EXCEPT ![m] = StageOf(m)']
      BY <1>0, <1>9, MoveMapped DEF MessageState
    <2>3. StageMap[m] = "queued" /\ StageMap' = [StageMap EXCEPT ![m] = "received"]
      BY <1>9, <2>2 DEF StageOf
    <2> QED
      BY <2>1, <2>3 DEF Drain!DrainNext, Drain!Receive, Drain!Advance
  <1>10. ASSUME NEW m \in Message, state[m] = "taken", Move(m, "submitted"), runner = "callback",
                UNCHANGED stopper
         PROVE  Drain!DrainNext
    <2>1. PhaseMap = "open" /\ UNCHANGED PhaseMap
      BY <1>2, <1>10 DEF PhaseMap, ListenerInv, Phases
    <2>2. StageMap[m] = StageOf(m) /\ state'[m] = "submitted" /\ StageMap' = [StageMap EXCEPT ![m] = StageOf(m)']
      BY <1>0, <1>10, MoveMapped DEF MessageState
    <2>3. StageMap[m] = "received" /\ StageMap' = [StageMap EXCEPT ![m] = "handed"]
      BY <1>10, <2>2 DEF StageOf
    <2> QED
      BY <2>1, <2>3 DEF Drain!DrainNext, Drain!HandOver, Drain!Advance
  <1>11. ASSUME NEW m \in Message, Acknowledge(m) PROVE UNCHANGED <<StageMap, PhaseMap>>
    <2>1. state[m] = "submitted" /\ Move(m, "acking") /\ UNCHANGED stopper
      BY <1>11 DEF Acknowledge
    <2>2. state'[m] = "acking" /\ (StageOf(m)' = StageOf(m) => StageMap' = StageMap)
      BY <1>0, <2>1, MoveMapped DEF MessageState
    <2> QED
      BY <1>2, <2>1, <2>2 DEF StageOf
  <1>12. ASSUME NEW m \in Message, Handle(m) PROVE Drain!DrainNext
    <2>1. state[m] = "handling" /\ Move(m, "done") /\ UNCHANGED stopper
      BY <1>12 DEF Handle
    <2>2. PhaseMap # "closed" /\ UNCHANGED PhaseMap
      BY <1>2, <2>1 DEF PhaseMap, ListenerInv, Quiet, InExecutor
    <2>3. StageMap[m] = StageOf(m) /\ state'[m] = "done" /\ StageMap' = [StageMap EXCEPT ![m] = StageOf(m)']
      BY <1>0, <2>1, MoveMapped DEF MessageState
    <2>4. StageMap[m] = "handed" /\ StageMap' = [StageMap EXCEPT ![m] = "handled"]
      BY <2>1, <2>3 DEF StageOf
    <2> QED
      BY <2>2, <2>4 DEF Drain!DrainNext, Drain!Finish, Drain!Advance
  <1>13. CASE RunnerStep
    <2>1. CASE RunnerLoop \/ Poll \/ RunnerTaskBegin \/ BeginConsume \/ Shutoff
      BY <1>3, <2>1 DEF RunnerLoop, Poll, RunnerTaskBegin, TaskBegin, BeginConsume, Shutoff
    <2>2. CASE RunnerTaskEnd \/ RunnerTaskRaises
      BY <1>7, <2>2 DEF RunnerTaskEnd, RunnerTaskRaises, Runner
    <2>3. CASE Consume
      BY <1>3, <1>9, <2>3 DEF Consume
    <2>4. CASE Callback
      BY <1>10, <2>4 DEF Callback
    <2> QED
      BY <1>8, <1>13, <2>1, <2>2, <2>3, <2>4 DEF RunnerStep
  <1>14. CASE BackgroundStep
    <2>1. CASE BackgroundCheck \/ BackgroundTaskBegin \/ BackgroundDone
      BY <1>3, <2>1 DEF BackgroundCheck, BackgroundTaskBegin, TaskBegin, BackgroundDone
    <2>2. CASE BackgroundTaskEnd \/ BackgroundTaskRaises
      BY <1>7, <2>2 DEF BackgroundTaskEnd, BackgroundTaskRaises, Background
    <2> QED
      BY <1>14, <2>1, <2>2 DEF BackgroundStep
  <1>15. CASE UNCHANGED vars
    BY <1>3, <1>15 DEF vars
  <1> QED
    BY <1>4, <1>5, <1>6, <1>11, <1>12, <1>13, <1>14, <1>15 DEF Next, StopperStep

\* stop() and wait() drain the server, wherever they meet the polling thread,
\* whichever thread sends the acknowledgements, and also when they raise.
THEOREM ListenerImplementsDrain == Spec => ImplementsDrain
  <1>1. Init => Drain!DrainInit
    BY DEF Init, StageMap, StageOf, PhaseMap, Drain!DrainInit
  <1> QED
    BY <1>1, DrainStep, ListenerInvariant, PTL
    DEF Spec, ImplementsDrain, Drain!DrainSpec, Drain!drainVars
=============================================================================
