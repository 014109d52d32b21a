-------------------------- MODULE ListenerShutdown --------------------------
(***************************************************************************)
(* How an RPC server stops receiving: the polling thread of                *)
(* PollStyleListenerAdapter (base.py), AMQPListener with its queue of      *)
(* acknowledgements and the background thread that works it off once the   *)
(* polling thread is gone (amqpdriver.py), the greenthreads that handle    *)
(* messages, and the caller of MessageHandlingServer.stop and wait         *)
(* (server.py).                                                            *)
(*                                                                         *)
(* An acknowledgement is begun and ended in two steps, so that two threads *)
(* can be seen to use the connection at once.  The batch size of an RPC    *)
(* server is 1.                                                            *)
(***************************************************************************)
EXTENDS Naturals, Sequences, FiniteSets

CONSTANTS
    Message,    \* messages in the server's queue at the broker
    NoMessage,  \* no task is being run
    PoolSize    \* executor_thread_pool_size

\* The executor runs at least one greenthread.
ASSUME ListenerAssumption ==
    /\ NoMessage \notin Message
    /\ PoolSize \in Nat \ {0}

VARIABLES
    state,        \* where each message is
    incoming,     \* AMQPListener.incoming
    tasks,        \* MessageOperationsHandler._tasks: acknowledgements to do
    runner,       \* where the polling thread is
    final,        \* the polling thread is in the second loop of _runner
    started,      \* PollStyleListenerAdapter._started
    shutdown,     \* AMQPListener._shutdown
    shutoff,      \* AMQPListener._shutoff
    background,   \* the thread of process_in_background
    ops_shutdown, \* MessageOperationsHandler._shutdown
    current,      \* the task that each of the two threads is running
    stopper       \* where the caller of stop() and wait() is

vars == <<state, incoming, tasks, runner, final, started, shutdown, shutoff,
          background, ops_shutdown, current, stopper>>

MessageState == {"broker", "incoming", "taken", "submitted", "acking",
                 "handling", "done"}
RunnerPC == {"loop", "poll", "process", "consume", "last", "callback", "ended"}
BackgroundPC == {"none", "check", "process", "ended", "died"}
StopperPC == {"serving", "unstarted", "shutting", "joining", "stopped",
              "cleaning", "closed"}

\* Type of the state.
TypeOK ==
    /\ state \in [Message -> MessageState]
    /\ incoming \in Seq(Message)
    /\ tasks \in Seq(Message)
    /\ runner \in RunnerPC
    /\ {final, started, shutdown, shutoff, ops_shutdown} \subseteq BOOLEAN
    /\ background \in BackgroundPC
    /\ current \in [{"runner", "background"} -> Message \cup {NoMessage}]
    /\ stopper \in StopperPC

Init ==
    /\ state = [m \in Message |-> "broker"]
    /\ incoming = <<>>
    /\ tasks = <<>>
    /\ runner = "loop"
    /\ final = FALSE
    /\ started = TRUE
    /\ shutdown = FALSE
    /\ shutoff = FALSE
    /\ background = "none"
    /\ ops_shutdown = FALSE
    /\ current = [t \in {"runner", "background"} |-> NoMessage]
    /\ stopper = "serving"

Move(m, where) == state' = [state EXCEPT ![m] = where]

stopVars == <<started, shutdown, ops_shutdown, stopper>>
backVars == <<background, ops_shutdown>>

-----------------------------------------------------------------------------
(* MessageOperationsHandler.process, by either thread *)

\* Fault: the task stays in the queue while it is run.
TaskBeginPeek(t) ==
    /\ tasks # <<>>
    /\ current[t] = NoMessage
    /\ current' = [current EXCEPT ![t] = Head(tasks)]
    /\ UNCHANGED <<state, incoming, tasks, final, started, shutdown, shutoff,
                   ops_shutdown, stopper>>

\* The next task is taken out of the queue and begun.
TaskBegin(t) ==
    /\ tasks # <<>>
    /\ current[t] = NoMessage
    /\ current' = [current EXCEPT ![t] = Head(tasks)]
    /\ tasks' = Tail(tasks)
    /\ UNCHANGED <<state, incoming, final, started, shutdown, shutoff,
                   ops_shutdown, stopper>>

\* The task ends, or raises: the event is set either way, and the greenthread
\* that waits for it in do() goes on.
TaskEnd(t) ==
    /\ current[t] # NoMessage
    /\ Move(current[t], "handling")
    /\ current' = [current EXCEPT ![t] = NoMessage]
    /\ UNCHANGED <<incoming, tasks, started, shutdown, shutoff, ops_shutdown,
                   stopper>>

\* The queue is found empty.
NoTask(t) == tasks = <<>> /\ current[t] = NoMessage

-----------------------------------------------------------------------------
(* The polling thread *)

\* _runner: the first loop goes on as long as the adapter is started.
RunnerLoop ==
    /\ runner = "loop"
    /\ runner' = "poll"
    /\ final' = ~started
    /\ UNCHANGED <<state, incoming, tasks, shutoff, background, current,
                   stopVars>>

\* AMQPListener.poll: the head of its loop.
Poll ==
    /\ runner = "poll"
    /\ runner' = IF shutdown THEN "last" ELSE "process"
    /\ UNCHANGED <<state, incoming, tasks, final, shutoff, background, current,
                   stopVars>>

RunnerTaskBegin ==
    /\ runner \in {"process", "last"}
    /\ TaskBegin("runner")
    /\ UNCHANGED <<runner, background>>

RunnerTaskEnd ==
    /\ TaskEnd("runner")
    /\ UNCHANGED <<runner, final, background>>

\* The task raises: the exception leaves poll and _runner, which is entered
\* again (forever_retry_uncaught_exceptions).
RunnerTaskRaises ==
    /\ TaskEnd("runner")
    /\ runner' = "loop"
    /\ final' = FALSE
    /\ UNCHANGED background

\* poll returns the first message.
Take ==
    /\ runner \in {"process", "last"}
    /\ NoTask("runner")
    /\ incoming # <<>>
    /\ Move(Head(incoming), "taken")
    /\ incoming' = Tail(incoming)
    /\ runner' = "callback"
    /\ UNCHANGED <<tasks, final, shutoff, background, current, stopVars>>

\* No message: poll consumes.
BeginConsume ==
    /\ runner = "process"
    /\ NoTask("runner")
    /\ incoming = <<>>
    /\ runner' = "consume"
    /\ UNCHANGED <<state, incoming, tasks, final, shutoff, background, current,
                   stopVars>>

\* conn.consume: a message arrives, after stop_consuming too if the drain had
\* begun, or the time is up.
Consume ==
    /\ runner = "consume"
    /\ \/ \E m \in Message : /\ state[m] = "broker"
                             /\ Move(m, "incoming")
                             /\ incoming' = Append(incoming, m)
       \/ UNCHANGED <<state, incoming>>
    /\ runner' = "poll"
    /\ UNCHANGED <<tasks, final, shutoff, background, current, stopVars>>

\* Fault: a stopped listener is off before its last messages are returned.
ShutoffEarly ==
    /\ runner = "last"
    /\ NoTask("runner")
    /\ shutoff' = TRUE
    /\ runner' = IF final THEN "ended" ELSE "loop"
    /\ UNCHANGED <<state, incoming, tasks, final, background, current,
                   stopVars>>

\* The listener is stopped and has no message: it is off, and poll returns
\* nothing, which ends the second loop of _runner, not the first.
Shutoff ==
    /\ runner = "last"
    /\ NoTask("runner")
    /\ incoming = <<>>
    /\ shutoff' = TRUE
    /\ runner' = IF final THEN "ended" ELSE "loop"
    /\ UNCHANGED <<state, incoming, tasks, final, background, current,
                   stopVars>>

\* on_incoming_callback: _on_incoming submits the message to the executor.
Callback ==
    /\ runner = "callback"
    /\ \E m \in Message : state[m] = "taken" /\ Move(m, "submitted")
    /\ runner' = IF final THEN "poll" ELSE "loop"
    /\ UNCHANGED <<incoming, tasks, final, shutoff, background, current,
                   stopVars>>

-----------------------------------------------------------------------------
(* The greenthreads that handle messages *)

InExecutor == {m \in Message : state[m] \in {"submitted", "acking", "handling"}}

\* A greenthread begins with the acknowledgement: do() queues it and waits.
Acknowledge(m) ==
    /\ state[m] = "submitted"
    /\ Cardinality({n \in Message : state[n] \in {"acking", "handling"}})
           < PoolSize
    /\ Move(m, "acking")
    /\ tasks' = Append(tasks, m)
    /\ UNCHANGED <<incoming, runner, final, shutoff, background, current,
                   stopVars>>

\* The message is dispatched and its reply sent.
Handle(m) ==
    /\ state[m] = "handling"
    /\ Move(m, "done")
    /\ UNCHANGED <<incoming, tasks, runner, final, shutoff, background,
                   current, stopVars>>

-----------------------------------------------------------------------------
(* stop() and wait() *)

\* PollStyleListenerAdapter.stop begins.
Unstart ==
    /\ stopper = "serving"
    /\ started' = FALSE
    /\ stopper' = "unstarted"
    /\ UNCHANGED <<state, incoming, tasks, runner, final, shutdown, shutoff,
                   backVars, current>>

\* AMQPListener.stop: _shutdown is set, and the connection stops consuming.
Shutdown ==
    /\ stopper = "unstarted"
    /\ shutdown' = TRUE
    /\ stopper' = "shutting"
    /\ UNCHANGED <<state, incoming, tasks, runner, final, started, shutoff,
                   backVars, current>>

\* Fault: nobody takes over the acknowledgements.
NoBackground ==
    /\ stopper = "shutting"
    /\ shutoff
    /\ stopper' = "joining"
    /\ UNCHANGED <<state, incoming, tasks, runner, final, started, shutdown,
                   shutoff, background, ops_shutdown, current>>

\* The listener is off: the background thread is started.
StartBackground ==
    /\ stopper = "shutting"
    /\ shutoff
    /\ background' = "check"
    /\ stopper' = "joining"
    /\ UNCHANGED <<state, incoming, tasks, runner, final, started, shutdown,
                   shutoff, ops_shutdown, current>>

\* The polling thread is joined: stop() returns.
Stopped ==
    /\ stopper = "joining"
    /\ runner = "ended"
    /\ stopper' = "stopped"
    /\ UNCHANGED <<state, incoming, tasks, runner, final, started, shutdown,
                   shutoff, backVars, current>>

\* Fault: wait() does not wait for the executor.
CleanupEarly ==
    /\ stopper = "stopped"
    /\ ops_shutdown' = TRUE
    /\ stopper' = "cleaning"
    /\ UNCHANGED <<state, incoming, tasks, runner, final, started, shutdown,
                   shutoff, background, current>>

\* wait(): the executor has shut down; cleanup() stops the background thread.
Cleanup ==
    /\ stopper = "stopped"
    /\ InExecutor = {}
    /\ ops_shutdown' = TRUE
    /\ stopper' = "cleaning"
    /\ UNCHANGED <<state, incoming, tasks, runner, final, started, shutdown,
                   shutoff, background, current>>

\* cleanup() closes the connection, without joining the thread.
CloseConnection ==
    /\ stopper = "cleaning"
    /\ stopper' = "closed"
    /\ UNCHANGED <<state, incoming, tasks, runner, final, started, shutdown,
                   shutoff, backVars, current>>

-----------------------------------------------------------------------------
(* _process_in_background *)

BackgroundCheck ==
    /\ background = "check"
    /\ background' = IF ops_shutdown THEN "ended" ELSE "process"
    /\ UNCHANGED <<state, incoming, tasks, runner, final, shutoff, current,
                   stopVars>>

BackgroundTaskBegin ==
    /\ background = "process"
    /\ TaskBegin("background")
    /\ UNCHANGED <<runner, background>>

BackgroundTaskEnd ==
    /\ TaskEnd("background")
    /\ UNCHANGED <<runner, final, background>>

\* The task raises, which nothing in this thread catches.
BackgroundTaskRaises ==
    /\ TaskEnd("background")
    /\ background' = "died"
    /\ UNCHANGED <<runner, final>>

BackgroundDone ==
    /\ background = "process"
    /\ NoTask("background")
    /\ background' = "check"
    /\ UNCHANGED <<state, incoming, tasks, runner, final, shutoff, current,
                   stopVars>>

-----------------------------------------------------------------------------
RunnerStep ==
    \/ RunnerLoop \/ Poll \/ RunnerTaskBegin \/ RunnerTaskEnd
    \/ RunnerTaskRaises \/ Take \/ BeginConsume \/ Consume \/ Shutoff
    \/ Callback

BackgroundStep ==
    \/ BackgroundCheck \/ BackgroundTaskBegin \/ BackgroundTaskEnd
    \/ BackgroundTaskRaises \/ BackgroundDone

StopperStep ==
    Shutdown \/ StartBackground \/ Stopped \/ Cleanup \/ CloseConnection

Next ==
    \/ RunnerStep \/ BackgroundStep \/ StopperStep \/ Unstart
    \/ \E m \in Message : Acknowledge(m) \/ Handle(m)

Spec == Init /\ [][Next]_vars

\* Both threads run, and the broker is reachable, so that consume() returns;
\* handlers end; a caller of stop() goes on to wait(), as nova's Service.stop
\* does.  Nobody has to call stop().
Fairness ==
    /\ WF_vars(RunnerStep)
    /\ WF_vars(BackgroundStep)
    /\ WF_vars(StopperStep)
    /\ \A m \in Message : WF_vars(Acknowledge(m)) /\ WF_vars(Handle(m))

FairSpec == Spec /\ Fairness

-----------------------------------------------------------------------------
(* Properties *)

\* Every message that was consumed before the end of stop() has been given to
\* the executor: none is left behind unacknowledged in the listener, although
\* stop() comes at any point of the polling thread's loops and tasks raise.
NothingLeftBehind ==
    stopper \in {"stopped", "cleaning", "closed"}
        => \A m \in Message : state[m] \notin {"incoming", "taken"}

\* When the connection is closed nobody waits for an acknowledgement and none
\* is being sent, although the background thread is not joined.
ClosedWhenQuiet ==
    stopper \in {"cleaning", "closed"}
        => /\ tasks = <<>>
           /\ \A t \in {"runner", "background"} : current[t] = NoMessage
           /\ InExecutor = {}

\* A greenthread that waits for its acknowledgement has a task, queued or
\* being run, and only one: it is woken once, whoever runs the task.
TaskPerWaiter ==
    \A m \in Message :
        LET Places == {i \in 1..Len(tasks) : tasks[i] = m}
            Runs   == {t \in {"runner", "background"} : current[t] = m}
        IN  Cardinality(Places) + Cardinality(Runs)
                = IF state[m] = "acking" THEN 1 ELSE 0

\* The background thread never works on the connection while the polling
\* thread consumes from it: they overlap only in the polling thread's very
\* last look at the tasks.
NoConsumeBeside ==
    background \in {"check", "process"}
        => runner \in {"loop", "poll", "last", "ended"} /\ incoming = <<>>

\* What becomes of a message, and how far the server is, for its users.
StageOf(m) ==
    IF state[m] = "broker" THEN "queued"
    ELSE IF state[m] \in {"incoming", "taken"} THEN "received"
    ELSE IF state[m] = "done" THEN "handled" ELSE "handed"

StageMap == [m \in Message |-> StageOf(m)]

PhaseMap ==
    IF stopper \in {"cleaning", "closed"} THEN "closed"
    ELSE IF stopper = "stopped" THEN "stopped" ELSE "open"

Drain == INSTANCE DrainContract WITH stage <- StageMap, phase <- PhaseMap

\* The polling thread, the background thread, the greenthreads and the caller
\* of stop() and wait() together drain the server: every message is received,
\* handed over and handled in turn, none is received after stop() or left in
\* the listener by it, and none is with a greenthread when the connection is
\* closed.
ImplementsDrain == Drain!DrainSpec

\* stop() and wait() return and the connection is closed: the polling thread
\* comes to its end at whatever point of its loops it meets _shutdown, and the
\* acknowledgements that greenthreads wait for are sent by whichever thread is
\* left, unless a task that raised has killed the background thread.
ShutdownEnds ==
    stopper = "unstarted" ~> (stopper = "closed" \/ background = "died")

\* The docstring of MessageOperationsHandler: all tasks are serialized. The
\* code does not keep it: the polling thread's last look at the tasks overlaps
\* the background thread (README, section 3).
TasksSerialized ==
    current["runner"] = NoMessage \/ current["background"] = NoMessage
=============================================================================
