# TLA+ models of polar-bear

polar-bear is an automated test framework derived from OpenStack Nova. A test
plan is posted to a REST API (`nova-api`), taken apart by a conductor into
cases, groups and steps, executed by plugins on compute hosts (docker, http,
linux_system, build_server), and its results are collected in one database row,
where the user queries them. All processes talk over RabbitMQ with the
`oslo_messaging` in the tree.

This directory holds TLA+ models of the parts of that system that are
concurrent or distributed, TLC configurations that check them on small
instances, and TLAPS proofs for all instances. `PROJECT.json` lists the
components, runs, mutants, findings, hazards and theorems, and maps every
definition to the lines it models.

## 1. Inventory

### Test plan reporting — `nova/reportrpc.py`, `nova/compute/rpclient.py`, `nova/objects/testplan.py`, `testplan_update`

*State.* The row of the plan (`result`, `message` = log, `summary`), one
`ReportRPCAPI` object per step group with its counter `finish_flag`, and one
in-memory `TestPlan` per report in progress.
*Operations.* `RPCClient.result` (a call that times out), `ReportRPCAPI.result`
(decrement, then `report_result`: read the plan, add status and output,
recompute the summary, save), `testplan_update` under `wrap_db_retry`.
*Interaction.* Plugins call the server of their group; its executor runs each
call in a greenthread; the greenthreads meet only in the database row.
*Hard.* Read–modify–write without a lock; a second report from the `except`
block, or none when that block raises; a report the messaging driver executes
twice; a timed-out call that is not repeated; counting before storing.
*Correct means.* Nothing reported is lost, nothing unreported appears, the
summary fits the results, the counter reaches zero exactly when every step has
reported.

### Compute plugins — `nova/compute/manager_{http,docker,linux_system,build_server}.py`

*State.* None between steps; the docker daemon's containers.
*Operations.* One method per kind of step: execute, then report in the `try` or
in the `except` block.
*Correct means.* Every step reports once, with the status of what happened.

### RPC over RabbitMQ — `oslo_messaging/_drivers/amqpdriver.py`, `amqp.py`, `impl_rabbit.py`, `oslo_messaging/rpc/server.py`

*State.* Client: `ReplyWaiters._queues`. Server: `AMQPListener.incoming`,
`MessageOperationsHandler._tasks`, `_MsgIdCache.prev_msgids`,
`ObsoleteReplyQueuesCache`. Broker (external): topic queue, unacknowledged
deliveries, reply queue.
*Operations.* `_send`, `ReplyWaiter.wait`, `ReplyWaiters.put`,
`AMQPListener.__call__`/`poll`, `process`/`do`, `_process_incoming`, `reply`,
`Connection.ensure`.
*Interaction.* A polling thread per connection receives messages and performs
the acknowledgements that worker greenthreads queue for it.
*Hard.* Redelivery, repeated publication, late replies, crashes between the
acknowledgement and the dispatch, reply queues that vanish and come back.
*Correct means.* A call ends in exactly one way, with an answer to itself;
nothing leaks; what is lost and what is executed twice is known.

### Server life cycle — `oslo_messaging/server.py`

*State.* `_OrderedTask._state` of `start`, `stop`, `wait` per epoch; the
listener and the executor. *Operations.* The three ordered methods, from any
thread. *Hard.* Overlapping calls, restarts while a thread sleeps, bodies that
raise. *Correct means.* Each body once per epoch, in order, alone; a return
means completion.

### Connection lock and heartbeat thread — `ConnectionLock`, `_heartbeat_thread_job`, `close` of `impl_rabbit.py`

*State.* Holder of the lock, count of waiting workers, flag of the waiting
heartbeat thread, the threads in `Condition.wait`, the exit event.
*Operations.* `acquire`, `heartbeat_acquire`, `release`, the heartbeat loop with
its reconnection, `close`. *Hard.* One notification per release, newcomers that
overtake a notified thread, a join of a thread that wants the lock.
*Correct means.* One user of the connection at a time, no lost wakeup, `close`
ends and takes nothing away from a running heartbeat thread.

### Connection pool — `_drivers/pool.py`, `ConnectionContext` of `_drivers/common.py`

*State.* `_items`, `_current_size`, the connection of each context.
*Operations.* `get` with `expire`, `put`, `empty`; `_done` of a context with
`reset` and a replacement; `__del__`. *Hard.* Connections are made outside the
lock, may fail, and may fail again in the handler of a failure; `empty` works
without the lock. *Correct means.* No slot or connection lost, shared or leaked;
a waiter is offered one.

### Listener shutdown — `_drivers/base.py`, `AMQPListener`, `MessageOperationsHandler`

*State.* Messages between broker and executor, queued acknowledgements, the
events `_shutdown` and `_shutoff`, the polling and the background thread.
*Operations.* `_runner`, `poll`, `process`, `process_in_background`, `stop`,
`cleanup`. *Interaction.* `MessageHandlingServer.stop` and `wait` call them;
greenthreads wait for acknowledgements that whichever thread is there sends.
*Correct means.* What was consumed is executed, no greenthread waits for ever,
the connection is closed when nobody needs it.

### Service registry — `nova/service.py`, `nova/servicegroup`, `service_update`

*State.* One row per host and binary with `report_count` and `last_seen_up`;
each worker's copy of it. *Operations.* Start (find or create), heartbeat,
`service_is_up`, deletion. *Hard.* Workers of one host share the row and report
in overlapping transactions; a report counts only if its number is larger than
the stored one. *Correct means.* One row however many workers start at once, a
live service is up, a dead one goes down.

### Process launcher — `ProcessLauncher` of `oslo_service/service.py`

*State.* `running`, `sigcaught`, `children`, installed handlers, callbacks of
signals that have not run, the shutdown timer; the worker processes.
*Operations.* `launch_service`, `wait`, `_respawn_children`, reload on SIGHUP,
`stop`; a worker's start, shutdown and `_pipe_watcher`. *Hard.* Signals at any
moment, between a check and a fork too, or between a worker's fork and its own
hub. *Correct means.* The parent knows its workers, replaces dead ones, ends
when told to, and leaves none behind.

### Others

Section 5 lists the parts that are not modelled, and why.

## 2. Modules

| Module | Content |
|---|---|
| `PlanReport` | a plan's reports, from the plugin to the row |
| `RpcContract` | abstract: what an RPC promises its two ends |
| `RpcCall` | client, broker and server of the rabbit driver |
| `LifeCycle` | abstract: the stages of a server's life, epoch by epoch |
| `OrderedTasks` | `start`, `stop`, `wait` of a message handling server |
| `ConnectionLock` | the lock of a connection, its heartbeat thread and `close` |
| `ConnectionPool` | the pool of sending connections and its contexts |
| `DrainContract` | abstract: what `stop` and `wait` promise about received messages |
| `ListenerShutdown` | how an RPC server stops receiving |
| `ServiceRegistry` | the record of a service, its workers and heartbeats |
| `ProcessLauncher` | a parent, its signals and its worker processes |
| `MC…` | small instances for TLC |
| `…Proofs` | theorems and proofs; they extend the component and TLAPS |

Operators whose comment begins with *Fault:* are not part of any specification.
Each is a plausible bug of the definition that follows it; `PROJECT.json` says
which property finds it.

### PlanReport

A *call* is a step, the place (`try`, `except`) it reports from and a copy
number: the driver can execute a report twice (`RpcCall!AtMostOnce`), and then
`finish_flag` is decremented twice. `Redeliver` makes the further copies;
`MaxRepeats` bounds them together with the calls that raise after their report was
sent. `worker[s]` is where the plugin method is, `handler[c]` how
far the report is: `queued` in
the topic, `started` (counted), `read` (the copy `plan[c]` exists), `saving`
(`testplan_update` has re-read the row into `base[c]`), `ok`, `failed` or
`expired`. The steps of `report_result` are separate actions where a greenthread
can yield: at the read, at the re-read in the writer transaction and at the
commit. `Flushed` is SQLAlchemy's behaviour that `testplan_update` relies on:
only columns that differ from what was re-read are written. `Execute`,
`ReplyOk` and `ReplyFailed` cover all methods of the http and docker plugins,
which share one shape. `rpclient.py:31` catches a timeout and nothing else. A
report call that raises otherwise is `CallRaises` if the broker has the report,
`ExecuteRaises` if it has not; both lead from the `try` to the `except` block,
whose head is the state `caught`. From there `ReportCaught` reports, and
`CaughtRaises` ends the method without a report (`e.message` does not exist or is
no ASCII text, or the publication fails). The history `undelivered` notes the
steps whose first report was sent by a call that raised.

Assumption: the cast of a step is executed once. (A cast executed twice runs the
step twice and reports it twice; what follows for `finish_flag` is the same as for
a repeated report.)

The log is abstracted to the set of reports whose output it contains, a status
to PASS or FAIL. `NoSummary` stands for the empty summary before the first
report. `summary` uses integer division where the code takes `int()` of a float
product; the two agree for fewer than 50 cases.

The conductor's manager is not in the repository. `Dispatch` allows every order
that an observer of `finish_flag` can enforce: parallel groups at once, serial
ones step by step, groups after their prerequisites.

### RpcCall and RpcContract

A *delivery* `<<m, n>>` is the n-th copy of request `m` that reaches the server.
Its `state` follows the code: `incoming` (in `AMQPListener.incoming`),
`submitted` (to the executor), `acking` (its ack waits in `_tasks`), `acked`,
`running`, `replying`, then `replied` or `dropped`; `skipped` is a detected
duplicate, `lost` one that died with the server. The client's `sender` follows
`_send`. Faults: `ConnectionDrop` (the broker requeues what is unacknowledged,
the process keeps what it received), `ServerRestart`, `PublishAgain` and
`SendReplyAgain` (`ensure` repeats what the broker already has), `Expire`,
`ReplyQueueGone`/`ReplyQueueBack`. An acknowledgement on a channel that is gone
has no effect at the broker; the greenthread goes on all the same, because
`process` sets the event in its `finally` clause.

`RpcContract` has three variables: the phase of a call as its caller sees it,
its result, and the answers its executions have produced so far. It allows a
request to be executed never or several times, but a call returns at most once,
and only an answer of its own. The refinement mapping is `PhaseMap`,
`ResultMap`, `AnswersMap` in `RpcCall`.

Left out: fanout and notification traffic, several clients or servers on a
topic, and the executor's pool limit (a message waits longer, nothing else
changes). Lock, pool and shutdown have modules of their own; `RpcCall` takes
from them that one thread at a time uses a connection and that every queued
acknowledgement is run.

### OrderedTasks

`pc` follows the wrapper of `decorate_ordered`: `reset` (under the reset lock),
`capture` (`states = self._states`), `after` (`wait_for_completion`), `run`
(`run_once`), then `body`, `cleanup` or `join`. An epoch is one dictionary of
task states. `mine[th]` is the epoch a thread captured; `listener` and
`executor` belong to the server object, so that a thread of an old epoch acts on
those of the new one, as in the code. A failing body (refused listener,
`stop` without a listener) still completes its task. The body of `wait` is two
steps, since shutting down the executor blocks; `start` is two as well.

`LifeCycle` is what this amounts to for whoever starts and stops a server: an
epoch goes from `new` over `starting`, `started`, `stopping`, `stopped` and
`waiting` to `ended`, one stage at a time and never back, and a new epoch begins
only when the current one is `stopped` or later. An old epoch may still advance:
that is the thread asleep in `wait` of section 3. The refinement mapping
(`StageMap`) reads the stage of an epoch off its three task states.

### ConnectionLock

What a thread does between entering and leaving the monitor is one action.
`asleep` holds the threads in `Condition.wait` that nobody has notified; `Wake`
is a notified worker's new look at the lock, which may send it back to sleep. A
newcomer may call `acquire` before that look. `Close` requires that nobody else
uses the connection, as the pool guarantees (`NotShared`).

### ConnectionPool

A caller is out of the pool, waiting, creating, using, replacing, or `undone`:
its context's replacement has failed, `finally` has put the closed connection
into the pool all the same, and `__del__` will call `_done` once more. Two ghosts
make the slot equation exact: `surplus` counts the items put twice in this way,
`emptied` what `empty` takes without lowering `_current_size`. Since the size is
only lowered by `expire`, such an item can be expired twice and the size fall
below zero; `TypeOK` says how far. `get` and the part of `expire` that takes an
item and puts it back are one step, although `empty` works without the lock: with
eventlet's patched threads nothing in between switches. A third ghost, `late`,
counts the callers inside when `cleanup` drops the pool. What they put back
afterwards nobody closes, and its heartbeat thread keeps it alive: a known leak of
`amqpdriver.py:622-625`, which `NotLeaked` bounds by `late`. A waiter needs no notification: with
Python 2.7 `wait_condition` times out every second and `get` looks again. The
creation of a connection and `reset` may always fail; `release` of kombu is
assumed not to raise.

### ListenerShutdown

`runner` follows `_runner` and `AMQPListener.poll`, `final` tells its second loop
(after `_started` was cleared) from the first. `TaskBegin` and `TaskEnd` are the
two ends of one acknowledgement, so that the two threads can be seen to use the
connection at once. A task that raises leaves `poll` and has `_runner` entered
again, or kills the background thread, which catches nothing. A message that
arrives while `stop_consuming` is being called is one that `Consume` still takes.
The batch size of an RPC server is 1. In `OrderedTasks` all this is the stopping
of the listener and the shutdown of the executor.

`DrainContract` leaves the threads, the queues and the acknowledgements out: a
message is `queued` at the broker, `received`, `handed` to the executor and
`handled`; `stop` returns only when no message is merely `received`, and the
connection is closed only when none is `handed` and unhandled. The refinement
mapping is `StageMap` and `PhaseMap`; a message that waits for its
acknowledgement counts as handed over.

### ServiceRegistry

`row` is the newest record, `ref[w]` what worker `w` has of it. A heartbeat is
`BeginReport`, `UpdateRead` and `UpdateWrite`: the transaction reads without a
lock, SQLAlchemy writes `report_count` only if it differs from what was read, and
`last_seen_up` is set only if it is larger. Time is discrete; a transaction lasts
less than a tick, timers fire on time. `calm` is a ghost: ticks since a start, a
crash, a failed report or a deletion. Ages are not told apart beyond `Horizon`.

### ProcessLauncher

A signal (SIGTERM, SIGHUP, SIGINT) that meets an installed handler appends a
callback to `pending`; it runs where the parent yields (`Yields`). It notes the
signal and removes the handlers, or, for SIGINT, ends the process (`_fast_exit`).
A signal without handlers kills, and `Killed` is SIGKILL or any other unexpected
death. `timeout` says whether `graceful_shutdown_timeout` is non-zero: any value at
the start, and again after a reload, which reads the configuration anew. Only with
it does `Caught` set the timer; zero means an endless wait
(`_options.py:49-52`). Launching forks without yielding, a respawn pauses between two
forks, `stop` waits in a loop that never yields. `Terminated` is what SIGTERM does
to a worker in each state, including the one still on its parent's hub, where the
callback is lost. A worker sees its parent's death by end of file on a pipe, which
siblings that were just forked still hold open.

## 3. Runs

| Run | Bounds | What it shows |
|---|---|---|
| `report_parallel` | 2 groups, 2 cases, 2 steps that report and a linux_system step, one report executed twice or sent by a call that raises, 2 greenthreads | `OnlyAccepted`, `NoOverlapNoLoss`, `EarlyFinishOnlyAfterFault`, `CommitLogsOwnOutput` |
| `report_progress` | a serial group of 2 steps, then a linux_system step; 1 greenthread, 1 database retry, dropped reports; fair | `LogCollected` (serialised reports lose nothing), `FinishUnlessLost` |
| `rpc_two` | 2 calls, 1 drop or crash | `ReplyOfOwnRun`, `NotAcceptedWhileRunning` |
| `rpc_faults` | 1 call, 1 drop, 1 resend, 1 outage | `WaitersExact`, `OnlyLateDiscarded`, `ReplyNotLost`, refinement of `RpcContract` (`ImplementsContract`) |
| `rpc_progress` | a call and a cast, 1 drop or crash, 1 outage of the reply queue (for good, or for less than the minute of the obsolete cache), a cache of one id; fair | `RequestNotLost`, `WaitEnds`, `DeliveryEnds`, `CastRuns` |
| `tasks` | 2 threads, 3 calls each, timeouts, failures; fair | refinement of `LifeCycle` (`ImplementsLifeCycle`), `BodiesExclude`, `ReturnMeansComplete`, `ListensWithExecutor`, `CallsReturn` |
| `heartbeat` | 3 threads and the heartbeat thread; fair | `OneHolder`, `NoLostWakeup`, `CloseEnds` |
| `pool` | 3 callers, 2 slots, 4 connections, 1 failed replacement; fair | `SlotsCounted`, `NotShared`, `NotLeaked`, `UsableUnlessUndone`, `SlotComesUp` |
| `listener` | 3 messages, 2 greenthreads; fair | refinement of `DrainContract` (`ImplementsDrain`), `ClosedWhenQuiet`, `TaskPerWaiter`, `ShutdownEnds` |
| `services` | 3 workers, interval 2, down time 3, report counts up to 4, 2 records | `UpWhenCalm`, `DownWhenDead`, `RegisteredUnlessDeleted` |
| `launcher` | 2 workers, 3 process ids, 3 signals and an unexpected death, with and without a shutdown timeout; fair | `ChildrenKnown`, `Refilled`, `TermEnds`, `OrphansEnd` |
| `claim_log` | a parallel group of 2 steps | a violation: see below |

The type invariants, and the invariants that section 4 proves and this table does
not name, hold for every instance; no run repeats them.

*Bounds.* Overwriting a report takes two reports of one group, which two copies
or the report of the `except` block give as well as two steps; a second group and
case show that the summary and the other keys are kept. A group that looks
finished too early takes a report counted twice and a step that has not reported,
here the linux_system one. One drop, resend and
outage each already give every order of two faults and up to four copies of a
request: `MaxCopies` is (1 + resends) · (1 + drops), so its guard never keeps a
copy from being delivered. A cache of one id (`rpc_progress`) overflows with two
requests. Six calls of `start`, `stop`, `wait` open at most three epochs;
`MaxEpochs` is never reached. Losing a wakeup takes a notified waiter, a newcomer
and a second waiter: three threads. Three callers fill two slots and leave one
that waits; four connections are enough for a replacement while all others
exist. A heartbeat that does not count takes two workers, a count taken back
between them a third one that starts later; a down time just above the interval
is the tightest that `API.__init__` leaves alone, and two records let a deleted
one be replaced. Two signals can meet the parent on both sides of the removal of
its handlers, a third one ends a shutdown. Three messages and two greenthreads
leave one message waiting for a greenthread while acknowledgements of the others
are queued.

*Deadlock.* `CHECK_DEADLOCK FALSE` where the system really stops: plans, calls
and threads end, a lost report stops a plan for good, callers of a pool whose
driver has been cleaned up have none to ask, a background thread killed by an
acknowledgement leaves `wait` hanging (`ShutdownEnds` names that case), a launcher
ends. `heartbeat` and `services` never stop and are checked for deadlock.

*Symmetry.* Calls in `rpc_two`, the workers of `services`: nothing tells them
apart, and neither run checks liveness.

*Fairness.* Always weak, as operating system threads and eventlet's hub give it,
and never for a fault. `PlanReport`: the conductor dispatches, a plugin method
runs, a ready greenthread runs. A report call ends: a publication succeeds or
raises, which is an assumption (below), and the wait after it ends with its
timeout. `RpcCall`: threads run, a connected consumer is served by the broker,
endpoint methods end, timers expire; one condition for all of these steps
(`Progress`) is enough, since a run takes finitely many of them. None for the
return of a reply queue, and none for a publication: with `retry=None` and
`rabbit_max_retries` 0, the defaults, `ensure` repeats it for as long as the broker
is away (`impl_rabbit.py:490-491`, `730-733`), and the timer of a call starts only
in `wait`, after it (`amqpdriver.py:571-575`). So `WaitEnds` is about a call that has
been published; before that a call, and with it `nova`'s report, has no bound on
its time. `OrderedTasks`: a thread inside a method runs; nobody has to call one. Timers may
run out but need not: `FairSpec` leaves `Timeout` out, so that a thread cannot be
saved by one, and `CallsReturn` is about a thread whose preceding task is
complete (`stop` of a server nobody starts waits for ever, by design).
`ConnectionLock`: notified threads run, a publication ends, and so
does a reconnection, once the broker is back; nobody has to ask for the lock or
close. `ConnectionPool`:
a creation returns or raises, a publication ends, a context is finalised; no
fairness for waiters, the property is that something is there for them to find.
`ListenerShutdown`: the two threads and the caller of `stop` run, handlers end,
`consume` returns (it polls with a timeout); `Service.stop` of nova calls `wait`
after `stop`. `ProcessLauncher`: the parent and its callbacks run, a timer that is
set goes off, workers start and shut down unless they hang. Workers may die for
ever, so `Refilled` is about runs in which from some time on none does: the parent
then has its full number of living workers. `TermEnds` excuses exactly the endless
wait that a zero timeout asks for, and only while a worker hangs or has lost its
SIGTERM.

*What the service runs say about the configuration.* Workers that share a record
each store their own `report_count`. One that is behind its sibling takes the
stored count back, and its report does not renew `last_seen_up`. The service is
nevertheless up, because the next report of the sibling counts; after a
disturbance this can take two intervals, during which a service with live
workers can look down. `UpWhenCalm` therefore asks for `calm > 2 * Interval`.

### Disagreements between the code and what the repository says

`claim_log` shows one of them: `LogCollected` does not hold when reports of a
parallel group overlap; they overwrite each other's log, where `readme:8` promises
log collection for concurrent steps.

Five more are stated as definitions of the modules. Each is violated if it is
added to the named configuration (an `INVARIANT`, `StepReports` and
`StaleEpochDoesNothing` a `PROPERTY`):

| Definition | Configuration | What the code does |
|---|---|---|
| `PlanReport!StepReports` | `report_progress`, with `CanExpire = FALSE` | A linux_system step never reports: the call at `manager_linux_system.py:72` has the wrong signature and raises `TypeError`, its group never finishes; `testplan.json:17` and `readme:163` use the plugin. |
| `PlanReport!FailNotMasked` | `claim_log`, with `PoolSize = 1` | The steps of a group share one result key (`reportrpc.py:109`); a later PASS hides a FAIL, where `readme:207-210` shows one result per step. |
| `RpcCall!AtMostOnce` | `rpc_progress` | The id enters the duplicate cache after the ack (`amqpdriver.py:187-189`): when the connection is lost before, both copies are executed; the docstring at `amqp.py:113-115` says the check prevents just that. |
| `OrderedTasks!StaleEpochDoesNothing` | `tasks` | A thread asleep in `wait` while another restarts the server runs `wait`'s body on the new executor and listener (`server.py:251`); the comment above says it will safely do nothing. |
| `ListenerShutdown!TasksSerialized` | `listener` | The background thread starts when `_shutoff` is set, but that `poll` need not be the polling thread's last (`amqpdriver.py:323`): in its second loop it polls once more and both send acknowledgements over the connection; the comments at `amqpdriver.py:319-322`, `45-48` say they are serialized. |

A smaller one is left to the reader: the warning that `RPCClient.result` logs
after a timeout ends in "Reattempting establishment of nova-conductor
connection...", but nothing is attempted again; `CallTimeout` ends the report.

## 4. Proofs

All theorems hold for every value of the constants that satisfies the modules'
assumptions: finite sets of steps, groups, requests, threads and processes;
positive pool and cache sizes and intervals; natural numbers as bounds.

**PlanReport.** `SafetyInv` is inductive. Besides the properties it says what a
waiting plugin has sent (`WorkerInv`), that a copy in a greenthread holds
accepted reports and its own (`CopyInv`), and that without an overlap a copy is
the current row plus its own report (`FreshInv`). `OnlyAccepted` alone is not
inductive: a commit writes what a copy holds, so the copies must be known. Most
actions leave rows and copies alone and are settled by one lemma
(`QuietKeepsRowPart`). From it follow `NothingLostWithoutOverlap`,
`RowHoldsOnlyAccepted`, `SecondReportNeedsFailure` and the action property
`CommitLogs`. `FinishFlagMeansReported` needs `CountInv`, `finish_flag` as a
cardinality, and a counting argument: when as many reports have begun as the
group has steps and no step has begun two without a failure, every step has
begun one; a report executed twice, and one whose call raised after it was sent,
are the other two ways to count a step twice, and the property names them.
`SingleGreenthreadKeepsLog` proves `LogCollected` under the
assumption `OneGreenthread`: it is what a pool of size one would give a plan of
one group. (In `report_progress` it holds with two groups because the second
belongs to the plugin that never reports.) `SentInv`, that a plugin method which
ended normally has sent a report, and the same count read the other way
give `SettledGroupIsFinished`: when the methods of a group have ended and its
server has begun every report sent to it, `finish_flag` is at or below zero,
unless a method raised without having sent a report or the reports of a step were
all dropped. What can keep a plan from finishing is thereby named (a linux_system
step is a case of the first); this is the safety half of `FinishUnlessLost`.

**RpcCall.** `RpcInv` is inductive: the stage of `_send` (`SendInv`), the
numbering of copies (`CopyInv`), each delivery once in the queue of its stage
(`QueueInv`), answers only after an execution (`AnswerInv`), and only answers to
the right call in reply queues and inboxes (`ReplyInv`). Proved from it:
`RpcTypeCorrect`, `WaitersNeverLeak`, `OnlyLateRepliesDiscarded`,
`AnswersFromOwnRun` and the refinement `DriverImplementsContract`, whose steps
are: a client step is a contract step of its call, the end of an endpoint method
is `Produce`, everything else stutters. Three more invariants are inductive
relative to `RpcInv`. `SingleCopy` (without a fault one copy exists, from the
publication on) gives `OnceWithoutFaults`. `StoredInv` gives `PublishedIsKept`,
that no published request is lost: it is at the broker, acknowledged in the
server, dispatched, expired or hit by a crash, and an id in the duplicate cache
was dispatched, or a skipped copy could be the last one. `ReplyKept` gives
`ReplyReachesCaller`; it has to cover a call that is still publishing, since a
request may be answered while its publication is being repeated. `CacheInv` says
that the duplicate cache holds no id twice and, if it is at least as large as the
set of requests, the id of every request that is being executed: without
repetitions, an id that is not in the cache leaves room for it
(`RoomForOneMore`), so that nothing is forgotten. The action property
`CopyTurnedAway` follows. `NoneStranded` is the converse of `QueueInv`: a delivery
at the stage `incoming` or `acking` is in the queue that the polling thread will
look at, whatever was lost or raised (`NothingStranded`).

**OrderedTasks.** `TasksInv` is inductive. Its core `BodyInv` ties the program
counters to the task states: who is in a body has the task RUNNING, who is past
the wait has the preceding task COMPLETE, and a task has run exactly if it is no
longer INIT. `OrderExcludes` derives the exclusion of *different* bodies from
the order alone. Proved: `BodiesNeverOverlap`, `TasksInOrder`,
`ReturnIsCompletion`, `TasksTypeCorrect`. `ExecutorInv`, about the first epoch,
adds that the executor is open from the body of `start` until `stop` is complete;
`ExecutorOpenWhileListening` follows. `RunnerInv` says that a task which is RUNNING
has a thread in its body, that a joining thread has found its task begun, and that
no thread is in an epoch still to come. It gives `JoinersNotAbandoned`, that
`run_once` never waits for a task nobody runs, and, with the order of the tasks,
the refinement `ServerImplementsLifeCycle`: beginning or ending a body advances
its epoch by one stage, the reset is `Restart`, all other steps stutter.

**ConnectionLock.** `LockInv` is the conjunction of the properties and of where
sleepers are; each action has a lemma. `NoLostWakeup` needs `HeartbeatNotified`
and `WaitingNoted`: `release` decides by its notes whom to wake, and the
argument fails as soon as a note disagrees with who waits. The counter is a
cardinality, so that it can only be zero when no worker waits (`CountZero`).
Proved: `LockTypeCorrect`, `LockExcludes`, `WakeupsNotLost`, `HeartbeatFirst`,
`WaitersCounted`, `CloseJoins`. `JoinInv` adds that while a thread joins, no other
worker uses the connection and the heartbeat thread has been told to end. With
`LockInv` it gives `CloseNotObstructed`: the joined thread is not asleep in the
lock and finds it free or its own.

**ConnectionPool.** `PoolInv` adds to the properties which callers have a
connection, that one which could not be reset stays closed, and that the failed
replacements, finished or not, stay within their bound (`Contexts`); from the
last one and `SlotsCounted` follows the range of the size. The lemmas `Put…` and `Cut…` say what adding an item and
cutting the sequence do to places and connections; `MoveCounts` what a caller's
move does to the sets that are counted. Proved: `PoolTypeCorrect`,
`SlotsNeverLost`, `ConnectionsNotShared`, `ConnectionsNotLeaked`,
`UsableConnections`. `ConnectionsNotLeaked` needs `LeftBounded`: once the pool has
been dropped, its established items and the callers still inside are together no
more than `late`, as a caller that adds an item leaves and nobody enters. Two
consequences of the slot equation are stated on their
own: with `EmptiedLate` (only `empty` takes items uncounted),
`WaitersWaitForOwners`, that a pool in which a caller has to wait has all its slots
with callers that own one and do not wait; and `PoolBounded`, that there are never
more connections than the limit and one for each context finalised after a failed
replacement.

**ListenerShutdown.** `ListenerInv` says that `incoming`, `tasks` and the two
current tasks hold each message of the matching state exactly once (`Queues`),
that only a polling thread in its callback has a message in hand (`OneTaken`),
that the stage of the shutdown says how far the two threads are, and that a
listener that is off consumes nothing (`Phases`), and that nothing enters an
executor that has shut down (`Quiet`). Proved: `ListenerTypeCorrect`,
`StopLeavesNothing`, `CloseIsQuiet`, `BackgroundApart`, `OneTaskPerWaiter`, the
last one by counting places in a sequence without repetition. `HandOverInv` says
that the background thread is there from the moment `stop` has started it until
`cleanup` has told it to end; it gives `AcknowledgementsServed`, that a waiting
greenthread has a thread that will look at the tasks, the one exception being a
background thread killed by a task that raised. The refinement
`ListenerImplementsDrain` maps `Consume` to `Receive`, the submission to the
executor to `HandOver` and the end of a handler to `Finish`; that the
contract's `Stop` and `Close` are allowed when the code takes them is
`StopLeavesNothing` and the executor's shutdown.

**ServiceRegistry.** `RaceInv` says that, as long as no record was deleted, a
worker that runs has the live one, and a worker that lost the race will find
it. `DeadInv` says that without registered workers the record is at
least as old as the calm, from which `DeadIsDown` follows, late transactions
included: a worker that is gone has none. Proved: `RegistryTypeCorrect`,
`OneWinner`, `DeadIsDown`. `LiveInv` adds that every worker reports within an
interval (`DueInv`) and `CalmInv`: either the registry is still unsettled (less
than an interval after the disturbance, nobody has reported since), or some
worker *leads*: no registered worker has counted further, neither the row nor
what a transaction under way has read exceeds the number of its last report, and
its next report falls within an interval of the last one that counted. A report
of a leader therefore renews `last_seen_up`. That no fixed worker leads is what
makes the invariant an existential: a sibling that is level with the leader may
take over. `LiveIsUp` follows.

**ProcessLauncher.** `LauncherInv` adds to `ChildrenKnown` and `Killable` that a
signal is noted together with the removal of the handlers (`Noted`), that the
parent forks only while a worker is missing, and what it has noted at the head
of its loop and in a reload (`Steps`): without them a parent could reach `stop`
with handlers installed. Proved: `LauncherTypeCorrect`,
`ParentKnowsChildren`, and `StoppingIsKillable`: a parent in `stop` dies of the next
signal, and the timer sends it one exactly if `graceful_shutdown_timeout` is not
zero. `StaffInv` counts the workers: the
parent leaves its loops only with the full number, and goes on forking while one
is missing. It gives `WorkersKept` and, since the parent reloads for SIGHUP only,
the action property `TermIsFinal`: a SIGTERM that was noted is never replaced.
`OrphansOnlyLeave` is a variant: once the parent has ended, nobody is forked and
every step lowers one worker's distance from its end.

**Only model-checked.** Every invariant, action property and refinement that a
run checks is proved. Liveness under fairness is out of the prover's reach and
stays with TLC. For each of these properties a safety fact that progress rests on is
proved:

| Checked by TLC | Proved |
|---|---|
| `FinishUnlessLost` | `SettledGroupIsFinished` |
| `WaitEnds`, `CastRuns` | `ReplyReachesCaller`, `PublishedIsKept` |
| `DeliveryEnds` | `NothingStranded` |
| `CallsReturn` | `JoinersNotAbandoned` |
| `CloseEnds` | `CloseNotObstructed`, `WakeupsNotLost` |
| `SlotComesUp` | `WaitersWaitForOwners` |
| `ShutdownEnds` | `AcknowledgementsServed`, `OneTaskPerWaiter` |
| `Refilled` | `WorkersKept` |
| `TermEnds` | `TermIsFinal`, `StoppingIsKillable` |
| `OrphansEnd` | `OrphansOnlyLeave` |

## 5. Plan

Done, in the order of their importance: `PlanReport`, `RpcCall` with
`RpcContract`, `OrderedTasks`; then the parts of the messaging driver and of the
service framework that run beside them: `ListenerShutdown`, `ConnectionLock`,
`ConnectionPool`, `ServiceRegistry`, `ProcessLauncher`; the abstract
specifications `LifeCycle` and `DrainContract`; and the proofs of every safety
property and of the three refinements. Left: abstract specifications of the
lock, the pool and the registry, and variants like that of `OrphansOnlyLeave`
for the other liveness properties.

### Not modelled

Most of the repository is not the platform's own code. It is a copy of
OpenStack Nova and of the oslo libraries it needs, of which the platform reaches
a small part; all but a few of its lines are sequential: field definitions,
option declarations, argument checking, database queries, string formatting,
exception classes. Only what keeps state across calls, threads or processes and
is reached by the platform is modelled here, which is a small share of the
lines.

| Part | Why it is left out |
|---|---|
| Conductor manager | not in the repository; its dispatch is the environment of `PlanReport` |
| REST API of plans (`testplan.py`) and the rest of a plan's life cycle | a request is a fixed sequence of calls; the receiver of its hand-over is the conductor manager |
| Container operations of the docker plugin, build_server plugin | the state is in the docker daemon and on the build servers; a step's outcome is nondeterministic in `PlanReport` |
| Other operations of `TestPlan` and of the database layer, `enginefacade` | single transactions without interaction; sessions are opened and closed around them |
| `passratio` as a float | TLA+ has no floating point numbers; `int()` of the float product and integer division agree for fewer than 50 cases |
| Minimum version check, `forced_down`, memcached driver of the registry; `WSGIService` | all workers run the same code; the driver is not configured; `WSGIService.start` repeats `Service.start` |
| `ServiceLauncher`, thread groups, looping calls | one process without workers; lists of greenthreads that are stopped or awaited in turn |
| Fanout and notifications, other messaging drivers | no code in `nova` sends a fanout, the platform sends no notifications and is configured for rabbit |
| `oslo_privsep` | its set-up is commented out in `nova/cmd/compute.py:52` |
| `oslo_concurrency` locks | in nova only the cache of rootwrap clients takes one (`nova/utils.py:183`) |
| keystoneauth1, configuration, logging, serialisation, translation, middleware, quota, crypto and hooks of Nova | third-party or inherited code without protocol state of this system |
