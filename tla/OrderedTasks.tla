---------------------------- MODULE OrderedTasks ----------------------------
(***************************************************************************)
(* The life cycle of a MessageHandlingServer: start, stop and wait are     *)
(* @ordered methods that any thread may call at any time.  Each runs once  *)
(* per epoch, stop after start and wait after stop; start opens a new      *)
(* epoch when stop of the current one is complete.  A thread waits and     *)
(* runs in the epoch that was current when it called.                      *)
(***************************************************************************)
EXTENDS Integers, FiniteSets

CONSTANTS
    Thread,     \* the threads that call methods of the server
    MaxCalls,   \* bound: calls per thread
    MaxEpochs,  \* bound: task states created by reset_states
    MayFail,    \* can the transport refuse the listener?
    MayTimeout  \* do callers pass timeout=?

ASSUME TasksAssumption ==
    /\ IsFiniteSet(Thread)
    /\ MaxCalls \in Nat
    /\ MaxEpochs \in Nat \ {0}
    /\ MayFail \in BOOLEAN /\ MayTimeout \in BOOLEAN

VARIABLES
    epoch,      \* the number of the dictionary self._states
    st,         \* Epoch -> Task -> _OrderedTask._state
    pc,         \* Thread -> where in the wrapper it is
    task,       \* Thread -> the method it calls
    mine,       \* Thread -> the epoch of its local variable states
    ret,        \* Thread -> how its last call ended
    calls,      \* Thread -> calls made
    listener,   \* self.listener: "none", "started", "stopped", "closed"
    executor,   \* self._work_executor: "none", "open", "shutdown"
    runs        \* history: Epoch -> Task -> how often its body was entered

vars == <<epoch, st, pc, task, mine, ret, calls, listener, executor, runs>>
serverVars == <<listener, executor>>

-----------------------------------------------------------------------------
Task == {"start", "stop", "wait"}
Epoch == 1 .. MaxEpochs

(* after= and reset_after= of the decorators. *)
HasAfter(t) == t # "start"
After(t) == IF t = "wait" THEN "stop" ELSE "start"
ResetsAfterStop(t) == t = "start"

Fresh == [t \in Task |-> "INIT"]

Init ==
    /\ epoch = 1
    /\ st = [e \in Epoch |-> Fresh]
    /\ pc = [th \in Thread |-> "idle"]
    /\ task = [th \in Thread |-> "start"]
    /\ mine = [th \in Thread |-> 1]
    /\ ret = [th \in Thread |-> "none"]
    /\ calls = [th \in Thread |-> 0]
    /\ listener = "none" /\ executor = "none"
    /\ runs = [e \in Epoch |-> [t \in Task |-> 0]]

Goto(th, l) == pc' = [pc EXCEPT ![th] = l]
Return(th, r) == Goto(th, "idle") /\ ret' = [ret EXCEPT ![th] = r]

(* A thread calls one of the methods. *)
Call(th, t) ==
    /\ pc[th] = "idle" /\ calls[th] < MaxCalls
    /\ Goto(th, "reset")
    /\ task' = [task EXCEPT ![th] = t]
    /\ ret' = [ret EXCEPT ![th] = "none"]
    /\ calls' = [calls EXCEPT ![th] = @ + 1]
    /\ UNCHANGED <<epoch, st, mine, serverVars, runs>>

(* Under the reset lock: a complete stop lets start begin a new epoch. *)
Reset(th) ==
    /\ pc[th] = "reset"
    /\ IF ResetsAfterStop(task[th]) /\ st[epoch]["stop"] = "COMPLETE"
       THEN epoch < MaxEpochs /\ epoch' = epoch + 1
       ELSE epoch' = epoch
    /\ Goto(th, "capture")
    /\ UNCHANGED <<st, task, mine, ret, calls, serverVars, runs>>

(* states = self._states, after the lock was released. *)
Capture(th) ==
    /\ pc[th] = "capture"
    /\ mine' = [mine EXCEPT ![th] = epoch]
    /\ Goto(th, "after")
    /\ UNCHANGED <<epoch, st, task, ret, calls, serverVars, runs>>

(* Fault: running is taken for complete. *)
WaitAfterStarted(th) ==
    /\ pc[th] = "after"
    /\ HasAfter(task[th]) => st[mine[th]][After(task[th])] # "INIT"
    /\ Goto(th, "run")
    /\ UNCHANGED <<epoch, st, task, mine, ret, calls, serverVars, runs>>

(* wait_for_completion of the preceding task. *)
WaitAfter(th) ==
    /\ pc[th] = "after"
    /\ HasAfter(task[th]) => st[mine[th]][After(task[th])] = "COMPLETE"
    /\ Goto(th, "run")
    /\ UNCHANGED <<epoch, st, task, mine, ret, calls, serverVars, runs>>

(* The timer expires while _wait's condition still holds: TaskTimeout. *)
Timeout(th) ==
    /\ MayTimeout
    /\ \/ pc[th] = "after" /\ HasAfter(task[th])
          /\ st[mine[th]][After(task[th])] # "COMPLETE"
       \/ pc[th] = "join" /\ st[mine[th]][task[th]] = "RUNNING"
    /\ Return(th, "timeout")
    /\ UNCHANGED <<epoch, st, task, mine, calls, serverVars, runs>>

(* run_once finds INIT and enters the body; start creates the executor. *)
RunOnce(th) ==
    /\ pc[th] = "run" /\ st[mine[th]][task[th]] = "INIT"
    /\ st' = [st EXCEPT ![mine[th]][task[th]] = "RUNNING"]
    /\ runs' = [runs EXCEPT ![mine[th]][task[th]] = @ + 1]
    /\ executor' = IF task[th] = "start" THEN "open" ELSE executor
    /\ Goto(th, "body")
    /\ UNCHANGED <<epoch, task, mine, ret, calls, listener>>

(* Fault: a caller that finds the task running does not wait for it. *)
RunOnceNoJoin(th) ==
    /\ pc[th] = "run" /\ st[mine[th]][task[th]] = "RUNNING"
    /\ Return(th, "ok")
    /\ UNCHANGED <<epoch, st, task, mine, calls, serverVars, runs>>

(* run_once finds the task running in another thread. *)
RunOnceJoins(th) ==
    /\ pc[th] = "run" /\ st[mine[th]][task[th]] = "RUNNING"
    /\ Goto(th, "join")
    /\ UNCHANGED <<epoch, st, task, mine, ret, calls, serverVars, runs>>

(* run_once finds it complete, at once or after waiting: nothing to do. *)
RunOnceDone(th) ==
    /\ pc[th] \in {"run", "join"} /\ st[mine[th]][task[th]] = "COMPLETE"
    /\ Return(th, "ok")
    /\ UNCHANGED <<epoch, st, task, mine, calls, serverVars, runs>>

(* The finally clause of run_once. *)
Complete(th) == st' = [st EXCEPT ![mine[th]][task[th]] = "COMPLETE"]

(* start creates the listener and starts it. *)
StartBody(th) ==
    /\ pc[th] = "body" /\ task[th] = "start"
    /\ listener' = "started" /\ Complete(th) /\ Return(th, "ok")
    /\ UNCHANGED <<epoch, task, mine, calls, executor, runs>>

(* Fault: a start that raises leaves the task RUNNING. *)
StartFailsStuck(th) ==
    /\ pc[th] = "body" /\ task[th] = "start" /\ MayFail
    /\ Return(th, "raised")
    /\ UNCHANGED <<epoch, st, task, mine, calls, serverVars, runs>>

(* The listener cannot be created: ServerListenError, yet COMPLETE. *)
StartFails(th) ==
    /\ pc[th] = "body" /\ task[th] = "start" /\ MayFail
    /\ Complete(th) /\ Return(th, "raised")
    /\ UNCHANGED <<epoch, task, mine, calls, serverVars, runs>>

(* stop stops the listener.  Without one it raises AttributeError, and one *)
(* that was stopped before refuses to start its background thread again.   *)
StopBody(th) ==
    /\ pc[th] = "body" /\ task[th] = "stop"
    /\ Complete(th)
    /\ IF listener = "started"
       THEN listener' = "stopped" /\ Return(th, "ok")
       ELSE listener' = listener /\ Return(th, "raised")
    /\ UNCHANGED <<epoch, task, mine, calls, executor, runs>>

(* wait shuts the executor down, which blocks until its work is done ...   *)
WaitShutdown(th) ==
    /\ pc[th] = "body" /\ task[th] = "wait"
    /\ executor' = "shutdown"
    /\ Goto(th, "cleanup")
    /\ UNCHANGED <<epoch, st, task, mine, ret, calls, listener, runs>>

(* ... and then closes the connection of the listener there is by now.     *)
WaitCleanup(th) ==
    /\ pc[th] = "cleanup"
    /\ Complete(th)
    /\ IF listener = "none"
       THEN listener' = listener /\ Return(th, "raised")
       ELSE listener' = "closed" /\ Return(th, "ok")
    /\ UNCHANGED <<epoch, task, mine, calls, executor, runs>>

Body(th) ==
    \/ StartBody(th) \/ StartFails(th) \/ StopBody(th)
    \/ WaitShutdown(th) \/ WaitCleanup(th)

Advance(th) ==
    \/ Reset(th) \/ Capture(th) \/ WaitAfter(th)
    \/ RunOnce(th) \/ RunOnceJoins(th) \/ RunOnceDone(th) \/ Body(th)

Step(th) == Advance(th) \/ Timeout(th)

Next == \E th \in Thread : Step(th) \/ \E t \in Task : Call(th, t)

Spec == Init /\ [][Next]_vars

(* Every thread inside a method keeps running; calling one is its choice,  *)
(* and no timer has to run out.                                            *)
FairSpec == Spec /\ \A th \in Thread : WF_vars(Advance(th))

-----------------------------------------------------------------------------
(* Every variable has its type, and a task runs its body once per epoch. *)
TypeOK ==
    /\ epoch \in Epoch
    /\ st \in [Epoch -> [Task -> {"INIT", "RUNNING", "COMPLETE"}]]
    /\ pc \in [Thread -> {"idle", "reset", "capture", "after", "run", "join", "body", "cleanup"}]
    /\ task \in [Thread -> Task]
    /\ mine \in [Thread -> Epoch]
    /\ ret \in [Thread -> {"none", "ok", "raised", "timeout"}]
    /\ calls \in [Thread -> 0 .. MaxCalls]
    /\ listener \in {"none", "started", "stopped", "closed"}
    /\ executor \in {"none", "open", "shutdown"}
    /\ runs \in [Epoch -> [Task -> 0 .. 1]]

InBody(th) == pc[th] \in {"body", "cleanup"}

(* The bodies of one epoch exclude each other: however the calls of start, *)
(* stop and wait overlap, their effects on the server do not.              *)
BodiesExclude ==
    \A a, b \in Thread :
        InBody(a) /\ InBody(b) /\ mine[a] = mine[b] => a = b

(* What stop and wait undo was completed in their own epoch before. *)
Ordered ==
    \A e \in Epoch, t \in Task :
        runs[e][t] > 0 /\ HasAfter(t) => st[e][After(t)] = "COMPLETE"

(* A caller that returns can be sure that the task has completed, also     *)
(* when another thread ran it.                                             *)
ReturnMeansComplete ==
    \A th \in Thread : ret[th] = "ok" => st[mine[th]][task[th]] = "COMPLETE"

(* As long as nobody restarts the server, it never receives messages with  *)
(* an executor that is shut down.                                          *)
ListensWithExecutor == epoch = 1 /\ listener = "started" => executor = "open"

(* A thread whose preceding task is complete gets through, also when the   *)
(* task it waited for or joined raised.                                    *)
CallsReturn ==
    \A th \in Thread :
        pc[th] = "after" /\ (HasAfter(task[th]) => st[mine[th]][After(task[th])] = "COMPLETE")
            ~> pc[th] = "idle"

(* What the other invariants rest on: a body marks its task as running,    *)
(* and a thread past the wait has its preceding task behind it.            *)
BodyInv ==
    /\ \A th \in Thread : InBody(th) => st[mine[th]][task[th]] = "RUNNING"
    /\ \A a, b \in Thread :
          InBody(a) /\ InBody(b) /\ mine[a] = mine[b] /\ task[a] = task[b] => a = b
    /\ \A th \in Thread : pc[th] \in {"run", "join", "body", "cleanup"} /\ HasAfter(task[th])
          => st[mine[th]][After(task[th])] = "COMPLETE"
    /\ \A th \in Thread : pc[th] # "idle" => ret[th] = "none"
    /\ \A e \in Epoch, t \in Task : runs[e][t] = IF st[e][t] = "INIT" THEN 0 ELSE 1

TasksInv == TypeOK /\ BodyInv /\ Ordered /\ BodiesExclude /\ ReturnMeansComplete

(* The stage of an epoch is that of the last of its tasks to begin. *)
StageName(start, stop, wait) ==
    IF wait # "INIT" THEN IF wait = "COMPLETE" THEN "ended" ELSE "waiting"
    ELSE IF stop # "INIT" THEN IF stop = "COMPLETE" THEN "stopped" ELSE "stopping"
    ELSE IF start # "INIT" THEN IF start = "COMPLETE" THEN "started" ELSE "starting"
    ELSE "new"

StageOf(e) == StageName(st[e]["start"], st[e]["stop"], st[e]["wait"])

StageMap == [e \in Epoch |-> StageOf(e)]

Life == INSTANCE LifeCycle WITH current <- epoch, stage <- StageMap

(* However the calls of start, stop and wait overlap, time out and fail,   *)
(* they take every epoch of the server through one life.                   *)
ImplementsLifeCycle == Life!LifeSpec

(* The wrapper says that run_once does nothing when the epoch ended while  *)
(* the caller was sleeping. The code does not keep it (README, section 3). *)
StaleEpochDoesNothing ==
    [][\A th \in Thread : pc[th] = "run" /\ pc'[th] = "body" => mine[th] = epoch]_vars
=============================================================================
