------------------------- MODULE OrderedTasksProofs -------------------------
(* Proofs about OrderedTasks, for any number of threads, calls and epochs. *)
EXTENDS OrderedTasks, TLAPS

(* stop and wait have a preceding task, and it is another one. *)
LEMMA AfterFacts ==
    /\ \A t \in Task : After(t) \in Task
    /\ \A t \in Task : HasAfter(t) => After(t) # t
    /\ HasAfter("stop") /\ After("stop") = "start"
    /\ HasAfter("wait") /\ After("wait") = "stop" /\ ~HasAfter("start")
    BY DEF After, HasAfter, Task

(* Within an epoch the order of the tasks keeps their bodies apart. *)
LEMMA OrderExcludes == TypeOK /\ BodyInv /\ Ordered => BodiesExclude
<1> SUFFICES ASSUME TypeOK, BodyInv, Ordered, NEW a \in Thread, NEW b \in Thread,
                    InBody(a), InBody(b), mine[a] = mine[b], task[a] # task[b]
             PROVE  FALSE
    BY DEF BodiesExclude, InBody, BodyInv, InBody
<1>0. mine[a] \in Epoch /\ task[a] \in Task /\ task[b] \in Task
    BY DEF TypeOK
<1>1. st[mine[a]][task[a]] = "RUNNING" /\ st[mine[a]][task[b]] = "RUNNING"
    BY DEF BodyInv, InBody
<1>2. \A t \in {task[a], task[b]} : HasAfter(t) => st[mine[a]][After(t)] = "COMPLETE"
    BY DEF BodyInv, InBody
<1>3. st[mine[a]]["stop"] = "COMPLETE" => st[mine[a]]["start"] = "COMPLETE"
    <2>1. "stop" \in Task BY DEF Task
    <2>2. st[mine[a]]["stop"] = "COMPLETE" => runs[mine[a]]["stop"] = 1
        BY <1>0, <2>1 DEF BodyInv, InBody
    <2> QED BY <1>0, <2>1, <2>2, AfterFacts DEF Ordered
<1> QED BY <1>0, <1>1, <1>2, <1>3, AfterFacts DEF Task

(* The same after a step. *)
LEMMA OrderExcludesNext == TypeOK' /\ BodyInv' /\ Ordered' => BodiesExclude'
    BY OrderExcludes, PTL

(* The step that marks a task as complete, by the thread in its body. *)
LEMMA CompleteKeeps ==
    ASSUME TasksInv, NEW th \in Thread, InBody(th), Complete(th),
           NEW r \in {"ok", "raised"}, Return(th, r),
           UNCHANGED <<epoch, task, mine, calls, runs>>,
           listener' \in {"none", "started", "stopped", "closed"},
           executor' \in {"none", "open", "shutdown"}
    PROVE  TasksInv'
<1>0. TypeOK /\ BodyInv /\ Ordered /\ BodiesExclude /\ ReturnMeansComplete
    BY DEF TasksInv
<1>1. mine[th] \in Epoch /\ task[th] \in Task
    BY <1>0 DEF TypeOK
<1>2. TypeOK'
    BY <1>0, <1>1 DEF TypeOK, Complete, Return, Goto
<1>3. \A e \in Epoch, t \in Task :
        st'[e][t] = IF e = mine[th] /\ t = task[th] THEN "COMPLETE" ELSE st[e][t]
    BY <1>0, <1>1 DEF TypeOK, Complete
<1>4. \A x \in Thread : x # th => pc'[x] = pc[x] /\ ret'[x] = ret[x]
    BY <1>0 DEF TypeOK, Return, Goto
<1>5. pc'[th] = "idle" /\ ret'[th] = r
    BY <1>0 DEF TypeOK, Return, Goto
<1>6. \A x \in Thread : mine[x] \in Epoch /\ task[x] \in Task
    BY <1>0 DEF TypeOK
<1>7. BodyInv'
    <2>1. \A x \in Thread : InBody(x)' => st'[mine[x]][task[x]] = "RUNNING"
        BY <1>0, <1>3, <1>4, <1>5, <1>6 DEF BodyInv, InBody
    <2>2. \A x \in Thread : pc'[x] \in {"run", "join", "body", "cleanup"} /\ HasAfter(task[x])
            => st'[mine[x]][After(task[x])] = "COMPLETE"
        BY <1>0, <1>3, <1>4, <1>5, <1>6, AfterFacts DEF BodyInv, InBody
    <2>3. \A e \in Epoch, t \in Task : runs[e][t] = IF st'[e][t] = "INIT" THEN 0 ELSE 1
        <3>1. runs[mine[th]][task[th]] = 1 BY <1>0, <1>1 DEF BodyInv, InBody
        <3> QED BY <1>0, <1>3, <3>1 DEF BodyInv, InBody
    <2>4. /\ \A a, b \in Thread : InBody(a)' /\ InBody(b)' /\ mine[a] = mine[b]
                /\ task[a] = task[b] => a = b
          /\ \A x \in Thread : pc'[x] # "idle" => ret'[x] = "none"
        BY <1>0, <1>4, <1>5 DEF BodyInv, InBody
    <2> QED BY <2>1, <2>2, <2>3, <2>4 DEF BodyInv, InBody
<1>8. Ordered'
    BY <1>0, <1>3, AfterFacts DEF Ordered
<1>9. ReturnMeansComplete'
    BY <1>0, <1>3, <1>4, <1>5, <1>6 DEF ReturnMeansComplete
<1>10. BodiesExclude'
    BY <1>0, <1>4, <1>5 DEF BodiesExclude, InBody
<1> QED BY <1>2, <1>7, <1>8, <1>9, <1>10 DEF TasksInv

(* A step that moves one thread on and leaves the tasks alone. *)
LEMMA MoveKeeps ==
    ASSUME TasksInv, NEW th \in Thread,
           NEW l \in {"idle", "reset", "capture", "after", "run", "join"},
           NEW r \in {"none", "ok", "raised", "timeout"},
           pc' = [pc EXCEPT ![th] = l], ret' = [ret EXCEPT ![th] = r],
           TypeOK', UNCHANGED <<st, runs>>,
           \A x \in Thread : x # th => task'[x] = task[x] /\ mine'[x] = mine[x],
           l # "idle" => r = "none",
           l \in {"run", "join"} /\ HasAfter(task'[th]) => st[mine'[th]][After(task'[th])] = "COMPLETE",
           r = "ok" => st[mine'[th]][task'[th]] = "COMPLETE"
    PROVE  TasksInv'
<1>0. TypeOK /\ BodyInv /\ Ordered /\ ReturnMeansComplete
    BY DEF TasksInv
<1>1. \A x \in Thread : x # th => pc'[x] = pc[x] /\ ret'[x] = ret[x]
    BY <1>0 DEF TypeOK
<1>2. pc'[th] = l /\ ret'[th] = r /\ l \notin {"body", "cleanup"}
    BY <1>0 DEF TypeOK
<1>3. BodyInv'
    BY <1>0, <1>1, <1>2 DEF BodyInv, InBody
<1>4. Ordered' /\ ReturnMeansComplete'
    BY <1>0, <1>1, <1>2 DEF Ordered, ReturnMeansComplete
<1>5. BodiesExclude'
    BY <1>1, <1>2 DEF BodiesExclude, InBody, TasksInv
<1> QED BY <1>3, <1>4, <1>5 DEF TasksInv

(* Entering a body: the task was in its initial state, so nobody is in it  *)
(* and it never ran in this epoch.                                         *)
LEMMA RunOnceKeeps ==
    ASSUME TasksInv, NEW th \in Thread, RunOnce(th) PROVE TasksInv'
<1>0. TypeOK /\ BodyInv /\ Ordered /\ ReturnMeansComplete
    BY DEF TasksInv
<1>1. mine[th] \in Epoch /\ task[th] \in Task
    BY <1>0 DEF TypeOK
<1>2. st[mine[th]][task[th]] = "INIT" /\ pc[th] = "run"
    BY DEF RunOnce
<1>3. runs[mine[th]][task[th]] = 0
    BY <1>0, <1>1, <1>2 DEF BodyInv, InBody
<1>4. /\ \A e \in Epoch, t \in Task :
           st'[e][t] = IF e = mine[th] /\ t = task[th] THEN "RUNNING" ELSE st[e][t]
      /\ \A e \in Epoch, t \in Task :
           runs'[e][t] = IF e = mine[th] /\ t = task[th] THEN 1 ELSE runs[e][t]
    BY <1>0, <1>1, <1>3 DEF TypeOK, RunOnce
<1>5. /\ \A x \in Thread : x # th => pc'[x] = pc[x]
      /\ pc'[th] = "body"
      /\ task' = task /\ mine' = mine /\ ret' = ret
    BY <1>0 DEF TypeOK, RunOnce, Goto
<1>6. TypeOK'
    <2>1. runs' \in [Epoch -> [Task -> 0 .. 1]]
        BY <1>0, <1>1, <1>3 DEF TypeOK, RunOnce
    <2> QED BY <1>0, <1>1, <2>1 DEF TypeOK, RunOnce, Goto
<1>7. \A x \in Thread : mine[x] \in Epoch /\ task[x] \in Task
    BY <1>0 DEF TypeOK
<1>8. BodyInv'
    <2>1. \A x \in Thread : InBody(x)' => st'[mine[x]][task[x]] = "RUNNING"
        BY <1>0, <1>4, <1>5, <1>7 DEF BodyInv, InBody
    <2>2. \A a, b \in Thread : InBody(a)' /\ InBody(b)' /\ mine[a] = mine[b]
                /\ task[a] = task[b] => a = b
        BY <1>0, <1>2, <1>5 DEF BodyInv, InBody
    <2>3. \A x \in Thread : pc'[x] \in {"run", "join", "body", "cleanup"} /\ HasAfter(task[x])
            => st'[mine[x]][After(task[x])] = "COMPLETE"
        <3>1. \A x \in Thread : pc'[x] \in {"run", "join", "body", "cleanup"}
                => pc[x] \in {"run", "join", "body", "cleanup"}
            BY <1>2, <1>5
        <3> QED BY <1>0, <1>2, <1>4, <1>7, <3>1, AfterFacts DEF BodyInv, InBody
    <2>4. \A x \in Thread : pc'[x] # "idle" => ret'[x] = "none"
        BY <1>0, <1>2, <1>5 DEF BodyInv, InBody
    <2>5. \A e \in Epoch, t \in Task : runs'[e][t] = IF st'[e][t] = "INIT" THEN 0 ELSE 1
        BY <1>0, <1>4 DEF BodyInv, InBody
    <2> QED BY <1>5, <2>1, <2>2, <2>3, <2>4, <2>5 DEF BodyInv, InBody
<1>9. Ordered'
    <2>1. HasAfter(task[th]) => st[mine[th]][After(task[th])] = "COMPLETE"
        BY <1>0, <1>2 DEF BodyInv, InBody
    <2>2. SUFFICES ASSUME NEW e \in Epoch, NEW t \in Task, runs'[e][t] > 0, HasAfter(t)
                   PROVE  st'[e][After(t)] = "COMPLETE"
        BY DEF Ordered
    <2>3. st[e][After(t)] = "COMPLETE"
        BY <1>0, <1>4, <2>1, <2>2 DEF Ordered
    <2> QED BY <1>2, <1>4, <2>3, AfterFacts
<1>10. ReturnMeansComplete'
    BY <1>0, <1>2, <1>4, <1>5, <1>7 DEF ReturnMeansComplete
<1>11. BodiesExclude'
    BY <1>6, <1>8, <1>9, OrderExcludesNext
<1> QED BY <1>6, <1>8, <1>9, <1>10, <1>11 DEF TasksInv

(* Inside the body of wait, between the executor and the listener. *)
LEMMA ShutdownKeeps ==
    ASSUME TasksInv, NEW th \in Thread, WaitShutdown(th) PROVE TasksInv'
<1>0. TypeOK /\ BodyInv /\ Ordered /\ BodiesExclude /\ ReturnMeansComplete
    BY DEF TasksInv
<1>1. TypeOK'
    BY <1>0 DEF TypeOK, WaitShutdown, Goto
<1>2. /\ \A x \in Thread : x # th => pc'[x] = pc[x]
      /\ pc[th] = "body" /\ pc'[th] = "cleanup"
      /\ UNCHANGED <<st, task, mine, ret, runs>>
    BY <1>0 DEF TypeOK, WaitShutdown, Goto
<1>3. \A x \in Thread : InBody(x)' <=> InBody(x)
    BY <1>2 DEF InBody
<1>4. BodyInv'
    BY <1>0, <1>2, <1>3 DEF BodyInv
<1>5. Ordered' /\ BodiesExclude' /\ ReturnMeansComplete'
    BY <1>0, <1>2, <1>3 DEF Ordered, BodiesExclude, ReturnMeansComplete
<1> QED BY <1>1, <1>4, <1>5 DEF TasksInv

(* Every step of a thread inside the wrapper, one per action. *)
LEMMA StepKeeps ==
    ASSUME TasksInv, NEW th \in Thread, Step(th) PROVE TasksInv'
<1>0. TypeOK /\ BodyInv /\ ret \in [Thread -> {"none", "ok", "raised", "timeout"}]
    BY DEF TasksInv, TypeOK
<1>1. mine[th] \in Epoch /\ task[th] \in Task /\ epoch \in Epoch
    BY <1>0 DEF TypeOK
<1>2. pc[th] # "idle" => ret[th] = "none"
    BY <1>0 DEF BodyInv, InBody
<1>3. pc[th] # "idle" => ret = [ret EXCEPT ![th] = "none"]
    BY <1>0, <1>2
<1>4. CASE Reset(th)
    <2>1. epoch' \in Epoch
        BY <1>1, <1>4, TasksAssumption DEF Reset, Epoch
    <2>2. TypeOK'
        BY <1>0, <1>4, <2>1 DEF TypeOK, Reset, Goto, serverVars
    <2> QED BY <1>3, <1>4, <2>2, MoveKeeps DEF Reset, Goto
<1>5. CASE Capture(th)
    <2>1. TypeOK'
        BY <1>0, <1>1, <1>5 DEF TypeOK, Capture, Goto, serverVars
    <2>2. \A x \in Thread : x # th => mine'[x] = mine[x]
        BY <1>0, <1>5 DEF TypeOK, Capture
    <2> QED BY <1>3, <1>5, <2>1, <2>2, MoveKeeps DEF Capture, Goto
<1>6. CASE WaitAfter(th)
    <2>1. TypeOK'
        BY <1>0, <1>6 DEF TypeOK, WaitAfter, Goto, serverVars
    <2> QED BY <1>3, <1>6, <2>1, MoveKeeps DEF WaitAfter, Goto
<1>7. CASE Timeout(th)
    <2>1. TypeOK'
        BY <1>0, <1>7 DEF TypeOK, Timeout, Return, Goto, serverVars
    <2> QED BY <1>7, <2>1, MoveKeeps DEF Timeout, Return, Goto
<1>8. CASE RunOnce(th)
    BY <1>8, RunOnceKeeps
<1>9. CASE RunOnceJoins(th)
    <2>1. TypeOK'
        BY <1>0, <1>9 DEF TypeOK, RunOnceJoins, Goto, serverVars
    <2>2. HasAfter(task[th]) => st[mine[th]][After(task[th])] = "COMPLETE"
        BY <1>0, <1>9 DEF BodyInv, InBody, RunOnceJoins
    <2> QED BY <1>3, <1>9, <2>1, <2>2, MoveKeeps DEF RunOnceJoins, Goto
<1>10. CASE RunOnceDone(th)
    <2>1. TypeOK'
        BY <1>0, <1>10 DEF TypeOK, RunOnceDone, Return, Goto, serverVars
    <2> QED BY <1>10, <2>1, MoveKeeps DEF RunOnceDone, Return, Goto
<1>11. CASE StartBody(th)
    BY <1>0, <1>11, CompleteKeeps DEF StartBody, TypeOK, InBody
<1>12. CASE StartFails(th)
    BY <1>0, <1>12, CompleteKeeps DEF StartFails, TypeOK, InBody, serverVars
<1>13. CASE StopBody(th)
    BY <1>0, <1>13, CompleteKeeps DEF StopBody, TypeOK, InBody
<1>14. CASE WaitShutdown(th)
    BY <1>14, ShutdownKeeps
<1>15. CASE WaitCleanup(th)
    BY <1>0, <1>15, CompleteKeeps DEF WaitCleanup, TypeOK, InBody
<1> QED
    BY <1>4, <1>5, <1>6, <1>7, <1>8, <1>9, <1>10, <1>11, <1>12, <1>13, <1>14, <1>15 DEF Step, Advance, Body

(* A call begins outside every task. *)
LEMMA CallKeeps ==
    ASSUME TasksInv, NEW th \in Thread, NEW t \in Task, Call(th, t) PROVE TasksInv'
<1>0. TypeOK
    BY DEF TasksInv
<1>1. calls' \in [Thread -> 0 .. MaxCalls]
    BY <1>0, TasksAssumption DEF TypeOK, Call
<1>2. TypeOK'
    BY <1>0, <1>1 DEF TypeOK, Call, Goto, serverVars
<1>3. \A x \in Thread : x # th => task'[x] = task[x]
    BY <1>0 DEF TypeOK, Call
<1> QED BY <1>2, <1>3, MoveKeeps DEF Call, Goto

(* The bodies of start, stop and wait run at most once per epoch, one      *)
(* after another and in their order, whatever the threads call and whoever *)
(* waits, times out or fails.                                              *)
THEOREM TasksInvariant == Spec => []TasksInv
<1>1. Init => TasksInv
    <2> SUFFICES ASSUME Init PROVE TasksInv
        OBVIOUS
    <2>1. 1 \in Epoch /\ "start" \in Task
        BY TasksAssumption DEF Epoch, Task
    <2>2. \A e \in Epoch, t \in Task : st[e][t] = "INIT" /\ runs[e][t] = 0
        BY DEF Init, Fresh
    <2>3. TypeOK
        BY <2>1, TasksAssumption DEF Init, TypeOK, Fresh
    <2>4. \A th \in Thread : pc[th] = "idle" /\ ret[th] = "none"
        BY DEF Init
    <2>5. BodyInv /\ BodiesExclude /\ ReturnMeansComplete
        BY <2>2, <2>4 DEF BodyInv, InBody, BodiesExclude, InBody, ReturnMeansComplete
    <2>6. Ordered
        BY <2>2 DEF Ordered
    <2> QED BY <2>3, <2>5, <2>6 DEF TasksInv
<1>2. TasksInv /\ [Next]_vars => TasksInv'
    <2> SUFFICES ASSUME TasksInv, [Next]_vars PROVE TasksInv'
        OBVIOUS
    <2>1. CASE Next
        BY <2>1, StepKeeps, CallKeeps DEF Next
    <2>2. CASE UNCHANGED vars
        BY <2>2 DEF vars, TasksInv, TypeOK, BodyInv, InBody, Ordered, BodiesExclude, InBody, ReturnMeansComplete
    <2> QED BY <2>1, <2>2
<1> QED BY <1>1, <1>2, PTL DEF Spec

(* However the calls of several threads overlap, no two bodies of one      *)
(* epoch change the listener or the executor at the same time.             *)
THEOREM BodiesNeverOverlap == Spec => []BodiesExclude
    BY TasksInvariant, PTL DEF TasksInv

(* stop and wait run only when start or stop of the same epoch is behind   *)
(* them, also for a thread that slept through a restart.                   *)
THEOREM TasksInOrder == Spec => []Ordered
    BY TasksInvariant, PTL DEF TasksInv

(* A call that returns normally means that the task has completed, as the  *)
(* docstring of _OrderedTask says.                                         *)
THEOREM ReturnIsCompletion == Spec => []ReturnMeansComplete
    BY TasksInvariant, PTL DEF TasksInv

(* Every variable keeps its type, and each body runs once per epoch. *)
THEOREM TasksTypeCorrect == Spec => []TypeOK
    BY TasksInvariant, PTL DEF TasksInv

-----------------------------------------------------------------------------
(* In the first epoch every thread works in it; the executor is open from  *)
(* the body of start until stop is complete, and a complete stop has left  *)
(* no started listener.                                                    *)
ExecutorInv ==
    epoch = 1 =>
        /\ \A th \in Thread : mine[th] = 1
        /\ st[1]["start"] # "INIT" /\ st[1]["stop"] # "COMPLETE" => executor = "open"
        /\ st[1]["stop"] = "COMPLETE" => listener # "started"
        /\ listener = "started" => st[1]["start"] = "COMPLETE"

LEMMA ExecutorStep == TasksInv /\ ExecutorInv /\ [Next]_vars => ExecutorInv'
<1> SUFFICES ASSUME TasksInv, ExecutorInv, [Next]_vars, epoch' = 1 PROVE ExecutorInv'
    BY DEF ExecutorInv
<1>0. TypeOK /\ BodyInv /\ Ordered
    BY DEF TasksInv
<1>1. epoch \in Nat /\ epoch >= 1 /\ 1 \in Epoch /\ "start" \in Task /\ "stop" \in Task /\ "wait" \in Task
    BY <1>0, TasksAssumption DEF TypeOK, Epoch, Task
<1>2. epoch = 1
    <2>1. ASSUME NEW th \in Thread, Reset(th) PROVE epoch' = epoch \/ epoch' = epoch + 1
        BY <2>1 DEF Reset
    <2>2. ASSUME NEW th \in Thread, NEW t \in Task, Call(th, t) PROVE epoch' = epoch
        BY <2>2 DEF Call
    <2>3. ASSUME NEW th \in Thread, Step(th) PROVE Reset(th) \/ epoch' = epoch
        BY <2>3 DEF Step, Advance, Body, Capture, WaitAfter, Timeout, RunOnce, RunOnceJoins,
            RunOnceDone, StartBody, StartFails, StopBody, WaitShutdown, WaitCleanup
    <2>4. epoch' = epoch \/ epoch' = epoch + 1
        BY <2>1, <2>2, <2>3 DEF Next, vars
    <2> QED BY <1>1, <2>4
<1>3. /\ \A th \in Thread : mine[th] = 1
      /\ st[1]["start"] # "INIT" /\ st[1]["stop"] # "COMPLETE" => executor = "open"
      /\ st[1]["stop"] = "COMPLETE" => listener # "started"
      /\ listener = "started" => st[1]["start"] = "COMPLETE"
    BY <1>2 DEF ExecutorInv
<1>4. st[1]["stop"] = "COMPLETE" => st[1]["start"] = "COMPLETE"
    <2>1. st[1]["stop"] = "COMPLETE" => runs[1]["stop"] = 1
        BY <1>0, <1>1 DEF BodyInv
    <2> QED BY <1>0, <1>1, <2>1, AfterFacts DEF Ordered
<1>5. CASE UNCHANGED <<st, listener, executor>>
            /\ (mine' = mine \/ \E th \in Thread : Capture(th))
    <2>1. \A th \in Thread : mine'[th] = 1
        BY <1>0, <1>2, <1>3, <1>5 DEF Capture, TypeOK
    <2> QED BY <1>3, <1>5, <2>1 DEF ExecutorInv
<1>6. ASSUME NEW th \in Thread, Complete(th), mine[th] = 1, UNCHANGED mine,
             task[th] # "stop" => listener' \in {listener, "closed"} \/ task[th] = "start",
             task[th] = "stop" => listener' # "started",
             UNCHANGED executor, InBody(th)
      PROVE  ExecutorInv'
    <2>1. \A t \in Task : st'[1][t] = IF t = task[th] THEN "COMPLETE" ELSE st[1][t]
        BY <1>0, <1>1, <1>6 DEF Complete, TypeOK
    <2>2. st[1][task[th]] = "RUNNING"
        BY <1>0, <1>6 DEF BodyInv
    <2>3. task[th] \in {"stop", "wait"} => st[1]["start"] = "COMPLETE"
        BY <1>0, <1>4, <1>6, AfterFacts DEF BodyInv, InBody
    <2>4. CASE task[th] = "start"
        BY <1>1, <1>3, <1>4, <1>6, <2>1, <2>2, <2>4 DEF ExecutorInv
    <2>5. CASE task[th] = "stop"
        BY <1>1, <1>3, <1>6, <2>1, <2>2, <2>3, <2>5 DEF ExecutorInv
    <2>6. CASE task[th] = "wait"
        BY <1>1, <1>3, <1>6, <2>1, <2>2, <2>3, <2>6 DEF ExecutorInv
    <2> QED BY <1>0, <2>4, <2>5, <2>6 DEF TypeOK, Task
<1>7. ASSUME NEW th \in Thread, RunOnce(th) PROVE ExecutorInv'
    <2>1. \A t \in Task : st'[1][t] = IF t = task[th] THEN "RUNNING" ELSE st[1][t]
        BY <1>0, <1>1, <1>3, <1>7 DEF RunOnce, TypeOK
    <2>2. /\ st[1][task[th]] = "INIT"
          /\ executor' = IF task[th] = "start" THEN "open" ELSE executor
          /\ UNCHANGED <<mine, listener>>
        BY <1>3, <1>7 DEF RunOnce
    <2> QED BY <1>1, <1>3, <2>1, <2>2 DEF ExecutorInv
<1>8. ASSUME NEW th \in Thread, WaitShutdown(th) PROVE ExecutorInv'
    <2>1. st[1]["stop"] = "COMPLETE"
        BY <1>0, <1>3, <1>8, AfterFacts DEF WaitShutdown, BodyInv, InBody
    <2> QED BY <1>3, <1>8, <2>1 DEF WaitShutdown, ExecutorInv
<1>9. ASSUME NEW th \in Thread, StartBody(th) \/ StartFails(th) \/ StopBody(th) \/ WaitCleanup(th)
      PROVE  ExecutorInv'
    <2>1. InBody(th) /\ Complete(th) /\ mine[th] = 1 /\ UNCHANGED <<mine, executor>>
        BY <1>3, <1>9 DEF StartBody, StartFails, StopBody, WaitCleanup, InBody, serverVars
    <2>2. task[th] = "stop" => listener' # "started"
        BY <1>3, <1>9 DEF StartBody, StartFails, StopBody, WaitCleanup
    <2>3. task[th] # "stop" => listener' \in {listener, "closed"} \/ task[th] = "start"
        BY <1>9 DEF StartBody, StartFails, StopBody, WaitCleanup, serverVars
    <2> QED BY <1>6, <2>1, <2>2, <2>3
<1>10. ASSUME NEW th \in Thread,
              \/ Reset(th) \/ Capture(th) \/ WaitAfter(th) \/ Timeout(th)
              \/ RunOnceJoins(th) \/ RunOnceDone(th) \/ \E t \in Task : Call(th, t)
       PROVE  ExecutorInv'
    BY <1>5, <1>10 DEF Reset, Capture, WaitAfter, Timeout, RunOnceJoins, RunOnceDone, Call, serverVars
<1> QED BY <1>5, <1>7, <1>8, <1>9, <1>10 DEF Next, Step, Advance, Body, vars

(* Before the first restart a started listener has an open executor to     *)
(* hand its messages to, however start, stop and wait overlap and fail.    *)
THEOREM ExecutorOpenWhileListening == Spec => []ListensWithExecutor
<1>1. Init => ExecutorInv
    <2>1. 1 \in Epoch /\ "start" \in Task /\ "stop" \in Task
        BY TasksAssumption DEF Epoch, Task
    <2> QED BY <2>1 DEF Init, ExecutorInv, Fresh
<1>2. TasksInv /\ ExecutorInv => ListensWithExecutor
    BY DEF ExecutorInv, ListensWithExecutor
<1> QED BY <1>1, <1>2, ExecutorStep, TasksInvariant, PTL DEF Spec

-----------------------------------------------------------------------------
(* The life of an epoch.                                                   *)

(* A task that is running has a thread in its body, which waits for nobody *)
(* in the lock of another task; a thread that joins has found it begun;    *)
(* and no thread works in an epoch that is still to come.                  *)
RunnerInv ==
    /\ \A e \in Epoch, t \in Task : st[e][t] = "RUNNING" =>
          \E r \in Thread : InBody(r) /\ mine[r] = e /\ task[r] = t
    /\ \A th \in Thread : pc[th] = "join" => st[mine[th]][task[th]] # "INIT"
    /\ \A th \in Thread : mine[th] <= epoch

(* What a step does to the tasks: nothing, or one task of the thread's own *)
(* epoch begins or ends.                                                   *)
LEMMA TaskMoves ==
    ASSUME TasksInv, NEW th \in Thread, Step(th)
    PROVE  /\ \A x \in Thread : x # th => pc'[x] = pc[x] /\ mine'[x] = mine[x]
           /\ task' = task
           /\ \/ /\ UNCHANGED <<st, mine>> /\ (InBody(th)' <=> InBody(th))
                 /\ pc'[th] = "join" => st[mine[th]][task[th]] = "RUNNING"
                 /\ \/ epoch' = epoch
                    \/ epoch' = epoch + 1 /\ epoch < MaxEpochs /\ st[epoch]["stop"] = "COMPLETE"
              \/ /\ UNCHANGED <<st, epoch>> /\ ~InBody(th) /\ ~InBody(th)'
                 /\ pc'[th] # "join" /\ mine'[th] = epoch
              \/ /\ UNCHANGED <<mine, epoch>> /\ ~InBody(th) /\ InBody(th)'
                 /\ pc[th] = "run" /\ pc'[th] # "join"
                 /\ st[mine[th]][task[th]] = "INIT"
                 /\ st' = [st EXCEPT ![mine[th]][task[th]] = "RUNNING"]
              \/ /\ UNCHANGED <<mine, epoch>> /\ InBody(th) /\ ~InBody(th)'
                 /\ pc'[th] # "join"
                 /\ st' = [st EXCEPT ![mine[th]][task[th]] = "COMPLETE"]
<1>0. pc \in [Thread -> {"idle", "reset", "capture", "after", "run", "join", "body", "cleanup"}]
        /\ mine \in [Thread -> Epoch]
    BY DEF TasksInv, TypeOK
<1>1. CASE Reset(th) BY <1>0, <1>1 DEF Reset, Goto, InBody
<1>2. CASE Capture(th) BY <1>0, <1>2 DEF Capture, Goto, InBody
<1>3. CASE WaitAfter(th) \/ Timeout(th) \/ RunOnceJoins(th) \/ RunOnceDone(th) \/ WaitShutdown(th)
    BY <1>0, <1>3 DEF WaitAfter, Timeout, RunOnceJoins, RunOnceDone, WaitShutdown, Return, Goto, InBody
<1>4. CASE RunOnce(th) BY <1>0, <1>4 DEF RunOnce, Goto, InBody
<1>5. CASE StartBody(th) \/ StartFails(th) \/ StopBody(th) \/ WaitCleanup(th)
    BY <1>0, <1>5 DEF StartBody, StartFails, StopBody, WaitCleanup, Complete, Return, Goto, InBody
<1> QED BY <1>1, <1>2, <1>3, <1>4, <1>5 DEF Step, Advance, Body

LEMMA RunnerStep == TasksInv /\ RunnerInv /\ [Next]_vars => RunnerInv'
<1> SUFFICES ASSUME TasksInv, RunnerInv, [Next]_vars PROVE RunnerInv'
    OBVIOUS
<1>0. TypeOK /\ BodyInv BY DEF TasksInv
<1>1. /\ epoch \in Nat
      /\ \A x \in Thread : mine[x] \in Epoch /\ mine[x] \in Nat /\ task[x] \in Task
    BY <1>0, TasksAssumption DEF TypeOK, Epoch
<1>a. ASSUME NEW th \in Thread, Step(th) PROVE RunnerInv'
    <2>1. /\ \A x \in Thread : x # th => pc'[x] = pc[x] /\ mine'[x] = mine[x]
          /\ task' = task
        BY <1>a, TaskMoves
    <2>2. ASSUME UNCHANGED <<st, mine>>, InBody(th)' <=> InBody(th),
                 pc'[th] = "join" => st[mine[th]][task[th]] = "RUNNING",
                 epoch' = epoch \/ epoch' = epoch + 1
          PROVE  RunnerInv'
        <3>1. \A x \in Thread : InBody(x)' <=> InBody(x) BY <2>1, <2>2 DEF InBody
        <3>2. \A x \in Thread : mine'[x] <= epoch' BY <1>1, <2>2 DEF RunnerInv
        <3> QED BY <2>1, <2>2, <3>1, <3>2 DEF RunnerInv
    <2>3. ASSUME UNCHANGED <<st, epoch>>, ~InBody(th), ~InBody(th)', pc'[th] # "join",
                 mine'[th] = epoch
          PROVE  RunnerInv'
        <3>1. \A x \in Thread : InBody(x) => x # th /\ InBody(x)' /\ mine'[x] = mine[x]
            BY <2>1, <2>3 DEF InBody
        <3>2. \A x \in Thread : mine'[x] <= epoch' BY <1>1, <2>1, <2>3 DEF RunnerInv
        <3> QED BY <2>1, <2>3, <3>1, <3>2 DEF RunnerInv
    <2>4. ASSUME UNCHANGED <<mine, epoch>>, InBody(th)', pc'[th] # "join",
                 st' = [st EXCEPT ![mine[th]][task[th]] = "RUNNING"]
          PROVE  RunnerInv'
        <3>1. \A e \in Epoch, t \in Task :
                st'[e][t] = IF e = mine[th] /\ t = task[th] THEN "RUNNING" ELSE st[e][t]
            BY <1>0, <1>1, <2>4 DEF TypeOK
        <3>2. \A x \in Thread : InBody(x) => InBody(x)' BY <2>1, <2>4 DEF InBody
        <3> QED BY <1>1, <2>1, <2>4, <3>1, <3>2 DEF RunnerInv
    <2>5. ASSUME UNCHANGED <<mine, epoch>>, InBody(th), pc'[th] # "join",
                 st' = [st EXCEPT ![mine[th]][task[th]] = "COMPLETE"]
          PROVE  RunnerInv'
        <3>1. \A e \in Epoch, t \in Task :
                st'[e][t] = IF e = mine[th] /\ t = task[th] THEN "COMPLETE" ELSE st[e][t]
            BY <1>0, <1>1, <2>5 DEF TypeOK
        <3>2. \A x \in Thread : InBody(x) /\ x # th => InBody(x)' BY <2>1 DEF InBody
        <3>3. ASSUME NEW e \in Epoch, NEW t \in Task, st'[e][t] = "RUNNING"
              PROVE  \E r \in Thread : InBody(r)' /\ mine[r] = e /\ task[r] = t
            <4>1. st[e][t] = "RUNNING" /\ ~(e = mine[th] /\ t = task[th])
                BY <3>1, <3>3
            <4>2. PICK r \in Thread : InBody(r) /\ mine[r] = e /\ task[r] = t
                BY <4>1 DEF RunnerInv
            <4> QED BY <3>2, <4>1, <4>2
        <3> QED BY <1>1, <2>1, <2>5, <3>1, <3>3 DEF RunnerInv
    <2> QED BY <1>a, <2>2, <2>3, <2>4, <2>5, TaskMoves
<1>b. ASSUME NEW th \in Thread, NEW t \in Task, Call(th, t) PROVE RunnerInv'
    <2>1. /\ UNCHANGED <<epoch, st, mine>> /\ pc[th] = "idle" /\ pc'[th] = "reset"
          /\ \A x \in Thread : x # th => pc'[x] = pc[x] /\ task'[x] = task[x]
        BY <1>0, <1>b DEF Call, Goto, TypeOK
    <2>2. \A x \in Thread : InBody(x) => x # th /\ InBody(x)' BY <2>1 DEF InBody
    <2> QED BY <2>1, <2>2 DEF RunnerInv
<1>c. CASE UNCHANGED vars
    BY <1>c DEF vars, RunnerInv, InBody
<1> QED BY <1>a, <1>b, <1>c DEF Next

LEMMA RunnerInitial == Init => RunnerInv
    BY DEF Init, RunnerInv, Fresh

(* A thread that joins a running task waits for a thread that is in the    *)
(* body of that very task, not for one that waits itself.                  *)
JoinWaitsForBody ==
    \A th \in Thread : pc[th] = "join" =>
        \/ st[mine[th]][task[th]] = "COMPLETE"
        \/ \E r \in Thread : InBody(r) /\ mine[r] = mine[th] /\ task[r] = task[th]

(* _wait of run_once never waits for a task that nobody runs: a body that  *)
(* raises has completed its task, and threads never wait in a circle.      *)
THEOREM JoinersNotAbandoned == Spec => []JoinWaitsForBody
<1>1. TasksInv /\ RunnerInv => JoinWaitsForBody
    BY DEF TasksInv, TypeOK, RunnerInv, JoinWaitsForBody
<1> QED BY <1>1, RunnerInitial, RunnerStep, TasksInvariant, PTL DEF Spec

(* Within an epoch the tasks begin in their order. *)
StageOrder ==
    \A e \in Epoch :
        /\ st[e]["stop"] # "INIT" => st[e]["start"] = "COMPLETE"
        /\ st[e]["wait"] # "INIT" => st[e]["stop"] = "COMPLETE"

LEMMA StagesInOrder == TasksInv => StageOrder
<1> SUFFICES ASSUME TasksInv, NEW e \in Epoch
             PROVE  /\ st[e]["stop"] # "INIT" => st[e]["start"] = "COMPLETE"
                    /\ st[e]["wait"] # "INIT" => st[e]["stop"] = "COMPLETE"
    BY DEF StageOrder
<1>1. \A t \in Task : st[e][t] # "INIT" => runs[e][t] = 1
    BY DEF TasksInv, BodyInv
<1>2. \A t \in Task : st[e][t] # "INIT" /\ HasAfter(t) => st[e][After(t)] = "COMPLETE"
    BY <1>1 DEF TasksInv, Ordered
<1>3. "stop" \in Task /\ "wait" \in Task
    BY DEF Task
<1> QED BY <1>2, <1>3, AfterFacts

LEMMA StagesInOrderNext == TasksInv' => StageOrder'
    BY StagesInOrder, PTL

(* The stages that follow each other, by the states of the three tasks. *)
LEMMA StageFollows ==
    /\ Life!Follows(StageName("INIT", "INIT", "INIT")) = StageName("RUNNING", "INIT", "INIT")
    /\ Life!Follows(StageName("RUNNING", "INIT", "INIT")) = StageName("COMPLETE", "INIT", "INIT")
    /\ Life!Follows(StageName("COMPLETE", "INIT", "INIT")) = StageName("COMPLETE", "RUNNING", "INIT")
    /\ Life!Follows(StageName("COMPLETE", "RUNNING", "INIT")) = StageName("COMPLETE", "COMPLETE", "INIT")
    /\ Life!Follows(StageName("COMPLETE", "COMPLETE", "INIT"))
          = StageName("COMPLETE", "COMPLETE", "RUNNING")
    /\ Life!Follows(StageName("COMPLETE", "COMPLETE", "RUNNING"))
          = StageName("COMPLETE", "COMPLETE", "COMPLETE")
    /\ \A a, b, c : c # "COMPLETE" => StageName(a, b, c) # "ended"
    BY DEF StageName, Life!Follows

(* A task that begins or ends takes its epoch to the next stage. *)
LEMMA StageAdvances ==
    ASSUME TasksInv, TasksInv', NEW e \in Epoch, NEW t \in Task,
           \/ st[e][t] = "INIT" /\ st' = [st EXCEPT ![e][t] = "RUNNING"]
           \/ st[e][t] = "RUNNING" /\ st' = [st EXCEPT ![e][t] = "COMPLETE"]
    PROVE  /\ StageOf(e) # "ended" /\ StageOf(e)' = Life!Follows(StageOf(e))
           /\ \A d \in Epoch : d # e => StageOf(d)' = StageOf(d)
<1>0. PICK old \in {"INIT", "RUNNING"}, new \in {"RUNNING", "COMPLETE"} :
        /\ st[e][t] = old /\ st' = [st EXCEPT ![e][t] = new]
        /\ new = IF old = "INIT" THEN "RUNNING" ELSE "COMPLETE"
    OBVIOUS
<1>1. /\ \A s \in Task : st'[e][s] = IF s = t THEN new ELSE st[e][s]
      /\ \A d \in Epoch : d # e => st'[d] = st[d]
    BY <1>0 DEF TasksInv, TypeOK
<1>2. \A d \in Epoch : d # e => StageOf(d)' = StageOf(d)
    BY <1>1 DEF StageOf
<1>3. StageOrder /\ StageOrder'
    BY StagesInOrder, StagesInOrderNext
<1>4. "start" \in Task /\ "stop" \in Task /\ "wait" \in Task
    BY DEF Task
<1> DEFINE A == st[e]["start"]   B == st[e]["stop"]   C == st[e]["wait"]
<1>5. CASE t = "start"
    <2>1. A = old /\ st'[e]["start"] = new /\ st'[e]["stop"] = B /\ st'[e]["wait"] = C
        BY <1>0, <1>1, <1>4, <1>5
    <2>2. B = "INIT" /\ C = "INIT"
        BY <1>0, <1>3, <2>1 DEF StageOrder
    <2> QED BY <1>0, <1>2, <2>1, <2>2, StageFollows DEF StageOf
<1>6. CASE t = "stop"
    <2>1. B = old /\ st'[e]["stop"] = new /\ st'[e]["start"] = A /\ st'[e]["wait"] = C
        BY <1>0, <1>1, <1>4, <1>6
    <2>2. A = "COMPLETE" /\ C = "INIT"
        BY <1>0, <1>3, <2>1 DEF StageOrder
    <2> QED BY <1>0, <1>2, <2>1, <2>2, StageFollows DEF StageOf
<1>7. CASE t = "wait"
    <2>1. C = old /\ st'[e]["wait"] = new /\ st'[e]["start"] = A /\ st'[e]["stop"] = B
        BY <1>0, <1>1, <1>4, <1>7
    <2>2. A = "COMPLETE" /\ B = "COMPLETE"
        BY <1>0, <1>3, <2>1 DEF StageOrder
    <2> QED BY <1>0, <1>2, <2>1, <2>2, StageFollows DEF StageOf
<1> QED BY <1>5, <1>6, <1>7 DEF Task

LEMMA LifeStep == TasksInv /\ TasksInv' /\ RunnerInv /\ [Next]_vars
                     => [Life!LifeNext]_<<epoch, StageMap>>
<1> SUFFICES ASSUME TasksInv, TasksInv', RunnerInv, [Next]_vars
             PROVE  Life!LifeNext \/ UNCHANGED <<epoch, StageMap>>
    OBVIOUS
<1>0. /\ epoch \in Epoch /\ TypeOK
      /\ \A x \in Thread : mine[x] \in Epoch /\ task[x] \in Task
    BY DEF TasksInv, TypeOK
<1>1. ASSUME st' = st PROVE StageMap' = StageMap
    BY <1>1 DEF StageMap, StageOf
<1>2. ASSUME NEW e \in Epoch, e <= epoch, NEW t \in Task,
             \/ st[e][t] = "INIT" /\ st' = [st EXCEPT ![e][t] = "RUNNING"]
             \/ st[e][t] = "RUNNING" /\ st' = [st EXCEPT ![e][t] = "COMPLETE"],
             epoch' = epoch
      PROVE  Life!LifeNext
    <2>1. /\ StageOf(e) # "ended" /\ StageOf(e)' = Life!Follows(StageOf(e))
          /\ \A d \in Epoch : d # e => StageOf(d)' = StageOf(d)
        BY <1>2, StageAdvances
    <2>2. StageMap' = [StageMap EXCEPT ![e] = Life!Follows(@)]
        BY <2>1 DEF StageMap
    <2>3. StageMap[e] # "ended"
        BY <2>1 DEF StageMap
    <2> QED BY <1>2, <2>2, <2>3 DEF Life!LifeNext, Life!Advance
<1>a. ASSUME NEW th \in Thread, Step(th)
      PROVE  Life!LifeNext \/ UNCHANGED <<epoch, StageMap>>
    <2>1. CASE st' = st /\ epoch' = epoch
        BY <1>1, <2>1
    <2>2. CASE st' = st /\ epoch' # epoch
        <3>1. epoch' = epoch + 1 /\ epoch < MaxEpochs /\ st[epoch]["stop"] = "COMPLETE"
            <4>1. ~(UNCHANGED epoch) BY <2>2
            <4> QED BY <1>a, <4>1, TaskMoves
        <3>2. StageMap[epoch] \in {"stopped", "waiting", "ended"}
            <4>1. "wait" \in Task BY DEF Task
            <4>2. st[epoch]["wait"] \in {"INIT", "RUNNING", "COMPLETE"}
                BY <1>0, <4>1 DEF TypeOK
            <4> QED BY <1>0, <3>1, <4>2 DEF StageMap, StageOf, StageName
        <3>3. epoch + 1 \in Epoch
            BY <1>0, <3>1, TasksAssumption DEF Epoch
        <3> QED BY <1>1, <2>2, <3>1, <3>2, <3>3 DEF Life!LifeNext, Life!Restart
    <2>3. CASE st' # st
        <3>1. mine[th] <= epoch BY DEF RunnerInv
        <3>2. /\ epoch' = epoch
              /\ \/ /\ st[mine[th]][task[th]] = "INIT"
                    /\ st' = [st EXCEPT ![mine[th]][task[th]] = "RUNNING"]
                 \/ /\ InBody(th)
                    /\ st' = [st EXCEPT ![mine[th]][task[th]] = "COMPLETE"]
            BY <1>a, <2>3, TaskMoves
        <3>3. InBody(th) => st[mine[th]][task[th]] = "RUNNING"
            BY DEF TasksInv, BodyInv
        <3> QED BY <1>0, <1>2, <3>1, <3>2, <3>3
    <2> QED BY <2>1, <2>2, <2>3
<1>b. ASSUME NEW th \in Thread, NEW t \in Task, Call(th, t) PROVE UNCHANGED <<epoch, StageMap>>
    BY <1>1, <1>b DEF Call
<1>c. CASE UNCHANGED vars
    BY <1>1, <1>c DEF vars
<1> QED BY <1>a, <1>b, <1>c DEF Next

(* _OrderedTaskRunner implements the life cycle of a server: whatever the  *)
(* threads call, each epoch goes once through its stages, and a restart    *)
(* waits for the stop of the current epoch.                                *)
THEOREM ServerImplementsLifeCycle == Spec => ImplementsLifeCycle
<1>1. Init => Life!LifeInit
    <2> SUFFICES ASSUME Init PROVE Life!LifeInit
        OBVIOUS
    <2>1. \A e \in Epoch : StageOf(e) = "new"
        BY DEF Init, Fresh, StageOf, StageName, Task
    <2> QED BY <2>1 DEF Init, StageMap, Life!LifeInit
<1> QED BY <1>1, LifeStep, RunnerInitial, RunnerStep, TasksInvariant, PTL
        DEF Spec, ImplementsLifeCycle, Life!LifeSpec, Life!lifeVars
====
