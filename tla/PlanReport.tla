----------------------------- MODULE PlanReport -----------------------------
(***************************************************************************)
(* How the results of the steps of one test plan reach its database row.   *)
(*                                                                         *)
(* The steps of a plan are partitioned into groups ("Parallel-Step-1",     *)
(* "Serial-Step-2"), the groups into cases.  The conductor opens one       *)
(* ReportRPCAPI server per group, whose finish_flag counts the reports it  *)
(* still expects, and casts the steps to the compute plugins.  A plugin    *)
(* executes the step and reports with an RPC call that times out; the      *)
(* server handles every report in a greenthread of its own, which reads    *)
(* the plan, adds the status and the output, and saves.                    *)
(*                                                                         *)
(* A report reaches the server more than once when the broker or the       *)
(* publisher repeats it (RpcCall!AtMostOnce), and its call can raise on    *)
(* the plugin's side whether or not it was sent.  Assumption: the cast of  *)
(* a step is executed once.                                                *)
(*                                                                         *)
(* The conductor manager is not part of the repository: Prereq, Serial and *)
(* Dispatch are the external environment, modelled from the interface that *)
(* ReportRPCAPI and ComputeCaseAPI.run offer it.                           *)
(***************************************************************************)
EXTENDS Integers, FiniteSets

CONSTANTS
    Step,        \* the numbered sub-steps of the plan
    Group,       \* the step groups; one ReportRPCAPI object each
    Case,        \* the test cases, the integer keys of plan.result
    GroupOf,     \* Step -> Group
    CaseOf,      \* Group -> Case
    Prereq,      \* Group -> SUBSET Group: groups that must finish before it
    Serial,      \* the groups whose steps are dispatched one after another
    LinuxStep,   \* the steps executed by the linux_system plugin
    PoolSize,    \* executor_thread_pool_size of each report server
    MaxRetries,  \* max_retries of wrap_db_retry around testplan_update
    MaxRepeats,  \* bound: reports repeated by the broker, the publisher or the caller
    CanExpire    \* may the broker drop a report that nobody fetches in time?

ASSUME PlanAssumption ==
    /\ IsFiniteSet(Step) /\ IsFiniteSet(Group) /\ IsFiniteSet(Case)
    /\ GroupOf \in [Step -> Group]
    /\ CaseOf \in [Group -> Case]
    /\ Prereq \in [Group -> SUBSET Group]
    /\ Serial \subseteq Group
    /\ LinuxStep \subseteq Step
    /\ PoolSize \in Nat \ {0}
    /\ MaxRetries \in Nat
    /\ MaxRepeats \in Nat
    /\ CanExpire \in BOOLEAN

VARIABLES
    finish_flag, \* Group -> Int: ReportRPCAPI.finish_flag
    worker,      \* Step -> what the plugin method executing the step does
    arg,         \* Call -> the status the report carries
    handler,     \* Call -> how far the report server is with the report
    plan,        \* Call -> the TestPlan object the greenthread works on
    base,        \* Call -> the row as testplan_update re-read it
    retries,     \* Call -> how often wrap_db_retry has run testplan_update again
    row,         \* the test plan's row in the database
    raced,       \* history: a save committed while another report held a copy
    undelivered  \* history: steps whose first report was sent, but the call raised

serverVars == <<finish_flag, plan, base, retries, row, raced>>
vars == <<serverVars, worker, arg, handler, undelivered>>

-----------------------------------------------------------------------------
(* A plugin method has two places that report: the last statement of its   *)
(* try block and the except block.  A call is a step, the place and the    *)
(* number of the copy that the server gets.                                *)
Place == {"try", "except"}
Copy == 1 .. (1 + MaxRepeats)
Call == Step \X Place \X Copy

Status == {"PASS", "FAIL"}
StepsOf(g) == {s \in Step : GroupOf[s] = g}
CallsOf(g) == {c \in Call : GroupOf[c[1]] = g}
Copies(s, place) == {c \in Call : c[1] = s /\ c[2] = place}

(* handler states of a report inside the server; of one that was dispatched *)
Active == {"started", "read", "saving"}
Begun == Active \cup {"ok", "failed"}

(* A report greenthread holds a copy of the row from its read to its end. *)
HoldsCopy(c) == handler[c] \in {"read", "saving"}

(* summary(res): a case fails when any of its groups has status FAIL.  The *)
(* code takes int() of a float product; up to 49 cases that is \div.       *)
summary(result) ==
    LET failed == {k \in Case : \E g \in Group : CaseOf[g] = k /\ result[g] = "FAIL"}
        good == Cardinality(Case) - Cardinality(failed)
    IN  [total |-> Cardinality(Case), failure |-> Cardinality(failed),
         sucessfully |-> good,
         passratio |-> (good * 100) \div Cardinality(Case)]

SummaryRange == {summary(r) : r \in [Group -> Status \cup {"none"}]}
NoSummary == [total |-> 0, failure |-> 0, sucessfully |-> 0, passratio |-> 0]

(* The columns report_result touches.  message is the set of the reports   *)
(* whose output has been appended to the log.                              *)
Row == [result : [Group -> Status \cup {"none"}],
        message : SUBSET Call,
        summary : SummaryRange \cup {NoSummary}]

(* The row as the conductor prepares it before the first step runs. *)
NewRow == [result |-> [g \in Group |-> "none"], message |-> {}, summary |-> NoSummary]

(* No object: a greenthread that has not read the plan, or has ended. *)
NoRow == [read |-> FALSE]

(* Fault: the summary is taken before the status is entered. *)
ReportedStaleSummary(r, c) ==
    [result |-> [r.result EXCEPT ![GroupOf[c[1]]] = arg[c]],
     message |-> r.message \cup {c}, summary |-> summary(r.result)]

(* What report_result makes of its copy: one key per group, last one wins. *)
Reported(r, c) ==
    LET res == [r.result EXCEPT ![GroupOf[c[1]]] = arg[c]]
    IN  [result |-> res, message |-> r.message \cup {c}, summary |-> summary(res)]

Init ==
    /\ finish_flag = [g \in Group |-> Cardinality(StepsOf(g))]
    /\ worker = [s \in Step |-> "undispatched"]
    /\ arg = [c \in Call |-> "FAIL"]
    /\ handler = [c \in Call |-> "idle"]
    /\ plan = [c \in Call |-> NoRow]
    /\ base = [c \in Call |-> NoRow]
    /\ retries = [c \in Call |-> 0]
    /\ row = NewRow
    /\ raced = FALSE
    /\ undelivered = {}

-----------------------------------------------------------------------------
(* The conductor (external) casts a step with ComputeCaseAPI.run.  All it  *)
(* can observe of earlier steps is finish_flag.                            *)
Dispatch(s) ==
    LET g == GroupOf[s]
        dispatched == {t \in StepsOf(g) : worker[t] # "undispatched"}
    IN  /\ worker[s] = "undispatched"
        /\ \A h \in Prereq[g] : finish_flag[h] <= 0
        /\ g \in Serial => finish_flag[g] <= Cardinality(StepsOf(g)) - Cardinality(dispatched)
        /\ worker' = [worker EXCEPT ![s] = "queued"]
        /\ UNCHANGED <<serverVars, arg, handler, undelivered>>

(* RPCClient.result sends the call; the message waits in the group's topic *)
(* queue until the report server fetches it.                               *)
SendReport(s, place, status) ==
    /\ worker' = [worker EXCEPT ![s] = place]
    /\ arg' = [arg EXCEPT ![<<s, place, 1>>] = status]
    /\ handler' = [handler EXCEPT ![<<s, place, 1>>] = "queued"]
    /\ UNCHANGED <<serverVars, undelivered>>

(* The reports that reach the server, or may reach it, once more. *)
Repeats ==
    Cardinality({c \in Call : c[3] > 1 /\ handler[c] # "idle"}) + Cardinality(undelivered)

(* What an exception does to a method: the except block catches one of the *)
(* try block, and one of its own leaves the method.                        *)
Raise(s, place) ==
    worker' = [worker EXCEPT ![s] = IF place = "try" THEN "caught" ELSE "raised"]

(* An http or docker step: the request was answered, report in the try.    *)
Execute(s) ==
    /\ worker[s] = "queued" /\ s \notin LinuxStep
    /\ \E status \in Status : SendReport(s, "try", status)

(* The request, the docker client or the publication of the report raised. *)
ExecuteRaises(s) ==
    /\ worker[s] = "queued" /\ s \notin LinuxStep
    /\ Raise(s, "try")
    /\ UNCHANGED <<serverVars, arg, handler, undelivered>>

(* The except block reports FAIL ... *)
ReportCaught(s) ==
    /\ worker[s] = "caught"
    /\ SendReport(s, "except", "FAIL")

(* ... unless e.message does not exist or is no ASCII text, or nothing can *)
(* be published: the exception leaves the method.                          *)
CaughtRaises(s) ==
    /\ worker[s] = "caught"
    /\ Raise(s, "except")
    /\ UNCHANGED <<serverVars, arg, handler, undelivered>>

(* ping and run_shell pass result= to RPCClient.result, which has no such  *)
(* parameter: TypeError, and no report.                                    *)
ExecuteLinux(s) ==
    /\ worker[s] = "queued" /\ s \in LinuxStep
    /\ worker' = [worker EXCEPT ![s] = "raised"]
    /\ UNCHANGED <<serverVars, arg, handler, undelivered>>

(* The call returned: the plugin method is done. *)
ReplyOk(s, place) ==
    /\ worker[s] = place /\ \E c \in Copies(s, place) : handler[c] = "ok"
    /\ worker' = [worker EXCEPT ![s] = "returned"]
    /\ UNCHANGED <<serverVars, arg, handler, undelivered>>

(* The call raised the server's exception. *)
ReplyFailed(s, place) ==
    /\ worker[s] = place /\ \E c \in Copies(s, place) : handler[c] = "failed"
    /\ Raise(s, place)
    /\ UNCHANGED <<serverVars, arg, handler, undelivered>>

(* The call raised on the plugin's side although the broker has the report *)
(* (Connection.ensure gave up on a publication that it was repeating):     *)
(* RPCClient.result catches MessagingTimeout only.                         *)
CallRaises(s, place) ==
    /\ worker[s] = place
    /\ Raise(s, place)
    /\ \/ place = "except" /\ UNCHANGED undelivered
       \/ place = "try" /\ Repeats < MaxRepeats /\ undelivered' = undelivered \cup {s}
    /\ UNCHANGED <<serverVars, arg, handler>>

(* Fault: the timeout is an exception like any other. *)
CallTimeoutCaught(s, place) ==
    /\ worker[s] = place
    /\ Raise(s, place)
    /\ UNCHANGED <<serverVars, arg, handler, undelivered>>

(* MessagingTimeout is swallowed by RPCClient.result, and the method       *)
(* returns; the report itself may still be queued or in progress.          *)
CallTimeout(s, place) ==
    /\ worker[s] = place
    /\ worker' = [worker EXCEPT ![s] = "returned"]
    /\ UNCHANGED <<serverVars, arg, handler, undelivered>>

(* The server gets a report once more: its connection was lost before the  *)
(* ack, or the publisher repeated it.  The listener's message id cache     *)
(* turns away only a copy that arrives after the dispatch of the first,    *)
(* and only until sixteen other reports have been dispatched.              *)
Redeliver(c) ==
    LET d == <<c[1], c[2], c[3] + 1>> IN
    /\ handler[c] \notin {"idle", "expired"}
    /\ d \in Call /\ handler[d] = "idle"
    /\ Repeats < MaxRepeats
    /\ arg' = [arg EXCEPT ![d] = arg[c]]
    /\ handler' = [handler EXCEPT ![d] = "queued"]
    /\ UNCHANGED <<serverVars, worker, undelivered>>

(* The message was published with expiration=timeout: the broker drops it. *)
Expire(c) ==
    /\ CanExpire /\ handler[c] = "queued"
    /\ handler' = [handler EXCEPT ![c] = "expired"]
    /\ UNCHANGED <<serverVars, worker, arg, undelivered>>

-----------------------------------------------------------------------------
(* Fault: every message gets a greenthread, whatever the pool size. *)
ResultUnbounded(c) ==
    /\ handler[c] = "queued"
    /\ handler' = [handler EXCEPT ![c] = "started"]
    /\ finish_flag' = [finish_flag EXCEPT ![GroupOf[c[1]]] = @ - 1]
    /\ UNCHANGED <<worker, arg, plan, base, retries, row, raced, undelivered>>

(* Fault: only a passed step counts as finished. *)
ResultCountsPass(c) ==
    LET g == GroupOf[c[1]]
    IN  /\ handler[c] = "queued"
        /\ Cardinality({d \in CallsOf(g) : handler[d] \in Active}) < PoolSize
        /\ handler' = [handler EXCEPT ![c] = "started"]
        /\ finish_flag' = [finish_flag EXCEPT ![g] = IF arg[c] = "PASS" THEN @ - 1 ELSE @]
        /\ UNCHANGED <<worker, arg, plan, base, retries, row, raced, undelivered>>

(* ReportRPCAPI.result starts in a greenthread and counts at once. *)
Result(c) ==
    LET g == GroupOf[c[1]]
    IN  /\ handler[c] = "queued"
        /\ Cardinality({d \in CallsOf(g) : handler[d] \in Active}) < PoolSize
        /\ handler' = [handler EXCEPT ![c] = "started"]
        /\ finish_flag' = [finish_flag EXCEPT ![g] = @ - 1]
        /\ UNCHANGED <<worker, arg, plan, base, retries, row, raced, undelivered>>

(* TestPlan.get_by_id, then the changes to the object in memory. *)
Read(c) ==
    /\ handler[c] = "started"
    /\ handler' = [handler EXCEPT ![c] = "read"]
    /\ plan' = [plan EXCEPT ![c] = Reported(row, c)]
    /\ UNCHANGED <<finish_flag, worker, arg, base, retries, row, raced, undelivered>>

(* plan.save() -> testplan_update: the row is read again in the writer     *)
(* transaction, to find out which columns change.                          *)
SaveBegin(c) ==
    /\ handler[c] = "read"
    /\ handler' = [handler EXCEPT ![c] = "saving"]
    /\ base' = [base EXCEPT ![c] = row]
    /\ UNCHANGED <<finish_flag, worker, arg, plan, retries, row, raced, undelivered>>

(* wrap_db_retry: a deadlock rolls back and runs testplan_update again. *)
SaveRetry(c) ==
    /\ handler[c] = "saving" /\ retries[c] < MaxRetries
    /\ handler' = [handler EXCEPT ![c] = "read"]
    /\ base' = [base EXCEPT ![c] = NoRow]
    /\ retries' = [retries EXCEPT ![c] = @ + 1]
    /\ UNCHANGED <<finish_flag, worker, arg, plan, row, raced, undelivered>>

(* Fault: an unchanged result is taken for an unchanged plan. *)
FlushedIfResult(old, read, new) == IF new.result = read.result THEN old ELSE new

(* The flush writes the columns that differ from the row read before.      *)
Flushed(old, read, new) ==
    [result |-> IF new.result = read.result THEN old.result ELSE new.result,
     message |-> IF new.message = read.message THEN old.message ELSE new.message,
     summary |-> IF new.summary = read.summary THEN old.summary ELSE new.summary]

(* The greenthread ends and its local objects with it. *)
Forget(c) ==
    /\ plan' = [plan EXCEPT ![c] = NoRow]
    /\ base' = [base EXCEPT ![c] = NoRow]
    /\ retries' = [retries EXCEPT ![c] = 0]

SaveCommit(c) ==
    /\ handler[c] = "saving"
    /\ handler' = [handler EXCEPT ![c] = "ok"]
    /\ row' = Flushed(row, base[c], plan[c])
    /\ raced' = (raced \/ \E d \in Call \ {c} : HoldsCopy(d))
    /\ Forget(c)
    /\ UNCHANGED <<finish_flag, worker, arg, undelivered>>

(* Fault: the writer transaction is not rolled back. *)
ReportRaisesDirty(c) ==
    /\ handler[c] \in Active
    /\ handler' = [handler EXCEPT ![c] = "failed"]
    /\ row' = IF handler[c] = "saving" THEN Flushed(row, base[c], plan[c]) ELSE row
    /\ Forget(c)
    /\ UNCHANGED <<finish_flag, worker, arg, raced, undelivered>>

(* An exception inside report_result (the row is gone, the database is     *)
(* away, the value does not fit its column) goes back to the caller.       *)
ReportRaises(c) ==
    /\ handler[c] \in Active
    /\ handler' = [handler EXCEPT ![c] = "failed"]
    /\ Forget(c)
    /\ UNCHANGED <<finish_flag, worker, arg, row, raced, undelivered>>

-----------------------------------------------------------------------------
Worker(s) ==
    \/ Execute(s) \/ ExecuteRaises(s) \/ ReportCaught(s) \/ CaughtRaises(s) \/ ExecuteLinux(s)
    \/ \E place \in Place : \/ ReplyOk(s, place) \/ ReplyFailed(s, place)
                            \/ CallRaises(s, place) \/ CallTimeout(s, place)

Handle(c) ==
    \/ Result(c) \/ Read(c) \/ SaveBegin(c) \/ SaveRetry(c) \/ SaveCommit(c) \/ ReportRaises(c)

Next ==
    \/ \E s \in Step : Dispatch(s) \/ Worker(s)
    \/ \E c \in Call : Handle(c) \/ Expire(c) \/ Redeliver(c)

Spec == Init /\ [][Next]_vars

(* The conductor goes on dispatching; some compute host goes on executing, *)
(* its publications succeed or raise (the broker does not stay away for    *)
(* ever) and its calls end at the latest when their timeout fires; some    *)
(* greenthread that is ready runs.                                         *)
FairSpec ==
    /\ Spec
    /\ WF_vars(\E s \in Step : Dispatch(s))
    /\ WF_vars(\E s \in Step : Worker(s))
    /\ WF_vars(\E c \in Call : Handle(c))

-----------------------------------------------------------------------------
WorkerStates == {"undispatched", "queued", "caught", "returned", "raised"} \cup Place
HandlerStates == {"idle", "queued", "expired"} \cup Begun

TypeOK ==
    /\ finish_flag \in [Group -> Int]
    /\ worker \in [Step -> WorkerStates]
    /\ arg \in [Call -> Status]
    /\ handler \in [Call -> HandlerStates]
    /\ plan \in [Call -> Row \cup {NoRow}]
    /\ base \in [Call -> Row \cup {NoRow}]
    /\ \A c \in Call : /\ HoldsCopy(c) => plan[c] \in Row
                       /\ handler[c] = "saving" => base[c] \in Row
    /\ retries \in [Call -> 0..MaxRetries]
    /\ row \in Row
    /\ raced \in BOOLEAN
    /\ undelivered \subseteq Step

-----------------------------------------------------------------------------
Ended(c) == handler[c] = "ok"

(* Log collection: the log holds the output of exactly the reports whose   *)
(* call was answered without an error (ReportRPCAPI.report_result).  Holds *)
(* only when no two reports overlap.                                       *)
LogCollected == row.message = {c \in Call : Ended(c)}

(* The summary column is the summary of the result column of the same row. *)
SummaryCurrent == row.message # {} => row.summary = summary(row.result)

(* A group has a result as soon as one of its reports was accepted.        *)
ResultPresent ==
    \A g \in Group : (row.result[g] = "none") <=> ~ \E c \in CallsOf(g) : Ended(c)

(* As long as no report was saved while another one held its own copy of   *)
(* the plan, report_result loses nothing: log, result and summary agree    *)
(* with the accepted reports.                                              *)
NoOverlapNoLoss == ~raced => LogCollected /\ SummaryCurrent /\ ResultPresent

(* Whatever overlaps, the row holds nothing that was not reported: the log *)
(* only outputs of accepted reports, a group only a status that one of its *)
(* accepted reports carried.  A report that failed or expired leaves no    *)
(* trace, although report_result had already changed its TestPlan object.  *)
OnlyAccepted ==
    /\ row.message \subseteq {c \in Call : Ended(c)}
    /\ \A g \in Group : row.result[g] # "none" =>
          \E c \in CallsOf(g) : Ended(c) /\ arg[c] = row.result[g]

(* A method uses its except block after a report of its try block was sent *)
(* only when that report failed on the server or its call raised on the    *)
(* plugin's side; a timed out call is never repeated.                      *)
RetryOnlyAfterFailure ==
    \A s \in Step :
        \/ \A c \in Copies(s, "try") : handler[c] = "idle"
        \/ \A c \in Copies(s, "except") : handler[c] = "idle"
        \/ s \in undelivered
        \/ \E c \in Copies(s, "try") : handler[c] = "failed"

HasBegun(s) == \E c \in Call : c[1] = s /\ handler[c] \in Begun

(* finish_flag reaches zero before every step of the group has reported    *)
(* only if a step was counted twice because a report failed after it was   *)
(* counted, was executed a second time, or was sent by a call that raised  *)
(* on the plugin's side.                                                   *)
EarlyFinishOnlyAfterFault ==
    \A g \in Group :
        \/ finish_flag[g] > 0
        \/ \A s \in StepsOf(g) : HasBegun(s)
        \/ \E c \in CallsOf(g) : \/ handler[c] = "failed"
                                 \/ c[3] > 1 /\ handler[c] \in Begun
                                 \/ c[1] \in undelivered

BegunOf(g) == {c \in CallsOf(g) : handler[c] \in Begun}

(* The inductive invariant behind the safety properties.  A step that is   *)
(* not running has sent nothing, one that has not reported from the except *)
(* block has used the try block at most;                                   *)
WorkerInv ==
    \A s \in Step :
        /\ worker[s] \in {"undispatched", "queued"} =>
              \A c \in Copies(s, "try") : handler[c] = "idle"
        /\ worker[s] \in {"undispatched", "queued", "try", "caught"} =>
              \A c \in Copies(s, "except") : handler[c] = "idle"
        /\ worker[s] = "caught" =>
              \/ \A c \in Copies(s, "try") : handler[c] = "idle"
              \/ s \in undelivered
              \/ \E c \in Copies(s, "try") : handler[c] = "failed"

(* a copy in a greenthread holds accepted reports and its own;             *)
CopyInv ==
    \A c \in Call : HoldsCopy(c) =>
        /\ plan[c].message \subseteq {d \in Call : Ended(d)} \cup {c}
        /\ c \in plan[c].message
        /\ handler[c] = "saving" => c \notin base[c].message
        /\ \A g \in Group : plan[c].result[g] # "none" =>
              \E d \in CallsOf(g) : (Ended(d) \/ d = c) /\ arg[d] = plan[c].result[g]

(* without an overlap a copy is the current row plus its own report;       *)
FreshInv ==
    ~raced => \A c \in Call : HoldsCopy(c) =>
        /\ plan[c] = Reported(row, c)
        /\ handler[c] = "saving" => base[c] = row

(* finish_flag counts the reports that were begun.                         *)
CountInv ==
    \A g \in Group : finish_flag[g] = Cardinality(StepsOf(g)) - Cardinality(BegunOf(g))

SafetyInv ==
    /\ TypeOK /\ WorkerInv /\ RetryOnlyAfterFailure
    /\ CopyInv /\ OnlyAccepted /\ FreshInv /\ NoOverlapNoLoss

(* A save that commits puts the report's own output into the log, even if  *)
(* the columns it did not change are those of another report.              *)
CommitLogsOwnOutput ==
    [][\A c \in Call : ~Ended(c) /\ Ended(c)' => c \in row'.message]_vars

(* A step that the count misses: its method raised without having sent a   *)
(* report, or the broker dropped all that it sent.                         *)
Unreported(s) ==
    worker[s] = "raised" /\ \A c \in Call : c[1] = s => handler[c] = "idle"
Dropped(s) ==
    /\ \E c \in Call : c[1] = s /\ handler[c] = "expired"
    /\ \A c \in Call : c[1] = s => handler[c] \in {"idle", "expired"}

(* A group whose turn has come finishes for the conductor, however its     *)
(* reports fail, are retried or time out, unless one of its steps raised   *)
(* without a report or had its reports dropped: nothing else leaves        *)
(* finish_flag above zero.                                                 *)
FinishUnlessLost ==
    \A g \in Group :
        (\A h \in Prereq[g] : finish_flag[h] <= 0) ~>
            \/ finish_flag[g] <= 0
            \/ \E s \in StepsOf(g) : Unreported(s) \/ Dropped(s)

-----------------------------------------------------------------------------
(* Claims of the repository that the code does not keep (README, section 3). *)

(* The sample plan of the repository runs linux_system steps, whose result *)
(* is to be queried with the plan's id: each one reports.                  *)
StepReports ==
    \A s \in Step : worker[s] = "queued" ~> HasBegun(s)

(* The readme shows a result of its own for every step: a failed step is   *)
(* never shown as passed.                                                  *)
FailNotMasked ==
    \A g \in Group : row.result[g] = "PASS" =>
        \A c \in CallsOf(g) : Ended(c) => arg[c] = "PASS"
=============================================================================
