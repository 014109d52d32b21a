--------------------------- MODULE ServiceRegistry --------------------------
(***************************************************************************)
(* The record of one service (a host and a binary) in table services, the  *)
(* worker processes that share it (nova/service.py, nova-conductor starts  *)
(* several per host), their heartbeats (servicegroup/drivers/db.py) and    *)
(* the question whether the service is up.                                 *)
(*                                                                         *)
(* A heartbeat is a read and a write of the record in one transaction, but *)
(* transactions overlap: the read takes no lock.  Time is counted in ticks *)
(* that no transaction outlasts.  All workers run the same code, so that   *)
(* the version check of Service.save never raises.                         *)
(***************************************************************************)
EXTENDS Naturals

CONSTANTS
    Worker,        \* processes that serve this host and binary
    Interval,      \* report_interval, in ticks
    InitialDelay,  \* INITIAL_REPORTING_DELAY
    DownTime,      \* service_down_time as configured
    MaxCount,      \* bound of report_count
    MaxRow         \* bound: how many records are created

\* Time passes between two reports of a worker, and the first one comes no
\* later than after an interval (the defaults are 10 and 5 seconds).
ASSUME RegistryAssumption ==
    /\ Interval \in Nat \ {0}
    /\ InitialDelay \in 0..Interval
    /\ DownTime \in Nat
    /\ MaxCount \in Nat
    /\ MaxRow \in Nat

VARIABLES
    row,    \* the newest record: its id, whether it is live, its report_count
    age,    \* ticks since the record's last_seen_up, else since its creation
    pc,     \* where each worker is
    ref,    \* each worker's service_ref: the id, 0 for None, and report_count
    found,  \* the report_count that the worker's transaction has read
    due,    \* ticks until the worker's next report
    calm    \* ghost: ticks since a start, crash, failed report or deletion

vars == <<row, age, pc, ref, found, due, calm>>

\* service_down_time after API.__init__ has looked at it.
service_down_time ==
    IF DownTime <= Interval THEN (5 * Interval) \div 2 ELSE DownTime

\* Ages are not told apart beyond the horizon.
Horizon == service_down_time + 2 * Interval + 1
Older(n) == IF n < Horizon THEN n + 1 ELSE n

WorkerPC == {"down", "creating", "rereading", "running", "saving", "writing"}
Running(w) == pc[w] \in {"running", "saving", "writing"}

\* Type of the state.
TypeOK ==
    /\ row \in [id : 0..MaxRow, live : BOOLEAN, count : 0..MaxCount]
    /\ age \in 0..Horizon
    /\ pc \in [Worker -> WorkerPC]
    /\ ref \in [Worker -> [id : 0..MaxRow, count : 0..MaxCount]]
    /\ found \in [Worker -> 0..MaxCount]
    /\ due \in [Worker -> Nat]
    /\ calm \in 0..Horizon

Init ==
    /\ row = [id |-> 0, live |-> FALSE, count |-> 0]
    /\ age = 0
    /\ pc = [w \in Worker |-> "down"]
    /\ ref = [w \in Worker |-> [id |-> 0, count |-> 0]]
    /\ found = [w \in Worker |-> 0]
    /\ due = [w \in Worker |-> 0]
    /\ calm = 0

Goto(w, where) == pc' = [pc EXCEPT ![w] = where]

-----------------------------------------------------------------------------
(* Service.start *)

\* The end of start(): the record, or None, is the worker's service_ref, and
\* join() starts the timer of its reports.
Join(w, id, count) ==
    /\ ref' = [ref EXCEPT ![w] = [id |-> id, count |-> count]]
    /\ due' = [due EXCEPT ![w] = InitialDelay]
    /\ Goto(w, "running")

\* get_by_host_and_binary of a live record.
JoinFound(w) == Join(w, row.id, row.count)

\* start() looks for the record.
Start(w) ==
    /\ pc[w] = "down"
    /\ IF row.live THEN JoinFound(w)
       ELSE Goto(w, "creating") /\ UNCHANGED <<ref, due>>
    /\ calm' = 0
    /\ UNCHANGED <<row, age, found>>

\* Fault: the loser of the race goes on without a record.
CreateLost(w) ==
    /\ pc[w] = "creating"
    /\ IF row.live
       THEN Join(w, 0, 0) /\ UNCHANGED <<row, age>>
       ELSE /\ row.id < MaxRow
            /\ row' = [id |-> row.id + 1, live |-> TRUE, count |-> 0]
            /\ age' = 0
            /\ Join(w, row.id + 1, 0)
    /\ calm' = 0
    /\ UNCHANGED found

\* _create_service_ref: the unique constraints let one worker create the
\* record; for the others service_create raises ServiceBinaryExists.
Create(w) ==
    /\ pc[w] = "creating"
    /\ IF row.live
       THEN Goto(w, "rereading") /\ UNCHANGED <<row, age, ref, due>>
       ELSE /\ row.id < MaxRow
            /\ row' = [id |-> row.id + 1, live |-> TRUE, count |-> 0]
            /\ age' = 0
            /\ Join(w, row.id + 1, 0)
    /\ calm' = 0
    /\ UNCHANGED found

\* The loser reads the winner's record, unless it has been deleted.
Reread(w) ==
    /\ pc[w] = "rereading"
    /\ IF row.live THEN JoinFound(w) ELSE Join(w, 0, 0)
    /\ calm' = 0
    /\ UNCHANGED <<row, age, found>>

-----------------------------------------------------------------------------
(* DbDriver._report_state *)

\* The report ends, one way or the other; the timer is set again.
EndReport(w) ==
    /\ found' = [found EXCEPT ![w] = 0]
    /\ due' = [due EXCEPT ![w] = Interval]
    /\ Goto(w, "running")

\* The timer fires: report_count += 1 in the worker, then save().
BeginReport(w) ==
    /\ pc[w] = "running"
    /\ due[w] = 0
    /\ ref[w].count < MaxCount
    /\ ref' = [ref EXCEPT ![w].count = @ + 1]
    /\ Goto(w, "saving")
    /\ UNCHANGED <<row, age, found, due, calm>>

\* service_update gets the record; it raises if there is none of that id.
UpdateRead(w) ==
    /\ pc[w] = "saving"
    /\ IF row.live /\ ref[w].id = row.id
       THEN /\ found' = [found EXCEPT ![w] = row.count]
            /\ Goto(w, "writing")
            /\ UNCHANGED due
       ELSE EndReport(w)
    /\ UNCHANGED <<row, age, ref, calm>>

\* Fault: a count that is not larger is not stored.
UpdateWriteLarger(w) ==
    /\ pc[w] = "writing"
    /\ IF row.live /\ ref[w].id = row.id /\ ref[w].count > found[w]
       THEN row' = [row EXCEPT !.count = ref[w].count] /\ age' = 0
       ELSE UNCHANGED <<row, age>>
    /\ EndReport(w)
    /\ UNCHANGED <<ref, calm>>

\* The transaction ends: the count is stored if it differs from the one that
\* was read, and last_seen_up is set if it is larger.  The record may have
\* been deleted meanwhile.
UpdateWrite(w) ==
    /\ pc[w] = "writing"
    /\ IF row.live /\ ref[w].id = row.id
       THEN /\ row' = IF ref[w].count # found[w]
                      THEN [row EXCEPT !.count = ref[w].count] ELSE row
            /\ age' = IF ref[w].count > found[w] THEN 0 ELSE age
       ELSE UNCHANGED <<row, age>>
    /\ EndReport(w)
    /\ UNCHANGED <<ref, calm>>

\* wrap_db_retry after a database deadlock: service_update begins again.
UpdateRetry(w) ==
    /\ pc[w] = "writing"
    /\ found' = [found EXCEPT ![w] = 0]
    /\ Goto(w, "saving")
    /\ UNCHANGED <<row, age, ref, due, calm>>

\* save() raises: the worker keeps the larger count and goes on.
ReportFails(w) ==
    /\ pc[w] \in {"saving", "writing"}
    /\ EndReport(w)
    /\ calm' = 0
    /\ UNCHANGED <<row, age, ref>>

-----------------------------------------------------------------------------
(* Crashes, the operator and time *)

\* The worker stops or dies, which the record does not show.
Crash(w) ==
    /\ pc[w] # "down"
    /\ Goto(w, "down")
    /\ ref' = [ref EXCEPT ![w] = [id |-> 0, count |-> 0]]
    /\ found' = [found EXCEPT ![w] = 0]
    /\ due' = [due EXCEPT ![w] = 0]
    /\ calm' = 0
    /\ UNCHANGED <<row, age>>

\* The operator deletes the record: service_destroy.
Delete ==
    /\ row.live
    /\ row' = [row EXCEPT !.live = FALSE]
    /\ calm' = 0
    /\ UNCHANGED <<age, pc, ref, found, due>>

\* A tick.  Timers fire in time, and no report is under way.
Tick ==
    /\ \A w \in Worker : pc[w] \notin {"saving", "writing"}
    /\ \A w \in Worker : pc[w] = "running" => due[w] > 0
    /\ age' = Older(age)
    /\ calm' = Older(calm)
    /\ due' = [w \in Worker |-> IF due[w] > 0 THEN due[w] - 1 ELSE 0]
    /\ UNCHANGED <<row, pc, ref, found>>

-----------------------------------------------------------------------------
WorkerStep(w) ==
    \/ Start(w) \/ Create(w) \/ Reread(w)
    \/ BeginReport(w) \/ UpdateRead(w) \/ UpdateWrite(w) \/ UpdateRetry(w)
    \/ ReportFails(w) \/ Crash(w)

Next == Tick \/ Delete \/ \E w \in Worker : WorkerStep(w)

Spec == Init /\ [][Next]_vars

-----------------------------------------------------------------------------
(* Properties *)

\* Fault: the age of the heartbeat is not looked at.
is_upEver == row.live

\* service_is_up for the record.
is_up == row.live /\ age <= service_down_time

\* The worker works with the live record.
Registered(w) == Running(w) /\ row.live /\ ref[w].id = row.id

\* The service of a live worker is up.  Workers that share the record take its
\* report_count back below each other's, and such a report does not count as
\* a sign of life; but two intervals after the last disturbance one has
\* counted, and from then on one does in every interval, so that a
\* service_down_time above the interval, which API.__init__ enforces, is
\* enough.
UpWhenCalm ==
    calm > 2 * Interval /\ (\E w \in Worker : Registered(w)) => is_up

\* A service without workers is down once service_down_time is over: nothing
\* but a worker's report, no late transaction either, renews it.
DownWhenDead ==
    calm > service_down_time /\ (\A w \in Worker : ~Registered(w)) => ~is_up

\* Workers that start together all work with the one live record: the race to
\* create it has one winner, and the others take over the winner's record.
\* Only a deletion takes it away.
RegisteredUnlessDeleted ==
    (row.id <= 1 /\ (row.id = 1 => row.live))
        => \A w \in Worker : Running(w) => Registered(w)
=============================================================================
