--------------------------- MODULE ConnectionLock ---------------------------
(***************************************************************************)
(* The lock around a kombu connection (ConnectionLock of impl_rabbit.py),  *)
(* the worker threads that send through the connection, its heartbeat      *)
(* thread, and close(), which joins that thread.                           *)
(*                                                                         *)
(* Everything between taking and leaving the monitor is one step.  A       *)
(* thread in Condition.wait is in asleep until it is notified; it then has *)
(* to look at the lock again before it goes on.                            *)
(***************************************************************************)
EXTENDS Naturals, FiniteSets

CONSTANTS
    Worker,     \* threads that use the connection
    Heartbeat,  \* the connection's heartbeat thread
    NoOne       \* _lock_acquired is None

\* There are finitely many threads, and the heartbeat thread is not a worker.
ASSUME ThreadAssumption ==
    /\ IsFiniteSet(Worker)
    /\ Heartbeat \notin Worker
    /\ NoOne \notin Worker \cup {Heartbeat}

VARIABLES
    lock_acquired,      \* the thread that holds the lock, or NoOne
    workers_waiting,    \* counter of the workers in acquire's loop
    heartbeat_waiting,  \* flag of heartbeat_acquire's loop
    asleep,             \* threads in Condition.wait that were not notified
    pc,                 \* where each thread is
    exit_event,         \* _heartbeat_exit_event
    connection          \* the kombu connection: "open" or "None"

vars == <<lock_acquired, workers_waiting, heartbeat_waiting, asleep, pc,
          exit_event, connection>>

Thread == Worker \cup {Heartbeat}

WorkerPC == {"idle", "waiting", "holding", "joining"}
HeartbeatPC == {"loop", "asking", "waiting", "holding", "ensuring", "sleeping",
                "ended"}

\* Type of the state.
TypeOK ==
    /\ lock_acquired \in Thread \cup {NoOne}
    /\ workers_waiting \in 0..Cardinality(Worker)
    /\ heartbeat_waiting \in BOOLEAN
    /\ asleep \subseteq Thread
    /\ pc \in [Thread -> WorkerPC \cup HeartbeatPC]
    /\ \A w \in Worker : pc[w] \in WorkerPC
    /\ pc[Heartbeat] \in HeartbeatPC
    /\ exit_event \in BOOLEAN
    /\ connection \in {"open", "None"}

Init ==
    /\ lock_acquired = NoOne
    /\ workers_waiting = 0
    /\ heartbeat_waiting = FALSE
    /\ asleep = {}
    /\ pc = [t \in Thread |-> IF t = Heartbeat THEN "loop" ELSE "idle"]
    /\ exit_event = FALSE
    /\ connection = "open"

Goto(t, where) == pc' = [pc EXCEPT ![t] = where]

\* Somebody has called close() and it has not returned.
Closing == \E w \in Worker : pc[w] = "joining"

-----------------------------------------------------------------------------
(* acquire and release *)

\* Fault: only a waiting heartbeat thread is notified.
NotifyHeartbeatOnly ==
    IF heartbeat_waiting THEN asleep' = asleep \ {Heartbeat}
    ELSE UNCHANGED asleep

\* The end of release(): the heartbeat thread is notified if it waits, else
\* one worker.  A notification without a sleeper is lost.
Notify ==
    IF heartbeat_waiting
    THEN asleep' = asleep \ {Heartbeat}
    ELSE IF workers_waiting > 0 /\ asleep \cap Worker # {}
         THEN \E w \in asleep \cap Worker : asleep' = asleep \ {w}
         ELSE UNCHANGED asleep

\* release() by t.  Its two RuntimeErrors are what OneHolder excludes.
Release(t) ==
    /\ lock_acquired = t
    /\ lock_acquired' = NoOne
    /\ Notify
    /\ UNCHANGED <<workers_waiting, heartbeat_waiting>>

\* acquire() by a worker: at once, or after a wait that this step begins.
Acquire(w) ==
    /\ pc[w] = "idle"
    /\ ~Closing
    /\ IF lock_acquired = NoOne
       THEN /\ lock_acquired' = w
            /\ Goto(w, "holding")
            /\ UNCHANGED <<workers_waiting, asleep>>
       ELSE /\ workers_waiting' = workers_waiting + 1
            /\ asleep' = asleep \cup {w}
            /\ Goto(w, "waiting")
            /\ UNCHANGED lock_acquired
    /\ UNCHANGED <<heartbeat_waiting, exit_event, connection>>

\* Fault: a notified worker takes the lock without looking at it again.
WakeBlindly(w) ==
    /\ pc[w] = "waiting"
    /\ w \notin asleep
    /\ lock_acquired' = w
    /\ workers_waiting' = workers_waiting - 1
    /\ Goto(w, "holding")
    /\ UNCHANGED <<asleep, heartbeat_waiting, exit_event, connection>>

\* A notified worker looks at the lock again: it takes it, or waits again.
Wake(w) ==
    /\ pc[w] = "waiting"
    /\ w \notin asleep
    /\ IF lock_acquired = NoOne
       THEN /\ lock_acquired' = w
            /\ workers_waiting' = workers_waiting - 1
            /\ Goto(w, "holding")
            /\ UNCHANGED asleep
       ELSE /\ asleep' = asleep \cup {w}
            /\ UNCHANGED <<lock_acquired, workers_waiting, pc>>
    /\ UNCHANGED <<heartbeat_waiting, exit_event, connection>>

\* The worker has published (or failed to) and leaves "with _connection_lock".
EndUse(w) ==
    /\ pc[w] = "holding"
    /\ Release(w)
    /\ Goto(w, "idle")
    /\ UNCHANGED <<exit_event, connection>>

-----------------------------------------------------------------------------
(* The heartbeat thread *)

\* The head of the thread's loop.
HeartbeatLoop ==
    /\ pc[Heartbeat] = "loop"
    /\ ~exit_event
    /\ Goto(Heartbeat, "asking")
    /\ UNCHANGED <<lock_acquired, workers_waiting, heartbeat_waiting, asleep,
                   exit_event, connection>>

\* The loop ends once the exit event is set; the event is cleared.
HeartbeatExit ==
    /\ pc[Heartbeat] = "loop"
    /\ exit_event
    /\ exit_event' = FALSE
    /\ Goto(Heartbeat, "ended")
    /\ UNCHANGED <<lock_acquired, workers_waiting, heartbeat_waiting, asleep,
                   connection>>

\* heartbeat_acquire(): a first look, or one after a notification.
HeartbeatAcquire ==
    /\ \/ pc[Heartbeat] = "asking"
       \/ pc[Heartbeat] = "waiting" /\ Heartbeat \notin asleep
    /\ IF lock_acquired = NoOne
       THEN /\ lock_acquired' = Heartbeat
            /\ heartbeat_waiting' = FALSE
            /\ Goto(Heartbeat, "holding")
            /\ UNCHANGED asleep
       ELSE /\ heartbeat_waiting' = TRUE
            /\ asleep' = asleep \cup {Heartbeat}
            /\ Goto(Heartbeat, "waiting")
            /\ UNCHANGED lock_acquired
    /\ UNCHANGED <<workers_waiting, exit_event, connection>>

\* The check fails with a recoverable error: ensure_connection() begins, with
\* the lock held.
HeartbeatLost ==
    /\ pc[Heartbeat] = "holding"
    /\ Goto(Heartbeat, "ensuring")
    /\ UNCHANGED <<lock_acquired, workers_waiting, heartbeat_waiting, asleep,
                   exit_event, connection>>

\* The check is done, or the reconnection has succeeded or raised (which is
\* only logged): the lock is released and the thread sleeps.
HeartbeatRelease ==
    /\ pc[Heartbeat] \in {"holding", "ensuring"}
    /\ Release(Heartbeat)
    /\ Goto(Heartbeat, "sleeping")
    /\ UNCHANGED <<exit_event, connection>>

\* _heartbeat_exit_event.wait ends: the event is set or the time is up.
HeartbeatSlept ==
    /\ pc[Heartbeat] = "sleeping"
    /\ Goto(Heartbeat, "loop")
    /\ UNCHANGED <<lock_acquired, workers_waiting, heartbeat_waiting, asleep,
                   exit_event, connection>>

-----------------------------------------------------------------------------
(* close *)

\* Fault: the exit event is not set.
CloseUnset(w) ==
    /\ connection = "open"
    /\ \A u \in Worker : pc[u] = "idle"
    /\ Goto(w, "joining")
    /\ UNCHANGED <<lock_acquired, workers_waiting, heartbeat_waiting, asleep,
                   exit_event, connection>>

\* close() begins with _heartbeat_stop: set the event, then join.  The caller
\* is the only user of the connection: the pool hands a connection to one
\* thread at a time and closes those that nobody has.
Close(w) ==
    /\ connection = "open"
    /\ \A u \in Worker : pc[u] = "idle"
    /\ exit_event' = TRUE
    /\ Goto(w, "joining")
    /\ UNCHANGED <<lock_acquired, workers_waiting, heartbeat_waiting, asleep,
                   connection>>

\* The heartbeat thread has ended: the connection is released.
ReleaseConnection(w) ==
    /\ pc[w] = "joining"
    /\ pc[Heartbeat] = "ended"
    /\ connection' = "None"
    /\ Goto(w, "idle")
    /\ UNCHANGED <<lock_acquired, workers_waiting, heartbeat_waiting, asleep,
                   exit_event>>

-----------------------------------------------------------------------------
HeartbeatStep ==
    \/ HeartbeatLoop \/ HeartbeatExit \/ HeartbeatAcquire
    \/ HeartbeatLost \/ HeartbeatRelease \/ HeartbeatSlept

WorkerStep(w) ==
    \/ Acquire(w) \/ Wake(w) \/ EndUse(w)
    \/ Close(w) \/ ReleaseConnection(w)

Next == HeartbeatStep \/ \E w \in Worker : WorkerStep(w)

Spec == Init /\ [][Next]_vars

\* Threads that are not asleep run, a use of the connection ends, and so does
\* a reconnection.  Nobody has to ask for the lock or to close.
Fairness ==
    /\ WF_vars(HeartbeatLoop \/ HeartbeatExit)
    /\ WF_vars(HeartbeatAcquire)
    /\ WF_vars(HeartbeatRelease)
    /\ WF_vars(HeartbeatSlept)
    /\ \A w \in Worker : WF_vars(Wake(w)) /\ WF_vars(EndUse(w))
                         /\ WF_vars(ReleaseConnection(w))

FairSpec == Spec /\ Fairness

-----------------------------------------------------------------------------
(* Properties *)

Waiting == {t \in Thread : pc[t] = "waiting"}

\* At most one thread is inside the lock, and it is the one the lock names: no
\* two threads ever use the kombu connection at once, and release() never
\* meets a lock that is free or somebody else's.
OneHolder ==
    \A t \in Thread : pc[t] \in {"holding", "ensuring"} <=> lock_acquired = t

\* No lost wakeup: when the lock is free and threads wait for it, one of them
\* has been notified, although release() notifies only one, newcomers get in
\* between and a notified thread may have to wait again.
NoLostWakeup ==
    lock_acquired = NoOne /\ Waiting # {} => Waiting \ asleep # {}

\* The heartbeat thread comes first in release(): it never sleeps on while the
\* lock is free, whoever else waits.
HeartbeatNotified ==
    lock_acquired = NoOne => Heartbeat \notin asleep

\* The two notes release() decides by, the counter and the flag, say exactly
\* who waits, across waits that begin again.
WaitingNoted ==
    /\ workers_waiting = Cardinality(Waiting \cap Worker)
    /\ heartbeat_waiting <=> pc[Heartbeat] = "waiting"

\* close() releases the connection only after its heartbeat thread has ended,
\* so that the thread never works on a connection that is gone.
ClosedAfterHeartbeat ==
    connection = "None" => pc[Heartbeat] = "ended"

\* close() returns: the join cannot wait for a thread that waits for the lock
\* for ever.
CloseEnds == Closing ~> ~Closing
=============================================================================
