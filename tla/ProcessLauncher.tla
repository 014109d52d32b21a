--------------------------- MODULE ProcessLauncher --------------------------
(***************************************************************************)
(* ProcessLauncher of oslo_service/service.py: a parent that keeps a       *)
(* number of worker processes, its signals, and the workers' own reaction  *)
(* to SIGTERM and to the death of the parent.                              *)
(*                                                                         *)
(* A signal that meets an installed handler only spawns a callback, which  *)
(* runs when the parent yields; a signal that meets SIG_DFL kills.  The    *)
(* limit of one fork a second is a pause in which the parent yields.       *)
(***************************************************************************)
EXTENDS Naturals, Sequences, FiniteSets

CONSTANTS
    Child,       \* process ids of workers
    Workers,     \* number of workers the service asks for
    Daemon,      \* the parent is not run from a terminal
    MaxSignals   \* bound: signals that are sent to the parent

\* There are pids for all workers.
ASSUME LauncherAssumption ==
    /\ IsFiniteSet(Child)
    /\ Workers \in Nat \ {0}
    /\ Daemon \in BOOLEAN
    /\ MaxSignals \in Nat

VARIABLES
    parent,     \* where the parent is
    launching,  \* the parent is in launch_service
    running,    \* ProcessLauncher.running
    sigcaught,  \* ProcessLauncher.sigcaught
    handlers,   \* the parent's handlers are installed
    pending,    \* callbacks of signals that have not run
    timeout,    \* conf.graceful_shutdown_timeout is not zero
    alarm,      \* the timer of the graceful shutdown is set
    children,   \* ProcessLauncher.children
    child,      \* what each worker process is doing
    signals     \* number of signals sent to the parent

vars == <<parent, launching, running, sigcaught, handlers, pending, timeout,
          alarm, children, child, signals>>

Signo == {"SIGTERM", "SIGHUP", "SIGINT"}
ParentPC == {"filling", "starting", "top", "respawn", "caught", "reloading",
             "stopping", "waiting", "returned", "dead"}

\* A worker is not there, has been forked and still has the parent's handlers
\* and hub, serves, shuts down, hangs in that, or has ended and is not reaped.
ChildState == {"none", "forked", "up", "stopping", "stuck", "zombie"}

\* Type of the state.
TypeOK ==
    /\ parent \in ParentPC
    /\ {launching, running, handlers, timeout, alarm} \subseteq BOOLEAN
    /\ sigcaught \in {"SIGTERM", "SIGHUP", "none"}
    /\ pending \in Seq(Signo)
    /\ children \subseteq Child
    /\ child \in [Child -> ChildState]
    /\ signals \in 0..MaxSignals

\* The constructor has installed the handlers; launch_service begins.  A zero
\* graceful_shutdown_timeout asks for an endless wait.
Init ==
    /\ parent = "filling"
    /\ launching = TRUE
    /\ running = TRUE
    /\ sigcaught = "none"
    /\ handlers = TRUE
    /\ pending = <<>>
    /\ timeout \in BOOLEAN
    /\ alarm = FALSE
    /\ children = {}
    /\ child = [c \in Child |-> "none"]
    /\ signals = 0

Gone == parent \in {"returned", "dead"}
Alive == {c \in Child : child[c] # "none"}

-----------------------------------------------------------------------------
(* Signals to the parent *)

\* A signal: its callback is spawned, or the process dies of it.
Signal(s) ==
    /\ ~Gone
    /\ signals < MaxSignals
    /\ signals' = signals + 1
    /\ IF handlers THEN pending' = Append(pending, s) /\ UNCHANGED parent
                   ELSE parent' = "dead" /\ UNCHANGED pending
    /\ UNCHANGED <<launching, running, sigcaught, handlers, timeout, alarm,
                   children, child>>

\* The parent dies of what it cannot handle, at any moment.
Killed ==
    /\ ~Gone
    /\ parent' = "dead"
    /\ UNCHANGED <<launching, running, sigcaught, handlers, pending, timeout,
                   alarm, children, child, signals>>

\* Where the parent yields to greenthreads: asleep in _respawn_children or
\* between two forks, and in the reset() and stop() of its services.
Yields == parent \in {"respawn", "reloading", "stopping"}
          \/ (parent = "starting" /\ ~launching)

\* _handle_signal_cb: a callback that finds no handlers does nothing.
\* _handle_signal notes the signal and removes all handlers; _fast_exit, the
\* handler of SIGINT, ends the process.
Callback ==
    /\ Yields
    /\ pending # <<>>
    /\ pending' = Tail(pending)
    /\ \/ /\ ~handlers
          /\ UNCHANGED <<parent, running, sigcaught, handlers>>
       \/ /\ handlers
          /\ Head(pending) = "SIGINT"
          /\ parent' = "dead"
          /\ UNCHANGED <<running, sigcaught, handlers>>
       \/ /\ handlers
          /\ Head(pending) # "SIGINT"
          /\ sigcaught' = Head(pending)
          /\ running' = FALSE
          /\ handlers' = FALSE
          /\ UNCHANGED parent
    /\ UNCHANGED <<launching, timeout, alarm, children, child, signals>>

-----------------------------------------------------------------------------
(* Keeping the number of workers *)

\* The inner loop of launch_service and of _respawn_children.
Fill ==
    /\ parent = "filling"
    /\ IF running /\ Cardinality(children) < Workers
       THEN parent' = "starting" /\ UNCHANGED launching
       ELSE /\ parent' = IF launching THEN "top" ELSE "respawn"
            /\ launching' = FALSE
    /\ UNCHANGED <<running, sigcaught, handlers, pending, timeout, alarm,
                   children, child, signals>>

\* Fault: the new process is not noted.
ForkUnnoted ==
    /\ parent = "starting"
    /\ \E c \in Child : /\ child[c] = "none"
                        /\ child' = [child EXCEPT ![c] = "forked"]
    /\ parent' = "filling"
    /\ UNCHANGED <<launching, running, sigcaught, handlers, pending, timeout,
                   alarm, children, signals>>

\* _start_child forks, also when running became false in its pause.
Fork ==
    /\ parent = "starting"
    /\ \E c \in Child : /\ child[c] = "none"
                        /\ child' = [child EXCEPT ![c] = "forked"]
                        /\ children' = children \cup {c}
    /\ parent' = "filling"
    /\ UNCHANGED <<launching, running, sigcaught, handlers, pending, timeout,
                   alarm, signals>>

\* wait(): the head of its loop.
InstallHandlers ==
    /\ parent = "top"
    /\ handlers' = TRUE
    /\ parent' = "respawn"
    /\ UNCHANGED <<launching, running, sigcaught, pending, timeout, alarm,
                   children, child, signals>>

\* _wait_child finds a process that has ended.
Reap(c) ==
    /\ child[c] = "zombie"
    /\ child' = [child EXCEPT ![c] = "none"]
    /\ children' = children \ {c}

\* Fault: a dead worker is reaped and not replaced.
RespawnNot ==
    /\ parent = "respawn"
    /\ running
    /\ \E c \in children : Reap(c)
    /\ UNCHANGED <<parent, launching, running, sigcaught, handlers, pending,
                   timeout, alarm, signals>>

\* _respawn_children: a worker has ended and is replaced.
Respawn ==
    /\ parent = "respawn"
    /\ running
    /\ \E c \in children : Reap(c)
    /\ parent' = "filling"
    /\ UNCHANGED <<launching, running, sigcaught, handlers, pending, timeout,
                   alarm, signals>>

\* Fault: the graceful shutdown timer is not set.
CaughtNoAlarm ==
    /\ parent = "respawn"
    /\ ~running
    /\ parent' = IF sigcaught = "SIGHUP" /\ Daemon THEN "reloading"
                 ELSE "stopping"
    /\ UNCHANGED <<launching, running, sigcaught, handlers, pending, timeout,
                   alarm, children, child, signals>>

\* The loop ends: a daemon reloads on SIGHUP; otherwise the timer of the
\* graceful shutdown is set, unless the wait is to be endless, and the parent
\* stops.
Caught ==
    /\ parent = "respawn"
    /\ ~running
    /\ parent' = IF sigcaught = "SIGHUP" /\ Daemon THEN "reloading"
                 ELSE "stopping"
    /\ alarm' = (timeout /\ ~(sigcaught = "SIGHUP" /\ Daemon))
    /\ UNCHANGED <<launching, running, sigcaught, handlers, pending, timeout,
                   children, child, signals>>

-----------------------------------------------------------------------------
(* Reloading and stopping *)

\* What SIGTERM does to a worker: it shuts down; it loses the signal if it is
\* still on its way to a hub of its own, or dies of it before its handlers are
\* installed; a second one kills it, or finds the first one's callback waiting.
Terminated(s) ==
    CASE s = "forked"   -> {"forked", "zombie"}
      [] s = "up"       -> {"stopping"}
      [] s = "stopping" -> {"stopping", "zombie"}
      [] s = "stuck"    -> {"stuck", "zombie"}
      [] OTHER          -> {s}

\* os.kill(pid, SIGTERM) for all children.
KillChildren ==
    \E after \in [children -> ChildState] :
        /\ \A c \in children : after[c] \in Terminated(child[c])
        /\ child' = [c \in Child |-> IF c \in children THEN after[c]
                                     ELSE child[c]]

\* SIGHUP: the configuration is read again, the services are reset, the workers
\* told to go, and wait() goes on.
Reload ==
    /\ parent = "reloading"
    /\ KillChildren
    /\ running' = TRUE
    /\ sigcaught' = "none"
    /\ timeout' \in BOOLEAN
    /\ parent' = "top"
    /\ UNCHANGED <<launching, handlers, pending, alarm, children, signals>>

\* stop(): the workers are told to go.
Stop ==
    /\ parent = "stopping"
    /\ KillChildren
    /\ running' = FALSE
    /\ parent' = "waiting"
    /\ UNCHANGED <<launching, sigcaught, handlers, pending, timeout, alarm,
                   children, signals>>

\* stop() waits for them, in a loop that does not yield.
WaitChild ==
    /\ parent = "waiting"
    /\ \E c \in children : Reap(c)
    /\ UNCHANGED <<parent, launching, running, sigcaught, handlers, pending,
                   timeout, alarm, signals>>

\* All workers are gone: stop() and wait() return.
Return ==
    /\ parent = "waiting"
    /\ children = {}
    /\ parent' = "returned"
    /\ UNCHANGED <<launching, running, sigcaught, handlers, pending, timeout,
                   alarm, children, child, signals>>

\* graceful_shutdown_timeout is over.  With handlers installed, the callback
\* of SIGALRM would never run: stop() does not yield.
Alarm ==
    /\ alarm
    /\ ~Gone
    /\ ~handlers
    /\ parent' = "dead"
    /\ UNCHANGED <<launching, running, sigcaught, handlers, pending, timeout,
                   alarm, children, child, signals>>

-----------------------------------------------------------------------------
(* Workers *)

ChildGoto(c, where) ==
    /\ child' = [child EXCEPT ![c] = where]
    /\ UNCHANGED <<parent, launching, running, sigcaught, handlers, pending,
                   timeout, alarm, children, signals>>

\* What is left of a process: nothing, once its parent is init.
Ended == IF Gone THEN "none" ELSE "zombie"

\* _child_process: own handlers, own hub, the write end of the pipe closed.
ChildUp(c) == child[c] = "forked" /\ ChildGoto(c, "up")

\* A worker dies unexpectedly.
ChildCrash(c) == child[c] \in {"forked", "up"} /\ ChildGoto(c, Ended)

\* The shutdown of a worker ends, or hangs.
ChildEnd(c) == child[c] = "stopping" /\ ChildGoto(c, Ended)
ChildHang(c) == child[c] = "stopping" /\ ChildGoto(c, "stuck")

\* Reaping by init.
InitReap(c) == Gone /\ child[c] = "zombie" /\ ChildGoto(c, "none")

\* Fault: the workers keep the write end of the pipe open.
PipeKept(c) ==
    /\ Gone
    /\ Alive = {}
    /\ child[c] = "up"
    /\ ChildGoto(c, "stopping")

\* _pipe_watcher: the parent is dead, and no sibling that was just forked has
\* the write end open.
PipeClosed(c) ==
    /\ Gone
    /\ \A d \in Child : child[d] # "forked"
    /\ child[c] = "up"
    /\ ChildGoto(c, "stopping")

-----------------------------------------------------------------------------
ParentStep ==
    \/ Fill \/ Fork \/ InstallHandlers \/ Respawn \/ Caught \/ Reload \/ Stop
    \/ WaitChild \/ Return

ChildStep(c) ==
    \/ ChildUp(c) \/ ChildCrash(c) \/ ChildEnd(c) \/ ChildHang(c)
    \/ InitReap(c) \/ PipeClosed(c)

Next ==
    \/ ParentStep \/ Callback \/ Alarm \/ Killed
    \/ \E s \in Signo : Signal(s)
    \/ \E c \in Child : ChildStep(c)

Spec == Init /\ [][Next]_vars

\* The parent runs and its callbacks do, a timer that is set goes off, and
\* workers start and shut down, unless they hang.  Nobody has to send a signal
\* or to die.
Fairness ==
    /\ WF_vars(ParentStep)
    /\ WF_vars(Callback)
    /\ WF_vars(Alarm)
    /\ \A c \in Child :
           WF_vars(ChildUp(c) \/ ChildEnd(c) \/ InitReap(c) \/ PipeClosed(c))

FairSpec == Spec /\ Fairness

-----------------------------------------------------------------------------
(* Properties *)

\* The parent knows exactly its processes, never more than it was asked for:
\* none is forgotten by a fork or a reload that a signal interrupts, and none
\* is left when it comes to the end of stop().
ChildrenKnown ==
    /\ ~Gone => children = Alive /\ Cardinality(children) <= Workers
    /\ parent = "returned" => Alive = {}

\* Once it shuts down the parent has no handlers, so that the next signal kills
\* it: stop() waits in a loop in which no handler could run.  One such signal
\* is on its way, the end of the timer, exactly if the configuration read last
\* asks for a timeout.
Killable ==
    parent \in {"stopping", "waiting"} =>
        ~handlers /\ ~running /\ (alarm <=> timeout)

\* A signal is noted together with the removal of the handlers, and the notes
\* are taken back together.
Noted ==
    (parent \in {"respawn", "filling", "starting"})
        => (handlers <=> running) /\ (running <=> sigcaught = "none")

\* Workers that run, or are about to.
Living == {c \in children : child[c] # "zombie"}

\* Workers that die are replaced: once no more of them die, the parent has its
\* full number of living ones for good, dead ones it has not reaped left out,
\* unless it has noted a signal or has ended.
Refilled ==
    <>[][\A c \in Child : child'[c] = "zombie" => child[c] = "zombie"]_vars
        => <>[](Cardinality(Living) = Workers \/ ~running \/ Gone)

\* What a graceful_shutdown_timeout of zero asks for: stop() waits without end
\* for a worker that hangs, or that has lost its SIGTERM between the fork and
\* its own hub.
EndlessWait ==
    /\ parent = "waiting"
    /\ ~timeout
    /\ \E c \in children : child[c] \in {"up", "stuck"}

\* A parent that has noticed SIGTERM ends.  With a timeout it does so also when
\* workers hang or have lost their SIGTERM; without one only such workers keep
\* it.
TermEnds == sigcaught = "SIGTERM" ~> Gone \/ EndlessWait

\* However the parent ends (after stop(), by the timer, by a signal it does not
\* handle, by _fast_exit), its workers do, the ones that hang apart.
OrphansEnd == Gone ~> \A c \in Child : child[c] \in {"none", "stuck"}
=============================================================================
