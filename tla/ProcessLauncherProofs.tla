----------------------- MODULE ProcessLauncherProofs ------------------------
(***************************************************************************)
(* Proofs about ProcessLauncher, for any number of workers, process ids    *)
(* and signals.                                                            *)
(***************************************************************************)
EXTENDS ProcessLauncher, FiniteSetTheorems, TLAPS

\* The parent forks only while a worker is missing, runs its loops only while
\* no signal is noted, and has no handlers when it reloads.
Steps ==
    /\ parent = "starting" => Cardinality(children) < Workers
    /\ launching => running /\ (Gone \/ parent \in {"filling", "starting"})
    /\ parent = "top" => running /\ sigcaught = "none"
    /\ parent = "reloading" => ~handlers

\* The inductive invariant.
LauncherInv == TypeOK /\ ChildrenKnown /\ Killable /\ Noted /\ Steps

LEMMA ChildrenFinite ==
    ASSUME TypeOK
    PROVE  IsFiniteSet(children) /\ Cardinality(children) \in Nat
  BY LauncherAssumption, FS_Subset, FS_CardinalityType DEF TypeOK

LEMMA LauncherInitial == Init => LauncherInv
  <1> SUFFICES ASSUME Init PROVE LauncherInv
    OBVIOUS
  <1> USE LauncherAssumption DEF Init
  <1>1. TypeOK
    <2>1. /\ parent \in ParentPC
          /\ sigcaught \in {"SIGTERM", "SIGHUP", "none"}
          /\ pending \in Seq(Signo)
          /\ children \subseteq Child
          /\ child \in [Child -> ChildState]
          /\ signals \in 0..MaxSignals
      BY DEF ParentPC, Signo, ChildState
    <2> QED
      BY <2>1 DEF TypeOK
  <1>2. Cardinality(children) = 0 /\ Alive = {}
    BY FS_EmptySet DEF Alive
  <1>3. ChildrenKnown
    BY <1>2 DEF ChildrenKnown, Gone
  <1>4. Killable /\ Noted /\ Steps
    BY DEF Killable, Noted, Steps
  <1> QED
    BY <1>1, <1>3, <1>4 DEF LauncherInv

\* Steps of the parent that neither fork, kill nor reap.
LEMMA ParentKeeps ==
    ASSUME LauncherInv,
           \/ Fill \/ InstallHandlers \/ Caught \/ Return \/ Alarm \/ Killed \/ Callback
           \/ \E s \in Signo : Signal(s)
    PROVE  LauncherInv'
  <1> USE LauncherAssumption DEF LauncherInv
  <1>1. UNCHANGED <<children, child>>
    BY DEF Fill, InstallHandlers, Caught, Return, Alarm, Killed, Callback, Signal
  <1>2. Alive' = Alive
    BY <1>1 DEF Alive
  <1>3. CASE Fill
    <2>1. TypeOK'
      BY <1>1, <1>3 DEF TypeOK, Fill, ParentPC
    <2>2. ChildrenKnown' /\ Killable'
      BY <1>1, <1>2, <1>3 DEF ChildrenKnown, Killable, Gone, Fill
    <2>3. Noted' /\ Steps'
      BY <1>1, <1>3 DEF Noted, Steps, Gone, Fill
    <2> QED
      BY <2>1, <2>2, <2>3
  <1>4. CASE InstallHandlers
    <2>1. TypeOK'
      BY <1>1, <1>4 DEF TypeOK, InstallHandlers, ParentPC
    <2>2. ChildrenKnown' /\ Killable'
      BY <1>1, <1>2, <1>4 DEF ChildrenKnown, Killable, Gone, InstallHandlers
    <2>3. Noted' /\ Steps'
      BY <1>1, <1>4 DEF Noted, Steps, Gone, InstallHandlers
    <2> QED
      BY <2>1, <2>2, <2>3
  <1>5. CASE Caught
    <2>1. TypeOK'
      BY <1>1, <1>5 DEF TypeOK, Caught, ParentPC
    <2>2. ChildrenKnown' /\ Killable'
      BY <1>1, <1>2, <1>5 DEF ChildrenKnown, Killable, Gone, Caught, Noted
    <2>3. Noted' /\ Steps'
      BY <1>1, <1>5 DEF Noted, Steps, Gone, Caught
    <2> QED
      BY <2>1, <2>2, <2>3
  <1>6. CASE Return \/ Alarm \/ Killed
    <2>1. TypeOK'
      BY <1>1, <1>6 DEF TypeOK, Return, Alarm, Killed, ParentPC
    <2>2. ChildrenKnown' /\ Killable'
      BY <1>1, <1>2, <1>6 DEF ChildrenKnown, Killable, Gone, Return, Alarm, Killed
    <2>3. Noted' /\ Steps'
      BY <1>1, <1>6 DEF Noted, Steps, Gone, Return, Alarm, Killed
    <2> QED
      BY <2>1, <2>2, <2>3
  <1>7. CASE Callback
    <2>1. pending' \in Seq(Signo) /\ Head(pending) \in Signo
      BY <1>7 DEF TypeOK, Callback
    <2>2. TypeOK'
      BY <1>1, <1>7, <2>1 DEF TypeOK, Callback, ParentPC, Signo
    <2>3. ChildrenKnown' /\ Killable'
      BY <1>1, <1>2, <1>7 DEF ChildrenKnown, Killable, Gone, Callback
    <2>4. Noted' /\ Steps'
      BY <1>1, <1>7, <2>1 DEF Noted, Steps, Gone, Callback, Yields, Signo
    <2> QED
      BY <2>2, <2>3, <2>4
  <1>8. ASSUME NEW s \in Signo, Signal(s) PROVE LauncherInv'
    <2>1. TypeOK'
      <3>1. pending' \in Seq(Signo) /\ signals' \in 0..MaxSignals
        BY <1>8 DEF TypeOK, Signal
      <3> QED
        BY <1>1, <1>8, <3>1 DEF TypeOK, Signal, ParentPC
    <2>2. ChildrenKnown' /\ Killable'
      BY <1>1, <1>2, <1>8 DEF ChildrenKnown, Killable, Gone, Signal
    <2>3. Noted' /\ Steps'
      BY <1>1, <1>8 DEF Noted, Steps, Gone, Signal
    <2> QED
      BY <2>1, <2>2, <2>3
  <1> QED
    BY <1>3, <1>4, <1>5, <1>6, <1>7, <1>8

LEMMA ForkKeeps ==
    ASSUME LauncherInv, Fork
    PROVE  LauncherInv'
  <1> USE LauncherAssumption DEF LauncherInv
  <1>1. PICK c \in Child : /\ child[c] = "none"
                           /\ child' = [child EXCEPT ![c] = "forked"]
                           /\ children' = children \cup {c}
    BY DEF Fork
  <1>2. /\ parent = "starting" /\ parent' = "filling"
        /\ UNCHANGED <<launching, running, sigcaught, handlers, pending, timeout, alarm, signals>>
    BY DEF Fork
  <1>3. TypeOK'
    BY <1>1, <1>2 DEF TypeOK, ParentPC, ChildState
  <1>4. children = Alive /\ Cardinality(children) < Workers
    BY <1>2 DEF ChildrenKnown, Gone, Steps
  <1>5. children' = Alive'
    BY <1>1, <1>4 DEF Alive, TypeOK
  <1>6. Cardinality(children') <= Workers
    <2>1. c \notin children
      BY <1>1, <1>4 DEF Alive
    <2>2. Cardinality(children') = Cardinality(children) + 1
      BY <1>1, <2>1, ChildrenFinite, FS_AddElement
    <2> QED
      BY <1>4, <2>2, ChildrenFinite
  <1>7. ChildrenKnown'
    BY <1>2, <1>5, <1>6 DEF ChildrenKnown
  <1>8. Killable' /\ Noted' /\ Steps'
    BY <1>2 DEF Killable, Noted, Steps, Gone
  <1> QED
    BY <1>3, <1>7, <1>8

LEMMA ReapKeeps ==
    ASSUME LauncherInv, Respawn \/ WaitChild
    PROVE  LauncherInv'
  <1> USE LauncherAssumption DEF LauncherInv
  <1>1. PICK c \in children : /\ child[c] = "zombie"
                              /\ child' = [child EXCEPT ![c] = "none"]
                              /\ children' = children \ {c}
    BY DEF Respawn, WaitChild, Reap
  <1>2. /\ \/ parent = "respawn" /\ running /\ parent' = "filling"
           \/ parent = "waiting" /\ parent' = parent
        /\ UNCHANGED <<launching, running, sigcaught, handlers, pending, timeout, alarm, signals>>
    BY DEF Respawn, WaitChild
  <1>3. TypeOK'
    BY <1>1, <1>2 DEF TypeOK, ParentPC, ChildState
  <1>4. children = Alive /\ Cardinality(children) <= Workers
    BY <1>2 DEF ChildrenKnown, Gone
  <1>5. children' = Alive'
    BY <1>1, <1>4 DEF Alive, TypeOK
  <1>6. Cardinality(children') <= Workers
    <2>1. Cardinality(children') = Cardinality(children) - 1
      BY <1>1, ChildrenFinite, FS_RemoveElement
    <2> QED
      BY <1>4, <2>1, ChildrenFinite
  <1>7. ChildrenKnown'
    BY <1>2, <1>5, <1>6 DEF ChildrenKnown
  <1>8. Killable' /\ Noted' /\ Steps'
    BY <1>2 DEF Killable, Noted, Steps, Gone
  <1> QED
    BY <1>3, <1>7, <1>8

\* SIGTERM never makes a process appear, nor disappear before it is reaped.
LEMMA TerminatedStays ==
    ASSUME NEW s \in ChildState, NEW u \in Terminated(s)
    PROVE  u \in ChildState /\ (u = "none" <=> s = "none")
  BY DEF Terminated, ChildState

LEMMA KillKeeps ==
    ASSUME LauncherInv, Reload \/ Stop
    PROVE  LauncherInv'
  <1> USE LauncherAssumption DEF LauncherInv
  <1>1. PICK after \in [children -> ChildState] :
            /\ \A c \in children : after[c] \in Terminated(child[c])
            /\ child' = [c \in Child |-> IF c \in children THEN after[c] ELSE child[c]]
    BY DEF Reload, Stop, KillChildren
  <1>2. /\ \/ /\ parent = "reloading" /\ parent' = "top"
              /\ running' = TRUE /\ sigcaught' = "none" /\ timeout' \in BOOLEAN
           \/ /\ parent = "stopping" /\ parent' = "waiting"
              /\ running' = FALSE /\ sigcaught' = sigcaught /\ timeout' = timeout
        /\ UNCHANGED <<launching, handlers, pending, alarm, children, signals>>
    BY DEF Reload, Stop
  <1>3. \A c \in Child : child'[c] \in ChildState /\ (child'[c] = "none" <=> child[c] = "none")
    BY <1>1, TerminatedStays DEF TypeOK
  <1>4. TypeOK'
    <2>1. child' \in [Child -> ChildState]
      BY <1>1, <1>3
    <2> QED
      BY <1>2, <2>1 DEF TypeOK, ParentPC, Signo
  <1>5. Alive' = Alive
    BY <1>3 DEF Alive
  <1>6. ChildrenKnown'
    BY <1>2, <1>5 DEF ChildrenKnown, Gone
  <1>7. Killable' /\ Noted' /\ Steps'
    BY <1>2 DEF Killable, Noted, Steps, Gone
  <1> QED
    BY <1>4, <1>6, <1>7

LEMMA ChildKeeps ==
    ASSUME LauncherInv, NEW c \in Child, ChildStep(c)
    PROVE  LauncherInv'
  <1> USE LauncherAssumption DEF LauncherInv
  <1>1. PICK where \in ChildState :
            /\ child[c] # "none"
            /\ child' = [child EXCEPT ![c] = where]
            /\ ~Gone => where # "none"
    BY DEF ChildStep, ChildUp, ChildCrash, ChildEnd, ChildHang, InitReap, PipeClosed, ChildGoto,
           Ended, ChildState
  <1>2. UNCHANGED <<parent, launching, running, sigcaught, handlers, pending, timeout, alarm,
                    children, signals>>
    BY DEF ChildStep, ChildUp, ChildCrash, ChildEnd, ChildHang, InitReap, PipeClosed, ChildGoto
  <1>3. TypeOK'
    BY <1>1, <1>2 DEF TypeOK
  <1>4. (~Gone => Alive' = Alive) /\ Alive # {}
    BY <1>1 DEF Alive, TypeOK
  <1>5. ChildrenKnown'
    BY <1>2, <1>4 DEF ChildrenKnown, Gone
  <1>6. Killable' /\ Noted' /\ Steps'
    BY <1>2 DEF Killable, Noted, Steps, Gone
  <1> QED
    BY <1>3, <1>5, <1>6

LEMMA LauncherStep == LauncherInv /\ [Next]_vars => LauncherInv'
  <1> SUFFICES ASSUME LauncherInv, [Next]_vars PROVE LauncherInv'
    OBVIOUS
  <1>1. CASE ParentStep
    BY <1>1, ParentKeeps, ForkKeeps, ReapKeeps, KillKeeps DEF ParentStep
  <1>2. CASE Callback \/ Alarm \/ Killed \/ \E s \in Signo : Signal(s)
    BY <1>2, ParentKeeps
  <1>3. CASE \E c \in Child : ChildStep(c)
    BY <1>3, ChildKeeps
  <1>4. CASE UNCHANGED vars
    BY <1>4
    DEF vars, LauncherInv, TypeOK, ChildrenKnown, Killable, Noted, Steps, Gone, Alive
  <1> QED
    BY <1>1, <1>2, <1>3, <1>4 DEF Next

\* The inductive invariant holds throughout.
THEOREM LauncherInvariant == Spec => []LauncherInv
  BY LauncherInitial, LauncherStep, PTL DEF Spec

\* Every variable of the launcher keeps its type.
THEOREM LauncherTypeCorrect == Spec => []TypeOK
  BY LauncherInvariant, PTL DEF LauncherInv

\* The children the parent keeps are exactly its living processes, however
\* signals, forks, deaths and reloads interleave.
THEOREM ParentKnowsChildren == Spec => []ChildrenKnown
  BY LauncherInvariant, PTL DEF LauncherInv

\* A parent in stop() dies of the next signal, and the timer sends it one
\* exactly if graceful_shutdown_timeout is not zero, whatever reloads changed.
THEOREM StoppingIsKillable == Spec => []Killable
  BY LauncherInvariant, PTL DEF LauncherInv

-----------------------------------------------------------------------------
(* The number of workers, and what SIGTERM decides *)

Missing == Workers - Cardinality(children)

\* Outside of its two loops the parent misses no worker; within them it goes on
\* forking while it misses one, which after launch_service is a single one;
\* and it reloads for SIGHUP only.
StaffInv ==
    /\ parent \in {"top", "respawn", "reloading", "stopping"} => Missing = 0
    /\ parent = "filling" /\ Missing > 0 => running
    /\ parent \in {"filling", "starting"} /\ ~launching => Missing <= 1
    /\ parent = "reloading" => sigcaught = "SIGHUP"

LEMMA StaffStep == LauncherInv /\ StaffInv /\ [Next]_vars => StaffInv'
  <1> SUFFICES ASSUME LauncherInv, StaffInv, [Next]_vars PROVE StaffInv'
    OBVIOUS
  <1>0. /\ TypeOK /\ Noted /\ Killable /\ Steps /\ ChildrenKnown
        /\ IsFiniteSet(children) /\ Cardinality(children) \in Nat /\ Workers \in Nat
    BY ChildrenFinite, LauncherAssumption DEF LauncherInv
  <1>1. CASE Fill
    <2>1. UNCHANGED <<children, running, sigcaught>> /\ parent = "filling" /\ Cardinality(children) <= Workers
      BY <1>0, <1>1 DEF Fill, ChildrenKnown, Gone
    <2>2. CASE running /\ Cardinality(children) < Workers
      <3>1. parent' = "starting" /\ launching' = launching
        BY <1>1, <2>2 DEF Fill
      <3> QED
        BY <2>1, <3>1 DEF StaffInv, Missing
    <2>3. CASE ~(running /\ Cardinality(children) < Workers)
      <3>1. parent' \in {"top", "respawn"}
        BY <1>1, <2>3 DEF Fill
      <3>2. Missing = 0
        BY <1>0, <2>1, <2>3 DEF StaffInv, Missing
      <3> QED
        BY <2>1, <3>1, <3>2 DEF StaffInv, Missing
    <2> QED
      BY <2>2, <2>3
  <1>2. CASE Fork
    <2>1. PICK c \in Child : child[c] = "none" /\ children' = children \cup {c}
      BY <1>2 DEF Fork
    <2>2. c \notin children
      BY <1>0, <1>2, <2>1 DEF Fork, ChildrenKnown, Gone, Alive
    <2>3. Cardinality(children') = Cardinality(children) + 1
      BY <1>0, <2>1, <2>2, FS_AddElement
    <2>4. /\ parent = "starting" /\ parent' = "filling" /\ launching' = launching
          /\ running' = running /\ Cardinality(children) < Workers
      BY <1>0, <1>2 DEF Fork, Steps
    <2>5. Missing' > 0 => running
      <3>1. Missing' = Missing - 1
        BY <1>0, <2>3 DEF Missing
      <3>2. ~launching => Missing <= 1
        BY <2>4 DEF StaffInv
      <3>3. launching => running
        BY <1>0 DEF Steps
      <3>4. Missing \in Int
        BY <1>0 DEF Missing
      <3> QED
        BY <3>1, <3>2, <3>3, <3>4
    <2>6. ~launching => Missing' <= 1
      BY <1>0, <2>3, <2>4 DEF StaffInv, Missing
    <2> QED
      BY <2>4, <2>5, <2>6 DEF StaffInv
  <1>3. CASE Respawn \/ WaitChild
    <2>1. PICK c \in children : children' = children \ {c}
      BY <1>3 DEF Respawn, WaitChild, Reap
    <2>2. Cardinality(children') = Cardinality(children) - 1
      BY <1>0, <2>1, FS_RemoveElement
    <2>3. CASE Respawn
      <3>1. Missing = 0 /\ Missing' = Missing + 1
        BY <1>0, <2>2, <2>3 DEF Respawn, StaffInv, Missing
      <3> QED
        BY <2>3, <3>1 DEF Respawn, StaffInv
    <2>4. CASE WaitChild
      BY <2>4 DEF WaitChild, StaffInv
    <2> QED
      BY <1>3, <2>3, <2>4
  <1>4. CASE InstallHandlers \/ Caught \/ Reload \/ Stop \/ Return \/ Alarm \/ Killed
    <2>1. UNCHANGED children
      BY <1>4 DEF InstallHandlers, Caught, Reload, Stop, Return, Alarm, Killed
    <2> QED
      BY <1>4, <2>1 DEF InstallHandlers, Caught, Reload, Stop, Return, Alarm, Killed, StaffInv,
                        Missing
  <1>5. CASE Callback
    <2>1. UNCHANGED <<launching, children>> /\ parent' \in {parent, "dead"}
      BY <1>5 DEF Callback
    <2>2. parent # "filling" /\ (parent = "reloading" => sigcaught' = sigcaught)
      BY <1>0, <1>5 DEF Callback, Yields, Steps
    <2> QED
      BY <2>1, <2>2 DEF StaffInv, Missing
  <1>6. CASE \E s \in Signo : Signal(s)
    BY <1>6 DEF Signal, StaffInv, Missing
  <1>7. CASE \E c \in Child : ChildStep(c)
    BY <1>7 DEF ChildStep, ChildUp, ChildCrash, ChildEnd, ChildHang, InitReap, PipeClosed,
                ChildGoto, StaffInv, Missing
  <1>8. CASE UNCHANGED vars
    BY <1>8 DEF vars, StaffInv, Missing
  <1> QED
    BY <1>1, <1>2, <1>3, <1>4, <1>5, <1>6, <1>7, <1>8 DEF Next, ParentStep

LEMMA StaffInitial == Init => StaffInv
  BY DEF Init, StaffInv

\* Whenever the parent sleeps, reloads or begins to stop, it has all its
\* workers, dead ones it has still to reap included; while it replaces one it
\* misses that one only.
Staffed ==
    /\ parent \in {"top", "respawn", "reloading", "stopping"} => Cardinality(children) = Workers
    /\ parent \in {"filling", "starting"} /\ ~launching => Cardinality(children) >= Workers - 1

\* _respawn_children always comes back to the full number of workers, also
\* when a signal is noted between the death of one and the fork of another,
\* and a reload keeps the number.
THEOREM WorkersKept == Spec => []Staffed
  <1>1. ASSUME LauncherInv, StaffInv PROVE Staffed
    <2>1. Cardinality(children) \in Nat /\ Workers \in Nat
      BY <1>1, ChildrenFinite, LauncherAssumption DEF LauncherInv
    <2> QED
      BY <1>1, <2>1 DEF StaffInv, Staffed, Missing
  <1> QED
    BY <1>1, StaffInitial, StaffStep, LauncherInvariant, PTL DEF Spec

\* A SIGTERM that the parent has noted stays noted.
TermStays == [][sigcaught = "SIGTERM" => sigcaught' = "SIGTERM"]_vars

\* Nothing takes back the decision to end: a SIGHUP that comes behind a
\* SIGTERM neither replaces it in sigcaught nor makes the parent reload.
THEOREM TermIsFinal == Spec => TermStays
  <1>1. ASSUME LauncherInv, StaffInv, [Next]_vars, sigcaught = "SIGTERM"
        PROVE  sigcaught' = "SIGTERM"
    <2>0. Noted /\ Killable /\ Steps
      BY <1>1 DEF LauncherInv
    <2>1. CASE Callback
      <3>1. ~handlers
        BY <1>1, <2>0, <2>1 DEF Callback, Yields, Noted, Killable, Steps
      <3> QED
        BY <1>1, <2>1, <3>1 DEF Callback
    <2>2. CASE ParentStep
      <3>1. ~Reload
        BY <1>1 DEF Reload, StaffInv
      <3> QED
        BY <1>1, <2>2, <3>1 DEF ParentStep, Fill, Fork, InstallHandlers, Respawn, Caught, Stop,
                                WaitChild, Return
    <2>3. CASE Alarm \/ Killed \/ (\E s \in Signo : Signal(s)) \/ UNCHANGED vars
      BY <1>1, <2>3 DEF Alarm, Killed, Signal, vars
    <2>4. CASE \E c \in Child : ChildStep(c)
      BY <1>1, <2>4 DEF ChildStep, ChildUp, ChildCrash, ChildEnd, ChildHang, InitReap, PipeClosed,
                        ChildGoto
    <2> QED
      BY <1>1, <2>1, <2>2, <2>3, <2>4 DEF Next
  <1> QED
    BY <1>1, StaffInitial, StaffStep, LauncherInvariant, PTL DEF Spec, TermStays

-----------------------------------------------------------------------------
(* Workers without a parent *)

\* How far a worker process is from its end.
Distance(s) ==
    CASE s = "forked"   -> 4
      [] s = "up"       -> 3
      [] s = "stopping" -> 2
      [] s \in {"stuck", "zombie"} -> 1
      [] OTHER          -> 0

\* Once the parent has ended, each step that is taken brings one worker nearer
\* to its end and leaves the others where they are.
OrphansDescend ==
    [][Gone => /\ Gone'
               /\ \E c \in Child : /\ Distance(child'[c]) < Distance(child[c])
                                   /\ \A d \in Child \ {c} : child'[d] = child[d]]_vars

\* A parent that has ended, by whatever signal and at whatever moment between
\* two forks, stays so and forks nobody; its workers do not come back, so that
\* they take at most four steps each.
THEOREM OrphansOnlyLeave == Spec => OrphansDescend
  <1> DEFINE A == Gone => /\ Gone'
                          /\ \E c \in Child :
                                /\ Distance(child'[c]) < Distance(child[c])
                                /\ \A d \in Child \ {c} : child'[d] = child[d]
  <1>1. ASSUME TypeOK, [Next]_vars PROVE [A]_vars
    <2> SUFFICES ASSUME Next, Gone
                 PROVE  /\ Gone'
                        /\ \E c \in Child :
                              /\ Distance(child'[c]) < Distance(child[c])
                              /\ \A d \in Child \ {c} : child'[d] = child[d]
      BY <1>1
    <2>1. ~ParentStep /\ ~Callback /\ ~Alarm /\ ~Killed /\ ~(\E s \in Signo : Signal(s))
      BY DEF Gone, ParentStep, Fill, Fork, InstallHandlers, Respawn, Caught, Reload, Stop,
             WaitChild, Return, Callback, Yields, Alarm, Killed, Signal
    <2>2. PICK c \in Child : ChildStep(c)
      BY <2>1 DEF Next
    <2>3. PICK where \in {"up", "stopping", "stuck", "none"} :
            /\ ChildGoto(c, where)
            /\ \/ child[c] = "forked" /\ where \in {"up", "none"}
               \/ child[c] = "up" /\ where \in {"stopping", "none"}
               \/ child[c] = "stopping" /\ where \in {"stuck", "none"}
               \/ child[c] = "zombie" /\ where = "none"
      BY <2>2 DEF ChildStep, ChildUp, ChildCrash, ChildEnd, ChildHang, InitReap, PipeClosed, Ended
    <2>4. child' = [child EXCEPT ![c] = where] /\ parent' = parent
      BY <2>3 DEF ChildGoto
    <2>5. child'[c] = where /\ \A d \in Child \ {c} : child'[d] = child[d]
      BY <1>1, <2>4 DEF TypeOK
    <2>6. Distance(child'[c]) < Distance(child[c])
      BY <2>3, <2>5 DEF Distance
    <2>7. Gone'
      BY <2>4 DEF Gone
    <2> QED
      BY <2>5, <2>6, <2>7
  <1>2. LauncherInv => TypeOK
    BY DEF LauncherInv
  <1> QED
    BY <1>1, <1>2, LauncherInvariant, PTL DEF Spec, OrphansDescend
=============================================================================
