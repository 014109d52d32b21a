------------------------ MODULE ConnectionLockProofs ------------------------
(***************************************************************************)
(* Proofs about ConnectionLock, for any finite set of worker threads.      *)
(***************************************************************************)
EXTENDS ConnectionLock, FiniteSetTheorems, TLAPS

\* The workers that are counted in workers_waiting.
W == Waiting \cap Worker

\* Only waiting threads sleep in the condition.
AsleepWaiting == asleep \subseteq Waiting

\* The inductive invariant.
LockInv ==
    /\ TypeOK
    /\ OneHolder
    /\ NoLostWakeup
    /\ HeartbeatNotified
    /\ WaitingNoted
    /\ ClosedAfterHeartbeat
    /\ AsleepWaiting

\* The waiting workers are a finite set, and no more than there are workers.
LEMMA WaitingFinite ==
    /\ IsFiniteSet(W)
    /\ Cardinality(W) \in 0..Cardinality(Worker)
  <1>1. W \subseteq Worker
    BY DEF W
  <1>2. IsFiniteSet(W) /\ Cardinality(W) <= Cardinality(Worker)
    BY <1>1, ThreadAssumption, FS_Subset
  <1>3. Cardinality(W) \in Nat /\ Cardinality(Worker) \in Nat
    BY <1>2, ThreadAssumption, FS_CardinalityType
  <1> QED
    BY <1>2, <1>3

LEMMA WaitingFiniteNext ==
    (IsFiniteSet(W) /\ Cardinality(W) \in 0..Cardinality(Worker))'
  BY WaitingFinite, PTL

\* The counter of WaitingNoted follows the set of waiting workers: when one
\* joins it or leaves it, and when it stays.
LEMMA CountJoins ==
    ASSUME WaitingNoted, NEW w \in Worker, w \notin W, W' = W \cup {w},
           workers_waiting' = workers_waiting + 1
    PROVE  workers_waiting' = Cardinality(W')
  BY WaitingFinite, FS_AddElement DEF WaitingNoted, W

LEMMA CountLeaves ==
    ASSUME WaitingNoted, NEW w \in Worker, w \in W, W' = W \ {w},
           workers_waiting' = workers_waiting - 1
    PROVE  workers_waiting' = Cardinality(W')
  BY WaitingFinite, FS_RemoveElement DEF WaitingNoted, W

\* A counter of zero means that no worker waits.
LEMMA CountZero ==
    ASSUME WaitingNoted, ~(workers_waiting > 0)
    PROVE  W = {}
  <1>1. Cardinality(W) = 0
    BY WaitingFinite DEF WaitingNoted, W
  <1> QED
    BY <1>1, WaitingFinite, FS_EmptySet

LEMMA LockInitial == Init => LockInv
  <1> SUFFICES ASSUME Init PROVE LockInv
    OBVIOUS
  <1> USE ThreadAssumption DEF Init, Thread
  <1>1. Waiting = {}
    BY DEF Waiting
  <1>2. Cardinality(Worker) \in Nat /\ Cardinality({}) = 0
    BY FS_CardinalityType, FS_EmptySet
  <1>3. TypeOK
    <2>1. pc \in [Thread -> WorkerPC \cup HeartbeatPC]
      BY DEF WorkerPC, HeartbeatPC
    <2>2. /\ \A w \in Worker : pc[w] \in WorkerPC
          /\ pc[Heartbeat] \in HeartbeatPC
      BY DEF WorkerPC, HeartbeatPC
    <2>3. workers_waiting \in 0..Cardinality(Worker)
      BY <1>2
    <2> QED
      BY <2>1, <2>2, <2>3, Zenon DEF TypeOK
  <1>4. OneHolder
    BY DEF OneHolder
  <1>5. WaitingNoted
    BY <1>1, <1>2 DEF WaitingNoted
  <1> QED
    BY <1>1, <1>3, <1>4, <1>5
    DEF LockInv, NoLostWakeup, HeartbeatNotified, ClosedAfterHeartbeat, AsleepWaiting

\* What release() leaves behind: its notification goes to a thread that waits,
\* and if any thread waits, one of those that do is awake.
LEMMA ReleaseNotifies ==
    ASSUME LockInv, NEW t \in Thread, Release(t)
    PROVE  /\ asleep' \subseteq asleep
           /\ Heartbeat \notin asleep'
           /\ Waiting # {} => Waiting \ asleep' # {}
           /\ lock_acquired' = NoOne
  <1> USE ThreadAssumption DEF Release, Notify
  <1>1. asleep' \subseteq asleep /\ lock_acquired' = NoOne
    OBVIOUS
  <1>2. CASE heartbeat_waiting
    <2>1. Heartbeat \in Waiting
      BY <1>2 DEF LockInv, WaitingNoted, Waiting, Thread
    <2> QED
      BY <1>1, <1>2, <2>1
  <1>3. CASE ~heartbeat_waiting
    <2>1. Heartbeat \notin Waiting
      BY <1>3 DEF LockInv, WaitingNoted, Waiting
    <2>2. Heartbeat \notin asleep
      BY <2>1 DEF LockInv, AsleepWaiting
    <2>3. CASE asleep \cap Worker = {}
      <3>1. asleep = {}
        BY <2>2, <2>3 DEF LockInv, TypeOK, Thread
      <3> QED
        BY <1>1, <3>1
    <2>4. CASE workers_waiting > 0 /\ asleep \cap Worker # {}
      <3>1. PICK w \in asleep \cap Worker : asleep' = asleep \ {w}
        BY <1>3, <2>4
      <3>2. w \in Waiting
        BY DEF LockInv, AsleepWaiting
      <3> QED
        BY <1>1, <2>2, <3>1, <3>2
    <2>5. CASE ~(workers_waiting > 0)
      <3>1. W = {}
        BY <2>5, CountZero DEF LockInv
      <3>2. Waiting = {}
        BY <2>1, <3>1 DEF W, Waiting, Thread
      <3> QED
        BY <1>1, <2>2, <3>2
    <2> QED
      BY <2>3, <2>4, <2>5
  <1> QED
    BY <1>2, <1>3

\* Every part of the invariant from what a step does to the waiting threads.
LEMMA AcquireKeeps ==
    ASSUME LockInv, NEW w \in Worker, Acquire(w)
    PROVE  LockInv'
  <1> USE ThreadAssumption DEF Thread
  <1>1. Heartbeat # w
    OBVIOUS
  <1>2. CASE lock_acquired = NoOne
    <2>1. /\ pc' = [pc EXCEPT ![w] = "holding"]
          /\ lock_acquired' = w
          /\ pc[w] = "idle"
          /\ UNCHANGED <<workers_waiting, asleep, heartbeat_waiting, exit_event, connection>>
      BY <1>2 DEF Acquire, Goto
    <2>2. Waiting' = Waiting /\ W' = W
      BY <2>1 DEF Waiting, W, LockInv, TypeOK
    <2>3. TypeOK'
      BY <2>1, <1>1 DEF LockInv, TypeOK, WorkerPC, HeartbeatPC
    <2>4. OneHolder'
      BY <1>2, <2>1 DEF LockInv, OneHolder, TypeOK
    <2>5. WaitingNoted'
      BY <2>1, <2>2, <1>1 DEF LockInv, WaitingNoted, W, TypeOK
    <2> QED
      BY <2>1, <2>2, <2>3, <2>4, <2>5, <1>1
      DEF LockInv, NoLostWakeup, HeartbeatNotified, ClosedAfterHeartbeat, AsleepWaiting, TypeOK
  <1>3. CASE lock_acquired # NoOne
    <2>1. /\ pc' = [pc EXCEPT ![w] = "waiting"]
          /\ workers_waiting' = workers_waiting + 1
          /\ asleep' = asleep \cup {w}
          /\ pc[w] = "idle"
          /\ UNCHANGED <<lock_acquired, heartbeat_waiting, exit_event, connection>>
      BY <1>3 DEF Acquire, Goto
    <2>2. Waiting' = Waiting \cup {w} /\ W' = W \cup {w} /\ w \notin W
      BY <2>1 DEF Waiting, W, LockInv, TypeOK
    <2>3. workers_waiting' = Cardinality(W')
      BY <2>1, <2>2, CountJoins DEF LockInv
    <2>4. TypeOK'
      BY <2>1, <2>3, <1>1, WaitingFiniteNext DEF LockInv, TypeOK, WorkerPC, HeartbeatPC
    <2>5. OneHolder'
      BY <1>3, <2>1 DEF LockInv, OneHolder, TypeOK
    <2>6. WaitingNoted'
      BY <2>1, <2>3, <1>1 DEF LockInv, WaitingNoted, W, TypeOK
    <2> QED
      BY <1>3, <2>1, <2>2, <2>4, <2>5, <2>6, <1>1
      DEF LockInv, NoLostWakeup, HeartbeatNotified, ClosedAfterHeartbeat, AsleepWaiting, TypeOK
  <1> QED
    BY <1>2, <1>3

LEMMA WakeKeeps ==
    ASSUME LockInv, NEW w \in Worker, Wake(w)
    PROVE  LockInv'
  <1> USE ThreadAssumption DEF Thread
  <1>1. Heartbeat # w
    OBVIOUS
  <1>2. CASE lock_acquired = NoOne
    <2>1. /\ pc' = [pc EXCEPT ![w] = "holding"]
          /\ lock_acquired' = w
          /\ pc[w] = "waiting"
          /\ w \notin asleep
          /\ workers_waiting' = workers_waiting - 1
          /\ UNCHANGED <<asleep, heartbeat_waiting, exit_event, connection>>
      BY <1>2 DEF Wake, Goto
    <2>2. Waiting' = Waiting \ {w} /\ W' = W \ {w} /\ w \in W
      BY <2>1 DEF Waiting, W, LockInv, TypeOK
    <2>3. workers_waiting' = Cardinality(W')
      BY <2>1, <2>2, CountLeaves DEF LockInv
    <2>4. TypeOK'
      BY <2>1, <2>3, <1>1, WaitingFiniteNext DEF LockInv, TypeOK, WorkerPC, HeartbeatPC
    <2>5. OneHolder'
      BY <1>2, <2>1 DEF LockInv, OneHolder, TypeOK
    <2>6. WaitingNoted'
      BY <2>1, <2>3, <1>1 DEF LockInv, WaitingNoted, W, TypeOK
    <2> QED
      BY <2>1, <2>2, <2>4, <2>5, <2>6, <1>1
      DEF LockInv, NoLostWakeup, HeartbeatNotified, ClosedAfterHeartbeat, AsleepWaiting, TypeOK
  <1>3. CASE lock_acquired # NoOne
    <2>1. /\ asleep' = asleep \cup {w}
          /\ pc[w] = "waiting"
          /\ UNCHANGED <<lock_acquired, pc, workers_waiting, heartbeat_waiting,
                         exit_event, connection>>
      BY <1>3 DEF Wake, Goto
    <2>2. Waiting' = Waiting /\ W' = W /\ w \in Waiting
      BY <2>1 DEF Waiting, W
    <2>3. WaitingNoted'
      BY <2>1, <2>2 DEF LockInv, WaitingNoted, W
    <2>4. TypeOK' /\ OneHolder'
      BY <2>1 DEF LockInv, TypeOK, OneHolder
    <2> QED
      BY <1>3, <2>1, <2>2, <2>3, <2>4, <1>1
      DEF LockInv, NoLostWakeup, HeartbeatNotified, ClosedAfterHeartbeat, AsleepWaiting
  <1> QED
    BY <1>2, <1>3

LEMMA EndUseKeeps ==
    ASSUME LockInv, NEW w \in Worker, EndUse(w)
    PROVE  LockInv'
  <1> USE ThreadAssumption DEF Thread
  <1>1. /\ pc' = [pc EXCEPT ![w] = "idle"]
        /\ pc[w] = "holding"
        /\ Heartbeat # w
        /\ UNCHANGED <<workers_waiting, heartbeat_waiting, exit_event, connection>>
    BY DEF EndUse, Release, Goto
  <1>2. /\ asleep' \subseteq asleep
        /\ Heartbeat \notin asleep'
        /\ Waiting # {} => Waiting \ asleep' # {}
        /\ lock_acquired' = NoOne
        /\ lock_acquired = w
    BY ReleaseNotifies DEF EndUse, Release
  <1>3. Waiting' = Waiting /\ W' = W
    BY <1>1 DEF Waiting, W, LockInv, TypeOK
  <1>4. TypeOK'
    BY <1>1, <1>2 DEF LockInv, TypeOK, WorkerPC, HeartbeatPC
  <1>5. OneHolder'
    BY <1>1, <1>2 DEF LockInv, OneHolder, TypeOK
  <1>6. WaitingNoted'
    BY <1>1, <1>3 DEF LockInv, WaitingNoted, W, TypeOK
  <1> QED
    BY <1>1, <1>2, <1>3, <1>4, <1>5, <1>6
    DEF LockInv, NoLostWakeup, HeartbeatNotified, ClosedAfterHeartbeat, AsleepWaiting, TypeOK

LEMMA CloseKeeps ==
    ASSUME LockInv, NEW w \in Worker, Close(w) \/ ReleaseConnection(w)
    PROVE  LockInv'
  <1> USE ThreadAssumption DEF Thread
  <1>1. /\ \E where \in {"joining", "idle"} : pc' = [pc EXCEPT ![w] = where]
        /\ pc[w] \in {"idle", "joining"}
        /\ Heartbeat # w
        /\ exit_event' \in BOOLEAN
        /\ connection' \in {connection, "None"}
        /\ connection' # connection => pc[Heartbeat] = "ended"
        /\ UNCHANGED <<lock_acquired, workers_waiting, heartbeat_waiting, asleep>>
    BY DEF Close, ReleaseConnection, Goto, LockInv, TypeOK
  <1>2. Waiting' = Waiting /\ W' = W
    BY <1>1 DEF Waiting, W, LockInv, TypeOK
  <1>3. TypeOK'
    BY <1>1 DEF LockInv, TypeOK, WorkerPC, HeartbeatPC
  <1>4. OneHolder'
    BY <1>1 DEF LockInv, OneHolder, TypeOK
  <1>5. WaitingNoted'
    BY <1>1, <1>2 DEF LockInv, WaitingNoted, W, TypeOK
  <1> QED
    BY <1>1, <1>2, <1>3, <1>4, <1>5
    DEF LockInv, NoLostWakeup, HeartbeatNotified, ClosedAfterHeartbeat, AsleepWaiting, TypeOK

LEMMA HeartbeatAcquireKeeps ==
    ASSUME LockInv, HeartbeatAcquire
    PROVE  LockInv'
  <1> USE ThreadAssumption DEF Thread
  <1>1. W' = W
    BY DEF HeartbeatAcquire, Goto, W, Waiting, LockInv, TypeOK
  <1>2. CASE lock_acquired = NoOne
    <2>1. /\ pc' = [pc EXCEPT ![Heartbeat] = "holding"]
          /\ lock_acquired' = Heartbeat
          /\ heartbeat_waiting' = FALSE
          /\ Heartbeat \notin asleep
          /\ pc[Heartbeat] \in {"asking", "waiting"}
          /\ UNCHANGED <<workers_waiting, asleep, exit_event, connection>>
      BY <1>2 DEF HeartbeatAcquire, Goto, LockInv, HeartbeatNotified
    <2>2. Waiting' = Waiting \ {Heartbeat}
      BY <2>1 DEF Waiting, LockInv, TypeOK
    <2>3. TypeOK'
      BY <2>1 DEF LockInv, TypeOK, WorkerPC, HeartbeatPC
    <2>4. OneHolder'
      BY <1>2, <2>1 DEF LockInv, OneHolder, TypeOK
    <2>5. WaitingNoted'
      BY <2>1, <1>1 DEF LockInv, WaitingNoted, W, TypeOK
    <2> QED
      BY <2>1, <2>2, <2>3, <2>4, <2>5
      DEF LockInv, NoLostWakeup, HeartbeatNotified, ClosedAfterHeartbeat, AsleepWaiting, TypeOK
  <1>3. CASE lock_acquired # NoOne
    <2>1. /\ pc' = [pc EXCEPT ![Heartbeat] = "waiting"]
          /\ heartbeat_waiting' = TRUE
          /\ asleep' = asleep \cup {Heartbeat}
          /\ pc[Heartbeat] \in {"asking", "waiting"}
          /\ UNCHANGED <<workers_waiting, lock_acquired, exit_event, connection>>
      BY <1>3 DEF HeartbeatAcquire, Goto
    <2>2. Waiting' = Waiting \cup {Heartbeat}
      BY <2>1 DEF Waiting, LockInv, TypeOK
    <2>3. TypeOK'
      BY <2>1 DEF LockInv, TypeOK, WorkerPC, HeartbeatPC
    <2>4. OneHolder'
      BY <1>3, <2>1 DEF LockInv, OneHolder, TypeOK
    <2>5. WaitingNoted'
      BY <2>1, <1>1 DEF LockInv, WaitingNoted, W, TypeOK
    <2> QED
      BY <1>3, <2>1, <2>2, <2>3, <2>4, <2>5
      DEF LockInv, NoLostWakeup, HeartbeatNotified, ClosedAfterHeartbeat, AsleepWaiting, TypeOK
  <1> QED
    BY <1>2, <1>3

LEMMA HeartbeatReleaseKeeps ==
    ASSUME LockInv, HeartbeatRelease
    PROVE  LockInv'
  <1> USE ThreadAssumption DEF Thread
  <1>1. /\ pc' = [pc EXCEPT ![Heartbeat] = "sleeping"]
        /\ pc[Heartbeat] \in {"holding", "ensuring"}
        /\ UNCHANGED <<workers_waiting, heartbeat_waiting, exit_event, connection>>
    BY DEF HeartbeatRelease, Release, Goto
  <1>2. /\ asleep' \subseteq asleep
        /\ Heartbeat \notin asleep'
        /\ Waiting # {} => Waiting \ asleep' # {}
        /\ lock_acquired' = NoOne
        /\ lock_acquired = Heartbeat
    BY ReleaseNotifies DEF HeartbeatRelease, Release
  <1>3. Waiting' = Waiting /\ W' = W
    BY <1>1 DEF Waiting, W, LockInv, TypeOK
  <1>4. TypeOK'
    BY <1>1, <1>2 DEF LockInv, TypeOK, WorkerPC, HeartbeatPC
  <1>5. OneHolder'
    BY <1>1, <1>2 DEF LockInv, OneHolder, TypeOK
  <1>6. WaitingNoted'
    BY <1>1, <1>3 DEF LockInv, WaitingNoted, W, TypeOK
  <1> QED
    BY <1>1, <1>2, <1>3, <1>4, <1>5, <1>6
    DEF LockInv, NoLostWakeup, HeartbeatNotified, ClosedAfterHeartbeat, AsleepWaiting, TypeOK

\* The steps of the heartbeat thread that do not touch the lock.
LEMMA HeartbeatMovesKeeps ==
    ASSUME LockInv,
           HeartbeatLoop \/ HeartbeatExit \/ HeartbeatLost \/ HeartbeatSlept
    PROVE  LockInv'
  <1> USE ThreadAssumption DEF Thread
  <1>1. PICK where \in {"asking", "ended", "ensuring", "loop"} :
            /\ pc' = [pc EXCEPT ![Heartbeat] = where]
            /\ pc[Heartbeat] \in {"loop", "holding", "sleeping"}
            /\ pc[Heartbeat] = "holding" <=> where = "ensuring"
    BY DEF HeartbeatLoop, HeartbeatExit, HeartbeatLost, HeartbeatSlept, Goto
  <1>2. /\ exit_event' \in BOOLEAN
        /\ UNCHANGED <<lock_acquired, workers_waiting, heartbeat_waiting, asleep, connection>>
    BY DEF HeartbeatLoop, HeartbeatExit, HeartbeatLost, HeartbeatSlept, LockInv, TypeOK
  <1>3. Waiting' = Waiting /\ W' = W
    BY <1>1 DEF Waiting, W, LockInv, TypeOK
  <1>4. TypeOK'
    BY <1>1, <1>2 DEF LockInv, TypeOK, WorkerPC, HeartbeatPC
  <1>5. OneHolder'
    BY <1>1, <1>2 DEF LockInv, OneHolder, TypeOK
  <1>6. WaitingNoted'
    BY <1>1, <1>2, <1>3 DEF LockInv, WaitingNoted, W, TypeOK
  <1> QED
    BY <1>1, <1>2, <1>3, <1>4, <1>5, <1>6
    DEF LockInv, NoLostWakeup, HeartbeatNotified, ClosedAfterHeartbeat, AsleepWaiting, TypeOK

LEMMA LockStep == LockInv /\ [Next]_vars => LockInv'
  <1> SUFFICES ASSUME LockInv, [Next]_vars PROVE LockInv'
    OBVIOUS
  <1>1. ASSUME NEW w \in Worker, WorkerStep(w) PROVE LockInv'
    BY <1>1, AcquireKeeps, WakeKeeps, EndUseKeeps, CloseKeeps DEF WorkerStep
  <1>2. CASE HeartbeatStep
    BY <1>2, HeartbeatAcquireKeeps, HeartbeatReleaseKeeps, HeartbeatMovesKeeps
    DEF HeartbeatStep
  <1>3. CASE UNCHANGED vars
    BY <1>3
    DEF vars, LockInv, TypeOK, OneHolder, NoLostWakeup, HeartbeatNotified, WaitingNoted,
        ClosedAfterHeartbeat, AsleepWaiting, Waiting
  <1> QED
    BY <1>1, <1>2, <1>3 DEF Next

\* The inductive invariant holds throughout.
THEOREM LockInvariant == Spec => []LockInv
  BY LockInitial, LockStep, PTL DEF Spec

\* Every variable of the lock keeps its type, the counter of waiting workers
\* its bound.
THEOREM LockTypeCorrect == Spec => []TypeOK
  BY LockInvariant, PTL DEF LockInv

\* acquire, heartbeat_acquire and release let one thread at a time in, and
\* release() never raises.
THEOREM LockExcludes == Spec => []OneHolder
  BY LockInvariant, PTL DEF LockInv

\* release() notifies one waiter, and that is enough: a free lock for which
\* threads wait always has one of them awake.
THEOREM WakeupsNotLost == Spec => []NoLostWakeup
  BY LockInvariant, PTL DEF LockInv

\* The heartbeat thread is never left asleep by a free lock.
THEOREM HeartbeatFirst == Spec => []HeartbeatNotified
  BY LockInvariant, PTL DEF LockInv

\* The counter and the flag of the lock say exactly who waits.
THEOREM WaitersCounted == Spec => []WaitingNoted
  BY LockInvariant, PTL DEF LockInv

\* close() releases the connection only after its heartbeat thread has ended.
THEOREM CloseJoins == Spec => []ClosedAfterHeartbeat
  BY LockInvariant, PTL DEF LockInv

-----------------------------------------------------------------------------
(* The join of close() *)

\* While a thread joins, nobody else uses the connection, and the heartbeat
\* thread has been told to end.
JoinInv ==
    \A w \in Worker : pc[w] = "joining" =>
        /\ \A u \in Worker : u # w => pc[u] = "idle"
        /\ exit_event \/ pc[Heartbeat] = "ended"

LEMMA JoinStep == LockInv /\ JoinInv /\ [Next]_vars => JoinInv'
  <1> SUFFICES ASSUME LockInv, JoinInv, [Next]_vars PROVE JoinInv'
    OBVIOUS
  <1>0. TypeOK
    BY DEF LockInv
  <1> USE ThreadAssumption DEF Thread
  <1>1. ASSUME NEW w \in Worker, Acquire(w) \/ Wake(w) \/ EndUse(w) PROVE JoinInv'
    <2>1. /\ ~Closing
          /\ \E l \in {"idle", "waiting", "holding"} : pc' = [pc EXCEPT ![w] = l] \/ pc' = pc
      <3>1. \A u \in Worker : pc[u] = "joining" => u = w \/ pc[w] = "idle"
        BY DEF JoinInv
      <3>2. pc[w] = "idle" => ~Closing
        BY <1>1 DEF Acquire, Wake, EndUse
      <3>3. pc[w] # "joining"
        BY <1>1 DEF Acquire, Wake, EndUse
      <3> QED
        BY <1>1, <3>1, <3>2, <3>3 DEF Acquire, Wake, EndUse, Goto, Closing
    <2>2. \A u \in Worker : pc'[u] # "joining"
      BY <1>0, <2>1 DEF Closing, TypeOK
    <2> QED
      BY <2>2 DEF JoinInv
  <1>2. ASSUME NEW w \in Worker, Close(w) PROVE JoinInv'
    BY <1>0, <1>2 DEF Close, Goto, JoinInv, TypeOK
  <1>3. ASSUME NEW w \in Worker, ReleaseConnection(w) PROVE JoinInv'
    BY <1>0, <1>3 DEF ReleaseConnection, Goto, JoinInv, TypeOK
  <1>4. ASSUME HeartbeatStep PROVE JoinInv'
    <2>1. /\ \A u \in Worker : pc'[u] = pc[u]
          /\ pc[Heartbeat] # "ended"
          /\ exit_event' = exit_event \/ pc'[Heartbeat] = "ended"
      BY <1>0, <1>4 DEF HeartbeatStep, HeartbeatLoop, HeartbeatExit, HeartbeatAcquire,
                        HeartbeatLost, HeartbeatRelease, HeartbeatSlept, Goto, TypeOK
    <2> QED
      BY <2>1 DEF JoinInv
  <1>5. CASE UNCHANGED vars
    BY <1>5 DEF vars, JoinInv
  <1> QED
    BY <1>1, <1>2, <1>3, <1>4, <1>5 DEF Next, WorkerStep

\* The heartbeat thread that close() joins has been told to end, does not
\* sleep in the lock, and finds it free or its own.
JoinUnobstructed ==
    Closing => /\ exit_event \/ pc[Heartbeat] = "ended"
               /\ Heartbeat \notin asleep
               /\ lock_acquired \in {NoOne, Heartbeat}

\* close() never joins a thread that cannot get on: the thread that closes
\* does not hold the lock, nobody else does, and the heartbeat thread was
\* notified when the lock was last released.
THEOREM CloseNotObstructed == Spec => []JoinUnobstructed
  <1>1. Init => JoinInv
    BY ThreadAssumption DEF Init, JoinInv, Thread
  <1>2. ASSUME LockInv, JoinInv PROVE JoinUnobstructed
    <2> SUFFICES ASSUME Closing PROVE JoinUnobstructed
      BY DEF JoinUnobstructed
    <2>1. \A u \in Worker : pc[u] \in {"idle", "joining"}
      BY <1>2 DEF Closing, JoinInv
    <2>2. lock_acquired \in {NoOne, Heartbeat}
      BY <1>2, <2>1 DEF LockInv, TypeOK, OneHolder, Thread
    <2>3. Heartbeat \notin asleep
      <3>1. CASE lock_acquired = NoOne
        BY <1>2, <3>1 DEF LockInv, HeartbeatNotified
      <3>2. CASE lock_acquired = Heartbeat
        BY <1>2, <3>2 DEF LockInv, OneHolder, AsleepWaiting, Waiting, Thread
      <3> QED
        BY <2>2, <3>1, <3>2
    <2> QED
      BY <1>2, <2>2, <2>3 DEF JoinUnobstructed, Closing, JoinInv
  <1> QED
    BY <1>1, <1>2, JoinStep, LockInvariant, PTL DEF Spec
=============================================================================
