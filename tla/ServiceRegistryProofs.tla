------------------------ MODULE ServiceRegistryProofs -----------------------
(***************************************************************************)
(* Proofs about ServiceRegistry, for any number of workers, any intervals  *)
(* and any number of records and reports.                                  *)
(***************************************************************************)
EXTENDS ServiceRegistry, TLAPS, WellFoundedInduction

\* No record has been deleted.
Undeleted == row.id <= 1 /\ (row.id = 1 => row.live)

\* While none has been, a worker that runs has the live record, and one that
\* reads again will find it.
RaceInv ==
    /\ row.id = 0 => ~row.live
    /\ Undeleted => /\ \A w \in Worker : Running(w) => row.live /\ ref[w].id = row.id
                    /\ \A w \in Worker : pc[w] = "rereading" => row.live

\* A live record that no worker works with is at least as old as the last
\* disturbance.
DeadInv == row.live /\ (\A w \in Worker : ~Registered(w)) => age >= calm

\* A report comes at most an interval from now; one under way was due.
DueInv ==
    /\ \A w \in Worker : due[w] <= Interval
    /\ \A w \in Worker : pc[w] \in {"saving", "writing"} => due[w] = 0

\* The report_count that w's last finished report carried.
Reported(w) == IF pc[w] = "running" THEN ref[w].count ELSE ref[w].count - 1

\* Within an interval of the last disturbance: nobody has reported since, and
\* what a transaction has read is what it will overwrite.
Unsettled ==
    /\ \A w \in Worker : Registered(w) => due[w] + calm <= Interval
    /\ calm > 0 => \A w \in Worker :
           Registered(w) /\ pc[w] = "writing" => found[w] = row.count

\* No worker counts further than m, and no count that m's next report could
\* meet is above the last one it has reported: the next one counts.  Its
\* turn comes within an interval of the last report that counted, unless
\* two intervals since the disturbance are not over.
Leads(m) ==
    /\ Registered(m)
    /\ \A w \in Worker : Registered(w) => ref[w].count <= ref[m].count
    /\ row.count <= Reported(m)
    /\ \/ calm <= Interval
       \/ \A w \in Worker :
             Registered(w) /\ pc[w] = "writing" => found[w] <= Reported(m)
    /\ \/ age + due[m] <= Interval
       \/ calm + due[m] <= 2 * Interval

\* The service of a registered worker is renewed in time, or will be.
CalmInv ==
    \A w \in Worker : Registered(w) => Unsettled \/ \E m \in Worker : Leads(m)

\* The inductive invariant.
RegistryInv == TypeOK /\ RaceInv /\ DeadInv

\* With it, the invariant of a live worker's record.
LiveInv == RegistryInv /\ DueInv /\ CalmInv

-----------------------------------------------------------------------------
(* Type correctness *)

LEMMA HorizonIsNat == service_down_time \in Nat /\ Horizon \in Nat
  <1>1. service_down_time \in Nat
    BY RegistryAssumption DEF service_down_time
  <1> QED
    BY <1>1, RegistryAssumption DEF Horizon

LEMMA OlderIsAge ==
    ASSUME NEW n \in 0..Horizon
    PROVE  Older(n) \in 0..Horizon
  BY HorizonIsNat DEF Older

LEMMA OlderKeepsOrder ==
    ASSUME NEW n \in 0..Horizon, NEW k \in 0..Horizon, n >= k
    PROVE  Older(n) >= Older(k)
  BY HorizonIsNat DEF Older

LEMMA TypeInitial == Init => TypeOK
  BY RegistryAssumption, HorizonIsNat DEF Init, TypeOK, WorkerPC

\* What the parts of the steps do to the workers' variables.
LEMMA JoinTypes ==
    ASSUME TypeOK, NEW w \in Worker, NEW i \in 0..MaxRow, NEW k \in 0..MaxCount, Join(w, i, k)
    PROVE  /\ ref' \in [Worker -> [id : 0..MaxRow, count : 0..MaxCount]]
           /\ due' \in [Worker -> Nat]
           /\ pc' \in [Worker -> WorkerPC]
  BY RegistryAssumption DEF TypeOK, Join, Goto, WorkerPC

LEMMA EndReportTypes ==
    ASSUME TypeOK, NEW w \in Worker, EndReport(w)
    PROVE  /\ found' \in [Worker -> 0..MaxCount]
           /\ due' \in [Worker -> Nat]
           /\ pc' \in [Worker -> WorkerPC]
  BY RegistryAssumption DEF TypeOK, EndReport, Goto, WorkerPC

LEMMA TypeStep == TypeOK /\ [Next]_vars => TypeOK'
  <1> SUFFICES ASSUME TypeOK, [Next]_vars PROVE TypeOK'
    OBVIOUS
  <1> USE RegistryAssumption, HorizonIsNat
  <1>0. /\ row.id \in 0..MaxRow /\ row.count \in 0..MaxCount
        /\ row = [id |-> row.id, live |-> row.live, count |-> row.count]
    BY DEF TypeOK
  <1>1. ASSUME NEW w \in Worker, Start(w) PROVE TypeOK'
    <2>1. CASE row.live
      BY <1>0, <1>1, <2>1, JoinTypes DEF Start, JoinFound, TypeOK
    <2>2. CASE ~row.live
      BY <1>1, <2>2 DEF Start, Goto, TypeOK, WorkerPC
    <2> QED
      BY <2>1, <2>2
  <1>2. ASSUME NEW w \in Worker, Create(w) PROVE TypeOK'
    <2>1. CASE row.live
      BY <1>2, <2>1 DEF Create, Goto, TypeOK, WorkerPC
    <2>2. CASE ~row.live
      <3>1. row.id + 1 \in 0..MaxRow /\ 0 \in 0..MaxCount /\ Join(w, row.id + 1, 0)
        BY <1>0, <1>2, <2>2 DEF Create
      <3>2. row' \in [id : 0..MaxRow, live : BOOLEAN, count : 0..MaxCount]
        <4>1. row' = [id |-> row.id + 1, live |-> TRUE, count |-> 0]
          BY <1>2, <2>2 DEF Create
        <4> QED
          BY <3>1, <4>1
      <3> QED
        BY <1>2, <2>2, <3>1, <3>2, JoinTypes DEF Create, TypeOK
    <2> QED
      BY <2>1, <2>2
  <1>3. ASSUME NEW w \in Worker, Reread(w) PROVE TypeOK'
    <2>1. 0 \in 0..MaxRow /\ 0 \in 0..MaxCount
      OBVIOUS
    <2> QED
      BY <1>0, <1>3, <2>1, JoinTypes DEF Reread, JoinFound, TypeOK
  <1>4. ASSUME NEW w \in Worker, BeginReport(w) PROVE TypeOK'
    <2>1. ref' \in [Worker -> [id : 0..MaxRow, count : 0..MaxCount]]
      BY <1>4 DEF BeginReport, TypeOK
    <2> QED
      BY <1>4, <2>1 DEF BeginReport, Goto, TypeOK, WorkerPC
  <1>5. ASSUME NEW w \in Worker, UpdateRead(w) PROVE TypeOK'
    BY <1>0, <1>5, EndReportTypes DEF UpdateRead, Goto, TypeOK, WorkerPC
  <1>6. ASSUME NEW w \in Worker, UpdateWrite(w) PROVE TypeOK'
    <2>1. row' \in [id : 0..MaxRow, live : BOOLEAN, count : 0..MaxCount]
      BY <1>6 DEF UpdateWrite, TypeOK
    <2>2. age' \in 0..Horizon
      BY <1>6 DEF UpdateWrite, TypeOK
    <2> QED
      BY <1>6, <2>1, <2>2, EndReportTypes DEF UpdateWrite, TypeOK
  <1>7. ASSUME NEW w \in Worker, UpdateRetry(w) PROVE TypeOK'
    BY <1>7 DEF UpdateRetry, Goto, TypeOK, WorkerPC
  <1>8. ASSUME NEW w \in Worker, ReportFails(w) PROVE TypeOK'
    BY <1>8, EndReportTypes DEF ReportFails, TypeOK
  <1>9. ASSUME NEW w \in Worker, Crash(w) PROVE TypeOK'
    BY <1>9 DEF Crash, Goto, TypeOK, WorkerPC
  <1>10. CASE Delete
    <2>1. row' \in [id : 0..MaxRow, live : BOOLEAN, count : 0..MaxCount]
      <3>1. row' = [row EXCEPT !.live = FALSE]
        BY <1>10 DEF Delete
      <3> QED
        BY <3>1, Zenon DEF TypeOK
    <2> QED
      BY <1>10, <2>1 DEF Delete, TypeOK
  <1>11. CASE Tick
    BY <1>11, OlderIsAge DEF Tick, TypeOK
  <1>12. CASE UNCHANGED vars
    BY <1>12 DEF vars, TypeOK
  <1> QED
    BY <1>1, <1>2, <1>3, <1>4, <1>5, <1>6, <1>7, <1>8, <1>9, <1>10, <1>11, <1>12
       DEF Next, WorkerStep

-----------------------------------------------------------------------------
(* The race to create the record, and the age of a record nobody works with *)

\* A worker's step that leaves the record alone and neither starts nor ends
\* its work.
LEMMA ReportKeeps ==
    ASSUME TypeOK, RaceInv, DeadInv, NEW w \in Worker,
           Running(w),
           pc' \in [Worker -> WorkerPC],
           Running(w)',
           \A u \in Worker : u # w => pc'[u] = pc[u],
           \A u \in Worker : ref'[u].id = ref[u].id,
           row'.id = row.id, row'.live = row.live,
           age' = age \/ Registered(w), calm' = calm
    PROVE  RaceInv' /\ DeadInv'
  <1>1. RaceInv'
    BY DEF RaceInv, Undeleted, Running
  <1>2. \A u \in Worker : Registered(u)' <=> Registered(u)
    BY DEF Registered, Running
  <1>3. DeadInv'
    BY <1>2 DEF DeadInv, TypeOK
  <1> QED
    BY <1>1, <1>3

\* A worker that joins a live record, or none at all.
LEMMA JoinKeeps ==
    ASSUME TypeOK, RaceInv, NEW w \in Worker,
           UNCHANGED <<row, age>>, calm' = 0,
           \/ Join(w, row.id, row.count) /\ row.live
           \/ Join(w, 0, 0) /\ pc[w] = "rereading" /\ ~row.live
    PROVE  RaceInv' /\ DeadInv'
  <1>1. /\ pc'[w] = "running"
        /\ \A u \in Worker : u # w => pc'[u] = pc[u] /\ ref'[u] = ref[u]
        /\ row.live => ref'[w].id = row.id
    BY DEF TypeOK, Join, Goto
  <1>2. RaceInv'
    BY <1>1 DEF RaceInv, Undeleted, Running
  <1>3. DeadInv'
    BY DEF DeadInv, TypeOK
  <1> QED
    BY <1>2, <1>3

LEMMA RegistryInitial == Init => RegistryInv
  <1>1. Init => RaceInv /\ DeadInv
    BY DEF Init, RaceInv, DeadInv, Running, Undeleted
  <1> QED
    BY <1>1, TypeInitial DEF RegistryInv

LEMMA WorkerKeeps ==
    ASSUME TypeOK, RaceInv, DeadInv, NEW w \in Worker, WorkerStep(w), TypeOK'
    PROVE  RaceInv' /\ DeadInv'
  <1> USE DEF WorkerPC
  <1>0. pc \in [Worker -> WorkerPC] /\ pc' \in [Worker -> WorkerPC]
    BY DEF TypeOK
  <1>1. CASE Start(w)
    <2>1. CASE row.live
      BY <1>1, <2>1, JoinKeeps DEF Start, JoinFound
    <2>2. CASE ~row.live
      <3>1. /\ pc'[w] = "creating" /\ \A u \in Worker : u # w => pc'[u] = pc[u]
            /\ UNCHANGED <<row, age, ref>> /\ calm' = 0
        BY <1>0, <1>1, <2>2 DEF Start, Goto
      <3>2. RaceInv'
        BY <3>1 DEF RaceInv, Undeleted, Running
      <3>3. DeadInv'
        BY <2>2, <3>1 DEF DeadInv
      <3> QED
        BY <3>2, <3>3
    <2> QED
      BY <2>1, <2>2
  <1>2. CASE Create(w)
    <2>1. CASE row.live
      <3>1. /\ pc[w] = "creating" /\ pc'[w] = "rereading"
            /\ \A u \in Worker : u # w => pc'[u] = pc[u]
            /\ UNCHANGED <<row, age, ref>> /\ calm' = 0
        BY <1>0, <1>2, <2>1 DEF Create, Goto
      <3>2. RaceInv'
        BY <2>1, <3>1 DEF RaceInv, Undeleted, Running
      <3>3. DeadInv'
        BY <3>1 DEF DeadInv, TypeOK
      <3> QED
        BY <3>2, <3>3
    <2>2. CASE ~row.live
      <3>1. /\ pc'[w] = "running" /\ ref'[w].id = row.id + 1
            /\ \A u \in Worker : u # w => pc'[u] = pc[u] /\ ref'[u] = ref[u]
            /\ row'.id = row.id + 1 /\ row'.live
        BY <1>0, <1>2, <2>2 DEF Create, Join, Goto, TypeOK
      <3>2. row.id \in Nat
        BY DEF TypeOK
      <3>3. RaceInv'
        <4>1. Undeleted' => row.id = 0
          BY <3>1, <3>2 DEF Undeleted
        <4>2. Undeleted' => \A u \in Worker : u # w => ~Running(u) /\ pc[u] # "rereading"
          BY <2>2, <4>1 DEF RaceInv, Undeleted
        <4> QED
          BY <3>1, <3>2, <4>2 DEF RaceInv, Running
      <3>4. DeadInv'
        BY <3>1 DEF DeadInv, Registered, Running
      <3> QED
        BY <3>3, <3>4
    <2> QED
      BY <2>1, <2>2
  <1>3. CASE Reread(w)
    BY <1>3, JoinKeeps DEF Reread, JoinFound
  <1>4. CASE BeginReport(w)
    BY <1>0, <1>4, ReportKeeps DEF BeginReport, Goto, Running, TypeOK
  <1>5. CASE UpdateRead(w)
    BY <1>0, <1>5, ReportKeeps DEF UpdateRead, EndReport, Goto, Running
  <1>6. CASE UpdateWrite(w)
    <2>1. /\ Running(w) /\ Running(w)'
          /\ \A u \in Worker : u # w => pc'[u] = pc[u]
          /\ ref' = ref /\ calm' = calm
      BY <1>0, <1>6 DEF UpdateWrite, EndReport, Goto, Running
    <2>2. row'.id = row.id /\ row'.live = row.live
      BY <1>6 DEF UpdateWrite, TypeOK
    <2>3. age' = age \/ Registered(w)
      BY <1>6, <2>1 DEF UpdateWrite, Registered
    <2> QED
      BY <1>0, <2>1, <2>2, <2>3, ReportKeeps
  <1>7. CASE UpdateRetry(w)
    BY <1>0, <1>7, ReportKeeps DEF UpdateRetry, Goto, Running
  <1>8. CASE ReportFails(w)
    <2>1. /\ Running(w) /\ Running(w)'
          /\ \A u \in Worker : u # w => pc'[u] = pc[u]
          /\ UNCHANGED <<row, age, ref>> /\ calm' = 0
      BY <1>0, <1>8 DEF ReportFails, EndReport, Goto, Running
    <2>2. \A u \in Worker : Registered(u)' <=> Registered(u)
      BY <2>1 DEF Registered, Running
    <2>3. RaceInv'
      BY <2>1 DEF RaceInv, Undeleted, Running
    <2>4. DeadInv'
      BY <2>1, <2>2 DEF DeadInv, TypeOK
    <2> QED
      BY <2>3, <2>4
  <1>9. CASE Crash(w)
    <2>1. /\ pc'[w] = "down"
          /\ \A u \in Worker : u # w => pc'[u] = pc[u] /\ ref'[u] = ref[u]
          /\ UNCHANGED <<row, age>> /\ calm' = 0
      BY <1>0, <1>9 DEF Crash, Goto, TypeOK
    <2>2. RaceInv'
      BY <2>1 DEF RaceInv, Undeleted, Running
    <2>3. DeadInv'
      BY <2>1 DEF DeadInv, TypeOK
    <2> QED
      BY <2>2, <2>3
  <1> QED
    BY <1>1, <1>2, <1>3, <1>4, <1>5, <1>6, <1>7, <1>8, <1>9 DEF WorkerStep

LEMMA RegistryStep == RegistryInv /\ [Next]_vars => RegistryInv'
  <1> SUFFICES ASSUME RegistryInv, [Next]_vars PROVE RegistryInv'
    OBVIOUS
  <1> USE DEF RegistryInv
  <1>1. TypeOK'
    BY TypeStep
  <1>2. CASE \E w \in Worker : WorkerStep(w)
    BY <1>1, <1>2, WorkerKeeps
  <1>3. CASE Delete
    <2>1. /\ ~row'.live /\ row'.id = row.id /\ row.live
      BY <1>3 DEF Delete, TypeOK
    <2>2. row.id # 0 /\ row.id \in Nat
      BY <2>1 DEF RaceInv, TypeOK
    <2>3. RaceInv' /\ DeadInv'
      BY <2>1, <2>2 DEF RaceInv, DeadInv, Undeleted
    <2> QED
      BY <1>1, <2>3
  <1>4. CASE Tick
    <2>1. UNCHANGED <<row, pc, ref>> /\ age' = Older(age) /\ calm' = Older(calm)
      BY <1>4 DEF Tick
    <2>2. RaceInv'
      BY <2>1 DEF RaceInv, Undeleted, Running
    <2>3. age >= calm => age' >= calm'
      BY <2>1, OlderKeepsOrder DEF TypeOK
    <2>4. DeadInv'
      BY <2>1, <2>3 DEF DeadInv, Registered, Running
    <2> QED
      BY <1>1, <2>2, <2>4
  <1>5. CASE UNCHANGED vars
    BY <1>1, <1>5 DEF vars, RaceInv, DeadInv, Undeleted, Registered, Running
  <1> QED
    BY <1>2, <1>3, <1>4, <1>5 DEF Next

-----------------------------------------------------------------------------
(* The worker that counts furthest *)

\* A bounded set of naturals that is not empty has a largest element.
LEMMA BoundedHasMaximum ==
    ASSUME NEW S, NEW b \in Nat, S \subseteq 0..b, S # {}
    PROVE  \E x \in S : \A y \in S : y <= x
  <1> DEFINE T == {b - x : x \in S}
  <1>0. PICK s \in S : TRUE
    OBVIOUS
  <1>1. T \subseteq Nat /\ b - s \in T
    OBVIOUS
  <1> HIDE DEF T
  <1>2. PICK t \in T : \A u \in T : ~(<<u, t>> \in OpToRel(<, Nat))
    BY <1>1, WFMin, NatLessThanWellFounded
  <1>3. \A u \in T : ~(u < t)
    BY <1>1, <1>2 DEF OpToRel
  <1>4. PICK x \in S : t = b - x
    BY DEF T
  <1>5. \A y \in S : y <= x
    <2> TAKE y \in S
    <2>1. b - y \in T
      BY DEF T
    <2>2. ~(b - y < b - x)
      BY <1>3, <1>4, <2>1
    <2> QED
      BY <2>2
  <1> QED
    BY <1>5

LEMMA FurthestWorker ==
    ASSUME TypeOK, NEW u \in Worker, Registered(u)
    PROVE  \E m \in Worker :
              /\ Registered(m)
              /\ \A w \in Worker : Registered(w) => ref[w].count <= ref[m].count
  <1> DEFINE S == {ref[w].count : w \in {v \in Worker : Registered(v)}}
  <1>1. S \subseteq 0..MaxCount
    BY DEF TypeOK
  <1>2. ref[u].count \in S
    OBVIOUS
  <1>3. MaxCount \in Nat
    BY RegistryAssumption
  <1>4. \A w \in Worker : Registered(w) => ref[w].count \in S
    OBVIOUS
  <1>5. \A x \in S : \E w \in Worker : Registered(w) /\ ref[w].count = x
    OBVIOUS
  <1> HIDE DEF S
  <1>6. PICK x \in S : \A y \in S : y <= x
    BY <1>1, <1>2, <1>3, BoundedHasMaximum
  <1> QED
    BY <1>4, <1>5, <1>6

-----------------------------------------------------------------------------
(* When the workers report *)

LEMMA DueStep == TypeOK /\ DueInv /\ [Next]_vars => DueInv'
  <1> SUFFICES ASSUME TypeOK, DueInv, [Next]_vars PROVE DueInv'
    OBVIOUS
  <1> USE RegistryAssumption
  <1>0. /\ pc \in [Worker -> WorkerPC] /\ due \in [Worker -> Nat]
    BY DEF TypeOK
  <1>1. ASSUME NEW w \in Worker, WorkerStep(w) PROVE DueInv'
    <2>1. ASSUME NEW i, NEW k, Join(w, i, k) PROVE DueInv'
      BY <1>0, <2>1 DEF Join, Goto, DueInv
    <2>2. ASSUME EndReport(w) PROVE DueInv'
      BY <1>0, <2>2 DEF EndReport, Goto, DueInv
    <2>3. CASE Start(w) \/ Create(w) \/ Reread(w)
      BY <1>0, <2>1, <2>3 DEF Start, Create, Reread, JoinFound, Goto, DueInv
    <2>4. CASE BeginReport(w) \/ UpdateRead(w) \/ UpdateRetry(w)
      BY <1>0, <2>2, <2>4 DEF BeginReport, UpdateRead, UpdateRetry, Goto, DueInv
    <2>5. CASE UpdateWrite(w) \/ ReportFails(w)
      BY <2>2, <2>5 DEF UpdateWrite, ReportFails
    <2>6. CASE Crash(w)
      BY <1>0, <2>6 DEF Crash, Goto, DueInv
    <2> QED
      BY <1>1, <2>3, <2>4, <2>5, <2>6 DEF WorkerStep
  <1>2. CASE Tick
    BY <1>0, <1>2 DEF Tick, DueInv
  <1>3. CASE Delete \/ UNCHANGED vars
    BY <1>3 DEF Delete, vars, DueInv
  <1> QED
    BY <1>1, <1>2, <1>3 DEF Next

\* A disturbance begins the wait anew.
LEMMA DisturbedIsUnsettled ==
    ASSUME TypeOK', DueInv', calm' = 0
    PROVE  CalmInv'
  <1>1. Interval \in Nat /\ \A w \in Worker : due'[w] \in Nat /\ due'[w] <= Interval
    BY RegistryAssumption DEF TypeOK, DueInv
  <1> QED
    BY <1>1 DEF CalmInv, Unsettled

-----------------------------------------------------------------------------
(* The reports of registered workers *)

\* What a report's steps leave alone.
LEMMA ReportFrame ==
    ASSUME TypeOK, NEW w \in Worker,
           BeginReport(w) \/ UpdateRead(w) \/ UpdateWrite(w) \/ UpdateRetry(w)
    PROVE  /\ calm' = calm
           /\ \A u \in Worker : Registered(u)' <=> Registered(u)
           /\ \A u \in Worker : u # w => /\ pc'[u] = pc[u] /\ ref'[u] = ref[u]
                                        /\ found'[u] = found[u] /\ due'[u] = due[u]
           /\ ~Registered(w) => UNCHANGED <<row, age>>
  <1>1. \A u \in Worker : Running(u)' <=> Running(u)
    BY DEF BeginReport, UpdateRead, UpdateWrite, UpdateRetry, EndReport, Goto, Running, TypeOK
  <1>2. \A u \in Worker : ref'[u].id = ref[u].id
    BY DEF BeginReport, UpdateRead, UpdateWrite, UpdateRetry, TypeOK
  <1>3. row'.id = row.id /\ row'.live = row.live
    BY DEF BeginReport, UpdateRead, UpdateWrite, UpdateRetry, TypeOK
  <1>4. \A u \in Worker : Registered(u)' <=> Registered(u)
    BY <1>1, <1>2, <1>3 DEF Registered
  <1>5. calm' = calm
    BY DEF BeginReport, UpdateRead, UpdateWrite, UpdateRetry
  <1>6. \A u \in Worker : u # w => /\ pc'[u] = pc[u] /\ ref'[u] = ref[u]
                                  /\ found'[u] = found[u] /\ due'[u] = due[u]
    BY DEF BeginReport, UpdateRead, UpdateWrite, UpdateRetry, EndReport, Goto, TypeOK
  <1>7. ~Registered(w) => UNCHANGED <<row, age>>
    BY DEF BeginReport, UpdateRead, UpdateWrite, UpdateRetry, Registered, Running
  <1> QED
    BY <1>4, <1>5, <1>6, <1>7

\* The counts and times of the model are naturals.
LEMMA Numbers ==
    ASSUME TypeOK
    PROVE  /\ Interval \in Nat /\ age \in Nat /\ calm \in Nat /\ row.count \in Nat
           /\ \A u \in Worker : ref[u].count \in Nat /\ found[u] \in Nat /\ due[u] \in Nat
           /\ \A u \in Worker : Registered(u) => pc[u] \in {"running", "saving", "writing"}
  BY RegistryAssumption, HorizonIsNat DEF TypeOK, Registered, Running

\* A worker without the record does not matter.
LEMMA StrangerKeepsCalm ==
    ASSUME TypeOK, CalmInv, NEW w \in Worker, ~Registered(w),
           BeginReport(w) \/ UpdateRead(w) \/ UpdateWrite(w) \/ UpdateRetry(w)
    PROVE  CalmInv'
  <1>1. /\ UNCHANGED <<row, age, calm>>
        /\ \A u \in Worker : Registered(u)' <=> Registered(u)
        /\ \A u \in Worker : Registered(u) => /\ pc'[u] = pc[u] /\ ref'[u] = ref[u]
                                             /\ found'[u] = found[u] /\ due'[u] = due[u]
    BY ReportFrame
  <1>2. Unsettled => Unsettled'
    BY <1>1 DEF Unsettled
  <1>3. \A m \in Worker : Leads(m) => Leads(m)'
    BY <1>1 DEF Leads, Reported
  <1> QED
    BY <1>1, <1>2, <1>3 DEF CalmInv

\* A report begins: whoever now counts furthest leads.
LEMMA BeginKeepsCalm ==
    ASSUME TypeOK, CalmInv, NEW w \in Worker, Registered(w), BeginReport(w)
    PROVE  CalmInv'
  <1>1. /\ UNCHANGED <<row, age, calm, found, due>>
        /\ \A u \in Worker : Registered(u)' <=> Registered(u)
        /\ \A u \in Worker : u # w => pc'[u] = pc[u] /\ ref'[u] = ref[u]
    BY ReportFrame DEF BeginReport
  <1>2. /\ pc[w] = "running" /\ due[w] = 0 /\ pc'[w] = "saving"
        /\ ref'[w].count = ref[w].count + 1
    BY DEF BeginReport, Goto, TypeOK
  <1>3. CASE Unsettled
    <2>1. Unsettled'
      BY <1>1, <1>2, <1>3 DEF Unsettled
    <2> QED
      BY <2>1 DEF CalmInv
  <1>4. ASSUME NEW m \in Worker, Leads(m) PROVE CalmInv'
    <2>1. CASE m = w \/ ref[w].count < ref[m].count
      <3>1. Leads(m)'
        BY <1>1, <1>2, <1>4, <2>1, Numbers DEF Leads, Reported
      <3> QED
        BY <3>1 DEF CalmInv
    <2>2. CASE m # w /\ ~(ref[w].count < ref[m].count)
      <3>1. ref[w].count = ref[m].count
        BY <1>4, <2>2, Numbers DEF Leads
      <3>2. Leads(w)'
        BY <1>1, <1>2, <1>4, <2>2, <3>1, Numbers DEF Leads, Reported
      <3> QED
        BY <3>2 DEF CalmInv
    <2> QED
      BY <2>1, <2>2
  <1> QED
    BY <1>3, <1>4 DEF CalmInv

\* The transaction reads the record, or begins again.
LEMMA ReadKeepsCalm ==
    ASSUME TypeOK, CalmInv, NEW w \in Worker, Registered(w), UpdateRead(w) \/ UpdateRetry(w)
    PROVE  CalmInv'
  <1>1. /\ UNCHANGED <<row, age, calm, ref>>
        /\ \A u \in Worker : Registered(u)' <=> Registered(u)
        /\ \A u \in Worker : u # w => pc'[u] = pc[u] /\ found'[u] = found[u]
    BY ReportFrame DEF UpdateRead, UpdateRetry
  <1>2. /\ pc[w] # "running" /\ pc'[w] # "running" /\ due' = due
        /\ pc'[w] = "writing" => found'[w] = row.count
    BY DEF UpdateRead, UpdateRetry, Goto, Registered, TypeOK
  <1>3. Unsettled => Unsettled'
    BY <1>1, <1>2 DEF Unsettled
  <1>4. \A m \in Worker : Reported(m)' = Reported(m)
    BY <1>1, <1>2 DEF Reported
  <1>5. \A m \in Worker : Leads(m) => Leads(m)'
    BY <1>1, <1>2, <1>4 DEF Leads
  <1> QED
    BY <1>1, <1>3, <1>5 DEF CalmInv

\* The transaction ends.  The first one after a disturbance settles who leads;
\* later the leader's report counts, and so does one of a worker that has
\* caught up with it.
LEMMA WriteKeepsCalm ==
    ASSUME TypeOK, TypeOK', DueInv, CalmInv, NEW w \in Worker, Registered(w), UpdateWrite(w)
    PROVE  CalmInv'
  <1>1. /\ UNCHANGED <<calm, ref>>
        /\ \A u \in Worker : Registered(u)' <=> Registered(u)
        /\ \A u \in Worker : u # w => /\ pc'[u] = pc[u] /\ found'[u] = found[u]
                                     /\ due'[u] = due[u]
    BY ReportFrame DEF UpdateWrite
  <1>2. pc[w] = "writing" /\ pc'[w] = "running" /\ due'[w] = Interval
    BY DEF UpdateWrite, EndReport, Goto, TypeOK
  <1>3. /\ row'.count = IF ref[w].count # found[w] THEN ref[w].count ELSE row.count
        /\ age' = IF ref[w].count > found[w] THEN 0 ELSE age
    BY DEF UpdateWrite, Registered, TypeOK
  <1>4. CASE Unsettled /\ calm = 0
    BY <1>1, <1>2, <1>4, Numbers DEF CalmInv, Unsettled, DueInv
  <1>5. CASE Unsettled /\ calm # 0
    <2>1. calm <= Interval /\ found[w] = row.count
      BY <1>2, <1>5, Numbers DEF Unsettled
    <2>2. row'.count = ref[w].count
      BY <1>3, <2>1
    <2>3. PICK m \in Worker :
              /\ Registered(m)
              /\ \A v \in Worker : Registered(v) => ref[v].count <= ref[m].count
      BY FurthestWorker
    <2>4. CASE ref[m].count = ref[w].count
      <3>1. Leads(w)'
        BY <1>1, <1>2, <2>1, <2>2, <2>3, <2>4, Numbers DEF Leads, Reported
      <3> QED
        BY <3>1 DEF CalmInv
    <2>5. CASE ref[m].count # ref[w].count
      <3>1. ref[w].count + 1 <= ref[m].count /\ m # w
        BY <2>3, <2>5, Numbers
      <3>2. row'.count <= Reported(m)'
        BY <1>1, <2>2, <3>1, Numbers DEF Reported
      <3>3. calm' + due'[m] <= 2 * Interval
        BY <1>1, <2>1, <3>1, Numbers DEF DueInv
      <3>4. Leads(m)'
        BY <1>1, <2>1, <2>3, <3>2, <3>3 DEF Leads
      <3> QED
        BY <3>4 DEF CalmInv
    <2> QED
      BY <2>4, <2>5
  <1>6. ASSUME NEW m \in Worker, Leads(m) PROVE CalmInv'
    <2>1. /\ ref[w].count <= ref[m].count /\ row.count <= Reported(m)
          /\ Reported(m) <= ref[m].count
      BY <1>6, Numbers DEF Leads, Reported
    <2>2. CASE m = w \/ (pc[m] # "running" /\ ref[w].count = ref[m].count)
      <3>1. Reported(m) = ref[w].count - 1 /\ Reported(w)' = ref[w].count
        BY <1>1, <1>2, <2>2 DEF Reported
      <3>2. row'.count <= Reported(w)'
        BY <1>3, <2>1, <3>1, Numbers
      <3>3. age' + due'[w] <= Interval \/ calm' + due'[w] <= 2 * Interval
        <4>1. CASE calm <= Interval
          BY <1>1, <1>2, <4>1, Numbers
        <4>2. CASE found[w] <= Reported(m)
          BY <1>2, <1>3, <3>1, <4>2, Numbers
        <4> QED
          BY <1>2, <1>6, <4>1, <4>2 DEF Leads
      <3>4. \/ calm' <= Interval
            \/ \A v \in Worker :
                  Registered(v)' /\ pc'[v] = "writing" => found'[v] <= Reported(w)'
        BY <1>1, <1>2, <1>6, <3>1, Numbers DEF Leads
      <3>5. \A v \in Worker : Registered(v)' => ref'[v].count <= ref'[w].count
        BY <1>1, <1>6, <2>2 DEF Leads
      <3>6. Leads(w)'
        BY <1>1, <3>2, <3>3, <3>4, <3>5 DEF Leads
      <3> QED
        BY <3>6 DEF CalmInv
    <2>3. CASE m # w /\ (pc[m] = "running" \/ ref[w].count # ref[m].count)
      <3>1. Reported(m)' = Reported(m) /\ ref[w].count <= Reported(m)
        BY <1>1, <2>1, <2>3, Numbers DEF Reported
      <3>2. row'.count <= Reported(m)'
        BY <1>3, <2>1, <3>1
      <3>3. age' + due'[m] <= Interval \/ calm' + due'[m] <= 2 * Interval
        BY <1>1, <1>3, <1>6, <2>3, Numbers DEF Leads, DueInv
      <3>4. Leads(m)'
        BY <1>1, <1>2, <1>6, <3>1, <3>2, <3>3 DEF Leads
      <3> QED
        BY <3>4 DEF CalmInv
    <2> QED
      BY <2>2, <2>3
  <1> QED
    BY <1>4, <1>5, <1>6 DEF CalmInv

\* A tick brings the leader's turn as much nearer as it ages the record.
LEMMA TickKeepsCalm ==
    ASSUME TypeOK, CalmInv, Tick
    PROVE  CalmInv'
  <1>1. UNCHANGED <<row, pc, ref>> /\ \A u \in Worker : pc[u] # "writing"
    BY DEF Tick
  <1>2. \A u \in Worker : Registered(u)' <=> Registered(u)
    BY <1>1 DEF Registered, Running
  <1>3. age' \in Nat /\ age' <= age + 1 /\ calm' \in Nat /\ calm' <= calm + 1
    BY Numbers, HorizonIsNat DEF Tick, Older
  <1>4. \A u \in Worker : Registered(u) => due[u] > 0 /\ due'[u] = due[u] - 1
    BY DEF Tick, Registered, Running, TypeOK
  <1>5. Unsettled => Unsettled'
    BY <1>1, <1>2, <1>3, <1>4, Numbers DEF Unsettled
  <1>6. ASSUME NEW m \in Worker, Leads(m) PROVE Leads(m)'
    <2>1. age' + due'[m] <= Interval \/ calm' + due'[m] <= 2 * Interval
      BY <1>3, <1>4, <1>6, Numbers DEF Leads
    <2> QED
      BY <1>1, <1>2, <1>6, <2>1 DEF Leads, Reported
  <1> QED
    BY <1>2, <1>5, <1>6 DEF CalmInv

LEMMA LiveInitial == Init => LiveInv
  <1>1. Init => DueInv /\ CalmInv
    BY RegistryAssumption DEF Init, DueInv, CalmInv, Registered, Running
  <1> QED
    BY <1>1, RegistryInitial DEF LiveInv

LEMMA LiveStep == LiveInv /\ [Next]_vars => LiveInv'
  <1> SUFFICES ASSUME LiveInv, [Next]_vars PROVE LiveInv'
    OBVIOUS
  <1>1. RegistryInv' /\ TypeOK /\ TypeOK' /\ DueInv /\ CalmInv
    BY RegistryStep DEF LiveInv, RegistryInv
  <1>2. DueInv'
    BY <1>1, DueStep
  <1> SUFFICES CalmInv'
    BY <1>1, <1>2 DEF LiveInv
  <1>3. ASSUME calm' = 0 PROVE CalmInv'
    BY <1>1, <1>2, <1>3, DisturbedIsUnsettled
  <1>4. ASSUME NEW w \in Worker, WorkerStep(w) PROVE CalmInv'
    <2>1. CASE Start(w) \/ Create(w) \/ Reread(w) \/ ReportFails(w) \/ Crash(w)
      BY <1>3, <2>1 DEF Start, Create, Reread, ReportFails, Crash
    <2>2. CASE BeginReport(w) \/ UpdateRead(w) \/ UpdateWrite(w) \/ UpdateRetry(w)
      BY <1>1, <2>2, StrangerKeepsCalm, BeginKeepsCalm, ReadKeepsCalm, WriteKeepsCalm
    <2> QED
      BY <1>4, <2>1, <2>2 DEF WorkerStep
  <1>5. CASE Delete
    BY <1>3, <1>5 DEF Delete
  <1>6. CASE Tick
    BY <1>1, <1>6, TickKeepsCalm
  <1>7. CASE UNCHANGED vars
    BY <1>1, <1>7 DEF vars, CalmInv, Unsettled, Leads, Reported, Registered, Running
  <1> QED
    BY <1>4, <1>5, <1>6, <1>7 DEF Next

-----------------------------------------------------------------------------
(* Theorems *)

\* The invariant of the service record and its workers (service.py and
\* servicegroup/drivers/db.py).
THEOREM RegistryInvariant == Spec => []RegistryInv
  BY RegistryInitial, RegistryStep, PTL DEF Spec

\* The registry's variables keep their types.
THEOREM RegistryTypeCorrect == Spec => []TypeOK
  <1>1. RegistryInv => TypeOK
    BY DEF RegistryInv
  <1> QED
    BY <1>1, RegistryInvariant, PTL

\* The race of Service.start to create the record leaves every worker with the
\* one record, however many workers start together.
THEOREM OneWinner == Spec => []RegisteredUnlessDeleted
  <1>1. RegistryInv => RegisteredUnlessDeleted
    BY DEF RegistryInv, RaceInv, Undeleted, RegisteredUnlessDeleted, Registered
  <1> QED
    BY <1>1, RegistryInvariant, PTL

\* is_up is false for a service whose workers have been gone for longer than
\* service_down_time, even with transactions under way when they went.
THEOREM DeadIsDown == Spec => []DownWhenDead
  <1>1. RegistryInv => DownWhenDead
    <2> SUFFICES ASSUME RegistryInv, row.live, calm > service_down_time,
                        \A w \in Worker : ~Registered(w)
                 PROVE  ~(age <= service_down_time)
      BY DEF DownWhenDead, is_up
    <2>1. age >= calm /\ age \in Nat /\ calm \in Nat
      BY HorizonIsNat DEF RegistryInv, DeadInv, TypeOK
    <2> QED
      BY <2>1, HorizonIsNat
  <1> QED
    BY <1>1, RegistryInvariant, PTL

\* API.__init__ of servicegroup keeps service_down_time above the interval.
LEMMA DownTimeAboveInterval == Interval < service_down_time
  BY RegistryAssumption DEF service_down_time

\* The invariant of a live worker's record: one worker's report renews it in
\* every interval, although the workers overwrite each other's report_count.
THEOREM LiveInvariant == Spec => []LiveInv
  BY LiveInitial, LiveStep, PTL DEF Spec

\* is_up is true for a service with a worker that works with its record, once
\* two intervals have passed since the last start, crash, failed report or
\* deletion, however the heartbeats of the workers interleave.
THEOREM LiveIsUp == Spec => []UpWhenCalm
  <1>1. LiveInv => UpWhenCalm
    <2> SUFFICES ASSUME LiveInv, calm > 2 * Interval, NEW w \in Worker, Registered(w)
                 PROVE  row.live /\ age <= service_down_time
      BY DEF UpWhenCalm, is_up
    <2>1. TypeOK /\ CalmInv
      BY DEF LiveInv, RegistryInv
    <2>2. ~Unsettled
      BY <2>1, Numbers DEF Unsettled
    <2>3. PICK m \in Worker : Leads(m)
      BY <2>1, <2>2 DEF CalmInv
    <2>4. age <= Interval
      BY <2>1, <2>3, Numbers DEF Leads
    <2> QED
      BY <2>1, <2>4, Numbers, DownTimeAboveInterval, HorizonIsNat DEF Registered
  <1> QED
    BY <1>1, LiveInvariant, PTL
=============================================================================
