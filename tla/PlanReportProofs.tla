-------------------------- MODULE PlanReportProofs --------------------------
(***************************************************************************)
(* Theorems of PlanReport, for every plan, pool size and retry bound.      *)
(***************************************************************************)
EXTENDS PlanReport, FiniteSetTheorems, TLAPS

(* The row of a new plan, the copy report_result changes and the row a     *)
(* flush leaves are rows.                                                  *)
LEMMA NewRowType == NewRow \in Row
  BY DEF NewRow, Row

LEMMA ReportedType ==
  ASSUME NEW r \in Row, NEW c \in Call, arg \in [Call -> Status]
  PROVE  Reported(r, c) \in Row
  <1> DEFINE res == [r.result EXCEPT ![GroupOf[c[1]]] = arg[c]]
  <1>1. res \in [Group -> Status \cup {"none"}]
    BY DEF Row
  <1>2. summary(res) \in SummaryRange
    BY <1>1 DEF SummaryRange
  <1>3. r.message \cup {c} \in SUBSET Call
    BY DEF Row
  <1> HIDE DEF res
  <1>4. [result |-> res, message |-> r.message \cup {c}, summary |-> summary(res)] \in Row
    BY <1>1, <1>2, <1>3 DEF Row
  <1> QED
    BY <1>4 DEF Reported, res

LEMMA FlushedType ==
  ASSUME NEW o \in Row, NEW r \in Row, NEW n \in Row
  PROVE  Flushed(o, r, n) \in Row
  BY DEF Flushed, Row

(* A call names a step, a place and a copy; the parts of the plan are      *)
(* finite.                                                                 *)
LEMMA CallParts ==
  /\ \A c \in Call : /\ c = <<c[1], c[2], c[3]>>
                     /\ c[1] \in Step /\ c[2] \in Place /\ c[3] \in Copy
  /\ \A s \in Step, p \in Place : <<s, p, 1>> \in Call
  /\ \A s \in Step : /\ <<s, "try", 1>> \in Call /\ <<s, "except", 1>> \in Call
                     /\ <<s, "try", 1>> # <<s, "except", 1>>
  BY PlanAssumption DEF Call, Copy, Place

LEMMA FiniteParts ==
  /\ \A g \in Group : IsFiniteSet(StepsOf(g)) /\ Cardinality(StepsOf(g)) \in Nat
  /\ IsFiniteSet(Call)
  /\ \A c \in Call : c[1] \in Step /\ c[2] \in Place /\ GroupOf[c[1]] \in Group
  /\ \A s \in Step, p \in Place : <<s, p, 1>> \in Call
  <1>1. \A g \in Group : StepsOf(g) \in SUBSET Step
    BY DEF StepsOf
  <1>2. \A g \in Group : IsFiniteSet(StepsOf(g)) /\ Cardinality(StepsOf(g)) \in Nat
    BY <1>1, FS_Subset, FS_CardinalityType, PlanAssumption
  <1>3. IsFiniteSet({"try"} \cup {"except"})
    BY FS_Singleton, FS_Union
  <1>4. IsFiniteSet(Place)
    <2>1. Place = {"try"} \cup {"except"}
      BY DEF Place
    <2> QED
      BY <1>3, <2>1
  <1>5. IsFiniteSet(Call)
    <2> DEFINE f == [c \in Call |-> <<c[1], <<c[2], c[3]>>>>]
               T == Step \X (Place \X Copy)
    <2>1. IsFiniteSet(Copy)
      BY PlanAssumption, FS_Interval DEF Copy
    <2>2. IsFiniteSet(Place \X Copy)
      BY <1>4, <2>1, FS_Product
    <2>3. IsFiniteSet(T)
      BY <2>2, FS_Product, PlanAssumption
    <2>4. \A c \in Call : f[c] \in T
      BY CallParts
    <2>5. \A c, d \in Call : f[c] = f[d] => c = d
      <3> SUFFICES ASSUME NEW c \in Call, NEW d \in Call, f[c] = f[d]
                   PROVE  c = d
        OBVIOUS
      <3>1. c[1] = d[1] /\ c[2] = d[2] /\ c[3] = d[3]
        OBVIOUS
      <3> QED
        BY <3>1, CallParts
    <2>6. f \in Injection(Call, T)
      BY <2>4, <2>5 DEF Injection, IsInjective
    <2> HIDE DEF f, T
    <2> QED
      BY <2>3, <2>6, FS_Injection
  <1> QED
    BY <1>2, <1>5, CallParts, PlanAssumption

(* A greenthread that saves holds two rows. *)
LEMMA SavingRows ==
  ASSUME TypeOK, NEW c \in Call, handler[c] = "saving"
  PROVE  row \in Row /\ base[c] \in Row /\ plan[c] \in Row
  BY DEF TypeOK, HoldsCopy

(* Every operation keeps the types; the rows it builds are rows.           *)
LEMMA TypeStep ==
  ASSUME TypeOK, [Next]_vars
  PROVE  TypeOK'
  <1> USE FiniteParts, PlanAssumption DEF TypeOK, WorkerStates, HandlerStates, Begun, Active, HoldsCopy
  <1>1. ASSUME NEW s \in Step, NEW w \in WorkerStates, worker' = [worker EXCEPT ![s] = w],
               undelivered' = undelivered \/ undelivered' = undelivered \cup {s},
               UNCHANGED <<serverVars, arg, handler>>
        PROVE  TypeOK'
    BY <1>1 DEF serverVars
  <1>2. ASSUME NEW c \in Call, NEW a \in Status, arg' = [arg EXCEPT ![c] = a],
               handler' = [handler EXCEPT ![c] = "queued"],
               worker' \in [Step -> WorkerStates], UNCHANGED <<serverVars, undelivered>>
        PROVE  TypeOK'
    BY <1>2 DEF serverVars
  <1>a. ASSUME NEW s \in Step, NEW place \in Place, NEW status \in Status,
               SendReport(s, place, status)
        PROVE  TypeOK'
    <2>1. worker' \in [Step -> WorkerStates]
      BY <1>a DEF SendReport, Place
    <2> QED
      BY <1>2, <1>a, <2>1 DEF SendReport
  <1>3. ASSUME NEW s \in Step, Dispatch(s) \/ Worker(s)
        PROVE  TypeOK'
    <2>1. CASE Execute(s)
      BY <1>a, <2>1 DEF Execute, Place
    <2>2. CASE ReportCaught(s)
      BY <1>a, <2>2 DEF ReportCaught, Place, Status
    <2>3. CASE Dispatch(s) \/ ExecuteRaises(s) \/ CaughtRaises(s) \/ ExecuteLinux(s)
      BY <1>1, <2>3 DEF Dispatch, ExecuteRaises, CaughtRaises, ExecuteLinux, Raise
    <2>4. ASSUME NEW place \in Place,
                 \/ ReplyOk(s, place) \/ ReplyFailed(s, place)
                 \/ CallRaises(s, place) \/ CallTimeout(s, place)
          PROVE  TypeOK'
      BY <1>1, <2>4 DEF ReplyOk, ReplyFailed, CallRaises, CallTimeout, Raise
    <2> QED
      BY <1>3, <2>1, <2>2, <2>3, <2>4 DEF Worker
  <1>4. ASSUME NEW c \in Call, Expire(c)
        PROVE  TypeOK'
    BY <1>4 DEF Expire, serverVars
  <1>b. ASSUME NEW c \in Call, Redeliver(c)
        PROVE  TypeOK'
    BY <1>2, <1>b DEF Redeliver
  <1>5. ASSUME NEW c \in Call, Handle(c)
        PROVE  TypeOK'
    <2>1. CASE Result(c)
      BY <2>1 DEF Result
    <2>2. CASE Read(c)
      BY <2>2, ReportedType DEF Read
    <2>3. CASE SaveBegin(c)
      BY <2>3 DEF SaveBegin
    <2>4. CASE SaveRetry(c)
      BY <2>4 DEF SaveRetry
    <2>5. CASE SaveCommit(c)
      <3>0. row \in Row /\ base[c] \in Row /\ plan[c] \in Row
        <4>1. handler[c] = "saving"
          BY <2>5 DEF SaveCommit
        <4> QED
          BY <4>1, SavingRows
      <3>1. row' \in Row
        BY <2>5, <3>0, FlushedType DEF SaveCommit
      <3> QED
        BY <2>5, <3>1 DEF SaveCommit, Forget
    <2>6. CASE ReportRaises(c)
      BY <2>6 DEF ReportRaises, Forget
    <2> QED
      BY <1>5, <2>1, <2>2, <2>3, <2>4, <2>5, <2>6 DEF Handle
  <1>6. CASE UNCHANGED vars
    BY <1>6 DEF vars, serverVars
  <1> QED
    BY <1>3, <1>4, <1>5, <1>6, <1>b DEF Next

LEMMA TypeInit == Init => TypeOK
  <1> SUFFICES ASSUME Init PROVE TypeOK
    OBVIOUS
  <1>1. finish_flag \in [Group -> Int]
    BY FiniteParts DEF Init
  <1>2. retries \in [Call -> 0..MaxRetries]
    BY PlanAssumption DEF Init
  <1>3. /\ worker \in [Step -> WorkerStates]
        /\ arg \in [Call -> Status]
        /\ handler \in [Call -> HandlerStates]
    BY DEF Init, WorkerStates, HandlerStates, Status
  <1>4. /\ plan \in [Call -> Row \cup {NoRow}] /\ base \in [Call -> Row \cup {NoRow}]
        /\ row \in Row /\ undelivered \subseteq Step
    BY NewRowType DEF Init
  <1>5. \A c \in Call : ~HoldsCopy(c) /\ handler[c] # "saving"
    BY DEF Init, HoldsCopy
  <1> QED
    BY <1>1, <1>2, <1>3, <1>4, <1>5 DEF Init, TypeOK

(* Every field keeps its type through every operation of the conductor,    *)
(* the workers and the report servers.                                     *)
THEOREM TypeCorrect == Spec => []TypeOK
  BY TypeInit, TypeStep, PTL DEF Spec

-----------------------------------------------------------------------------
(* The conjuncts of SafetyInv that only worker or handler disturb.         *)
WorkerPart == WorkerInv /\ RetryOnlyAfterFailure

(* The two places of a step have copies of their own.                      *)
LEMMA CopiesOfPlaces ==
  /\ \A s, place : Copies(s, place) \subseteq Call
  /\ \A s \in Step, p \in Place : <<s, p, 1>> \in Copies(s, p)
  /\ \A c \in Call : c \in Copies(c[1], c[2])
  /\ \A c \in Call : \A s, place : c \in Copies(s, place) <=> c[1] = s /\ c[2] = place
  BY CallParts DEF Copies

LEMMA WorkerPartStep ==
  ASSUME TypeOK, WorkerPart, [Next]_vars
  PROVE  WorkerPart'
  <1> USE CopiesOfPlaces DEF WorkerPart, WorkerInv, RetryOnlyAfterFailure, TypeOK
  <1>1. ASSUME NEW s \in Step, Dispatch(s)
        PROVE  WorkerPart'
    BY <1>1 DEF Dispatch
  <1>2. ASSUME NEW s \in Step, Worker(s)
        PROVE  WorkerPart'
    <2>1. CASE Execute(s)
      <3>1. PICK status \in Status : SendReport(s, "try", status)
        BY <2>1 DEF Execute
      <3>2. /\ worker[s] = "queued" /\ worker' = [worker EXCEPT ![s] = "try"]
            /\ \A c \in Call \ Copies(s, "try") : handler'[c] = handler[c]
            /\ undelivered' = undelivered
        BY <2>1, <3>1 DEF Execute, SendReport, Place
      <3>3. \A t \in Step : Copies(t, "except") \cap Copies(s, "try") = {}
        OBVIOUS
      <3>4. \A t \in Step : t # s => Copies(t, "try") \cap Copies(s, "try") = {}
        OBVIOUS
      <3> QED
        BY <3>2, <3>3, <3>4 DEF Copies
    <2>2. CASE ReportCaught(s)
      <3>1. /\ worker[s] = "caught" /\ worker' = [worker EXCEPT ![s] = "except"]
            /\ \A c \in Call \ Copies(s, "except") : handler'[c] = handler[c]
            /\ undelivered' = undelivered
        BY <2>2 DEF ReportCaught, SendReport, Place
      <3>2. \A t \in Step : Copies(t, "try") \cap Copies(s, "except") = {}
        OBVIOUS
      <3>3. \A t \in Step : t # s => Copies(t, "except") \cap Copies(s, "except") = {}
        OBVIOUS
      <3> QED
        BY <3>1, <3>2, <3>3 DEF Copies
    <2>3. CASE ExecuteLinux(s) \/ ExecuteRaises(s) \/ CaughtRaises(s)
      BY <2>3 DEF ExecuteLinux, ExecuteRaises, CaughtRaises, Raise, Copies
    <2>4. ASSUME NEW place \in Place, ReplyOk(s, place) \/ CallTimeout(s, place)
          PROVE  WorkerPart'
      BY <2>4 DEF ReplyOk, CallTimeout, Place, Copies
    <2>5. ASSUME NEW place \in Place, ReplyFailed(s, place) \/ CallRaises(s, place)
          PROVE  WorkerPart'
      <3>1. CASE place = "try"
        <4>1. /\ worker[s] = "try" /\ handler' = handler
              /\ worker' = [worker EXCEPT ![s] = "caught"]
              /\ undelivered \subseteq undelivered'
              /\ s \in undelivered' \/ \E c \in Copies(s, "try") : handler[c] = "failed"
          BY <2>5, <3>1 DEF ReplyFailed, CallRaises, Raise
        <4> QED
          BY <4>1 DEF Copies
      <3>2. CASE place = "except"
        BY <2>5, <3>2 DEF ReplyFailed, CallRaises, Raise, Copies
      <3> QED
        BY <3>1, <3>2 DEF Place
    <2> QED
      BY <1>2, <2>1, <2>2, <2>3, <2>4, <2>5 DEF Worker
  <1>3. ASSUME NEW c \in Call, Handle(c) \/ Expire(c)
        PROVE  WorkerPart'
    <2>1. /\ worker' = worker /\ undelivered' = undelivered
          /\ \E st \in HandlerStates : handler' = [handler EXCEPT ![c] = st]
          /\ handler[c] \notin {"idle", "failed"}
      BY <1>3 DEF Handle, Expire, Result, Read, SaveBegin, SaveRetry, SaveCommit, ReportRaises,
                  Active, HandlerStates, Begun
    <2>2. /\ \A d \in Call : handler[d] = "idle" => handler'[d] = "idle"
          /\ \A d \in Call : handler[d] = "failed" => handler'[d] = "failed"
      BY <2>1
    <2>3. \A d \in Call : handler'[d] = "idle" => handler[d] = "idle" \/ d = c
      BY <2>1
    <2> QED
      BY <2>1, <2>2 DEF Copies
  <1>4. ASSUME NEW c \in Call, Redeliver(c)
        PROVE  WorkerPart'
    <2>1. PICK d \in Call :
            /\ d[1] = c[1] /\ d[2] = c[2]
            /\ handler[c] # "idle" /\ handler[d] = "idle"
            /\ handler' = [handler EXCEPT ![d] = "queued"]
            /\ worker' = worker /\ undelivered' = undelivered
      BY <1>4 DEF Redeliver
    <2>2. \A e \in Call : e # d => handler'[e] = handler[e]
      BY <2>1
    <2>3. \A s, place : (\A e \in Copies(s, place) : handler[e] = "idle")
                           => (\A e \in Copies(s, place) : handler'[e] = "idle")
      BY <2>1, <2>2
    <2>4. \A e \in Call : handler[e] = "failed" => handler'[e] = "failed"
      BY <2>1, <2>2
    <2> QED
      BY <2>1, <2>3, <2>4 DEF Copies
  <1>5. CASE UNCHANGED vars
    BY <1>5 DEF vars, Copies
  <1> QED
    BY <1>1, <1>2, <1>3, <1>4, <1>5 DEF Next

-----------------------------------------------------------------------------
(* The conjuncts of SafetyInv about the row and the copies of it. *)
RowPart == CopyInv /\ OnlyAccepted /\ FreshInv /\ NoOverlapNoLoss

(* A step that saves nothing, gives no greenthread a new copy and changes  *)
(* no argument of a report in progress or accepted.                        *)
QuietStep ==
  /\ row' = row /\ raced' = raced
  /\ \A c \in Call :
       /\ Ended(c)' <=> Ended(c)
       /\ HoldsCopy(c)' => /\ HoldsCopy(c)
                           /\ plan'[c] = plan[c]
                           /\ handler'[c] = "saving" => handler[c] = "saving" /\ base'[c] = base[c]
       /\ HoldsCopy(c)' \/ Ended(c)' => arg'[c] = arg[c]

LEMMA QuietKeepsRowPart ==
  ASSUME TypeOK, RowPart, QuietStep
  PROVE  RowPart'
  <1> USE DEF RowPart, QuietStep
  <1>0. {d \in Call : Ended(d)'} = {d \in Call : Ended(d)}
    OBVIOUS
  <1>a. \A g : CallsOf(g) \subseteq Call
    BY DEF CallsOf
  <1>1. OnlyAccepted'
    BY <1>0, <1>a DEF OnlyAccepted, CallsOf
  <1>2. CopyInv'
    <2> SUFFICES ASSUME NEW c \in Call, HoldsCopy(c)'
                 PROVE  /\ plan'[c].message \subseteq {d \in Call : Ended(d)'} \cup {c}
                        /\ c \in plan'[c].message
                        /\ handler'[c] = "saving" => c \notin base'[c].message
                        /\ \A g \in Group : plan'[c].result[g] # "none" =>
                             \E d \in CallsOf(g) : (Ended(d)' \/ d = c) /\ arg'[d] = plan'[c].result[g]
      BY DEF CopyInv, CallsOf
    <2>1. /\ HoldsCopy(c) /\ plan'[c] = plan[c] /\ arg'[c] = arg[c]
          /\ handler'[c] = "saving" => handler[c] = "saving" /\ base'[c] = base[c]
      OBVIOUS
    <2>2. \A d \in Call : Ended(d) => arg'[d] = arg[d]
      OBVIOUS
    <2> QED
      BY <1>0, <1>a, <2>1, <2>2 DEF CopyInv
  <1>3. FreshInv'
    <2> SUFFICES ASSUME ~raced, NEW c \in Call, HoldsCopy(c)'
                 PROVE  /\ plan'[c] = Reported(row, c)'
                        /\ handler'[c] = "saving" => base'[c] = row'
      BY DEF FreshInv
    <2>1. Reported(row, c)' = Reported(row, c)
      BY DEF Reported
    <2> QED
      BY <2>1 DEF FreshInv
  <1>4. NoOverlapNoLoss'
    <2>1. LogCollected <=> LogCollected'
      BY <1>0 DEF LogCollected
    <2>2. SummaryCurrent <=> SummaryCurrent'
      BY DEF SummaryCurrent, summary
    <2>3. ResultPresent <=> ResultPresent'
      BY <1>a DEF ResultPresent, CallsOf
    <2> QED
      BY <2>1, <2>2, <2>3 DEF NoOverlapNoLoss
  <1> QED
    BY <1>1, <1>2, <1>3, <1>4

(* Everything but the read, the begin of a save and its commit is quiet.   *)
LEMMA SendIsQuiet ==
  ASSUME TypeOK, NEW c \in Call, NEW a \in Status, handler[c] = "idle",
         arg' = [arg EXCEPT ![c] = a], handler' = [handler EXCEPT ![c] = "queued"],
         UNCHANGED serverVars
  PROVE  /\ QuietStep
         /\ \A d \in Call : handler'[d] \in Begun <=> handler[d] \in Begun
         /\ \A d \in Call : handler'[d] \in Active => handler[d] \in Active
         /\ \A d \in Call : handler[d] # "idle" => handler'[d] # "idle"
  <1>1. \A d \in Call : d # c => handler'[d] = handler[d] /\ arg'[d] = arg[d]
    BY DEF TypeOK
  <1>2. handler'[c] = "queued"
    BY DEF TypeOK
  <1> QED
    BY <1>1, <1>2 DEF serverVars, QuietStep, Ended, HoldsCopy, Begun, Active

(* A step of a worker sends a new report or leaves the reports alone; so   *)
(* does the broker.                                                        *)
LEMMA WorkerSends ==
  ASSUME TypeOK, WorkerPart, NEW s \in Step, Dispatch(s) \/ Worker(s)
  PROVE  /\ UNCHANGED serverVars
         /\ \/ UNCHANGED <<arg, handler>>
            \/ \E c \in Call, a \in Status :
                  /\ handler[c] = "idle"
                  /\ arg' = [arg EXCEPT ![c] = a] /\ handler' = [handler EXCEPT ![c] = "queued"]
  <1>1. CASE Execute(s)
    <2>1. PICK a \in Status : SendReport(s, "try", a)
      BY <1>1 DEF Execute
    <2>2. <<s, "try", 1>> \in Call /\ handler[<<s, "try", 1>>] = "idle"
      <3>1. \A c \in Copies(s, "try") : handler[c] = "idle"
        BY <1>1 DEF Execute, WorkerPart, WorkerInv
      <3>2. <<s, "try", 1>> \in Copies(s, "try")
        BY CopiesOfPlaces DEF Place
      <3> QED
        BY <3>1, <3>2, CallParts
    <2> QED
      BY <2>1, <2>2 DEF SendReport
  <1>2. CASE ReportCaught(s)
    <2>1. <<s, "except", 1>> \in Call /\ handler[<<s, "except", 1>>] = "idle"
      <3>1. \A c \in Copies(s, "except") : handler[c] = "idle"
        BY <1>2 DEF ReportCaught, WorkerPart, WorkerInv
      <3>2. <<s, "except", 1>> \in Copies(s, "except")
        BY CopiesOfPlaces DEF Place
      <3> QED
        BY <3>1, <3>2, CallParts
    <2> QED
      BY <1>2, <2>1 DEF ReportCaught, SendReport, Status
  <1> QED
    BY <1>1, <1>2 DEF Dispatch, Worker, ExecuteRaises, CaughtRaises, ExecuteLinux, ReplyOk,
                      ReplyFailed, CallRaises, CallTimeout

LEMMA RedeliverSends ==
  ASSUME TypeOK, NEW c \in Call, Redeliver(c)
  PROVE  /\ UNCHANGED serverVars
         /\ \E d \in Call, a \in Status :
               /\ handler[d] = "idle"
               /\ arg' = [arg EXCEPT ![d] = a] /\ handler' = [handler EXCEPT ![d] = "queued"]
  BY DEF Redeliver, TypeOK

(* What such a step means for the copies, the count and the pool.          *)
LEMMA OutsideStep ==
  ASSUME TypeOK, WorkerPart,
         \/ \E s \in Step : Dispatch(s) \/ Worker(s)
         \/ \E c \in Call : Redeliver(c)
         \/ UNCHANGED vars
  PROVE  /\ UNCHANGED serverVars
         /\ QuietStep
         /\ \A d \in Call : handler'[d] \in Begun <=> handler[d] \in Begun
         /\ \A d \in Call : handler'[d] \in Active => handler[d] \in Active
         /\ \A d \in Call : handler[d] # "idle" => handler'[d] # "idle"
  <1>1. ASSUME UNCHANGED <<serverVars, arg, handler>>
        PROVE  QuietStep
    BY <1>1 DEF serverVars, QuietStep, Ended, HoldsCopy
  <1>2. CASE UNCHANGED vars
    BY <1>1, <1>2 DEF vars
  <1>3. ASSUME NEW s \in Step, Dispatch(s) \/ Worker(s), ~UNCHANGED <<arg, handler>>
        PROVE  UNCHANGED serverVars /\ \E c \in Call, a \in Status :
                  /\ handler[c] = "idle"
                  /\ arg' = [arg EXCEPT ![c] = a] /\ handler' = [handler EXCEPT ![c] = "queued"]
    BY <1>3, WorkerSends
  <1>4. ASSUME NEW s \in Step, Dispatch(s) \/ Worker(s), UNCHANGED <<arg, handler>>
        PROVE  UNCHANGED serverVars
    BY <1>4, WorkerSends
  <1>5. CASE UNCHANGED <<arg, handler>> /\ \E s \in Step : Dispatch(s) \/ Worker(s)
    BY <1>1, <1>4, <1>5
  <1>6. CASE UNCHANGED serverVars /\ \E c \in Call, a \in Status :
                  /\ handler[c] = "idle"
                  /\ arg' = [arg EXCEPT ![c] = a] /\ handler' = [handler EXCEPT ![c] = "queued"]
    <2>1. PICK c \in Call, a \in Status :
                  /\ handler[c] = "idle"
                  /\ arg' = [arg EXCEPT ![c] = a] /\ handler' = [handler EXCEPT ![c] = "queued"]
      BY <1>6
    <2> QED
      BY <1>6, <2>1, SendIsQuiet
  <1> QED
    BY <1>2, <1>3, <1>5, <1>6, RedeliverSends

LEMMA HandlerIsQuiet ==
  ASSUME TypeOK, NEW c \in Call,
         Expire(c) \/ Result(c) \/ SaveRetry(c) \/ ReportRaises(c)
  PROVE  QuietStep
  <1>1. \A d \in Call \ {c} : handler'[d] = handler[d] /\ plan'[d] = plan[d] /\ base'[d] = base[d]
    BY DEF Expire, Result, SaveRetry, ReportRaises, Forget, TypeOK, serverVars
  <1>2. row' = row /\ raced' = raced /\ arg' = arg
    BY DEF Expire, Result, SaveRetry, ReportRaises, Forget, serverVars
  <1>3. /\ ~Ended(c) /\ ~Ended(c)'
        /\ HoldsCopy(c)' => HoldsCopy(c) /\ handler'[c] = "read" /\ plan'[c] = plan[c]
    BY DEF Expire, Result, SaveRetry, ReportRaises, Forget, TypeOK, Ended, HoldsCopy, Active, serverVars
  <1> QED
    BY <1>1, <1>2, <1>3 DEF QuietStep, Ended, HoldsCopy

(* The read: the copy is the current row plus the report. *)
LEMMA ReadKeepsRowPart ==
  ASSUME TypeOK, RowPart, NEW c \in Call, Read(c)
  PROVE  RowPart'
  <1> USE DEF RowPart
  <1>1. /\ handler[c] = "started" /\ handler' = [handler EXCEPT ![c] = "read"]
        /\ plan' = [plan EXCEPT ![c] = Reported(row, c)]
        /\ row' = row /\ raced' = raced /\ arg' = arg /\ base' = base
    BY DEF Read
  <1>2. \A d \in Call : Ended(d)' <=> Ended(d)
    BY <1>1 DEF Ended, TypeOK
  <1>3. /\ plan'[c] = Reported(row, c) /\ handler'[c] = "read"
        /\ \A d \in Call \ {c} : plan'[d] = plan[d] /\ handler'[d] = handler[d]
    BY <1>1 DEF TypeOK
  <1>4. GroupOf[c[1]] \in Group /\ c \in CallsOf(GroupOf[c[1]]) /\ \A g : CallsOf(g) \subseteq Call
    BY FiniteParts DEF CallsOf
  <1>5. OnlyAccepted'
    BY <1>1, <1>2, <1>4 DEF OnlyAccepted, CallsOf
  <1>6. \A d \in Call : Reported(row, d)' = Reported(row, d)
    BY <1>1 DEF Reported
  <1>7. FreshInv'
    BY <1>1, <1>3, <1>6 DEF FreshInv, HoldsCopy
  <1>8. NoOverlapNoLoss'
    <2>1. (LogCollected <=> LogCollected') /\ (ResultPresent <=> ResultPresent')
      BY <1>1, <1>2, <1>4 DEF LogCollected, ResultPresent, CallsOf
    <2>2. SummaryCurrent <=> SummaryCurrent'
      BY <1>1 DEF SummaryCurrent, summary
    <2> QED
      BY <1>1, <2>1, <2>2 DEF NoOverlapNoLoss
  <1>9. CopyInv'
    <2> SUFFICES ASSUME NEW d \in Call, HoldsCopy(d)'
                 PROVE  /\ plan'[d].message \subseteq {e \in Call : Ended(e)} \cup {d}
                        /\ d \in plan'[d].message
                        /\ handler'[d] = "saving" => d \notin base'[d].message
                        /\ \A g \in Group : plan'[d].result[g] # "none" =>
                             \E e \in CallsOf(g) : (Ended(e) \/ e = d) /\ arg[e] = plan'[d].result[g]
      BY <1>1, <1>2, <1>4 DEF CopyInv, CallsOf
    <2>1. CASE d # c
      BY <1>1, <1>3, <2>1 DEF CopyInv, HoldsCopy
    <2>2. CASE d = c
      <3>1. plan'[d].message = row.message \cup {c}
        BY <1>3, <2>2 DEF Reported
      <3>2. plan'[d].result = [row.result EXCEPT ![GroupOf[c[1]]] = arg[c]]
        BY <1>3, <2>2 DEF Reported
      <3>3. \A g \in Group : plan'[d].result[g] # "none" =>
               \E e \in CallsOf(g) : (Ended(e) \/ e = d) /\ arg[e] = plan'[d].result[g]
        <4> SUFFICES ASSUME NEW g \in Group, plan'[d].result[g] # "none"
                     PROVE  \E e \in CallsOf(g) : (Ended(e) \/ e = d) /\ arg[e] = plan'[d].result[g]
          OBVIOUS
        <4>0. row.result \in [Group -> Status \cup {"none"}]
          BY DEF TypeOK, Row
        <4>1. CASE g = GroupOf[c[1]]
          BY <1>4, <2>2, <3>2, <4>0, <4>1
        <4>2. CASE g # GroupOf[c[1]]
          BY <3>2, <4>0, <4>2 DEF OnlyAccepted
        <4> QED
          BY <4>1, <4>2
      <3> QED
        BY <1>3, <2>2, <3>1, <3>3 DEF OnlyAccepted
    <2> QED
      BY <2>1, <2>2
  <1> QED
    BY <1>5, <1>7, <1>8, <1>9

(* The begin of the save: the row is read again. *)
LEMMA SaveBeginKeepsRowPart ==
  ASSUME TypeOK, RowPart, NEW c \in Call, SaveBegin(c)
  PROVE  RowPart'
  <1> USE DEF RowPart
  <1>1. /\ handler[c] = "read" /\ handler' = [handler EXCEPT ![c] = "saving"]
        /\ base' = [base EXCEPT ![c] = row]
        /\ row' = row /\ raced' = raced /\ arg' = arg /\ plan' = plan
    BY DEF SaveBegin
  <1>2. \A d \in Call : (Ended(d)' <=> Ended(d)) /\ (HoldsCopy(d)' <=> HoldsCopy(d))
    BY <1>1 DEF Ended, HoldsCopy, TypeOK
  <1>3. /\ base'[c] = row /\ \A d \in Call \ {c} : base'[d] = base[d] /\ handler'[d] = handler[d]
    BY <1>1 DEF TypeOK
  <1>4. \A g : CallsOf(g) \subseteq Call
    BY DEF CallsOf
  <1>5. OnlyAccepted'
    BY <1>1, <1>2, <1>4 DEF OnlyAccepted, CallsOf
  <1>6. \A d \in Call : Reported(row, d)' = Reported(row, d)
    BY <1>1 DEF Reported
  <1>7. FreshInv'
    BY <1>1, <1>2, <1>3, <1>6 DEF FreshInv
  <1>8. NoOverlapNoLoss'
    <2>1. (LogCollected <=> LogCollected') /\ (ResultPresent <=> ResultPresent')
      BY <1>1, <1>2, <1>4 DEF LogCollected, ResultPresent, CallsOf
    <2>2. SummaryCurrent <=> SummaryCurrent'
      BY <1>1 DEF SummaryCurrent, summary
    <2> QED
      BY <1>1, <2>1, <2>2 DEF NoOverlapNoLoss
  <1>9. CopyInv'
    <2>1. c \notin row.message
      BY <1>1 DEF OnlyAccepted, Ended
    <2> QED
      BY <1>1, <1>2, <1>3, <1>4, <2>1 DEF CopyInv, CallsOf
  <1> QED
    BY <1>5, <1>7, <1>8, <1>9

(* The save puts the report's own output into the log: the row read before *)
(* the save did not have it, so the column differs and is written.         *)
LEMMA CommitWritesOwnOutput ==
  ASSUME TypeOK, CopyInv, NEW c \in Call, SaveCommit(c)
  PROVE  row'.message = plan[c].message /\ c \in row'.message
  <1>1. HoldsCopy(c) /\ handler[c] = "saving" /\ row' = Flushed(row, base[c], plan[c])
    BY DEF SaveCommit, HoldsCopy
  <1>2. plan[c].message # base[c].message /\ c \in plan[c].message
    BY <1>1 DEF CopyInv
  <1> QED
    BY <1>1, <1>2 DEF Flushed

(* The commit: the columns that differ from the row read before.           *)
LEMMA CommitKeepsRowPart ==
  ASSUME TypeOK, RowPart, NEW c \in Call, SaveCommit(c)
  PROVE  RowPart'
  <1> USE DEF RowPart
  <1>1. /\ handler[c] = "saving" /\ handler' = [handler EXCEPT ![c] = "ok"]
        /\ row' = Flushed(row, base[c], plan[c])
        /\ raced' = (raced \/ \E d \in Call \ {c} : HoldsCopy(d))
        /\ arg' = arg
        /\ \A d \in Call \ {c} : plan'[d] = plan[d] /\ base'[d] = base[d] /\ handler'[d] = handler[d]
    BY DEF SaveCommit, Forget, TypeOK
  <1>2. /\ Ended(c)' /\ ~Ended(c) /\ HoldsCopy(c) /\ ~HoldsCopy(c)'
        /\ \A d \in Call \ {c} : (Ended(d)' <=> Ended(d)) /\ (HoldsCopy(d)' <=> HoldsCopy(d))
    BY <1>1 DEF Ended, HoldsCopy, TypeOK
  <1>3. GroupOf[c[1]] \in Group /\ c \in CallsOf(GroupOf[c[1]]) /\ \A g : CallsOf(g) \subseteq Call
    BY FiniteParts DEF CallsOf
  <1>4. row'.message = plan[c].message
    BY CommitWritesOwnOutput
  <1>5. OnlyAccepted'
    <2>1. row'.message \subseteq {d \in Call : Ended(d)'}
      BY <1>2, <1>4 DEF CopyInv
    <2>2. ASSUME NEW g \in Group, row'.result[g] # "none"
          PROVE  \E d \in CallsOf(g) : Ended(d)' /\ arg'[d] = row'.result[g]
      <3>1. CASE row'.result = row.result
        <4>1. \E d \in CallsOf(g) : Ended(d) /\ arg[d] = row.result[g]
          BY <2>2, <3>1 DEF OnlyAccepted
        <4> QED
          BY <1>1, <1>2, <1>3, <3>1, <4>1
      <3>2. CASE row'.result = plan[c].result
        <4>1. \E d \in CallsOf(g) : (Ended(d) \/ d = c) /\ arg[d] = plan[c].result[g]
          BY <1>2, <2>2, <3>2 DEF CopyInv
        <4> QED
          BY <1>1, <1>2, <1>3, <3>2, <4>1
      <3> QED
        BY <1>1, <3>1, <3>2 DEF Flushed
    <2> QED
      BY <1>1, <2>1, <2>2 DEF OnlyAccepted, CallsOf
  <1>6. CopyInv'
    <2> SUFFICES ASSUME NEW d \in Call, HoldsCopy(d)'
                 PROVE  /\ plan'[d].message \subseteq {e \in Call : Ended(e)'} \cup {d}
                        /\ d \in plan'[d].message
                        /\ handler'[d] = "saving" => d \notin base'[d].message
                        /\ \A g \in Group : plan'[d].result[g] # "none" =>
                             \E e \in CallsOf(g) : (Ended(e)' \/ e = d) /\ arg'[e] = plan'[d].result[g]
      BY <1>1, <1>3 DEF CopyInv, CallsOf
    <2>1. d # c /\ HoldsCopy(d) /\ plan'[d] = plan[d] /\ base'[d] = base[d] /\ handler'[d] = handler[d]
      BY <1>1, <1>2
    <2>2. \A e \in Call : Ended(e) => Ended(e)'
      BY <1>2
    <2> QED
      BY <1>1, <1>3, <2>1, <2>2 DEF CopyInv
  <1>7. ASSUME ~raced'
        PROVE  /\ \A d \in Call : ~HoldsCopy(d)'
               /\ row' = Reported(row, c)
    <2>1. ~raced /\ \A d \in Call \ {c} : ~HoldsCopy(d)
      BY <1>1, <1>7
    <2>2. plan[c] = Reported(row, c) /\ base[c] = row
      BY <1>1, <1>2, <2>1 DEF FreshInv
    <2>3. Flushed(row, row, Reported(row, c)) = Reported(row, c)
      BY DEF Flushed, Reported
    <2> QED
      BY <1>1, <1>2, <2>1, <2>2, <2>3
  <1>8. FreshInv'
    BY <1>7 DEF FreshInv
  <1>9. NoOverlapNoLoss'
    <2> SUFFICES ASSUME ~raced'
                 PROVE  LogCollected' /\ SummaryCurrent' /\ ResultPresent'
      BY DEF NoOverlapNoLoss
    <2>0. ~raced /\ LogCollected /\ ResultPresent
      BY <1>1 DEF NoOverlapNoLoss
    <2>1. /\ row'.message = row.message \cup {c}
          /\ row'.result = [row.result EXCEPT ![GroupOf[c[1]]] = arg[c]]
          /\ row'.summary = summary(row'.result)
      BY <1>7 DEF Reported
    <2>2. LogCollected'
      BY <1>2, <2>0, <2>1 DEF LogCollected
    <2>3. SummaryCurrent'
      BY <2>1 DEF SummaryCurrent, summary
    <2>4. ASSUME NEW g \in Group
          PROVE  (row'.result[g] = "none") <=> ~ \E d \in CallsOf(g) : Ended(d)'
      <3>0. row.result \in [Group -> Status \cup {"none"}] /\ arg[c] \in Status
        BY DEF TypeOK, Row
      <3>1. CASE g = GroupOf[c[1]]
        <4>1. row'.result[g] = arg[c]
          BY <2>1, <3>0, <3>1
        <4>2. arg[c] # "none"
          BY <3>0 DEF Status
        <4> QED
          BY <1>2, <1>3, <3>1, <4>1, <4>2
      <3>2. CASE g # GroupOf[c[1]]
        <4>1. row'.result[g] = row.result[g]
          BY <2>1, <3>0, <3>2
        <4>2. c \notin CallsOf(g)
          BY <3>2 DEF CallsOf
        <4> QED
          BY <1>2, <1>3, <2>0, <4>1, <4>2 DEF ResultPresent
      <3> QED
        BY <3>1, <3>2
    <2> QED
      BY <2>2, <2>3, <2>4 DEF ResultPresent, CallsOf
  <1> QED
    BY <1>5, <1>6, <1>8, <1>9

-----------------------------------------------------------------------------
LEMMA SafetyInit == Init => SafetyInv
  <1> SUFFICES ASSUME Init PROVE SafetyInv
    OBVIOUS
  <1>1. TypeOK
    BY TypeInit
  <1>2. \A c \in Call : handler[c] = "idle"
    BY DEF Init
  <1>3. WorkerInv /\ RetryOnlyAfterFailure
    BY <1>2, CopiesOfPlaces DEF WorkerInv, RetryOnlyAfterFailure
  <1>4. CopyInv /\ FreshInv
    BY <1>2 DEF CopyInv, FreshInv, HoldsCopy
  <1>5. row.message = {} /\ \A g \in Group : row.result[g] = "none"
    BY DEF Init, NewRow
  <1>6. OnlyAccepted
    BY <1>5 DEF OnlyAccepted
  <1>7. NoOverlapNoLoss
    BY <1>2, <1>5 DEF NoOverlapNoLoss, LogCollected, SummaryCurrent, ResultPresent, Ended, CallsOf
  <1> QED
    BY <1>1, <1>3, <1>4, <1>6, <1>7 DEF SafetyInv

LEMMA SafetyStep ==
  ASSUME SafetyInv, [Next]_vars
  PROVE  SafetyInv'
  <1>0. TypeOK /\ WorkerPart /\ RowPart
    BY DEF SafetyInv, WorkerPart, RowPart
  <1>1. TypeOK'
    BY <1>0, TypeStep
  <1>2. WorkerPart'
    BY <1>0, WorkerPartStep
  <1>3. RowPart'
    <2>1. CASE \/ \E s \in Step : Dispatch(s) \/ Worker(s)
               \/ \E c \in Call : Redeliver(c)
               \/ UNCHANGED vars
      <3>1. QuietStep
        BY <1>0, <2>1, OutsideStep
      <3> QED
        BY <1>0, <3>1, QuietKeepsRowPart
    <2>2. ASSUME NEW c \in Call, Handle(c) \/ Expire(c)
          PROVE  RowPart'
      BY <1>0, <2>2, HandlerIsQuiet, QuietKeepsRowPart, ReadKeepsRowPart, SaveBeginKeepsRowPart,
         CommitKeepsRowPart DEF Handle
    <2> QED
      BY <2>1, <2>2 DEF Next
  <1> QED
    BY <1>1, <1>2, <1>3 DEF SafetyInv, WorkerPart, RowPart

LEMMA SafetyInvariant == Spec => []SafetyInv
  BY SafetyInit, SafetyStep, PTL DEF Spec

(* report_result loses nothing as long as no save overlaps another report, *)
(* for every plan, pool size and retry bound.                              *)
THEOREM NothingLostWithoutOverlap == Spec => []NoOverlapNoLoss
  <1>1. SafetyInv => NoOverlapNoLoss
    BY DEF SafetyInv
  <1> QED
    BY <1>1, SafetyInvariant, PTL

(* The row never holds what was not reported and accepted, whatever the    *)
(* interleaving of the greenthreads and whichever reports fail.            *)
THEOREM RowHoldsOnlyAccepted == Spec => []OnlyAccepted
  <1>1. SafetyInv => OnlyAccepted
    BY DEF SafetyInv
  <1> QED
    BY <1>1, SafetyInvariant, PTL

(* A plugin reports a step a second time only after the first report       *)
(* failed in the server or its call raised on the plugin's side.           *)
THEOREM SecondReportNeedsFailure == Spec => []RetryOnlyAfterFailure
  <1>1. SafetyInv => RetryOnlyAfterFailure
    BY DEF SafetyInv
  <1> QED
    BY <1>1, SafetyInvariant, PTL

(* A save that commits writes its report's output into the log, whatever   *)
(* was saved since its copy was read.                                      *)
THEOREM CommitLogs == Spec => CommitLogsOwnOutput
  <1>1. ASSUME SafetyInv, [Next]_vars
        PROVE  [\A c \in Call : ~Ended(c) /\ Ended(c)' => c \in row'.message]_vars
    <2> SUFFICES ASSUME NEW c \in Call, ~Ended(c), Ended(c)'
                 PROVE  c \in row'.message
      OBVIOUS
    <2>1. TypeOK /\ CopyInv /\ WorkerPart
      BY <1>1 DEF SafetyInv, WorkerPart
    <2>2. ~QuietStep
      BY DEF QuietStep
    <2>3. PICK d \in Call : Read(d) \/ SaveBegin(d) \/ SaveCommit(d)
      <3>1. ~(\/ \E s \in Step : Dispatch(s) \/ Worker(s)
              \/ \E d \in Call : Redeliver(d)
              \/ UNCHANGED vars)
        BY <2>1, <2>2, OutsideStep
      <3> QED
        BY <1>1, <2>1, <2>2, <3>1, HandlerIsQuiet DEF Next, Handle
    <2>4. SaveCommit(d) /\ c = d
      BY <2>1, <2>3 DEF Read, SaveBegin, SaveCommit, Ended, TypeOK
    <2> QED
      BY <2>1, <2>4, CommitWritesOwnOutput
  <1> QED
    BY <1>1, SafetyInvariant, PTL DEF Spec, CommitLogsOwnOutput

-----------------------------------------------------------------------------
(* finish_flag: only ReportRPCAPI.result begins a report, and it counts.   *)
LEMMA BegunFinite ==
  \A g \in Group : IsFiniteSet(BegunOf(g)) /\ Cardinality(BegunOf(g)) \in Nat
  <1>1. \A g \in Group : BegunOf(g) \in SUBSET Call
    BY DEF BegunOf, CallsOf
  <1> QED
    BY <1>1, FiniteParts, FS_Subset, FS_CardinalityType

LEMMA CountStep ==
  ASSUME SafetyInv, CountInv, [Next]_vars
  PROVE  CountInv'
  <1>0. TypeOK /\ WorkerPart
    BY DEF SafetyInv, WorkerPart
  <1>1. ASSUME finish_flag' = finish_flag,
               \A c \in Call : handler'[c] \in Begun <=> handler[c] \in Begun
        PROVE  CountInv'
    <2>1. \A g \in Group : BegunOf(g)' = BegunOf(g)
      BY <1>1 DEF BegunOf, CallsOf
    <2> QED
      BY <1>1, <2>1 DEF CountInv, StepsOf
  <1>2. CASE \/ \E s \in Step : Dispatch(s) \/ Worker(s)
             \/ \E c \in Call : Redeliver(c)
             \/ UNCHANGED vars
    BY <1>0, <1>1, <1>2, OutsideStep DEF serverVars
  <1>3. ASSUME NEW c \in Call, Result(c)
        PROVE  CountInv'
    <2> DEFINE g == GroupOf[c[1]]
    <2>1. /\ handler[c] = "queued" /\ handler' = [handler EXCEPT ![c] = "started"]
          /\ finish_flag' = [finish_flag EXCEPT ![g] = finish_flag[g] - 1]
      BY <1>3 DEF Result
    <2>2. g \in Group /\ c \in CallsOf(g) /\ c \notin BegunOf(g)
      BY <2>1, FiniteParts DEF CallsOf, BegunOf, Begun, Active
    <2>3. \A d \in Call \ {c} : handler'[d] = handler[d]
      BY <1>0, <2>1 DEF TypeOK
    <2>4. handler'[c] = "started"
      BY <1>0, <2>1 DEF TypeOK
    <2>5. BegunOf(g)' = BegunOf(g) \cup {c}
      BY <2>2, <2>3, <2>4 DEF BegunOf, CallsOf, Begun, Active
    <2>6. \A h \in Group \ {g} : BegunOf(h)' = BegunOf(h)
      BY <2>3 DEF BegunOf, CallsOf
    <2>7. Cardinality(BegunOf(g)') = Cardinality(BegunOf(g)) + 1
      BY <2>2, <2>5, BegunFinite, FS_AddElement
    <2> HIDE DEF g
    <2>8. ASSUME NEW h \in Group
          PROVE  finish_flag'[h] = Cardinality(StepsOf(h)) - Cardinality(BegunOf(h)')
      <3>1. CASE h = g
        BY <1>0, <2>1, <2>2, <2>7, <3>1, BegunFinite, FiniteParts DEF CountInv, TypeOK
      <3>2. CASE h # g
        BY <1>0, <2>1, <2>6, <3>2 DEF CountInv, TypeOK
      <3> QED
        BY <3>1, <3>2
    <2> QED
      BY <2>8 DEF CountInv, StepsOf
  <1>4. ASSUME NEW c \in Call, Handle(c) \/ Expire(c), ~Result(c)
        PROVE  CountInv'
    <2>1. finish_flag' = finish_flag
      BY <1>4 DEF Handle, Expire, Read, SaveBegin, SaveRetry, SaveCommit, ReportRaises, serverVars
    <2>2. \A d \in Call : handler'[d] \in Begun <=> handler[d] \in Begun
      BY <1>0, <1>4 DEF Handle, Expire, Read, SaveBegin, SaveRetry, SaveCommit, ReportRaises, TypeOK,
                        Begun, Active
    <2> QED
      BY <1>1, <2>1, <2>2
  <1> QED
    BY <1>2, <1>3, <1>4 DEF Next, Handle

LEMMA CountInit == Init => CountInv
  <1> SUFFICES ASSUME Init PROVE CountInv
    OBVIOUS
  <1>1. \A g \in Group : BegunOf(g) = {}
    BY DEF Init, BegunOf, CallsOf, Begun, Active
  <1>2. Cardinality({}) = 0
    BY FS_EmptySet
  <1>3. ASSUME NEW g \in Group
        PROVE  finish_flag[g] = Cardinality(StepsOf(g)) - Cardinality(BegunOf(g))
    <2>1. finish_flag[g] = Cardinality(StepsOf(g)) /\ Cardinality(StepsOf(g)) \in Nat
      BY FiniteParts DEF Init
    <2>2. Cardinality(BegunOf(g)) = 0
      BY <1>1, <1>2
    <2> QED
      BY <2>1, <2>2
  <1> QED
    BY <1>3 DEF CountInv

LEMMA CountInvariant == Spec => []CountInv
  BY CountInit, CountStep, SafetyInvariant, PTL DEF Spec

(* When no report of the group failed, none was executed again and no call *)
(* raised on the plugin's side, no step has two begun reports: they inject *)
(* into the steps, and a count of zero makes that a surjection.            *)
LEMMA CountMeansAll ==
  ASSUME SafetyInv, CountInv
  PROVE  EarlyFinishOnlyAfterFault
  <1> SUFFICES ASSUME NEW g \in Group, ~(finish_flag[g] > 0),
                      \A c \in CallsOf(g) : /\ handler[c] # "failed"
                                            /\ handler[c] \in Begun => ~(c[3] > 1)
                                            /\ c[1] \notin undelivered
               PROVE  \A s \in StepsOf(g) : HasBegun(s)
    BY DEF EarlyFinishOnlyAfterFault
  <1> DEFINE f == [c \in BegunOf(g) |-> c[1]]
  <1>1. \A c \in BegunOf(g) : /\ c \in Call /\ c \in CallsOf(g) /\ c[1] \in StepsOf(g)
                              /\ handler[c] # "idle" /\ handler[c] # "failed" /\ handler[c] \in Begun
                              /\ c[1] \notin undelivered
    BY FiniteParts DEF BegunOf, CallsOf, StepsOf, Begun, Active
  <1>a. \A c \in BegunOf(g) : c = <<c[1], c[2], 1>> /\ c[2] \in {"try", "except"}
    BY <1>1, CallParts, PlanAssumption DEF Place, Copy
  <1>2. ASSUME NEW c \in BegunOf(g), NEW d \in BegunOf(g), c[1] = d[1]
        PROVE  c = d
    <2>1. CASE c[2] = d[2]
      BY <1>2, <1>a, <2>1
    <2>2. ASSUME NEW x \in BegunOf(g), NEW y \in BegunOf(g), x[1] = y[1], x[2] = "try", y[2] = "except"
          PROVE  FALSE
      <3>1. x \in Copies(x[1], "try") /\ y \in Copies(x[1], "except") /\ x[1] \in Step
        BY <1>1, <2>2, CopiesOfPlaces, CallParts
      <3>2. PICK z \in Copies(x[1], "try") : handler[z] = "failed"
        BY <1>1, <3>1 DEF SafetyInv, RetryOnlyAfterFailure
      <3>3. z \in CallsOf(g)
        BY <1>1, <3>2 DEF Copies, CallsOf
      <3> QED
        BY <3>2, <3>3
    <2> QED
      BY <1>2, <1>a, <2>1, <2>2
  <1>3. f \in Injection(BegunOf(g), StepsOf(g))
    BY <1>1, <1>2 DEF Injection, IsInjective
  <1>4. finish_flag[g] \in Int /\ finish_flag[g] = Cardinality(StepsOf(g)) - Cardinality(BegunOf(g))
    BY DEF SafetyInv, TypeOK, CountInv
  <1> HIDE DEF f
  <1>5. Cardinality(BegunOf(g)) <= Cardinality(StepsOf(g))
    BY <1>3, FS_Injection, FiniteParts
  <1>6. Cardinality(BegunOf(g)) = Cardinality(StepsOf(g))
    BY <1>4, <1>5, BegunFinite, FiniteParts
  <1>7. f \in Surjection(BegunOf(g), StepsOf(g))
    BY <1>3, <1>6, FS_Injection, FiniteParts
  <1>8. ASSUME NEW s \in StepsOf(g)
        PROVE  HasBegun(s)
    <2>1. PICK c \in BegunOf(g) : c[1] = s
      BY <1>7, <1>8 DEF Surjection, f
    <2> QED
      BY <1>1, <2>1 DEF HasBegun
  <1> QED
    BY <1>8

(* The conductor sees a finish_flag of zero with a step still to report    *)
(* only when a report of that group failed after it was counted, was       *)
(* executed twice, or was sent by a call that raised on the plugin's side. *)
THEOREM FinishFlagMeansReported == Spec => []EarlyFinishOnlyAfterFault
  BY CountMeansAll, CountInvariant, SafetyInvariant, PTL

-----------------------------------------------------------------------------
(* A plugin method that waits for its report, or has returned, has sent    *)
(* one.                                                                    *)
SentInv ==
    \A s \in Step : worker[s] \in {"try", "except", "returned"} =>
        \E c \in Call : c[1] = s /\ handler[c] # "idle"

LEMMA SentStep ==
  ASSUME SafetyInv, SentInv, [Next]_vars
  PROVE  SentInv'
  <1>0. TypeOK /\ WorkerPart
    BY DEF SafetyInv, WorkerPart
  <1>1. \A c \in Call : handler[c] # "idle" => handler'[c] # "idle"
    <2>1. CASE \/ \E s \in Step : Dispatch(s) \/ Worker(s)
               \/ \E c \in Call : Redeliver(c)
               \/ UNCHANGED vars
      BY <1>0, <2>1, OutsideStep
    <2>2. ASSUME NEW c \in Call, Handle(c) \/ Expire(c)
          PROVE  \A d \in Call : handler[d] # "idle" => handler'[d] # "idle"
      BY <1>0, <2>2 DEF Handle, Result, Expire, Read, SaveBegin, SaveRetry, SaveCommit, ReportRaises,
                        TypeOK
    <2> QED
      BY <2>1, <2>2 DEF Next
  <1>2. ASSUME NEW s \in Step, worker'[s] \in {"try", "except", "returned"},
               ~(worker[s] \in {"try", "except", "returned"})
        PROVE  \E c \in Call : c[1] = s /\ handler'[c] # "idle"
    <2>1. PICK t \in Step : Worker(t)
      BY <1>0, <1>2 DEF Next, Dispatch, Handle, Result, Expire, Redeliver, Read, SaveBegin, SaveRetry,
                        SaveCommit, ReportRaises, vars, TypeOK
    <2>2. s = t
      BY <1>0, <1>2, <2>1 DEF Worker, Execute, ExecuteRaises, ReportCaught, CaughtRaises, ExecuteLinux,
                        ReplyOk, ReplyFailed, CallRaises, CallTimeout, SendReport, Raise, TypeOK
    <2>3. PICK place \in Place, status \in Status : SendReport(s, place, status)
      BY <1>0, <1>2, <2>1, <2>2 DEF Worker, Execute, ExecuteRaises, ReportCaught, CaughtRaises,
                        ExecuteLinux, ReplyOk, ReplyFailed, CallRaises, CallTimeout, Raise, TypeOK,
                        Place, Status
    <2>4. <<s, place, 1>> \in Call /\ handler'[<<s, place, 1>>] = "queued"
      BY <1>0, <2>3, CallParts DEF SendReport, TypeOK
    <2> QED
      BY <2>4
  <1> QED
    BY <1>1, <1>2 DEF SentInv

(* A group is settled when its plugin methods have ended and its report    *)
(* server has begun every report that was sent to it and not dropped.      *)
Settled(g) ==
    /\ \A s \in StepsOf(g) : worker[s] \in {"returned", "raised"}
    /\ \A c \in CallsOf(g) : handler[c] # "queued"

(* A settled group is finished for the conductor, or one of its methods    *)
(* raised without having sent a report, or had all its reports dropped.    *)
SettledFinished ==
    \A g \in Group : Settled(g) =>
        finish_flag[g] <= 0 \/ \E s \in StepsOf(g) : Unreported(s) \/ Dropped(s)

(* Otherwise the steps inject into the begun reports. *)
LEMMA CountReachesZero ==
  ASSUME SafetyInv, CountInv, SentInv
  PROVE  SettledFinished
  <1> SUFFICES ASSUME NEW g \in Group, Settled(g),
                      \A s \in StepsOf(g) : ~Unreported(s) /\ ~Dropped(s)
               PROVE  finish_flag[g] <= 0
    BY DEF SettledFinished
  <1>1. ASSUME NEW s \in StepsOf(g)
        PROVE  \E c \in BegunOf(g) : c[1] = s
    <2>1. s \in Step /\ GroupOf[s] = g
      BY DEF StepsOf
    <2>2. PICK c \in Call : c[1] = s /\ handler[c] # "idle"
      <3>1. CASE worker[s] = "raised"
        BY <1>1, <3>1 DEF Unreported
      <3>2. CASE worker[s] = "returned"
        BY <2>1, <3>2 DEF SentInv
      <3> QED
        BY <1>1, <3>1, <3>2 DEF Settled
    <2>3. PICK d \in Call : d[1] = s /\ handler[d] \notin {"idle", "expired"}
      BY <1>1, <2>2 DEF Dropped
    <2>4. d \in CallsOf(g)
      BY <2>1, <2>3 DEF CallsOf
    <2>5. handler[d] \in Begun
      BY <2>3, <2>4 DEF Settled, SafetyInv, TypeOK, HandlerStates
    <2> QED
      BY <2>3, <2>4, <2>5 DEF BegunOf
  <1> DEFINE f == [s \in StepsOf(g) |-> CHOOSE c \in BegunOf(g) : c[1] = s]
  <1>2. \A s \in StepsOf(g) : f[s] \in BegunOf(g) /\ f[s][1] = s
    BY <1>1
  <1>3. f \in Injection(StepsOf(g), BegunOf(g))
    BY <1>2 DEF Injection, IsInjective
  <1> HIDE DEF f
  <1>4. Cardinality(StepsOf(g)) <= Cardinality(BegunOf(g))
    BY <1>3, BegunFinite, FS_Injection
  <1> QED
    BY <1>4, BegunFinite, FiniteParts DEF CountInv

(* finish_flag never stays above zero once the steps of a group have ended *)
(* and their reports were handled: failed, retried, repeated and timed out *)
(* reports are counted, and only a step whose method raised without having *)
(* sent a report, or whose reports were all dropped by the broker, keeps   *)
(* the conductor waiting.                                                  *)
THEOREM SettledGroupIsFinished == Spec => []SettledFinished
  <1>1. Init => SentInv
    BY DEF Init, SentInv
  <1> QED
    BY <1>1, SentStep, CountReachesZero, CountInvariant, SafetyInvariant, PTL DEF Spec

-----------------------------------------------------------------------------
(* A plan of one group whose report server has a single greenthread.       *)
OneGreenthread == PoolSize = 1 /\ \A g, h \in Group : g = h

(* Then at most one report is in progress, and no save can overlap.        *)
AloneInv ==
    /\ \A c, d \in Call : handler[c] \in Active /\ handler[d] \in Active => c = d
    /\ ~raced

LEMMA AloneStep ==
  ASSUME OneGreenthread, SafetyInv, AloneInv, [Next]_vars
  PROVE  AloneInv'
  <1>0. TypeOK /\ WorkerPart
    BY DEF SafetyInv, WorkerPart
  <1>1. ASSUME raced' = raced, \A c \in Call : handler'[c] \in Active => handler[c] \in Active
        PROVE  AloneInv'
    BY <1>1 DEF AloneInv
  <1>2. CASE \/ \E s \in Step : Dispatch(s) \/ Worker(s)
             \/ \E c \in Call : Redeliver(c)
             \/ UNCHANGED vars
    BY <1>0, <1>1, <1>2, OutsideStep DEF serverVars
  <1>3. ASSUME NEW c \in Call, Result(c)
        PROVE  AloneInv'
    <2> DEFINE g == GroupOf[c[1]]
               busy == {d \in CallsOf(g) : handler[d] \in Active}
    <2>1. g \in Group /\ CallsOf(g) = Call
      BY FiniteParts DEF OneGreenthread, CallsOf
    <2>2. IsFiniteSet(busy) /\ Cardinality(busy) \in Nat
      <3>1. busy \in SUBSET Call
        BY <2>1
      <3> QED
        BY <3>1, FiniteParts, FS_Subset, FS_CardinalityType
    <2>3. Cardinality(busy) < 1
      BY <1>3 DEF Result, OneGreenthread
    <2>4. Cardinality(busy) = 0
      BY <2>2, <2>3
    <2>5. busy = {}
      BY <2>2, <2>4, FS_EmptySet
    <2>6. \A d \in Call : handler[d] \notin Active
      BY <2>1, <2>5
    <2> QED
      BY <1>0, <1>3, <2>6 DEF Result, AloneInv, TypeOK
  <1>4. ASSUME NEW c \in Call, Read(c) \/ SaveBegin(c) \/ SaveRetry(c) \/ ReportRaises(c) \/ Expire(c)
        PROVE  AloneInv'
    <2>1. raced' = raced
      BY <1>4 DEF Read, SaveBegin, SaveRetry, ReportRaises, Expire, serverVars
    <2>2. \A d \in Call : handler'[d] \in Active => handler[d] \in Active
      BY <1>0, <1>4 DEF Read, SaveBegin, SaveRetry, ReportRaises, Expire, TypeOK, Active
    <2> QED
      BY <1>1, <2>1, <2>2
  <1>5. ASSUME NEW c \in Call, SaveCommit(c)
        PROVE  AloneInv'
    <2>1. \A d \in Call \ {c} : ~HoldsCopy(d)
      BY <1>5 DEF SaveCommit, AloneInv, HoldsCopy, Active
    <2>2. ~raced'
      BY <1>5, <2>1 DEF SaveCommit, AloneInv
    <2>3. \A d \in Call : handler'[d] \in Active => handler[d] \in Active
      BY <1>0, <1>5 DEF SaveCommit, TypeOK, Active
    <2> QED
      BY <2>2, <2>3 DEF AloneInv
  <1> QED
    BY <1>2, <1>3, <1>4, <1>5 DEF Next, Handle

(* With executor_thread_pool_size 1 the log of a one-group plan is exactly *)
(* the outputs of the accepted reports, in any order of arrival.           *)
THEOREM SingleGreenthreadKeepsLog ==
  ASSUME OneGreenthread
  PROVE  Spec => []LogCollected
  <1>1. Init => AloneInv
    BY DEF Init, AloneInv, Active
  <1>2. SafetyInv /\ AloneInv /\ [Next]_vars => AloneInv'
    BY AloneStep
  <1>3. SafetyInv /\ AloneInv => LogCollected
    BY DEF SafetyInv, NoOverlapNoLoss, AloneInv
  <1> QED
    BY <1>1, <1>2, <1>3, SafetyInvariant, PTL DEF Spec
=============================================================================
