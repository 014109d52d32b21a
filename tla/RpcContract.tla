---------------------------- MODULE RpcContract ----------------------------
(***************************************************************************)
(* What oslo_messaging promises the two ends of an RPC: a call ends in     *)
(* exactly one way, and what it returns was produced by an execution of    *)
(* that very call.  It does not promise that a request is executed, nor    *)
(* that it is executed only once, nor that a call that failed to be sent   *)
(* or timed out was not executed.                                          *)
(***************************************************************************)
CONSTANTS
    Msg,        \* the requests
    Cast,       \* those that expect no reply
    Answer      \* what an execution can produce

VARIABLES
    phase,      \* Msg -> "new", "pending", or how the send ended
    result,     \* Msg -> the answer returned to the caller, or "none"
    answers     \* Msg -> the set of answers its executions produced so far

contractVars == <<phase, result, answers>>

ContractInit ==
    /\ phase = [m \in Msg |-> "new"]
    /\ result = [m \in Msg |-> "none"]
    /\ answers = [m \in Msg |-> {}]

Send(m) ==
    /\ phase[m] = "new"
    /\ phase' = [phase EXCEPT ![m] = "pending"]
    /\ UNCHANGED <<result, answers>>

Produce(m, a) ==
    /\ phase[m] # "new"
    /\ answers' = [answers EXCEPT ![m] = @ \cup {a}]
    /\ UNCHANGED <<phase, result>>

Return(m, a) ==
    /\ phase[m] = "pending" /\ m \notin Cast /\ a \in answers[m]
    /\ phase' = [phase EXCEPT ![m] = "returned"]
    /\ result' = [result EXCEPT ![m] = a]
    /\ UNCHANGED answers

TimeOut(m) ==
    /\ phase[m] = "pending" /\ m \notin Cast
    /\ phase' = [phase EXCEPT ![m] = "timeout"]
    /\ UNCHANGED <<result, answers>>

FailToSend(m) ==
    /\ phase[m] = "pending"
    /\ phase' = [phase EXCEPT ![m] = "undelivered"]
    /\ UNCHANGED <<result, answers>>

Accept(m) ==
    /\ phase[m] = "pending" /\ m \in Cast
    /\ phase' = [phase EXCEPT ![m] = "sent"]
    /\ UNCHANGED <<result, answers>>

ContractNext ==
    \E m \in Msg :
        \/ Send(m) \/ TimeOut(m) \/ FailToSend(m) \/ Accept(m)
        \/ \E a \in Answer : Produce(m, a) \/ Return(m, a)

ContractSpec == ContractInit /\ [][ContractNext]_contractVars
=============================================================================
