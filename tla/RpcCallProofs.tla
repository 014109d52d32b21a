--------------------------- MODULE RpcCallProofs ---------------------------
(***************************************************************************)
(* Proofs about RpcCall, for every set of requests and every bound on the  *)
(* faults.  RpcInv is the conjunction of the properties and of what they   *)
(* need; each of its parts is shown to be preserved by one lemma.          *)
(***************************************************************************)
EXTENDS RpcCall, FiniteSetTheorems, TLAPS

(* The broker can count the deliveries it has to queue again. *)
LEMMA RequeueCount ==
    ASSUME TypeOK, NEW m \in Msg
    PROVE  Cardinality(unacked \cap CopiesOf(m)) \in Nat
<1>1. IsFiniteSet(1 .. MaxCopies)
    BY FS_Interval, RpcAssumption
<1>2. IsFiniteSet(Delivery)
    BY <1>1, FS_Product, RpcAssumption DEF Delivery
<1>3. IsFiniteSet(unacked \cap CopiesOf(m))
    BY <1>2, FS_Subset DEF CopiesOf
<1> QED
    BY <1>3, FS_CardinalityType

(* The message id cache stays a bounded sequence of requests. *)
LEMMA RememberType ==
    ASSUME NEW c \in Seq(Msg), Len(c) <= CacheSize, NEW m \in Msg
    PROVE  Remember(c, m) \in Seq(Msg) /\ Len(Remember(c, m)) <= CacheSize
<1>1. CASE m \in Elems(c)
    BY <1>1 DEF Remember
<1>2. CASE m \notin Elems(c) /\ Len(c) < CacheSize
    BY <1>2, RpcAssumption DEF Remember
<1>3. CASE m \notin Elems(c) /\ ~(Len(c) < CacheSize)
    <2>1. c # << >> /\ Len(c) = CacheSize
        BY <1>3, RpcAssumption
    <2>2. Tail(c) \in Seq(Msg) /\ Len(Tail(c)) = Len(c) - 1
        BY <2>1
    <2> QED BY <1>3, <2>1, <2>2, RpcAssumption DEF Remember
<1> QED BY <1>1, <1>2, <1>3

(* Every step preserves the types. *)
LEMMA TypeStep == TypeOK /\ [Next]_vars => TypeOK'
<1> SUFFICES ASSUME TypeOK, [Next]_vars PROVE TypeOK'
    OBVIOUS
<1> USE DEF clientVars, brokerVars, serverVars, faultVars, historyVars
<1>a. ASSUME NEW m \in Msg, ClientStep(m) PROVE TypeOK'
    <2>1. CASE Listen(m) BY <2>1 DEF Listen, TypeOK, Call
    <2>2. CASE Publish(m) BY <2>2 DEF Publish, TypeOK
    <2>3. CASE PublishAgain(m) BY <2>3 DEF PublishAgain, TypeOK
    <2>4. CASE PublishFails(m) BY <2>4 DEF PublishFails, TypeOK
    <2>5. CASE GetReply(m)
        <3>1. Head(inbox[m]) \in Delivery /\ Tail(inbox[m]) \in Seq(Delivery)
            BY <2>5 DEF GetReply, TypeOK
        <3>2. answer[Head(inbox[m])] \in Answer \cup {"none"}
            BY <3>1 DEF TypeOK
        <3> QED BY <2>5, <3>1, <3>2 DEF GetReply, TypeOK
    <2>6. CASE WaitTimeout(m) BY <2>6 DEF WaitTimeout, TypeOK
    <2>7. CASE Unlisten(m) BY <2>7 DEF Unlisten, TypeOK
    <2> QED BY <1>a, <2>1, <2>2, <2>3, <2>4, <2>5, <2>6, <2>7 DEF ClientStep
<1>b. ASSUME NEW m \in Msg, Expire(m) PROVE TypeOK'
    BY <1>b DEF Expire, TypeOK
<1>c. ASSUME NEW m \in Msg, Deliver(m) \/ SkipDuplicate(m) PROVE TypeOK'
    <2>0. copies[m] \in 0 .. MaxCopies /\ copies[m] < MaxCopies
        BY <1>c DEF Deliver, SkipDuplicate, TypeOK
    <2>1. copies[m] + 1 \in 1 .. MaxCopies
        BY <2>0, RpcAssumption
    <2>2. <<m, copies[m] + 1>> \in Delivery
        BY <2>1 DEF Delivery
    <2>3. CASE Deliver(m)
        <3>1. copies' \in [Msg -> 0 .. MaxCopies] /\ ready' \in [Msg -> Nat]
            BY <2>1, <2>3 DEF Deliver, TypeOK
        <3>a. \A e \in Delivery :
                unacked \cup {e} \subseteq Delivery /\ Append(incoming, e) \in Seq(Delivery)
            BY DEF TypeOK
        <3>b. /\ unacked' = unacked \cup {<<m, copies[m] + 1>>}
              /\ incoming' = Append(incoming, <<m, copies[m] + 1>>)
            BY <2>3 DEF Deliver
        <3>2. unacked' \subseteq Delivery /\ incoming' \in Seq(Delivery)
            BY <2>2, <3>a, <3>b, Zenon
        <3>3. "incoming" \in Live BY DEF Live, Unacked
        <3>4. state' \in [Delivery -> {"none"} \cup Live \cup Ended]
            BY <2>2, <2>3, <3>3 DEF Deliver, TypeOK
        <3> QED BY <2>3, <3>1, <3>2, <3>4 DEF Deliver, TypeOK
    <2>4. CASE SkipDuplicate(m) BY <2>1, <2>2, <2>4 DEF SkipDuplicate, TypeOK, Ended
    <2> QED BY <1>c, <2>3, <2>4
<1>d. ASSUME NEW d \in Delivery, WorkerStep(d) PROVE TypeOK'
    <2>1. CASE Acknowledge(d) BY <2>1 DEF Acknowledge, TypeOK, Live, Unacked
    <2>2. CASE Dispatch(d)
        <3>1. d[1] \in Msg BY DEF Delivery
        <3>2. cache' \in Seq(Msg) /\ Len(cache') <= CacheSize
            BY <2>2, <3>1, RememberType DEF Dispatch, TypeOK
        <3> QED BY <2>2, <3>2 DEF Dispatch, TypeOK, Live, Acked
    <2>3. CASE Finish(d) BY <2>3 DEF Finish, TypeOK, Live, Acked
    <2>4. CASE SkipReply(d) BY <2>4 DEF SkipReply, TypeOK, Ended
    <2>5. CASE SendReply(d) BY <2>5 DEF SendReply, TypeOK, Ended
    <2>6. CASE SendReplyAgain(d) BY <2>6 DEF SendReplyAgain, TypeOK
    <2>7. CASE GiveUpReply(d) BY <2>7 DEF GiveUpReply, TypeOK, Ended
    <2>8. CASE ReplyRaises(d) BY <2>8 DEF ReplyRaises, TypeOK, Ended
    <2> QED BY <1>d, <2>1, <2>2, <2>3, <2>4, <2>5, <2>6, <2>7, <2>8 DEF WorkerStep
<1>e. CASE ReceiveReply
    <2>1. Head(replyq) \in Delivery /\ Tail(replyq) \in Seq(Delivery)
        BY <1>e DEF ReceiveReply, TypeOK
    <2>2. Head(replyq)[1] \in Msg BY <2>1 DEF Delivery
    <2>3. inbox' \in [Msg -> Seq(Delivery)] /\ discarded' \subseteq Delivery
        <3>1. CASE Head(replyq)[1] \in waiters
            <4>1. Append(inbox[Head(replyq)[1]], Head(replyq)) \in Seq(Delivery)
                BY <2>1, <2>2 DEF TypeOK
            <4> QED BY <1>e, <2>2, <3>1, <4>1 DEF ReceiveReply, Put, TypeOK
        <3>2. CASE Head(replyq)[1] \notin waiters
            BY <1>e, <2>1, <3>2 DEF ReceiveReply, Put, TypeOK
        <3> QED BY <3>1, <3>2
    <2> QED BY <1>e, <2>1, <2>3 DEF ReceiveReply, TypeOK
<1>f. CASE Submit
    <2>1. Head(incoming) \in Delivery /\ Tail(incoming) \in Seq(Delivery)
        BY <1>f DEF Submit, TypeOK
    <2> QED BY <1>f, <2>1 DEF Submit, TypeOK, Live, Unacked
<1>g. CASE ProcessTask
    <2>1. Head(tasks) \in Delivery /\ Tail(tasks) \in Seq(Delivery)
        BY <1>g DEF ProcessTask, TypeOK
    <2> QED BY <1>g, <2>1 DEF ProcessTask, TypeOK, Live, Acked
<1>h. ASSUME Requeue PROVE ready' \in [Msg -> Nat] /\ unacked' \subseteq Delivery
    <2>1. \A m \in Msg : ready[m] + Cardinality(unacked \cap CopiesOf(m)) \in Nat
        <3> SUFFICES ASSUME NEW m \in Msg
                     PROVE  ready[m] + Cardinality(unacked \cap CopiesOf(m)) \in Nat
            OBVIOUS
        <3>1. ready[m] \in Nat BY DEF TypeOK
        <3>2. Cardinality(unacked \cap CopiesOf(m)) \in Nat BY RequeueCount
        <3> QED BY <3>1, <3>2
    <2> QED BY <1>h, <2>1 DEF Requeue
<1>i. CASE ConnectionDrop
    BY <1>i, <1>h DEF ConnectionDrop, TypeOK
<1>j. CASE ServerRestart
    <2>1. \A d \in Delivery : d[1] \in Msg BY DEF Delivery
    <2>2. abandoned' \subseteq Msg
        BY <1>j, <2>1 DEF ServerRestart, TypeOK
    <2>3. state' \in [Delivery -> {"none"} \cup Live \cup Ended]
        BY <1>j DEF ServerRestart, TypeOK, Ended
    <2>4. /\ incoming' \in Seq(Delivery) /\ tasks' \in Seq(Delivery)
          /\ cache' \in Seq(Msg) /\ Len(cache') <= CacheSize
        BY <1>j, RpcAssumption DEF ServerRestart
    <2>5. ready' \in [Msg -> Nat] /\ unacked' \subseteq Delivery
        BY <1>j, <1>h DEF ServerRestart
    <2>6. obsolete' \in BOOLEAN BY <1>j, Zenon DEF ServerRestart
    <2> QED BY <1>j, <2>2, <2>3, <2>4, <2>5, <2>6 DEF ServerRestart, TypeOK
<1>k. CASE ReplyQueueGone
    <2>1. reachable' \in BOOLEAN /\ replyq' \in Seq(Delivery) /\ outages' \in Nat
        <3>1. reachable' \in BOOLEAN BY <1>k, Zenon DEF ReplyQueueGone
        <3>2. replyq' \in Seq(Delivery) BY <1>k DEF ReplyQueueGone
        <3>3. outages' \in Nat BY <1>k DEF ReplyQueueGone, TypeOK
        <3> QED BY <3>1, <3>2, <3>3
    <2> QED BY <1>k, <2>1 DEF ReplyQueueGone, TypeOK
<1>l. CASE ReplyQueueBack
    <2>1. reachable' \in BOOLEAN BY <1>l, Zenon DEF ReplyQueueBack
    <2> QED BY <1>l, <2>1 DEF ReplyQueueBack, TypeOK
<1>m. CASE ForgetObsolete BY <1>m DEF ForgetObsolete, TypeOK
<1>n. CASE UNCHANGED vars BY <1>n DEF vars, TypeOK
<1> QED BY <1>a, <1>b, <1>c, <1>d, <1>e, <1>f, <1>g, <1>i, <1>j, <1>k, <1>l, <1>m, <1>n DEF Next

-----------------------------------------------------------------------------
(* The delivery that the broker makes next was not seen before. *)
LEMMA NextCopy ==
    ASSUME TypeOK, CopyInv, NEW m \in Msg, copies[m] < MaxCopies
    PROVE  /\ <<m, copies[m] + 1>> \in Delivery
           /\ state[<<m, copies[m] + 1>>] = "none"
           /\ \A d \in Delivery : d # <<m, copies[m] + 1>> /\ d[1] = m => d[2] # copies[m] + 1
<1>1. copies[m] \in 0 .. MaxCopies
    BY DEF TypeOK
<1>2. copies[m] + 1 \in 1 .. MaxCopies
    BY <1>1, RpcAssumption
<1>3. <<m, copies[m] + 1>> \in Delivery
    BY <1>2 DEF Delivery
<1>4. copies[m] + 1 > copies[m]
    BY <1>1, RpcAssumption
<1>5. state[<<m, copies[m] + 1>>] = "none"
    BY <1>3, <1>4 DEF CopyInv
<1>6. \A d \in Delivery : d = <<d[1], d[2]>>
    BY DEF Delivery
<1> QED BY <1>3, <1>5, <1>6

(* What the stages of _send say about outcome and broker is preserved. *)
LEMMA SendStep ==
    TypeOK /\ SendInv /\ CopyInv /\ ReplyInv /\ [Next]_vars => SendInv'
<1> SUFFICES ASSUME TypeOK, SendInv, CopyInv, ReplyInv, [Next]_vars PROVE SendInv'
    OBVIOUS
<1> USE DEF clientVars, brokerVars, serverVars, faultVars, historyVars
<1>a. ASSUME NEW m \in Msg, ClientStep(m) PROVE SendInv'
    <2>1. CASE Listen(m) BY <2>1 DEF Listen, TypeOK, SendInv
    <2>2. CASE Publish(m) BY <2>2 DEF Publish, TypeOK, SendInv, Call
    <2>3. CASE PublishAgain(m) BY <2>3 DEF PublishAgain, TypeOK, SendInv
    <2>4. CASE PublishFails(m) BY <2>4 DEF PublishFails, TypeOK, SendInv
    <2>5. CASE GetReply(m)
        <3>1. inbox[m] \in Seq(Delivery) /\ inbox[m] # << >>
            BY <2>5 DEF GetReply, TypeOK
        <3>2. Head(inbox[m]) = inbox[m][1] /\ 1 \in 1 .. Len(inbox[m])
            BY <3>1
        <3>3. answer[Head(inbox[m])] # "none"
            BY <3>2 DEF ReplyInv, Answer
        <3> QED BY <2>5, <3>3 DEF GetReply, TypeOK, SendInv
    <2>6. CASE WaitTimeout(m) BY <2>6 DEF WaitTimeout, TypeOK, SendInv
    <2>7. CASE Unlisten(m) BY <2>7 DEF Unlisten, TypeOK, SendInv
    <2> QED BY <1>a, <2>1, <2>2, <2>3, <2>4, <2>5, <2>6, <2>7 DEF ClientStep
<1>b. ASSUME NEW m \in Msg, Expire(m) PROVE SendInv'
    BY <1>b DEF Expire, TypeOK, SendInv
<1>c. ASSUME NEW m \in Msg, Deliver(m) \/ SkipDuplicate(m) PROVE SendInv'
    <2>1. /\ ready[m] > 0
          /\ ready' = [ready EXCEPT ![m] = @ - 1]
          /\ copies' = [copies EXCEPT ![m] = @ + 1]
          /\ UNCHANGED <<sender, result>>
        BY <1>c DEF Deliver, SkipDuplicate
    <2>2. sender[m] # "idle"
        BY <2>1 DEF SendInv
    <2> QED BY <2>1, <2>2 DEF TypeOK, SendInv
<1>d. CASE ConnectionDrop \/ ServerRestart
    <2>1. /\ ready' = [m \in Msg |-> ready[m] + Cardinality(unacked \cap CopiesOf(m))]
          /\ UNCHANGED <<sender, result, copies>>
        BY <1>d DEF ConnectionDrop, ServerRestart, Requeue
    <2>2. ASSUME NEW m \in Msg, sender[m] = "idle" PROVE unacked \cap CopiesOf(m) = {}
        <3>1. copies[m] = 0 BY <2>2 DEF SendInv
        <3>2. \A d \in CopiesOf(m) : d \in Delivery /\ d[1] = m /\ d[2] > 0
            BY RpcAssumption DEF CopiesOf, Delivery
        <3>3. \A d \in CopiesOf(m) : state[d] = "none"
            BY <3>1, <3>2 DEF CopyInv
        <3> QED BY <3>3 DEF CopyInv, Unacked
    <2>3. ASSUME NEW m \in Msg, sender[m] = "idle" PROVE ready'[m] = 0
        <3>1. ready[m] = 0 BY <2>3 DEF SendInv
        <3>2. Cardinality(unacked \cap CopiesOf(m)) = 0
            BY <2>2, <2>3, FS_EmptySet
        <3> QED BY <2>1, <3>1, <3>2
    <2> QED BY <2>1, <2>3 DEF SendInv
<1>e. ASSUME UNCHANGED <<sender, result, ready, copies>> PROVE SendInv'
    BY <1>e DEF SendInv
<1>f. ASSUME NEW d \in Delivery, WorkerStep(d) PROVE SendInv'
    <2>1. UNCHANGED <<sender, result, ready, copies>>
        BY <1>f DEF WorkerStep, Acknowledge, Dispatch, Finish, SkipReply, SendReply,
                    SendReplyAgain, GiveUpReply, ReplyRaises
    <2> QED BY <2>1, <1>e
<1>g. CASE \/ ReceiveReply \/ Submit \/ ProcessTask \/ ReplyQueueGone
           \/ ReplyQueueBack \/ ForgetObsolete
    <2>1. UNCHANGED <<sender, result, ready, copies>>
        BY <1>g DEF ReceiveReply, Submit, ProcessTask, ReplyQueueGone, ReplyQueueBack,
                    ForgetObsolete
    <2> QED BY <2>1, <1>e
<1>h. CASE UNCHANGED vars
    BY <1>h, <1>e DEF vars
<1> QED BY <1>a, <1>b, <1>c, <1>d, <1>f, <1>g, <1>h DEF Next

(* The steps of the client, of the broker's reply queue and of the clocks  *)
(* do not touch the deliveries.                                            *)
LEMMA DeliveriesAlone ==
    ASSUME \/ \E m \in Msg : ClientStep(m) \/ Expire(m)
           \/ ReceiveReply \/ ReplyQueueGone \/ ReplyQueueBack \/ ForgetObsolete
           \/ UNCHANGED vars
    PROVE  UNCHANGED <<unacked, copies, incoming, tasks, cache, state, answer, ran>>
<1> USE DEF clientVars, brokerVars, serverVars, faultVars, historyVars
<1>1. ASSUME NEW m \in Msg, ClientStep(m)
      PROVE UNCHANGED <<unacked, copies, incoming, tasks, cache, state, answer, ran>>
    BY <1>1 DEF ClientStep, Listen, Publish, PublishAgain, PublishFails, GetReply,
                WaitTimeout, Unlisten
<1>2. ASSUME NEW m \in Msg, Expire(m)
      PROVE UNCHANGED <<unacked, copies, incoming, tasks, cache, state, answer, ran>>
    BY <1>2 DEF Expire
<1>3. ASSUME ReceiveReply \/ ReplyQueueGone \/ ReplyQueueBack \/ ForgetObsolete
      PROVE UNCHANGED <<unacked, copies, incoming, tasks, cache, state, answer, ran>>
    BY <1>3 DEF ReceiveReply, ReplyQueueGone, ReplyQueueBack, ForgetObsolete
<1>4. ASSUME UNCHANGED vars
      PROVE UNCHANGED <<unacked, copies, incoming, tasks, cache, state, answer, ran>>
    BY <1>4 DEF vars
<1> QED BY <1>1, <1>2, <1>3, <1>4

(* A worker greenthread moves its own delivery on, from a stage it owns.   *)
LEMMA WorkerMoves ==
    ASSUME TypeOK, NEW d \in Delivery, WorkerStep(d)
    PROVE  /\ state[d] \in {"submitted", "acked", "running", "replying"}
           /\ \A e \in Delivery : e # d => state'[e] = state[e] /\ answer'[e] = answer[e]
           /\ UNCHANGED <<unacked, copies, incoming>>
           /\ \/ state[d] = "submitted" /\ state'[d] = "acking" /\ tasks' = Append(tasks, d)
                 /\ UNCHANGED <<answer, ran>>
              \/ state[d] = "acked" /\ state'[d] = "running" /\ ran' = ran \cup {d}
                 /\ UNCHANGED <<answer, tasks>>
              \/ state[d] = "running" /\ state'[d] = "replying" /\ answer'[d] \in Answer
                 /\ UNCHANGED <<ran, tasks>>
              \/ state[d] = "replying" /\ state'[d] \in {"replying", "replied", "dropped"}
                 /\ UNCHANGED <<answer, ran, tasks>>
<1> USE DEF clientVars, brokerVars, serverVars, faultVars, historyVars
<1>1. CASE Acknowledge(d) BY <1>1 DEF Acknowledge, TypeOK
<1>2. CASE Dispatch(d) BY <1>2 DEF Dispatch, TypeOK
<1>3. CASE Finish(d) BY <1>3 DEF Finish, TypeOK
<1>4. CASE SkipReply(d) BY <1>4 DEF SkipReply, TypeOK
<1>5. CASE SendReply(d) BY <1>5 DEF SendReply, TypeOK
<1>6. CASE SendReplyAgain(d) BY <1>6 DEF SendReplyAgain, TypeOK
<1>7. CASE GiveUpReply(d) BY <1>7 DEF GiveUpReply, TypeOK
<1>8. CASE ReplyRaises(d) BY <1>8 DEF ReplyRaises, TypeOK
<1> QED BY <1>1, <1>2, <1>3, <1>4, <1>5, <1>6, <1>7, <1>8 DEF WorkerStep

(* What the polling thread takes from the head of one of its queues. *)
LEMMA QueueHead ==
    ASSUME NEW q \in Seq(Delivery), q # << >>
    PROVE  /\ Head(q) \in Delivery /\ Head(q) = q[1] /\ 1 \in 1 .. Len(q)
           /\ Tail(q) \in Seq(Delivery) /\ Len(Tail(q)) = Len(q) - 1
           /\ \A i \in 1 .. Len(Tail(q)) : Tail(q)[i] = q[i + 1] /\ i + 1 \in 1 .. Len(q) /\ i + 1 # 1
    OBVIOUS

(* Submit and ProcessTask move the delivery at the head of their queue. *)
LEMMA PollMoves ==
    ASSUME TypeOK, QueueInv
    PROVE  /\ Submit => /\ Head(incoming) \in Delivery /\ state[Head(incoming)] = "incoming"
                        /\ state' = [state EXCEPT ![Head(incoming)] = "submitted"]
                        /\ UNCHANGED <<unacked, copies, tasks, answer, ran>>
           /\ ProcessTask => /\ Head(tasks) \in Delivery /\ state[Head(tasks)] = "acking"
                             /\ state' = [state EXCEPT ![Head(tasks)] = "acked"]
                             /\ unacked' = unacked \ {Head(tasks)}
                             /\ UNCHANGED <<copies, incoming, answer, ran>>
<1> USE DEF clientVars, brokerVars, serverVars, faultVars, historyVars
<1>1. ASSUME Submit
      PROVE  Head(incoming) \in Delivery /\ state[Head(incoming)] = "incoming"
    <2>1. incoming \in Seq(Delivery) /\ incoming # << >> BY <1>1 DEF Submit, TypeOK
    <2> QED BY <2>1, QueueHead DEF QueueInv
<1>2. ASSUME ProcessTask
      PROVE  Head(tasks) \in Delivery /\ state[Head(tasks)] = "acking"
    <2>1. tasks \in Seq(Delivery) /\ tasks # << >> BY <1>2 DEF ProcessTask, TypeOK
    <2> QED BY <2>1, QueueHead DEF QueueInv
<1> QED BY <1>1, <1>2 DEF Submit, ProcessTask

(* The numbering of the copies, and what can be delivered again. *)
LEMMA CopyStep ==
    TypeOK /\ CopyInv /\ QueueInv /\ [Next]_vars => CopyInv'
<1> SUFFICES ASSUME TypeOK, CopyInv, QueueInv, [Next]_vars PROVE CopyInv'
    OBVIOUS
<1> USE DEF clientVars, brokerVars, serverVars, faultVars, historyVars
<1>1. CASE \/ \E m \in Msg : ClientStep(m) \/ Expire(m)
           \/ ReceiveReply \/ ReplyQueueGone \/ ReplyQueueBack \/ ForgetObsolete
           \/ UNCHANGED vars
    BY <1>1, DeliveriesAlone DEF CopyInv
<1>2. ASSUME NEW m \in Msg, Deliver(m) \/ SkipDuplicate(m) PROVE CopyInv'
    <2> DEFINE e == <<m, copies[m] + 1>>
    <2>0. copies[m] < MaxCopies /\ copies[m] \in Nat
        BY <1>2 DEF Deliver, SkipDuplicate, TypeOK
    <2>1. e \in Delivery /\ e[1] = m /\ e[2] = copies[m] + 1
        BY <2>0, NextCopy
    <2>2. state[e] = "none"
        BY <2>0, NextCopy
    <2>3. /\ copies' = [copies EXCEPT ![m] = @ + 1]
          /\ \/ state' = [state EXCEPT ![e] = "incoming"] /\ unacked' = unacked \cup {e}
             \/ state' = [state EXCEPT ![e] = "skipped"] /\ unacked' = unacked
        BY <1>2 DEF Deliver, SkipDuplicate
    <2> HIDE DEF e
    <2>4. \A d \in Delivery : d # e => state'[d] = state[d]
        BY <2>1, <2>3 DEF TypeOK
    <2>5. \A d \in Delivery : d[1] \in Msg /\ d[2] \in Nat
        BY RpcAssumption DEF Delivery
    <2>6. \A d \in Delivery : d[2] > copies'[d[1]] => state'[d] = "none"
        <3> SUFFICES ASSUME NEW d \in Delivery, d[2] > copies'[d[1]]
                     PROVE  state'[d] = "none"
            OBVIOUS
        <3>1. \A k \in Msg : copies[k] \in Nat /\ copies'[k] \in Nat /\ copies'[k] >= copies[k]
            BY <2>0, <2>3 DEF TypeOK
        <3>2. d # e
            BY <2>0, <2>1, <2>3 DEF TypeOK
        <3>3. d[2] > copies[d[1]]
            BY <3>1, <2>5
        <3> QED BY <2>4, <3>2, <3>3 DEF CopyInv
    <2>7. \A d \in unacked' : state'[d] \in Unacked
        <3>1. \A d \in unacked : d \in Delivery /\ d # e /\ state[d] \in Unacked
            BY <2>2 DEF CopyInv, TypeOK, Unacked
        <3>2. unacked' # unacked => state'[e] = "incoming"
            BY <2>1, <2>3 DEF TypeOK
        <3> QED BY <2>3, <2>4, <3>1, <3>2 DEF Unacked
    <2> QED BY <2>6, <2>7 DEF CopyInv
<1>3. ASSUME NEW d \in Delivery, WorkerStep(d) PROVE CopyInv'
    <2>1. \A x \in Delivery : x # d => state'[x] = state[x]
        BY <1>3, WorkerMoves
    <2>2. UNCHANGED <<unacked, copies>> /\ state[d] # "none"
        BY <1>3, WorkerMoves
    <2>3. d \in unacked => state'[d] \in Unacked
        BY <1>3, WorkerMoves DEF CopyInv, Unacked
    <2>4. unacked \subseteq Delivery BY DEF TypeOK
    <2> QED BY <2>1, <2>2, <2>3, <2>4 DEF CopyInv
<1>4. CASE Submit
    BY <1>4, PollMoves DEF CopyInv, TypeOK, Unacked
<1>5. CASE ProcessTask
    BY <1>5, PollMoves DEF CopyInv, TypeOK
<1>6. CASE ConnectionDrop
    BY <1>6 DEF ConnectionDrop, Requeue, CopyInv
<1>7. CASE ServerRestart
    BY <1>7 DEF ServerRestart, Requeue, CopyInv, Live, Unacked, Acked
<1> QED BY <1>1, <1>2, <1>3, <1>4, <1>5, <1>6, <1>7 DEF Next

(* The queues of the polling thread stay free of repetitions. *)
LEMMA QueueStep ==
    TypeOK /\ CopyInv /\ QueueInv /\ [Next]_vars => QueueInv'
<1> SUFFICES ASSUME TypeOK, CopyInv, QueueInv, [Next]_vars PROVE QueueInv'
    OBVIOUS
<1> USE DEF clientVars, brokerVars, serverVars, faultVars, historyVars
<1>0. /\ incoming \in Seq(Delivery) /\ tasks \in Seq(Delivery)
      /\ \A i \in 1 .. Len(incoming) : incoming[i] \in Delivery
      /\ \A i \in 1 .. Len(tasks) : tasks[i] \in Delivery
    BY DEF TypeOK
<1>1. CASE \/ \E m \in Msg : ClientStep(m) \/ Expire(m)
           \/ ReceiveReply \/ ReplyQueueGone \/ ReplyQueueBack \/ ForgetObsolete
           \/ UNCHANGED vars
    BY <1>1, DeliveriesAlone DEF QueueInv
<1>2. ASSUME NEW m \in Msg, Deliver(m) \/ SkipDuplicate(m) PROVE QueueInv'
    <2> DEFINE e == <<m, copies[m] + 1>>
    <2>0. copies[m] < MaxCopies
        BY <1>2 DEF Deliver, SkipDuplicate
    <2>1. e \in Delivery /\ state[e] = "none"
        BY <2>0, NextCopy
    <2>2. /\ tasks' = tasks
          /\ \/ state' = [state EXCEPT ![e] = "incoming"] /\ incoming' = Append(incoming, e)
             \/ state' = [state EXCEPT ![e] = "skipped"] /\ incoming' = incoming
        BY <1>2 DEF Deliver, SkipDuplicate
    <2> HIDE DEF e
    <2>3. \A d \in Delivery : d # e => state'[d] = state[d]
        BY <2>1, <2>2 DEF TypeOK
    <2>4. /\ \A i \in 1 .. Len(incoming) : incoming[i] # e /\ state'[incoming[i]] = "incoming"
          /\ \A i \in 1 .. Len(tasks) : state'[tasks[i]] = "acking"
        BY <1>0, <2>1, <2>3 DEF QueueInv
    <2>5. CASE incoming' = incoming
        BY <2>2, <2>4, <2>5 DEF QueueInv
    <2>6. CASE incoming' = Append(incoming, e) /\ state' = [state EXCEPT ![e] = "incoming"]
        <3>1. state'[e] = "incoming" BY <2>1, <2>6 DEF TypeOK
        <3>2. /\ Len(incoming') = Len(incoming) + 1 /\ incoming'[Len(incoming) + 1] = e
              /\ \A i \in 1 .. Len(incoming) : incoming'[i] = incoming[i]
            BY <1>0, <2>1, <2>6
        <3>3. Len(incoming) \in Nat BY <1>0
        <3>4. \A i \in 1 .. Len(incoming') : i \in 1 .. Len(incoming) \/ i = Len(incoming) + 1
            BY <3>2, <3>3
        <3>5. \A i \in 1 .. Len(incoming') : state'[incoming'[i]] = "incoming"
            BY <2>4, <3>1, <3>2, <3>4
        <3>6. \A i, j \in 1 .. Len(incoming') : incoming'[i] = incoming'[j] => i = j
            BY <2>4, <3>2, <3>4 DEF QueueInv
        <3> QED BY <2>2, <2>4, <3>5, <3>6 DEF QueueInv
    <2> QED BY <2>2, <2>5, <2>6
<1>3. ASSUME NEW d \in Delivery, WorkerStep(d) PROVE QueueInv'
    <2>1. \A x \in Delivery : x # d => state'[x] = state[x]
        BY <1>3, WorkerMoves
    <2>2. state[d] \in {"submitted", "acked", "running", "replying"} /\ incoming' = incoming
        BY <1>3, WorkerMoves
    <2>3. /\ \A i \in 1 .. Len(incoming) : state'[incoming[i]] = "incoming"
          /\ \A i \in 1 .. Len(tasks) : tasks[i] # d /\ state'[tasks[i]] = "acking"
        BY <1>0, <2>1, <2>2 DEF QueueInv
    <2>4. \/ tasks' = tasks
          \/ tasks' = Append(tasks, d) /\ state'[d] = "acking"
        BY <1>3, WorkerMoves
    <2>5. CASE tasks' = tasks
        BY <2>2, <2>3, <2>5 DEF QueueInv
    <2>6. CASE tasks' = Append(tasks, d) /\ state'[d] = "acking"
        <3>2. /\ Len(tasks') = Len(tasks) + 1 /\ tasks'[Len(tasks) + 1] = d
              /\ \A i \in 1 .. Len(tasks) : tasks'[i] = tasks[i]
            BY <1>0, <2>6
        <3>3. Len(tasks) \in Nat BY <1>0
        <3>4. \A i \in 1 .. Len(tasks') : i \in 1 .. Len(tasks) \/ i = Len(tasks) + 1
            BY <3>2, <3>3
        <3>5. \A i \in 1 .. Len(tasks') : state'[tasks'[i]] = "acking"
            BY <2>3, <2>6, <3>2, <3>4
        <3>6. \A i, j \in 1 .. Len(tasks') : tasks'[i] = tasks'[j] => i = j
            BY <2>3, <3>2, <3>4 DEF QueueInv
        <3> QED BY <2>2, <2>3, <3>5, <3>6 DEF QueueInv
    <2> QED BY <2>4, <2>5, <2>6
<1>4. CASE Submit
    <2>1. incoming # << >> /\ incoming' = Tail(incoming) BY <1>4 DEF Submit
    <2>2. /\ Head(incoming) \in Delivery /\ state[Head(incoming)] = "incoming"
          /\ state' = [state EXCEPT ![Head(incoming)] = "submitted"] /\ tasks' = tasks
        BY <1>4, PollMoves
    <2>3. \A d \in Delivery : d # Head(incoming) => state'[d] = state[d]
        BY <2>2 DEF TypeOK
    <2>4. \A i \in 1 .. Len(tasks) : state'[tasks[i]] = "acking"
        BY <1>0, <2>2, <2>3 DEF QueueInv
    <2>5. /\ Head(incoming) = incoming[1] /\ 1 \in 1 .. Len(incoming)
          /\ \A i \in 1 .. Len(incoming') : incoming'[i] = incoming[i + 1] /\ i + 1 \in 1 .. Len(incoming) /\ i + 1 # 1
        BY <1>0, <2>1, QueueHead
    <2>6. \A i \in 1 .. Len(incoming') : state'[incoming'[i]] = "incoming"
        BY <1>0, <2>3, <2>5 DEF QueueInv
    <2>7. \A i, j \in 1 .. Len(incoming') : incoming'[i] = incoming'[j] => i = j
        BY <2>5 DEF QueueInv
    <2> QED BY <2>2, <2>4, <2>6, <2>7 DEF QueueInv
<1>5. CASE ProcessTask
    <2>1. tasks # << >> /\ tasks' = Tail(tasks) BY <1>5 DEF ProcessTask
    <2>2. /\ Head(tasks) \in Delivery /\ state[Head(tasks)] = "acking"
          /\ state' = [state EXCEPT ![Head(tasks)] = "acked"] /\ incoming' = incoming
        BY <1>5, PollMoves
    <2>3. \A d \in Delivery : d # Head(tasks) => state'[d] = state[d]
        BY <2>2 DEF TypeOK
    <2>4. \A i \in 1 .. Len(incoming) : state'[incoming[i]] = "incoming"
        BY <1>0, <2>2, <2>3 DEF QueueInv
    <2>5. /\ Head(tasks) = tasks[1] /\ 1 \in 1 .. Len(tasks)
          /\ \A i \in 1 .. Len(tasks') : tasks'[i] = tasks[i + 1] /\ i + 1 \in 1 .. Len(tasks) /\ i + 1 # 1
        BY <1>0, <2>1, QueueHead
    <2>6. \A i \in 1 .. Len(tasks') : state'[tasks'[i]] = "acking"
        <3> SUFFICES ASSUME NEW i \in 1 .. Len(tasks') PROVE state'[tasks'[i]] = "acking"
            OBVIOUS
        <3>1. tasks[i + 1] # tasks[1]
            BY <2>5 DEF QueueInv
        <3>2. tasks[i + 1] \in Delivery /\ state[tasks[i + 1]] = "acking"
            BY <1>0, <2>5 DEF QueueInv
        <3> QED BY <2>3, <2>5, <3>1, <3>2
    <2>7. \A i, j \in 1 .. Len(tasks') : tasks'[i] = tasks'[j] => i = j
        BY <2>5 DEF QueueInv
    <2> QED BY <2>2, <2>4, <2>6, <2>7 DEF QueueInv
<1>6. CASE ConnectionDrop
    BY <1>6 DEF ConnectionDrop, QueueInv
<1>7. CASE ServerRestart
    <2>1. Len(incoming') = 0 /\ Len(tasks') = 0 BY <1>7 DEF ServerRestart
    <2> QED BY <2>1 DEF QueueInv
<1> QED BY <1>1, <1>2, <1>3, <1>4, <1>5, <1>6, <1>7 DEF Next

(* An answer appears when the endpoint method ends and never changes. *)
LEMMA AnswerStep ==
    TypeOK /\ CopyInv /\ QueueInv /\ AnswerInv /\ [Next]_vars
        => /\ AnswerInv' /\ ran \subseteq ran'
           /\ \A d \in Delivery : answer[d] # "none" => answer'[d] = answer[d]
<1> SUFFICES ASSUME TypeOK, CopyInv, QueueInv, AnswerInv, [Next]_vars
             PROVE  /\ AnswerInv' /\ ran \subseteq ran'
                    /\ \A d \in Delivery : answer[d] # "none" => answer'[d] = answer[d]
    OBVIOUS
<1> USE DEF clientVars, brokerVars, serverVars, faultVars, historyVars
<1>1. CASE \/ \E m \in Msg : ClientStep(m) \/ Expire(m)
           \/ ReceiveReply \/ ReplyQueueGone \/ ReplyQueueBack \/ ForgetObsolete
           \/ UNCHANGED vars
    BY <1>1, DeliveriesAlone DEF AnswerInv
<1>2. ASSUME NEW m \in Msg, Deliver(m) \/ SkipDuplicate(m)
      PROVE  AnswerInv' /\ UNCHANGED <<answer, ran>>
    <2> DEFINE e == <<m, copies[m] + 1>>
    <2>0. copies[m] < MaxCopies
        BY <1>2 DEF Deliver, SkipDuplicate
    <2>1. e \in Delivery /\ state[e] = "none"
        BY <2>0, NextCopy
    <2>2. /\ UNCHANGED <<answer, ran>>
          /\ \/ state' = [state EXCEPT ![e] = "incoming"]
             \/ state' = [state EXCEPT ![e] = "skipped"]
        BY <1>2 DEF Deliver, SkipDuplicate
    <2> HIDE DEF e
    <2>3. \A d \in Delivery : d # e => state'[d] = state[d]
        BY <2>1, <2>2 DEF TypeOK
    <2>4. state'[e] \in {"incoming", "skipped"} /\ answer[e] = "none"
        BY <2>1, <2>2 DEF TypeOK, AnswerInv
    <2> QED BY <2>2, <2>3, <2>4 DEF AnswerInv, Unacked
<1>3. ASSUME NEW d \in Delivery, WorkerStep(d)
      PROVE  /\ AnswerInv' /\ ran \subseteq ran'
             /\ \A x \in Delivery : answer[x] # "none" => answer'[x] = answer[x]
    <2>1. \A x \in Delivery : x # d => state'[x] = state[x] /\ answer'[x] = answer[x]
        BY <1>3, WorkerMoves
    <2>2. \/ state[d] = "submitted" /\ state'[d] = "acking" /\ UNCHANGED <<answer, ran>>
          \/ state[d] = "acked" /\ state'[d] = "running" /\ ran' = ran \cup {d}
             /\ answer' = answer
          \/ state[d] = "running" /\ state'[d] = "replying" /\ answer'[d] \in Answer /\ ran' = ran
          \/ state[d] = "replying" /\ state'[d] \in {"replying", "replied", "dropped"}
             /\ UNCHANGED <<answer, ran>>
        BY <1>3, WorkerMoves
    <2>3. ran \subseteq ran'
        BY <2>2
    <2>4. answer[d] # "none" => answer'[d] = answer[d]
        BY <2>2 DEF AnswerInv
    <2>5. /\ state'[d] \in {"none", "acked", "running", "skipped"} \cup Unacked => answer'[d] = "none"
          /\ state'[d] \in {"replying", "replied"} => answer'[d] \in Answer
          /\ state'[d] = "running" \/ answer'[d] # "none" => d \in ran'
        BY <2>2 DEF AnswerInv, Unacked
    <2>6. AnswerInv'
        BY <2>1, <2>3, <2>5 DEF AnswerInv
    <2> QED BY <2>1, <2>3, <2>4, <2>6
<1>4. CASE Submit
    BY <1>4, PollMoves DEF AnswerInv, TypeOK, Unacked
<1>5. CASE ProcessTask
    BY <1>5, PollMoves DEF AnswerInv, TypeOK, Unacked
<1>6. CASE ConnectionDrop
    BY <1>6 DEF ConnectionDrop, AnswerInv
<1>7. CASE ServerRestart
    <2>1. /\ UNCHANGED <<answer, ran>>
          /\ \A d \in Delivery : state'[d] = state[d] \/ state'[d] = "lost"
        BY <1>7 DEF ServerRestart
    <2> QED BY <2>1 DEF AnswerInv, Unacked
<1> QED BY <1>1, <1>2, <1>3, <1>4, <1>5, <1>6, <1>7 DEF Next

(* Replies keep travelling to the calls they belong to. *)
LEMMA ReplyStep ==
    TypeOK /\ CopyInv /\ QueueInv /\ AnswerInv /\ ReplyInv /\ [Next]_vars => ReplyInv'
<1> SUFFICES ASSUME TypeOK, CopyInv, QueueInv, AnswerInv, ReplyInv, [Next]_vars
             PROVE  ReplyInv'
    OBVIOUS
<1> USE DEF clientVars, brokerVars, serverVars, faultVars, historyVars
<1>0. /\ replyq \in Seq(Delivery) /\ inbox \in [Msg -> Seq(Delivery)]
      /\ discarded \subseteq Delivery
    BY DEF TypeOK
<1>1. \A d \in Delivery : answer[d] # "none" => answer'[d] = answer[d]
    BY AnswerStep
<1>2. /\ \A i \in 1 .. Len(replyq) : replyq[i][1] \in Call /\ answer'[replyq[i]] \in Answer
      /\ \A m \in Msg : \A i \in 1 .. Len(inbox[m]) :
            inbox[m][i][1] = m /\ answer'[inbox[m][i]] \in Answer
      /\ \A d \in discarded : answer'[d] # "none"
    <2>1. \A q \in Seq(Delivery) : \A i \in 1 .. Len(q) : q[i] \in Delivery
        OBVIOUS
    <2>2. "none" \notin Answer BY DEF Answer
    <2> QED BY <1>0, <1>1, <2>1, <2>2 DEF ReplyInv
<1>a. ASSUME UNCHANGED <<replyq, inbox, discarded>> PROVE ReplyInv'
    BY <1>a, <1>2 DEF ReplyInv
<1>b. ASSUME NEW m \in Msg, ClientStep(m) PROVE ReplyInv'
    <2>1. UNCHANGED <<replyq, discarded>>
        BY <1>b DEF ClientStep, Listen, Publish, PublishAgain, PublishFails, GetReply,
                    WaitTimeout, Unlisten
    <2>2. \/ inbox' = inbox
          \/ inbox' = [inbox EXCEPT ![m] = << >>]
          \/ inbox[m] # << >> /\ inbox' = [inbox EXCEPT ![m] = Tail(@)]
        BY <1>b DEF ClientStep, Listen, Publish, PublishAgain, PublishFails, GetReply,
                    WaitTimeout, Unlisten
    <2>3. \A k \in Msg : \A i \in 1 .. Len(inbox'[k]) :
            \E j \in 1 .. Len(inbox[k]) : inbox'[k][i] = inbox[k][j]
        <3>1. CASE inbox' = inbox BY <3>1
        <3>2. CASE inbox' = [inbox EXCEPT ![m] = << >>] BY <1>0, <3>2
        <3>3. CASE inbox[m] # << >> /\ inbox' = [inbox EXCEPT ![m] = Tail(@)]
            <4>1. \A i \in 1 .. Len(Tail(inbox[m])) :
                    Tail(inbox[m])[i] = inbox[m][i + 1] /\ i + 1 \in 1 .. Len(inbox[m])
                BY <1>0, <3>3, QueueHead
            <4>2. \A k \in Msg : inbox'[k] = IF k = m THEN Tail(inbox[m]) ELSE inbox[k]
                BY <1>0, <3>3
            <4> QED BY <4>1, <4>2
        <3> QED BY <2>2, <3>1, <3>2, <3>3
    <2> QED BY <1>2, <2>1, <2>3 DEF ReplyInv
<1>c. ASSUME NEW m \in Msg, Expire(m) \/ Deliver(m) \/ SkipDuplicate(m) PROVE ReplyInv'
    <2>1. UNCHANGED <<replyq, inbox, discarded>>
        BY <1>c DEF Expire, Deliver, SkipDuplicate
    <2> QED BY <1>a, <2>1
<1>d. ASSUME NEW d \in Delivery, WorkerStep(d) PROVE ReplyInv'
    <2>1. CASE SendReply(d) \/ SendReplyAgain(d)
        <3>1. /\ state[d] = "replying" /\ d[1] \in Call
              /\ replyq' = Append(replyq, d) /\ UNCHANGED <<inbox, discarded, answer>>
            BY <2>1 DEF SendReply, SendReplyAgain
        <3>2. answer'[d] \in Answer
            BY <3>1 DEF AnswerInv
        <3>3. /\ Len(replyq') = Len(replyq) + 1 /\ replyq'[Len(replyq) + 1] = d
              /\ \A i \in 1 .. Len(replyq) : replyq'[i] = replyq[i]
            BY <1>0, <3>1
        <3>4. \A i \in 1 .. Len(replyq') : i \in 1 .. Len(replyq) \/ i = Len(replyq) + 1
            BY <1>0, <3>3
        <3> QED BY <1>2, <3>1, <3>2, <3>3, <3>4 DEF ReplyInv
    <2>2. CASE Acknowledge(d) \/ Dispatch(d) \/ Finish(d) \/ SkipReply(d)
               \/ GiveUpReply(d) \/ ReplyRaises(d)
        <3>1. UNCHANGED <<replyq, inbox, discarded>>
            BY <2>2 DEF Acknowledge, Dispatch, Finish, SkipReply, GiveUpReply, ReplyRaises
        <3> QED BY <1>a, <3>1
    <2> QED BY <1>d, <2>1, <2>2 DEF WorkerStep
<1>e. CASE ReceiveReply
    <2>1. replyq # << >> /\ replyq' = Tail(replyq) /\ Put(Head(replyq)) /\ UNCHANGED answer
        BY <1>e DEF ReceiveReply
    <2>2. /\ Head(replyq) \in Delivery /\ Head(replyq) = replyq[1] /\ 1 \in 1 .. Len(replyq)
          /\ \A i \in 1 .. Len(replyq') : replyq'[i] = replyq[i + 1] /\ i + 1 \in 1 .. Len(replyq)
        BY <1>0, <2>1, QueueHead
    <2>3. \A i \in 1 .. Len(replyq') : replyq'[i][1] \in Call /\ answer'[replyq'[i]] \in Answer
        BY <1>2, <2>2
    <2> DEFINE d == Head(replyq)
    <2>4. d \in Delivery /\ d[1] \in Call /\ answer'[d] \in Answer
        BY <1>2, <2>2
    <2>5. d[1] \in Msg BY <2>4 DEF Call
    <2>6. CASE d[1] \in waiters
        <3>1. inbox' = [inbox EXCEPT ![d[1]] = Append(@, d)] /\ discarded' = discarded
            BY <2>1, <2>6 DEF Put
        <3> HIDE DEF d
        <3>2. /\ inbox'[d[1]] = Append(inbox[d[1]], d) /\ inbox[d[1]] \in Seq(Delivery)
              /\ \A k \in Msg : k # d[1] => inbox'[k] = inbox[k]
            BY <1>0, <2>5, <3>1
        <3>3. /\ Len(inbox'[d[1]]) = Len(inbox[d[1]]) + 1
              /\ inbox'[d[1]][Len(inbox[d[1]]) + 1] = d
              /\ \A i \in 1 .. Len(inbox[d[1]]) : inbox'[d[1]][i] = inbox[d[1]][i]
            BY <2>4, <3>2
        <3>4. \A i \in 1 .. Len(inbox'[d[1]]) :
                i \in 1 .. Len(inbox[d[1]]) \/ i = Len(inbox[d[1]]) + 1
            BY <3>2, <3>3
        <3>5. \A i \in 1 .. Len(inbox'[d[1]]) :
                inbox'[d[1]][i][1] = d[1] /\ answer'[inbox'[d[1]][i]] \in Answer
            BY <1>2, <2>4, <2>5, <3>3, <3>4
        <3> QED BY <1>2, <2>3, <3>1, <3>2, <3>5 DEF ReplyInv
    <2>7. CASE d[1] \notin waiters
        <3>1. discarded' = discarded \cup {d} /\ inbox' = inbox
            BY <2>1, <2>7 DEF Put
        <3>2. answer'[d] # "none" BY <2>4 DEF Answer
        <3> QED BY <1>2, <2>3, <3>1, <3>2 DEF ReplyInv
    <2> QED BY <2>6, <2>7
<1>f. CASE Submit \/ ProcessTask \/ ConnectionDrop \/ ServerRestart \/ ReplyQueueBack
           \/ ForgetObsolete \/ UNCHANGED vars
    <2>1. UNCHANGED <<replyq, inbox, discarded>>
        BY <1>f DEF Submit, ProcessTask, ConnectionDrop, ServerRestart, ReplyQueueBack,
                    ForgetObsolete, vars
    <2> QED BY <1>a, <2>1
<1>g. CASE ReplyQueueGone
    <2>1. Len(replyq') = 0 /\ UNCHANGED <<inbox, discarded>>
        BY <1>g DEF ReplyQueueGone
    <2> QED BY <1>2, <2>1 DEF ReplyInv
<1> QED BY <1>b, <1>c, <1>d, <1>e, <1>f, <1>g DEF Next

(* Registration and unregistration bracket the call. *)
LEMMA WaitersStep ==
    TypeOK /\ SendInv /\ WaitersExact /\ [Next]_vars => WaitersExact'
<1> SUFFICES ASSUME TypeOK, SendInv, WaitersExact, [Next]_vars PROVE WaitersExact'
    OBVIOUS
<1> USE DEF clientVars, brokerVars, serverVars, faultVars, historyVars
<1>a. ASSUME NEW m \in Msg, ClientStep(m) PROVE WaitersExact'
    <2>1. CASE Listen(m) BY <2>1 DEF Listen, TypeOK, WaitersExact, Call
    <2>2. CASE Publish(m) BY <2>2 DEF Publish, TypeOK, WaitersExact, Call
    <2>3. CASE PublishAgain(m) BY <2>3 DEF PublishAgain, WaitersExact
    <2>4. CASE PublishFails(m) BY <2>4 DEF PublishFails, TypeOK, WaitersExact, Call
    <2>5. CASE GetReply(m) BY <2>5 DEF GetReply, TypeOK, WaitersExact, Call
    <2>6. CASE WaitTimeout(m) BY <2>6 DEF WaitTimeout, TypeOK, WaitersExact, Call
    <2>7. CASE Unlisten(m) BY <2>7 DEF Unlisten, TypeOK, WaitersExact, Call
    <2> QED BY <1>a, <2>1, <2>2, <2>3, <2>4, <2>5, <2>6, <2>7 DEF ClientStep
<1>b. ASSUME NEW m \in Msg, Expire(m) \/ Deliver(m) \/ SkipDuplicate(m) PROVE WaitersExact'
    BY <1>b DEF Expire, Deliver, SkipDuplicate, WaitersExact
<1>c. ASSUME NEW d \in Delivery, WorkerStep(d) PROVE WaitersExact'
    BY <1>c DEF WorkerStep, Acknowledge, Dispatch, Finish, SkipReply, SendReply,
                SendReplyAgain, GiveUpReply, ReplyRaises, WaitersExact
<1>d. CASE \/ ReceiveReply \/ Submit \/ ProcessTask \/ ConnectionDrop \/ ServerRestart
           \/ ReplyQueueGone \/ ReplyQueueBack \/ ForgetObsolete \/ UNCHANGED vars
    BY <1>d DEF ReceiveReply, Submit, ProcessTask, ConnectionDrop, ServerRestart,
                ReplyQueueGone, ReplyQueueBack, ForgetObsolete, vars, WaitersExact
<1> QED BY <1>a, <1>b, <1>c, <1>d DEF Next

(* A call that is over stays over, and its outcome is final. *)
LEMMA OutcomeFinal ==
    ASSUME TypeOK, SendInv, [Next]_vars, NEW m \in Msg
    PROVE  /\ sender[m] = "done" => sender'[m] = "done"
           /\ result[m] # "none" => result'[m] = result[m]
<1> USE DEF clientVars, brokerVars, serverVars, faultVars, historyVars
<1>a. ASSUME NEW k \in Msg, ClientStep(k)
      PROVE  /\ sender[m] = "done" => sender'[m] = "done"
             /\ result[m] # "none" => result'[m] = result[m]
    BY <1>a DEF ClientStep, Listen, Publish, PublishAgain, PublishFails, GetReply,
                WaitTimeout, Unlisten, TypeOK, SendInv
<1>b. ASSUME NEW k \in Msg, Expire(k) \/ Deliver(k) \/ SkipDuplicate(k)
      PROVE  UNCHANGED <<sender, result>>
    BY <1>b DEF Expire, Deliver, SkipDuplicate
<1>c. ASSUME NEW d \in Delivery, WorkerStep(d) PROVE UNCHANGED <<sender, result>>
    BY <1>c DEF WorkerStep, Acknowledge, Dispatch, Finish, SkipReply, SendReply,
                SendReplyAgain, GiveUpReply, ReplyRaises
<1>d. ASSUME \/ ReceiveReply \/ Submit \/ ProcessTask \/ ConnectionDrop \/ ServerRestart
             \/ ReplyQueueGone \/ ReplyQueueBack \/ ForgetObsolete \/ UNCHANGED vars
      PROVE  UNCHANGED <<sender, result>>
    BY <1>d DEF ReceiveReply, Submit, ProcessTask, ConnectionDrop, ServerRestart,
                ReplyQueueGone, ReplyQueueBack, ForgetObsolete, vars
<1> QED BY <1>a, <1>b, <1>c, <1>d DEF Next

(* put() drops a reply only when its caller has left. *)
LEMMA DiscardStep ==
    TypeOK /\ SendInv /\ CopyInv /\ AnswerInv /\ ReplyInv /\ WaitersExact
        /\ OnlyLateDiscarded /\ [Next]_vars => OnlyLateDiscarded'
<1> SUFFICES ASSUME TypeOK, SendInv, CopyInv, AnswerInv, ReplyInv, WaitersExact,
                    OnlyLateDiscarded, [Next]_vars
             PROVE  OnlyLateDiscarded'
    OBVIOUS
<1> USE DEF clientVars, brokerVars, serverVars, faultVars, historyVars
<1>0. \A d \in Delivery : d[1] \in Msg /\ d[2] > 0
    BY RpcAssumption DEF Delivery
<1>1. \A d \in discarded : sender'[d[1]] = "done"
    <2>1. discarded \subseteq Delivery BY DEF TypeOK
    <2> QED BY <1>0, <2>1, OutcomeFinal DEF OnlyLateDiscarded
<1>2. CASE ReceiveReply
    <2> DEFINE d == Head(replyq)
    <2>1. replyq \in Seq(Delivery) /\ replyq # << >> /\ Put(d) /\ sender' = sender
        BY <1>2 DEF ReceiveReply, TypeOK
    <2>2. d \in Delivery /\ d[1] \in Call /\ answer[d] \in Answer
        BY <2>1, QueueHead DEF ReplyInv
    <2>3. sender[d[1]] # "idle"
        <3>1. state[d] # "none" BY <2>2 DEF AnswerInv, Answer
        <3>2. ~(d[2] > copies[d[1]]) BY <2>2, <3>1 DEF CopyInv
        <3> QED BY <1>0, <2>2, <3>2 DEF SendInv
    <2>4. d[1] \notin waiters => sender[d[1]] = "done"
        <3>1. sender[d[1]] \in {"idle", "sending", "waiting", "leaving", "done"}
            BY <1>0, <2>2 DEF TypeOK
        <3> QED BY <2>2, <2>3, <3>1 DEF WaitersExact
    <2>5. \/ d[1] \in waiters /\ discarded' = discarded
          \/ d[1] \notin waiters /\ discarded' = discarded \cup {d}
        BY <2>1 DEF Put
    <2> QED BY <1>1, <2>1, <2>4, <2>5 DEF OnlyLateDiscarded
<1>3. ASSUME discarded' = discarded PROVE OnlyLateDiscarded'
    BY <1>1, <1>3 DEF OnlyLateDiscarded
<1>4. ASSUME NEW m \in Msg, ClientStep(m) \/ Expire(m) \/ Deliver(m) \/ SkipDuplicate(m)
      PROVE  discarded' = discarded
    BY <1>4 DEF ClientStep, Listen, Publish, PublishAgain, PublishFails, GetReply,
                WaitTimeout, Unlisten, Expire, Deliver, SkipDuplicate
<1>5. ASSUME NEW d \in Delivery, WorkerStep(d) PROVE discarded' = discarded
    BY <1>5 DEF WorkerStep, Acknowledge, Dispatch, Finish, SkipReply, SendReply,
                SendReplyAgain, GiveUpReply, ReplyRaises
<1>6. ASSUME \/ Submit \/ ProcessTask \/ ConnectionDrop \/ ServerRestart
             \/ ReplyQueueGone \/ ReplyQueueBack \/ ForgetObsolete \/ UNCHANGED vars
      PROVE  discarded' = discarded
    BY <1>6 DEF Submit, ProcessTask, ConnectionDrop, ServerRestart, ReplyQueueGone,
                ReplyQueueBack, ForgetObsolete, vars
<1> QED BY <1>2, <1>3, <1>4, <1>5, <1>6 DEF Next

(* What a call returns was produced by an execution of that call. *)
LEMMA OwnRunStep ==
    TypeOK /\ SendInv /\ CopyInv /\ QueueInv /\ AnswerInv /\ ReplyInv
        /\ ReplyOfOwnRun /\ [Next]_vars => ReplyOfOwnRun'
<1> SUFFICES ASSUME TypeOK, SendInv, CopyInv, QueueInv, AnswerInv, ReplyInv,
                    ReplyOfOwnRun, [Next]_vars,
                    NEW m \in Msg, result'[m] \in Answer
             PROVE  m \in Call /\ \E d \in ran' \cap CopiesOf(m) : answer'[d] = result'[m]
    BY DEF ReplyOfOwnRun
<1> USE DEF clientVars, brokerVars, serverVars, faultVars, historyVars
<1>0. /\ ran \subseteq ran'
      /\ \A d \in Delivery : answer[d] # "none" => answer'[d] = answer[d]
    BY AnswerStep
<1>1. CASE result[m] # "none"
    <2>1. result'[m] = result[m] BY <1>1, OutcomeFinal
    <2>2. m \in Call /\ \E d \in ran \cap CopiesOf(m) : answer[d] = result[m]
        BY <2>1 DEF ReplyOfOwnRun
    <2> QED BY <1>0, <1>1, <2>1, <2>2 DEF CopiesOf
<1>2. CASE result[m] = "none"
    <2>1. result' # result BY <1>2 DEF Answer
    <2>2. PICK k \in Msg : ClientStep(k)
        <3>1. ASSUME NEW k \in Msg, Expire(k) \/ Deliver(k) \/ SkipDuplicate(k) PROVE FALSE
            BY <2>1, <3>1 DEF Expire, Deliver, SkipDuplicate
        <3>2. ASSUME NEW d \in Delivery, WorkerStep(d) PROVE FALSE
            BY <2>1, <3>2 DEF WorkerStep, Acknowledge, Dispatch, Finish, SkipReply,
                SendReply, SendReplyAgain, GiveUpReply, ReplyRaises
        <3>3. ASSUME \/ ReceiveReply \/ Submit \/ ProcessTask \/ ConnectionDrop
                     \/ ServerRestart \/ ReplyQueueGone \/ ReplyQueueBack
                     \/ ForgetObsolete \/ UNCHANGED vars
              PROVE FALSE
            BY <2>1, <3>3 DEF ReceiveReply, Submit, ProcessTask, ConnectionDrop,
                ServerRestart, ReplyQueueGone, ReplyQueueBack, ForgetObsolete, vars
        <3> QED BY <3>1, <3>2, <3>3 DEF Next
    <2>3. k = m /\ GetReply(m)
        <3>0. result \in [Msg -> Answer \cup {"none", "timeout", "undelivered"}]
            BY DEF TypeOK
        <3>1. CASE PublishFails(k) \/ WaitTimeout(k)
            <4>1. \/ result' = [result EXCEPT ![k] = "undelivered"]
                  \/ result' = [result EXCEPT ![k] = "timeout"]
                BY <3>1 DEF PublishFails, WaitTimeout
            <4>2. result'[m] \in {"none", "undelivered", "timeout"}
                BY <1>2, <3>0, <4>1
            <4> QED BY <4>2 DEF Answer
        <3>2. CASE Listen(k) \/ Publish(k) \/ PublishAgain(k) \/ Unlisten(k)
            BY <2>1, <3>2 DEF Listen, Publish, PublishAgain, Unlisten
        <3>3. CASE GetReply(k)
            <4>1. k # m => result'[m] = result[m]
                BY <3>0, <3>3 DEF GetReply
            <4> QED BY <1>2, <3>3, <4>1 DEF Answer
        <3> QED BY <2>2, <3>1, <3>2, <3>3 DEF ClientStep
    <2>4. inbox[m] \in Seq(Delivery) /\ inbox[m] # << >> /\ m \in Call
        BY <2>3 DEF GetReply, TypeOK, SendInv
    <2>5. /\ Head(inbox[m]) \in Delivery /\ Head(inbox[m])[1] = m
          /\ answer[Head(inbox[m])] \in Answer
        BY <2>4, QueueHead DEF ReplyInv
    <2>6. answer[Head(inbox[m])] # "none" BY <2>5 DEF Answer
    <2>7. Head(inbox[m]) \in ran BY <2>5, <2>6 DEF AnswerInv
    <2>8. result'[m] = answer[Head(inbox[m])]
        BY <2>3 DEF GetReply, TypeOK
    <2> QED BY <1>0, <2>4, <2>5, <2>6, <2>7, <2>8 DEF CopiesOf
<1> QED BY <1>1, <1>2

-----------------------------------------------------------------------------
(* The invariant holds initially and every step preserves it. *)
THEOREM RpcInvariant == Spec => []RpcInv
<1>1. Init => RpcInv
    <2> SUFFICES ASSUME Init PROVE RpcInv
        OBVIOUS
    <2>1. TypeOK
        <3>1. reachable \in BOOLEAN /\ obsolete \in BOOLEAN BY Zenon DEF Init
        <3>2. << >> \in Seq(Delivery) /\ << >> \in Seq(Msg) /\ Len(<< >>) = 0
            OBVIOUS
        <3> QED BY <3>1, <3>2, RpcAssumption DEF Init, TypeOK
    <2>2. SendInv /\ CopyInv
        BY DEF Init, SendInv, CopyInv
    <2>3. QueueInv
        BY DEF Init, QueueInv
    <2>4. AnswerInv
        BY DEF Init, AnswerInv, Unacked, Answer
    <2>5. ReplyInv
        BY DEF Init, ReplyInv
    <2>6. WaitersExact /\ OnlyLateDiscarded /\ ReplyOfOwnRun
        BY DEF Init, WaitersExact, OnlyLateDiscarded, ReplyOfOwnRun, Answer, Call
    <2> QED BY <2>1, <2>2, <2>3, <2>4, <2>5, <2>6 DEF RpcInv
<1>2. RpcInv /\ [Next]_vars => RpcInv'
    BY TypeStep, SendStep, CopyStep, QueueStep, AnswerStep, ReplyStep, WaitersStep,
       DiscardStep, OwnRunStep DEF RpcInv
<1> QED BY <1>1, <1>2, PTL DEF Spec

(* The types of RpcCall, whatever the requests and the faults. *)
THEOREM RpcTypeCorrect == Spec => []TypeOK
<1>1. RpcInv => TypeOK BY DEF RpcInv
<1> QED BY <1>1, RpcInvariant, PTL

(* _send's try/finally never leaks a reply queue and never loses one early. *)
THEOREM WaitersNeverLeak == Spec => []WaitersExact
<1>1. RpcInv => WaitersExact BY DEF RpcInv
<1> QED BY <1>1, RpcInvariant, PTL

(* put() throws a reply away only when its caller has left the call. *)
THEOREM OnlyLateRepliesDiscarded == Spec => []OnlyLateDiscarded
<1>1. RpcInv => OnlyLateDiscarded BY DEF RpcInv
<1> QED BY <1>1, RpcInvariant, PTL

(* A caller only ever gets what an execution of its own request produced,  *)
(* however often the request was delivered and whatever else is underway.  *)
THEOREM AnswersFromOwnRun == Spec => []ReplyOfOwnRun
<1>1. RpcInv => ReplyOfOwnRun BY DEF RpcInv
<1> QED BY <1>1, RpcInvariant, PTL

-----------------------------------------------------------------------------
(* Without a fault the broker has at most one copy of a request.           *)

(* What is dispatched was delivered, and without a lost connection or a    *)
(* repeated publication there is one copy, from the publication on.        *)
SingleCopy ==
    /\ \A d \in ran : state[d] # "none"
    /\ drops = 0 /\ resends = 0 =>
           \A m \in Msg : /\ ready[m] + copies[m] <= 1
                          /\ sender[m] \in {"idle", "sending"} => ready[m] + copies[m] = 0

LEMMA SingleCopyStep == RpcInv /\ SingleCopy /\ [Next]_vars => SingleCopy'
<1> SUFFICES ASSUME RpcInv, SingleCopy, [Next]_vars PROVE SingleCopy'
    OBVIOUS
<1> USE DEF clientVars, brokerVars, serverVars, faultVars, historyVars
<1>0. TypeOK /\ CopyInv /\ QueueInv /\ ran \subseteq Delivery
    BY DEF RpcInv, TypeOK
<1>1. \A m \in Msg : ready[m] \in Nat /\ copies[m] \in Nat
    BY <1>0, RpcAssumption DEF TypeOK
<1>2. \A d \in ran' : state'[d] # "none"
    <2>1. CASE UNCHANGED <<state, ran>>
        BY <2>1 DEF SingleCopy
    <2>2. ASSUME NEW d \in Delivery, WorkerStep(d) PROVE \A e \in ran' : state'[e] # "none"
        <3>1. \A e \in Delivery : e # d => state'[e] = state[e]
            BY <1>0, <2>2, WorkerMoves
        <3>2. state'[d] # "none" /\ ran' \subseteq ran \cup {d}
            BY <1>0, <2>2, WorkerMoves
        <3> QED BY <1>0, <3>1, <3>2 DEF SingleCopy
    <2>3. ASSUME NEW m \in Msg, Deliver(m) \/ SkipDuplicate(m)
          PROVE  \A e \in ran' : state'[e] # "none"
        <3>1. <<m, copies[m] + 1>> \in Delivery
            BY <1>0, <2>3, NextCopy DEF Deliver, SkipDuplicate
        <3>2. \A e \in Delivery : state'[e] \in {state[e], "incoming", "skipped"}
            BY <1>0, <2>3, <3>1 DEF Deliver, SkipDuplicate, TypeOK
        <3>3. ran' = ran BY <2>3 DEF Deliver, SkipDuplicate
        <3> QED BY <1>0, <3>2, <3>3 DEF SingleCopy
    <2>4. CASE Submit \/ ProcessTask
        <3>1. \A e \in Delivery : state'[e] \in {state[e], "submitted", "acked"}
            BY <1>0, <2>4, PollMoves DEF TypeOK
        <3>2. ran' = ran BY <2>4 DEF Submit, ProcessTask
        <3> QED BY <1>0, <3>1, <3>2 DEF SingleCopy
    <2>5. CASE ConnectionDrop \/ ServerRestart
        <3>1. ran' = ran /\ \A e \in Delivery : state'[e] \in {state[e], "lost"}
            BY <2>5 DEF ConnectionDrop, ServerRestart
        <3> QED BY <1>0, <3>1 DEF SingleCopy
    <2>6. CASE \/ \E m \in Msg : ClientStep(m) \/ Expire(m)
               \/ ReceiveReply \/ ReplyQueueGone \/ ReplyQueueBack \/ ForgetObsolete
               \/ UNCHANGED vars
        BY <2>1, <2>6, DeliveriesAlone
    <2> QED BY <2>2, <2>3, <2>4, <2>5, <2>6 DEF Next
<1> DEFINE One == \A m \in Msg : /\ ready[m] + copies[m] <= 1
                                 /\ sender[m] \in {"idle", "sending"} => ready[m] + copies[m] = 0
<1>3. ASSUME drops' = 0, resends' = 0 PROVE One'
    <2>1. CASE UNCHANGED <<sender, ready, copies, drops, resends>>
        BY <1>3, <2>1 DEF SingleCopy
    <2>2. ASSUME NEW m \in Msg, ClientStep(m) PROVE One'
        <3>1. CASE Publish(m)
            BY <1>0, <1>1, <1>3, <3>1 DEF Publish, SingleCopy, TypeOK
        <3>2. CASE PublishAgain(m)
            BY <1>0, <1>3, <3>2 DEF PublishAgain, TypeOK
        <3>3. CASE Listen(m) \/ PublishFails(m) \/ GetReply(m) \/ WaitTimeout(m) \/ Unlisten(m)
            <4>1. /\ UNCHANGED <<ready, copies, drops, resends>>
                  /\ \A k \in Msg : sender'[k] \in {"idle", "sending"}
                                        => sender[k] \in {"idle", "sending"}
                BY <1>0, <3>3 DEF Listen, PublishFails, GetReply, WaitTimeout, Unlisten, TypeOK
            <4> QED BY <1>3, <4>1 DEF SingleCopy
        <3> QED BY <2>2, <3>1, <3>2, <3>3 DEF ClientStep
    <2>3. ASSUME NEW m \in Msg, Expire(m) PROVE One'
        <3>1. /\ ready[m] > 0 /\ ready' = [ready EXCEPT ![m] = @ - 1]
              /\ UNCHANGED <<copies, sender, drops, resends>>
            BY <2>3 DEF Expire
        <3> QED BY <1>0, <1>1, <1>3, <3>1 DEF SingleCopy, TypeOK
    <2>4. ASSUME NEW m \in Msg, Deliver(m) \/ SkipDuplicate(m) PROVE One'
        <3>1. /\ ready[m] > 0 /\ ready' = [ready EXCEPT ![m] = @ - 1]
              /\ copies' = [copies EXCEPT ![m] = @ + 1]
              /\ UNCHANGED <<sender, drops, resends>>
            BY <2>4 DEF Deliver, SkipDuplicate
        <3>2. \A k \in Msg : ready'[k] + copies'[k] = ready[k] + copies[k]
            BY <1>0, <1>1, <3>1 DEF TypeOK
        <3> QED BY <1>3, <3>1, <3>2 DEF SingleCopy
    <2>5. ASSUME NEW d \in Delivery, WorkerStep(d) PROVE One'
        <3>1. /\ UNCHANGED <<sender, ready, copies, drops>>
              /\ resends' = resends \/ resends' = resends + 1
            BY <2>5 DEF WorkerStep, Acknowledge, Dispatch, Finish, SkipReply, SendReply,
                        SendReplyAgain, GiveUpReply, ReplyRaises
        <3>2. resends \in Nat BY <1>0 DEF TypeOK
        <3> QED BY <1>3, <2>1, <3>1, <3>2
    <2>6. CASE ConnectionDrop \/ ServerRestart
        BY <1>0, <1>3, <2>6 DEF ConnectionDrop, ServerRestart, TypeOK
    <2>7. CASE \/ ReceiveReply \/ Submit \/ ProcessTask \/ ReplyQueueGone
               \/ ReplyQueueBack \/ ForgetObsolete \/ UNCHANGED vars
        BY <2>1, <2>7 DEF ReceiveReply, Submit, ProcessTask, ReplyQueueGone, ReplyQueueBack,
            ForgetObsolete, vars
    <2> QED BY <2>2, <2>3, <2>4, <2>5, <2>6, <2>7 DEF Next
<1> QED BY <1>2, <1>3 DEF SingleCopy

(* A request runs twice only after a lost connection, a crash or a         *)
(* repeated publication: nothing else in driver and server duplicates it.  *)
THEOREM OnceWithoutFaults == Spec => []OnceUndisturbed
<1>1. Init => SingleCopy
    BY DEF Init, SingleCopy
<1>2. RpcInv /\ SingleCopy => OnceUndisturbed
    <2> SUFFICES ASSUME RpcInv, SingleCopy, drops = 0, resends = 0, NEW m \in Msg,
                        NEW d \in ran \cap CopiesOf(m), NEW e \in ran \cap CopiesOf(m)
                 PROVE  d = e
        BY DEF OnceUndisturbed
    <2>1. copies[m] <= 1 /\ copies[m] \in Nat
        BY RpcAssumption DEF SingleCopy, RpcInv, TypeOK
    <2>2. \A x \in ran \cap CopiesOf(m) : ~(x[2] > copies[m])
        BY DEF SingleCopy, RpcInv, CopyInv, CopiesOf
    <2>3. \A x \in CopiesOf(m) : x = <<m, x[2]>> /\ x[2] \in 1 .. MaxCopies
        BY DEF CopiesOf, Delivery
    <2>4. \A x \in ran \cap CopiesOf(m) : x[2] = 1
        BY <2>1, <2>2, <2>3, RpcAssumption
    <2> QED BY <2>3, <2>4
<1> QED BY <1>1, <1>2, SingleCopyStep, RpcInvariant, PTL DEF Spec

-----------------------------------------------------------------------------
(* A request that was published is somewhere.                              *)

(* It is at the broker, acknowledged in the server, or dispatched, unless  *)
(* it expired or a crash hit it; an id in the cache was dispatched.        *)
Stored(m) ==
    \/ ready[m] > 0
    \/ \E d \in CopiesOf(m) : d \in unacked \/ state[d] = "acked" \/ d \in ran
    \/ m \in expired \cup abandoned
Published(m) == sender[m] \in {"waiting", "leaving", "done"} /\ result[m] # "undelivered"
StoredInv ==
    /\ \A m \in Msg : Published(m) => Stored(m)
    /\ \A m \in Elems(cache) : \E d \in CopiesOf(m) : d \in ran

(* deque.append adds no id but the new one. *)
LEMMA RememberElems ==
    ASSUME NEW c \in Seq(Msg), NEW m \in Msg
    PROVE  Elems(Remember(c, m)) \subseteq Elems(c) \cup {m}
<1>1. CASE m \in Elems(c)
    BY <1>1 DEF Remember
<1>2. CASE m \notin Elems(c) /\ Len(c) < CacheSize
    <2>1. Remember(c, m) = Append(c, m) BY <1>2 DEF Remember
    <2>2. /\ DOMAIN Append(c, m) = 1 .. (Len(c) + 1) /\ Len(c) \in Nat
          /\ \A i \in 1 .. (Len(c) + 1) : Append(c, m)[i] = IF i = Len(c) + 1 THEN m ELSE c[i]
        OBVIOUS
    <2>3. \A i \in 1 .. (Len(c) + 1) : i # Len(c) + 1 => i \in DOMAIN c
        OBVIOUS
    <2> QED BY <2>1, <2>2, <2>3 DEF Elems
<1>3. CASE m \notin Elems(c) /\ ~(Len(c) < CacheSize)
    <2>1. Remember(c, m) = Append(Tail(c), m) /\ c # << >>
        BY <1>3, RpcAssumption DEF Remember
    <2>a. Tail(c) \in Seq(Msg)
        BY <2>1
    <2>2. PICK t \in Seq(Msg) : t = Tail(c)
        BY <2>a
    <2>3. Len(t) = Len(c) - 1 /\ \A i \in 1 .. Len(t) : t[i] = c[i + 1] /\ i + 1 \in DOMAIN c
        BY <2>1, <2>2
    <2>4. /\ DOMAIN Append(t, m) = 1 .. (Len(t) + 1) /\ Len(t) \in Nat
          /\ \A i \in 1 .. (Len(t) + 1) : Append(t, m)[i] = IF i = Len(t) + 1 THEN m ELSE t[i]
        OBVIOUS
    <2>5. \A i \in 1 .. (Len(t) + 1) : i # Len(t) + 1 => i \in 1 .. Len(t)
        OBVIOUS
    <2>6. \A i \in 1 .. Len(t) : t[i] \in Elems(c)
        BY <2>3 DEF Elems
    <2>7. \A i \in DOMAIN Append(t, m) : Append(t, m)[i] \in Elems(c) \cup {m}
        BY <2>4, <2>5, <2>6
    <2>8. Remember(c, m) = Append(t, m)
        BY <2>1, <2>2
    <2>9. Elems(Append(t, m)) \subseteq Elems(c) \cup {m}
        <3>1. Elems(Append(t, m)) = {Append(t, m)[i] : i \in DOMAIN Append(t, m)}
            BY Zenon DEF Elems
        <3> QED BY <2>7, <3>1, Zenon
    <2> QED BY <2>8, <2>9
<1> QED BY <1>1, <1>2, <1>3

(* What is unacknowledged comes back to the topic queue. *)
LEMMA RequeueReady ==
    ASSUME TypeOK, Requeue, NEW m \in Msg,
           ready[m] > 0 \/ \E d \in CopiesOf(m) : d \in unacked
    PROVE  ready'[m] > 0
<1> DEFINE n == Cardinality(unacked \cap CopiesOf(m))
<1>1. n \in Nat BY RequeueCount
<1>2. ready[m] \in Nat /\ ready'[m] = ready[m] + n
    BY DEF Requeue, TypeOK
<1>3. ASSUME NEW d \in CopiesOf(m), d \in unacked PROVE n > 0
    <2>1. IsFiniteSet(1 .. MaxCopies) BY FS_Interval, RpcAssumption
    <2>2. IsFiniteSet(Delivery) BY <2>1, FS_Product, RpcAssumption DEF Delivery
    <2>3. IsFiniteSet(unacked \cap CopiesOf(m)) BY <2>2, FS_Subset DEF CopiesOf
    <2>4. unacked \cap CopiesOf(m) # {} BY <1>3
    <2>5. n # 0 BY <2>3, <2>4, FS_EmptySet
    <2> QED BY <1>1, <2>5
<1> HIDE DEF n
<1>4. ready[m] > 0 \/ n > 0 BY <1>3
<1> QED BY <1>1, <1>2, <1>4

LEMMA StoredStep == RpcInv /\ StoredInv /\ [Next]_vars => StoredInv'
<1> SUFFICES ASSUME RpcInv, StoredInv, [Next]_vars PROVE StoredInv'
    OBVIOUS
<1> USE DEF clientVars, brokerVars, serverVars, faultVars, historyVars
<1>0. TypeOK /\ SendInv /\ CopyInv /\ QueueInv /\ AnswerInv
    BY DEF RpcInv
<1>1. \A m \in Msg : ready[m] \in Nat /\ CopiesOf(m) \subseteq Delivery
    BY <1>0 DEF TypeOK, CopiesOf
<1>2. \A m \in Msg : Published(m) => Stored(m)
    BY DEF StoredInv
<1>3. \A m \in Elems(cache) : \E d \in CopiesOf(m) : d \in ran
    BY DEF StoredInv
<1>a. ASSUME NEW m \in Msg, ClientStep(m) PROVE StoredInv'
    <2>1. /\ UNCHANGED <<unacked, state, ran, cache, expired, abandoned>>
          /\ \A k \in Msg : k # m => sender'[k] = sender[k] /\ result'[k] = result[k]
          /\ \A k \in Msg : ready'[k] \in Nat /\ ready'[k] >= ready[k]
        <3>1. CASE Publish(m) \/ PublishAgain(m)
            <4>1. /\ UNCHANGED <<unacked, state, ran, cache, expired, abandoned, result>>
                  /\ ready' = [ready EXCEPT ![m] = @ + 1]
                BY <3>1 DEF Publish, PublishAgain
            <4>2. \A k \in Msg : k # m => sender'[k] = sender[k]
                BY <1>0, <3>1 DEF Publish, PublishAgain, TypeOK
            <4>3. \A k \in Msg : ready'[k] \in Nat /\ ready'[k] >= ready[k]
                BY <1>0, <4>1 DEF TypeOK
            <4> QED BY <4>1, <4>2, <4>3
        <3>2. CASE Listen(m) \/ PublishFails(m) \/ WaitTimeout(m) \/ Unlisten(m)
            BY <1>0, <3>2 DEF Listen, PublishFails, WaitTimeout, Unlisten, TypeOK
        <3>3. CASE GetReply(m)
            BY <1>0, <3>3 DEF GetReply, TypeOK
        <3> QED BY <1>a, <3>1, <3>2, <3>3 DEF ClientStep
    <2>2. \A k \in Msg : Stored(k) => Stored(k)'
        BY <1>1, <2>1 DEF Stored
    <2>3. Published(m)' => Published(m) \/ ready'[m] > 0
        <3>1. CASE Publish(m)
            BY <1>0, <3>1 DEF Publish, TypeOK
        <3>2. CASE Listen(m) \/ PublishAgain(m) \/ PublishFails(m)
            BY <1>0, <3>2 DEF Listen, PublishAgain, PublishFails, TypeOK, Published
        <3>3. CASE GetReply(m) \/ WaitTimeout(m)
            BY <1>0, <3>3 DEF GetReply, WaitTimeout, SendInv, Published
        <3>4. CASE Unlisten(m)
            BY <1>0, <3>4 DEF Unlisten, Published
        <3> QED BY <1>a, <3>1, <3>2, <3>3, <3>4 DEF ClientStep
    <2>4. \A k \in Msg : Published(k)' => Stored(k)'
        BY <1>2, <2>1, <2>2, <2>3 DEF Published, Stored
    <2> QED BY <1>3, <2>1, <2>4 DEF StoredInv
<1>b. ASSUME UNCHANGED <<sender, result>>, \A m \in Msg : Stored(m) => Stored(m)',
             \A m \in Elems(cache') : \E d \in CopiesOf(m) : d \in ran'
      PROVE  StoredInv'
    BY <1>2, <1>b DEF StoredInv, Published
<1>c. ASSUME NEW m \in Msg, Expire(m) PROVE StoredInv'
    <2>1. /\ ready' = [ready EXCEPT ![m] = @ - 1] /\ expired' = expired \cup {m}
          /\ UNCHANGED <<sender, result, unacked, state, ran, cache, abandoned>>
        BY <1>c DEF Expire
    <2>2. \A k \in Msg : Stored(k) => Stored(k)'
        BY <1>0, <2>1 DEF Stored, TypeOK
    <2> QED BY <1>3, <1>b, <2>1, <2>2
<1>d. ASSUME NEW m \in Msg, Deliver(m) PROVE StoredInv'
    <2> DEFINE d == <<m, copies[m] + 1>>
    <2>1. d \in Delivery /\ state[d] = "none" /\ d \in CopiesOf(m)
        BY <1>0, <1>d, NextCopy DEF Deliver, CopiesOf
    <2>2. /\ ready' = [ready EXCEPT ![m] = @ - 1] /\ unacked' = unacked \cup {d}
          /\ state' = [state EXCEPT ![d] = "incoming"]
          /\ UNCHANGED <<sender, result, ran, cache, expired, abandoned>>
        BY <1>d DEF Deliver
    <2> HIDE DEF d
    <2>3. \A e \in Delivery : state[e] = "acked" => state'[e] = "acked"
        BY <1>0, <2>1, <2>2 DEF TypeOK
    <2>4. Stored(m)'
        BY <2>1, <2>2 DEF Stored
    <2>5. \A k \in Msg : k # m => ready'[k] = ready[k]
        BY <1>0, <2>2 DEF TypeOK
    <2>6. ASSUME NEW k \in Msg, Stored(k), k # m PROVE Stored(k)'
        BY <1>1, <2>2, <2>3, <2>5, <2>6 DEF Stored
    <2> QED BY <1>3, <1>b, <2>2, <2>4, <2>6
<1>e. ASSUME NEW m \in Msg, SkipDuplicate(m) PROVE StoredInv'
    <2> DEFINE d == <<m, copies[m] + 1>>
    <2>1. d \in Delivery /\ state[d] = "none" /\ m \in Elems(cache)
        BY <1>0, <1>e, NextCopy DEF SkipDuplicate, Duplicate
    <2>2. /\ ready' = [ready EXCEPT ![m] = @ - 1]
          /\ state' = [state EXCEPT ![d] = "skipped"]
          /\ UNCHANGED <<sender, result, ran, cache, unacked, expired, abandoned>>
        BY <1>e DEF SkipDuplicate
    <2> HIDE DEF d
    <2>3. \A e \in Delivery : state[e] = "acked" => state'[e] = "acked"
        BY <1>0, <2>1, <2>2 DEF TypeOK
    <2>4. Stored(m)'
        BY <1>3, <2>1, <2>2 DEF Stored
    <2>5. \A k \in Msg : k # m => ready'[k] = ready[k]
        BY <1>0, <2>2 DEF TypeOK
    <2>6. ASSUME NEW k \in Msg, Stored(k), k # m PROVE Stored(k)'
        BY <1>1, <2>2, <2>3, <2>5, <2>6 DEF Stored
    <2> QED BY <1>3, <1>b, <2>2, <2>4, <2>6
<1>f. ASSUME NEW d \in Delivery, WorkerStep(d) PROVE StoredInv'
    <2>1. /\ UNCHANGED <<unacked, sender, result, ready, expired, abandoned>>
          /\ ran \subseteq ran'
        BY <1>f DEF WorkerStep, Acknowledge, Dispatch, Finish, SkipReply, SendReply,
                    SendReplyAgain, GiveUpReply, ReplyRaises
    <2>2. \A e \in Delivery : state[e] = "acked" => state'[e] = "acked" \/ e \in ran'
        BY <1>0, <1>f, WorkerMoves
    <2>3. \A k \in Msg : Stored(k) => Stored(k)'
        BY <1>1, <2>1, <2>2 DEF Stored
    <2>4. \A k \in Elems(cache') : \E e \in CopiesOf(k) : e \in ran'
        <3>1. CASE Dispatch(d)
            <4>1. d[1] \in Msg /\ d \in CopiesOf(d[1]) BY DEF Delivery, CopiesOf
            <4>2. cache \in Seq(Msg) BY <1>0 DEF TypeOK
            <4>3. cache' = Remember(cache, d[1]) /\ d \in ran' BY <3>1 DEF Dispatch
            <4>4. Elems(cache') \subseteq Elems(cache) \cup {d[1]}
                BY <4>1, <4>2, <4>3, RememberElems
            <4> QED BY <1>3, <2>1, <4>1, <4>3, <4>4
        <3>2. CASE ~Dispatch(d)
            <4>1. cache' = cache
                BY <1>f, <3>2 DEF WorkerStep, Acknowledge, Finish, SkipReply, SendReply,
                    SendReplyAgain, GiveUpReply, ReplyRaises
            <4> QED BY <1>3, <2>1, <4>1
        <3> QED BY <3>1, <3>2
    <2> QED BY <1>b, <2>1, <2>3, <2>4
<1>g. CASE Submit \/ ProcessTask
    <2>1. UNCHANGED <<sender, result, ready, ran, cache, expired, abandoned>>
        BY <1>g DEF Submit, ProcessTask
    <2>2. \A e \in Delivery : state[e] = "acked" => state'[e] = "acked"
        BY <1>0, <1>g, PollMoves DEF TypeOK
    <2>3. \A e \in unacked : e \in unacked' \/ state'[e] = "acked"
        BY <1>0, <1>g, PollMoves DEF TypeOK
    <2>4. \A k \in Msg : Stored(k) => Stored(k)'
        BY <1>1, <2>1, <2>2, <2>3 DEF Stored
    <2> QED BY <1>3, <1>b, <2>1, <2>4
<1>h. CASE ConnectionDrop
    <2>1. /\ Requeue
          /\ UNCHANGED <<sender, result, state, ran, cache, expired, abandoned>>
        BY <1>h DEF ConnectionDrop
    <2>2. ASSUME NEW k \in Msg, Stored(k) PROVE Stored(k)'
        <3>1. CASE ready[k] > 0 \/ \E d \in CopiesOf(k) : d \in unacked
            BY <1>0, <2>1, <3>1, RequeueReady DEF Stored
        <3>2. CASE ~(ready[k] > 0 \/ \E d \in CopiesOf(k) : d \in unacked)
            BY <2>1, <2>2, <3>2 DEF Stored
        <3> QED BY <3>1, <3>2
    <2> QED BY <1>3, <1>b, <2>1, <2>2
<1>i. CASE ServerRestart
    <2>1. /\ Requeue /\ cache' = << >>
          /\ abandoned' = abandoned \cup {d[1] : d \in {e \in Delivery : state[e] \in Acked}}
          /\ UNCHANGED <<sender, result, ran, expired>>
        BY <1>i DEF ServerRestart
    <2>2. ASSUME NEW k \in Msg, Stored(k) PROVE Stored(k)'
        <3>1. CASE ready[k] > 0 \/ \E d \in CopiesOf(k) : d \in unacked
            BY <1>0, <2>1, <3>1, RequeueReady DEF Stored
        <3>2. CASE \E d \in CopiesOf(k) : state[d] = "acked"
            BY <2>1, <3>2 DEF Stored, Acked, CopiesOf
        <3>3. CASE (\E d \in CopiesOf(k) : d \in ran) \/ k \in expired \cup abandoned
            BY <2>1, <3>3 DEF Stored
        <3> QED BY <2>2, <3>1, <3>2, <3>3 DEF Stored
    <2>3. Elems(cache') = {} BY <2>1 DEF Elems
    <2> QED BY <1>b, <2>1, <2>2, <2>3
<1>j. CASE ReceiveReply \/ ReplyQueueGone \/ ReplyQueueBack \/ ForgetObsolete \/ UNCHANGED vars
    <2>1. UNCHANGED <<sender, result, ready, unacked, state, ran, cache, expired, abandoned>>
        BY <1>j DEF ReceiveReply, ReplyQueueGone, ReplyQueueBack, ForgetObsolete, vars
    <2>2. \A k \in Msg : Stored(k) => Stored(k)'
        BY <2>1 DEF Stored
    <2> QED BY <1>3, <1>b, <2>1, <2>2
<1> QED BY <1>a, <1>c, <1>d, <1>e, <1>f, <1>g, <1>h, <1>i, <1>j DEF Next

(* Lost connections, failing acknowledgements and the duplicate check lose *)
(* no request that topic_send has published.                               *)
THEOREM PublishedIsKept == Spec => []RequestNotLost
<1>1. Init => StoredInv
    BY DEF Init, StoredInv, Published, Elems
<1>2. RpcInv /\ StoredInv => RequestNotLost
    <2> SUFFICES ASSUME RpcInv, StoredInv, NEW m \in Msg, Published(m)
                 PROVE  \/ ready[m] > 0
                        \/ \E d \in CopiesOf(m) : state[d] \in Live \/ d \in ran
                        \/ m \in expired \cup abandoned
        BY DEF RequestNotLost, Published
    <2>1. Stored(m) BY DEF StoredInv
    <2>2. \A d \in unacked : state[d] \in Live BY DEF RpcInv, CopyInv, Live
    <2>3. "acked" \in Live BY DEF Live, Acked
    <2> QED BY <2>1, <2>2, <2>3 DEF Stored
<1> QED BY <1>1, <1>2, StoredStep, RpcInvariant, PTL DEF Spec

-----------------------------------------------------------------------------
(* The message id cache and the requests that are being executed.          *)

(* The cache holds no id twice, and one that is large enough keeps the id  *)
(* of every request that is being executed.                                *)
CacheInv ==
    /\ \A i, j \in 1 .. Len(cache) : cache[i] = cache[j] => i = j
    /\ CacheSize >= Cardinality(Msg) =>
        \A d \in Delivery : state[d] \in {"running", "replying"} => d[1] \in Elems(cache)

(* A cache without repetitions that does not hold m is shorter than the    *)
(* number of requests.                                                     *)
LEMMA RoomForOneMore ==
    ASSUME NEW c \in Seq(Msg), \A i, j \in 1 .. Len(c) : c[i] = c[j] => i = j,
           NEW m \in Msg, m \notin Elems(c)
    PROVE  Len(c) < Cardinality(Msg)
<1>a. Len(c) \in Nat /\ DOMAIN c = 1 .. Len(c) /\ c \in [1 .. Len(c) -> Msg]
    OBVIOUS
<1>b. \A i \in 1 .. Len(c) : c[i] # m
    BY <1>a DEF Elems
<1>1. Len(c) \in Nat /\ c \in [1 .. Len(c) -> Msg \ {m}]
    BY <1>a, <1>b
<1>2. c \in Injection(1 .. Len(c), Msg \ {m})
    BY <1>1 DEF Injection, IsInjective
<1>3. /\ IsFiniteSet(Msg \ {m}) /\ Cardinality(Msg \ {m}) = Cardinality(Msg) - 1
      /\ Cardinality(Msg) \in Nat
    <2>1. IsFiniteSet(Msg)
        BY RpcAssumption
    <2>2. Cardinality(Msg) \in Nat
        BY <2>1, FS_CardinalityType
    <2>3. IsFiniteSet(Msg \ {m}) /\ Cardinality(Msg \ {m}) = Cardinality(Msg) - 1
        BY <2>1, FS_RemoveElement
    <2> QED BY <2>2, <2>3
<1>4. Cardinality(1 .. Len(c)) <= Cardinality(Msg \ {m})
    BY <1>2, <1>3, FS_Injection
<1>5. Cardinality(1 .. Len(c)) = Len(c)
    <2>1. 1 \in Int /\ Len(c) \in Int /\ (1 > Len(c) => Len(c) = 0)
        BY <1>1
    <2> QED BY <2>1, FS_Interval
<1> QED BY <1>1, <1>3, <1>4, <1>5

(* deque.append repeats no id, and while there is room it forgets none.    *)
LEMMA RememberDistinct ==
    ASSUME NEW c \in Seq(Msg), \A i, j \in 1 .. Len(c) : c[i] = c[j] => i = j,
           Len(c) <= CacheSize, NEW m \in Msg
    PROVE  /\ \A i, j \in 1 .. Len(Remember(c, m)) :
                Remember(c, m)[i] = Remember(c, m)[j] => i = j
           /\ CacheSize >= Cardinality(Msg) => Elems(c) \cup {m} \subseteq Elems(Remember(c, m))
<1>1. CASE m \in Elems(c)
    BY <1>1 DEF Remember
<1>2. CASE m \notin Elems(c) /\ Len(c) < CacheSize
    <2>1. Remember(c, m) = Append(c, m) BY <1>2 DEF Remember
    <2>2. /\ DOMAIN Append(c, m) = 1 .. (Len(c) + 1) /\ Len(c) \in Nat
          /\ Len(Append(c, m)) = Len(c) + 1 /\ DOMAIN c = 1 .. Len(c)
          /\ \A i \in 1 .. Len(c) : Append(c, m)[i] = c[i] /\ i \in 1 .. (Len(c) + 1)
          /\ Append(c, m)[Len(c) + 1] = m /\ Len(c) + 1 \in 1 .. (Len(c) + 1)
        OBVIOUS
    <2>3. \A i \in 1 .. (Len(c) + 1) : i = Len(c) + 1 \/ i \in 1 .. Len(c)
        BY <2>2
    <2>4. \A i \in 1 .. Len(c) : c[i] # m
        BY <1>2, <2>2 DEF Elems
    <2>5. \A i, j \in 1 .. (Len(c) + 1) : Append(c, m)[i] = Append(c, m)[j] => i = j
        BY <2>2, <2>3, <2>4
    <2>6. Elems(c) \cup {m} \subseteq Elems(Append(c, m))
        BY <2>2 DEF Elems
    <2> QED BY <2>1, <2>2, <2>5, <2>6
<1>3. CASE m \notin Elems(c) /\ ~(Len(c) < CacheSize)
    <2>1. Remember(c, m) = Append(Tail(c), m) /\ c # << >>
        BY <1>3, RpcAssumption DEF Remember
    <2>a. Tail(c) \in Seq(Msg)
        BY <2>1
    <2>2. PICK t \in Seq(Msg) : t = Tail(c)
        BY <2>a
    <2>3. /\ Len(t) = Len(c) - 1 /\ Len(t) \in Nat /\ Len(c) \in Nat
          /\ \A i \in 1 .. Len(t) : t[i] = c[i + 1] /\ i + 1 \in 1 .. Len(c)
        BY <2>1, <2>2
    <2>4. /\ Len(Append(t, m)) = Len(t) + 1
          /\ \A i \in 1 .. (Len(t) + 1) : Append(t, m)[i] = IF i = Len(t) + 1 THEN m ELSE t[i]
        OBVIOUS
    <2>5. \A i \in 1 .. (Len(t) + 1) : i = Len(t) + 1 \/ i \in 1 .. Len(t)
        BY <2>3
    <2>6. \A i \in 1 .. Len(c) : c[i] # m
        BY <1>3 DEF Elems
    <2>7. \A i, j \in 1 .. Len(t) : t[i] = t[j] => i = j
        BY <2>3
    <2>8. \A i, j \in 1 .. (Len(t) + 1) : Append(t, m)[i] = Append(t, m)[j] => i = j
        BY <2>3, <2>4, <2>5, <2>6, <2>7
    <2>9. ~(CacheSize >= Cardinality(Msg))
        <3>1. Len(c) < Cardinality(Msg) BY <1>3, RoomForOneMore
        <3>2. Cardinality(Msg) \in Nat BY RpcAssumption, FS_CardinalityType
        <3> QED BY <1>3, <2>3, <3>1, <3>2, RpcAssumption
    <2> QED BY <2>1, <2>2, <2>4, <2>8, <2>9
<1> QED BY <1>1, <1>2, <1>3

LEMMA CacheStep == RpcInv /\ CacheInv /\ [Next]_vars => CacheInv'
<1> SUFFICES ASSUME RpcInv, CacheInv, [Next]_vars PROVE CacheInv'
    OBVIOUS
<1> USE DEF clientVars, brokerVars, serverVars, faultVars, historyVars
<1>0. TypeOK /\ CopyInv /\ QueueInv
    BY DEF RpcInv
<1>1. ASSUME cache' = cache,
             \A d \in Delivery : state'[d] \in {"running", "replying"}
                                    => state[d] \in {"running", "replying"}
      PROVE  CacheInv'
    BY <1>1 DEF CacheInv
<1>a. CASE \/ \E m \in Msg : ClientStep(m) \/ Expire(m)
           \/ ReceiveReply \/ ReplyQueueGone \/ ReplyQueueBack \/ ForgetObsolete
           \/ UNCHANGED vars
    BY <1>1, <1>a, DeliveriesAlone
<1>b. ASSUME NEW m \in Msg, Deliver(m) \/ SkipDuplicate(m) PROVE CacheInv'
    <2>1. copies[m] < MaxCopies BY <1>b DEF Deliver, SkipDuplicate
    <2>2. PICK d \in Delivery : d = <<m, copies[m] + 1>>
        BY <1>0, <2>1, NextCopy
    <2>3. cache' = cache /\ state' = [state EXCEPT ![d] = state'[d]]
            /\ state'[d] \in {"incoming", "skipped"}
        BY <1>0, <1>b, <2>2 DEF Deliver, SkipDuplicate, TypeOK
    <2>4. \A e \in Delivery : e # d => state'[e] = state[e]
        BY <1>0, <2>3 DEF TypeOK
    <2> QED BY <1>1, <2>3, <2>4
<1>c. ASSUME NEW d \in Delivery, WorkerStep(d), ~Dispatch(d) PROVE CacheInv'
    <2>1. /\ \A e \in Delivery : e # d => state'[e] = state[e]
          /\ state'[d] \in {"running", "replying"} => state[d] \in {"acked", "running", "replying"}
          /\ state[d] = "acked" => state'[d] = "running"
        BY <1>0, <1>c, WorkerMoves
    <2>2. cache' = cache /\ state[d] # "acked"
        BY <1>c DEF WorkerStep, Acknowledge, Finish, SkipReply, SendReply,
                    SendReplyAgain, GiveUpReply, ReplyRaises
    <2> QED BY <1>1, <2>1, <2>2
<1>d. ASSUME NEW d \in Delivery, Dispatch(d) PROVE CacheInv'
    <2>1. /\ cache \in Seq(Msg) /\ Len(cache) <= CacheSize /\ d[1] \in Msg
          /\ \A i, j \in 1 .. Len(cache) : cache[i] = cache[j] => i = j
        BY <1>0 DEF TypeOK, Delivery, CacheInv
    <2>2. cache' = Remember(cache, d[1]) BY <1>d DEF Dispatch
    <2>3. \A e \in Delivery : e # d => state'[e] = state[e]
        BY <1>0, <1>d DEF Dispatch, TypeOK
    <2>4. \A i, j \in 1 .. Len(cache') : cache'[i] = cache'[j] => i = j
        BY <2>1, <2>2, RememberDistinct
    <2>5. CacheSize >= Cardinality(Msg) => Elems(cache) \cup {d[1]} \subseteq Elems(cache')
        BY <2>1, <2>2, RememberDistinct
    <2> QED BY <2>3, <2>4, <2>5 DEF CacheInv
<1>e. CASE Submit \/ ProcessTask
    <2>1. cache' = cache BY <1>e DEF Submit, ProcessTask
    <2>2. \A e \in Delivery : state'[e] = state[e] \/ state'[e] \in {"submitted", "acked"}
        BY <1>0, <1>e, PollMoves DEF TypeOK
    <2> QED BY <1>1, <2>1, <2>2
<1>f. CASE ConnectionDrop
    BY <1>1, <1>f DEF ConnectionDrop
<1>g. CASE ServerRestart
    <2>1. cache' = << >> /\ \A e \in Delivery : state'[e] \notin {"running", "replying"}
        BY <1>g DEF ServerRestart, Live, Acked
    <2> QED BY <2>1 DEF CacheInv
<1> QED BY <1>a, <1>b, <1>c, <1>d, <1>e, <1>f, <1>g DEF Next

(* check_duplicate_message turns a copy of a request that is being         *)
(* executed away, for every number of requests that the cache can hold.    *)
THEOREM CopyTurnedAway == Spec => NotAcceptedWhileRunning
<1> DEFINE A == CacheSize >= Cardinality(Msg) =>
        \A d \in Delivery : state[d] = "none" /\ state'[d] = "incoming" =>
            \A e \in CopiesOf(d[1]) : state[e] \notin {"running", "replying"}
<1>1. Init => CacheInv
    BY DEF Init, CacheInv
<1>2. RpcInv /\ CacheInv /\ [Next]_vars => [A]_vars
    <2> SUFFICES ASSUME RpcInv, CacheInv, [Next]_vars, CacheSize >= Cardinality(Msg),
                        NEW d \in Delivery, state[d] = "none", state'[d] = "incoming",
                        NEW e \in CopiesOf(d[1])
                 PROVE  state[e] \notin {"running", "replying"}
        OBVIOUS
    <2> USE DEF clientVars, brokerVars, serverVars, faultVars, historyVars
    <2>0. TypeOK /\ CopyInv /\ QueueInv /\ d[1] \in Msg BY DEF RpcInv, Delivery
    <2>1. state' # state BY Zenon
    <2>2. PICK m \in Msg : Deliver(m)
        <3>1. ASSUME \/ \E m \in Msg : ClientStep(m) \/ Expire(m)
                     \/ ReceiveReply \/ ReplyQueueGone \/ ReplyQueueBack \/ ForgetObsolete
                     \/ UNCHANGED vars
              PROVE  FALSE
            BY <2>1, <3>1, DeliveriesAlone
        <3>2. ASSUME NEW c \in Delivery, WorkerStep(c) PROVE FALSE
            BY <2>0, <3>2, WorkerMoves
        <3>3. ASSUME Submit \/ ProcessTask PROVE FALSE
            BY <2>0, <3>3, PollMoves DEF TypeOK
        <3>4. ASSUME ConnectionDrop \/ ServerRestart PROVE FALSE
            BY <2>1, <3>4 DEF ConnectionDrop, ServerRestart
        <3>5. ASSUME NEW m \in Msg, SkipDuplicate(m) PROVE FALSE
            BY <2>0, <3>5 DEF SkipDuplicate, TypeOK
        <3> QED BY <3>1, <3>2, <3>3, <3>4, <3>5 DEF Next
    <2>3. d = <<m, copies[m] + 1>>
        BY <2>0, <2>2 DEF Deliver, TypeOK
    <2>4. e \in Delivery /\ e[1] = m BY <2>3 DEF CopiesOf
    <2>5. m \notin Elems(cache) BY <2>2 DEF Deliver, Duplicate
    <2> QED BY <2>4, <2>5 DEF CacheInv
<1> QED BY <1>1, <1>2, CacheStep, RpcInvariant, PTL DEF Spec, NotAcceptedWhileRunning

-----------------------------------------------------------------------------
(* A reply that was sent is on its way to a caller that waits.             *)

(* A request may be answered while its publication is being repeated, so   *)
(* that the reply has to find its way already then.                        *)
ReplyKept ==
    outages = 0 =>
        \A d \in Delivery : state[d] = "replied" /\ sender[d[1]] \in {"sending", "waiting"} =>
            d \in Elems(replyq) \cup Elems(inbox[d[1]])

LEMMA AppendElems ==
    ASSUME NEW q \in Seq(Delivery), NEW d \in Delivery
    PROVE  Elems(q) \cup {d} \subseteq Elems(Append(q, d))
<1>1. /\ DOMAIN Append(q, d) = 1 .. (Len(q) + 1) /\ Len(q) \in Nat /\ DOMAIN q = 1 .. Len(q)
      /\ \A i \in 1 .. Len(q) : Append(q, d)[i] = q[i]
      /\ Append(q, d)[Len(q) + 1] = d
    OBVIOUS
<1>2. \A i \in 1 .. Len(q) : i \in 1 .. (Len(q) + 1)
    BY <1>1
<1>3. Len(q) + 1 \in 1 .. (Len(q) + 1)
    BY <1>1
<1> QED BY <1>1, <1>2, <1>3 DEF Elems

LEMMA TailElems ==
    ASSUME NEW q \in Seq(Delivery), q # << >>
    PROVE  Elems(q) \subseteq Elems(Tail(q)) \cup {Head(q)}
<1>0. Tail(q) \in Seq(Delivery) /\ Len(Tail(q)) = Len(q) - 1
    OBVIOUS
<1>1. PICK t \in Seq(Delivery) : t = Tail(q) /\ Len(t) = Len(q) - 1
    BY <1>0
<1>2. \A i \in 1 .. Len(q) : i # 1 => i - 1 \in 1 .. Len(t) /\ t[i - 1] = q[i]
    BY <1>1
<1>3. DOMAIN q = 1 .. Len(q) /\ DOMAIN t = 1 .. Len(t) /\ Head(q) = q[1]
    OBVIOUS
<1>4. Elems(q) \subseteq Elems(t) \cup {Head(q)}
    BY <1>2, <1>3 DEF Elems
<1> QED BY <1>1, <1>4

LEMMA ReplyKeptStep == RpcInv /\ ReplyKept /\ [Next]_vars => ReplyKept'
<1> SUFFICES ASSUME RpcInv, ReplyKept, [Next]_vars, outages' = 0,
                    NEW d \in Delivery, state'[d] = "replied",
                    sender'[d[1]] \in {"sending", "waiting"}
             PROVE  d \in Elems(replyq') \cup Elems(inbox'[d[1]])
    BY DEF ReplyKept
<1> USE DEF clientVars, brokerVars, serverVars, faultVars, historyVars
<1>0. TypeOK /\ SendInv /\ CopyInv /\ QueueInv /\ ReplyInv /\ WaitersExact
    BY DEF RpcInv
<1>1. /\ replyq \in Seq(Delivery) /\ inbox \in [Msg -> Seq(Delivery)]
      /\ d[1] \in Msg /\ d[2] \in Nat /\ d[2] > 0
    BY <1>0, RpcAssumption DEF TypeOK, Delivery
<1>2. outages = 0 /\ state[d] = "replied" /\ sender[d[1]] \in {"sending", "waiting"}
        => d \in Elems(replyq) \cup Elems(inbox[d[1]])
    BY DEF ReplyKept
<1>3. state[d] = "replied" => sender[d[1]] # "idle"
    BY <1>0, <1>1 DEF SendInv, CopyInv
<1>a. ASSUME NEW m \in Msg, ClientStep(m) PROVE d \in Elems(replyq') \cup Elems(inbox'[d[1]])
    <2>1. UNCHANGED <<state, replyq, outages>>
        BY <1>a DEF ClientStep, Listen, Publish, PublishAgain, PublishFails, GetReply,
            WaitTimeout, Unlisten
    <2>2. CASE Listen(m) \/ PublishFails(m) \/ GetReply(m) \/ WaitTimeout(m) \/ Unlisten(m)
        <3>1. d[1] # m
            <4>1. CASE Listen(m)
                BY <1>3, <2>1, <4>1 DEF Listen
            <4>2. CASE PublishFails(m) \/ GetReply(m) \/ WaitTimeout(m) \/ Unlisten(m)
                <5>1. sender'[m] \in {"leaving", "done"}
                    BY <1>0, <4>2 DEF PublishFails, GetReply, WaitTimeout, Unlisten, TypeOK
                <5> QED BY <5>1
            <4> QED BY <2>2, <4>1, <4>2
        <3>2. sender'[d[1]] = sender[d[1]] /\ inbox'[d[1]] = inbox[d[1]]
            BY <1>0, <1>1, <2>2, <3>1 DEF Listen, PublishFails, GetReply, WaitTimeout, Unlisten, TypeOK
        <3> QED BY <1>2, <2>1, <3>2
    <2>3. CASE Publish(m) \/ PublishAgain(m)
        <3>1. inbox' = inbox /\ sender[d[1]] \in {"sending", "waiting"}
            BY <1>0, <1>1, <2>3 DEF Publish, PublishAgain, TypeOK
        <3> QED BY <1>2, <2>1, <3>1
    <2> QED BY <1>a, <2>2, <2>3 DEF ClientStep
<1>b. CASE UNCHANGED <<sender, replyq, inbox, outages>> /\ state[d] = "replied"
    BY <1>2, <1>b
<1>c. ASSUME NEW m \in Msg, Expire(m) \/ Deliver(m) \/ SkipDuplicate(m)
      PROVE  d \in Elems(replyq') \cup Elems(inbox'[d[1]])
    <2>1. UNCHANGED <<sender, replyq, inbox, outages>>
        BY <1>c DEF Expire, Deliver, SkipDuplicate
    <2>2. state[d] = "replied"
        <3>1. CASE Expire(m)
            BY <3>1 DEF Expire
        <3>2. CASE Deliver(m) \/ SkipDuplicate(m)
            <4>1. <<m, copies[m] + 1>> \in Delivery
                BY <1>0, <3>2, NextCopy DEF Deliver, SkipDuplicate
            <4> QED BY <1>0, <3>2, <4>1 DEF Deliver, SkipDuplicate, TypeOK
        <3> QED BY <1>c, <3>1, <3>2
    <2> QED BY <1>b, <2>1, <2>2
<1>d. ASSUME NEW e \in Delivery, WorkerStep(e)
      PROVE  d \in Elems(replyq') \cup Elems(inbox'[d[1]])
    <2>1. CASE SendReply(e)
        <3>1. /\ replyq' = Append(replyq, e) /\ UNCHANGED <<sender, inbox, outages>>
              /\ d # e => state[d] = "replied"
            BY <1>0, <2>1 DEF SendReply, TypeOK
        <3>2. Elems(replyq) \cup {e} \subseteq Elems(replyq')
            BY <1>1, <3>1, AppendElems
        <3> QED BY <1>2, <3>1, <3>2
    <2>2. CASE SendReplyAgain(e)
        <3>1. replyq' = Append(replyq, e) /\ UNCHANGED <<sender, inbox, outages, state>>
            BY <2>2 DEF SendReplyAgain
        <3>2. Elems(replyq) \cup {e} \subseteq Elems(replyq')
            BY <1>1, <3>1, AppendElems
        <3> QED BY <1>2, <3>1, <3>2
    <2>3. CASE Acknowledge(e) \/ Dispatch(e) \/ Finish(e) \/ SkipReply(e) \/ GiveUpReply(e) \/ ReplyRaises(e)
        <3>1. UNCHANGED <<sender, replyq, inbox, outages>>
            BY <2>3 DEF Acknowledge, Dispatch, Finish, SkipReply, GiveUpReply, ReplyRaises
        <3>2. state[d] = "replied"
            BY <1>0, <2>3 DEF Acknowledge, Dispatch, Finish, SkipReply, GiveUpReply, ReplyRaises, TypeOK
        <3> QED BY <1>b, <3>1, <3>2
    <2> QED BY <1>d, <2>1, <2>2, <2>3 DEF WorkerStep
<1>e. CASE ReceiveReply
    <2> DEFINE e == Head(replyq)
    <2>1. /\ replyq # << >> /\ replyq' = Tail(replyq) /\ Put(e)
          /\ UNCHANGED <<sender, waiters, state, outages>>
        BY <1>e DEF ReceiveReply
    <2>2. Elems(replyq) \subseteq Elems(replyq') \cup {e}
        BY <1>1, <2>1, TailElems
    <2>3. e \in Delivery /\ e[1] \in Call /\ e[1] \in Msg
        <3>1. e \in Delivery /\ e = replyq[1] /\ 1 \in 1 .. Len(replyq)
            BY <1>1, <2>1, QueueHead
        <3>2. e[1] \in Call BY <1>0, <3>1 DEF ReplyInv
        <3> QED BY <3>1, <3>2 DEF Call
    <2> HIDE DEF e
    <2>4. inbox' = inbox \/ inbox' = [inbox EXCEPT ![e[1]] = Append(@, e)]
        BY <2>1 DEF Put
    <2>5. Elems(inbox[d[1]]) \subseteq Elems(inbox'[d[1]])
        <3>1. CASE inbox' = inbox
            BY <3>1
        <3>2. CASE inbox' = [inbox EXCEPT ![e[1]] = Append(@, e)]
            <4>1. inbox'[d[1]] = IF d[1] = e[1] THEN Append(inbox[d[1]], e) ELSE inbox[d[1]]
                BY <1>1, <2>3, <3>2
            <4>2. inbox[d[1]] \in Seq(Delivery) BY <1>1
            <4>3. Elems(inbox[d[1]]) \cup {e} \subseteq Elems(Append(inbox[d[1]], e))
                BY <2>3, <4>2, AppendElems
            <4> QED BY <4>1, <4>3
        <3> QED BY <2>4, <3>1, <3>2
    <2>6. d = e => d \in Elems(inbox'[d[1]])
        <3> SUFFICES ASSUME d = e PROVE d \in Elems(inbox'[d[1]])
            OBVIOUS
        <3>1. e[1] \in waiters
            BY <1>0, <2>1, <2>3 DEF WaitersExact
        <3>2. inbox'[e[1]] = Append(inbox[e[1]], e)
            BY <1>1, <2>1, <2>3, <3>1 DEF Put
        <3>3. inbox[e[1]] \in Seq(Delivery) BY <1>1, <2>3
        <3>4. e \in Elems(Append(inbox[e[1]], e)) BY <2>3, <3>3, AppendElems
        <3> QED BY <3>2, <3>4
    <2> QED BY <1>2, <2>1, <2>2, <2>5, <2>6
<1>f. CASE \/ Submit \/ ProcessTask \/ ConnectionDrop \/ ServerRestart
           \/ ReplyQueueBack \/ ForgetObsolete \/ UNCHANGED vars
    <2>1. UNCHANGED <<sender, replyq, inbox, outages>>
        BY <1>f DEF Submit, ProcessTask, ConnectionDrop, ServerRestart, ReplyQueueBack,
            ForgetObsolete, vars
    <2>2. CASE Submit \/ ProcessTask
        <3>1. state[d] = "replied" BY <1>0, <2>2, PollMoves DEF TypeOK
        <3> QED BY <1>b, <2>1, <3>1
    <2>3. CASE ConnectionDrop \/ ServerRestart \/ ReplyQueueBack \/ ForgetObsolete \/ UNCHANGED vars
        <3>1. state[d] = "replied"
            BY <2>3 DEF ConnectionDrop, ServerRestart, ReplyQueueBack, ForgetObsolete, vars
        <3> QED BY <1>b, <2>1, <3>1
    <2> QED BY <1>f, <2>2, <2>3
<1>g. CASE ReplyQueueGone
    BY <1>0, <1>g DEF ReplyQueueGone, TypeOK
<1> QED BY <1>a, <1>c, <1>d, <1>e, <1>f, <1>g DEF Next

(* The reply of a finished request reaches a caller that waits for it, as  *)
(* long as its reply queue has not disappeared: no step drops or misroutes *)
(* it.                                                                     *)
THEOREM ReplyReachesCaller == Spec => []ReplyNotLost
<1>1. Init => ReplyKept
    BY DEF Init, ReplyKept
<1>2. ReplyKept => ReplyNotLost
    BY DEF ReplyKept, ReplyNotLost
<1> QED BY <1>1, <1>2, ReplyKeptStep, RpcInvariant, PTL DEF Spec

-----------------------------------------------------------------------------
(* What the listener accepted is where its polling thread looks for it.    *)

(* A message that was received is in AMQPListener.incoming until it is     *)
(* submitted, and the ack that a greenthread waits for is among the tasks  *)
(* of MessageOperationsHandler until it was tried: DeliveryEnds rests on   *)
(* it, as nothing else ever moves such a delivery on.                      *)
NoneStranded ==
    \A d \in Delivery :
        /\ state[d] = "incoming" => d \in Elems(incoming)
        /\ state[d] = "acking" => d \in Elems(tasks)

LEMMA StrandedStep == RpcInv /\ NoneStranded /\ [Next]_vars => NoneStranded'
<1> SUFFICES ASSUME RpcInv, NoneStranded, [Next]_vars PROVE NoneStranded'
    OBVIOUS
<1> USE DEF clientVars, brokerVars, serverVars, faultVars, historyVars
<1>0. /\ TypeOK /\ CopyInv /\ QueueInv
      /\ incoming \in Seq(Delivery) /\ tasks \in Seq(Delivery)
    BY DEF RpcInv, TypeOK
<1>a. CASE \/ \E m \in Msg : ClientStep(m) \/ Expire(m)
           \/ ReceiveReply \/ ReplyQueueGone \/ ReplyQueueBack \/ ForgetObsolete
           \/ UNCHANGED vars
    BY <1>a, DeliveriesAlone DEF NoneStranded
<1>b. ASSUME NEW m \in Msg, Deliver(m) \/ SkipDuplicate(m) PROVE NoneStranded'
    <2>1. copies[m] < MaxCopies BY <1>b DEF Deliver, SkipDuplicate
    <2>2. PICK d \in Delivery : d = <<m, copies[m] + 1>>
        BY <1>0, <2>1, NextCopy
    <2>3. \A e \in Delivery : e # d => state'[e] = state[e]
        BY <1>0, <1>b, <2>2 DEF Deliver, SkipDuplicate, TypeOK
    <2>4. CASE Deliver(m)
        <3>1. state'[d] = "incoming" /\ incoming' = Append(incoming, d) /\ tasks' = tasks
            BY <1>0, <2>2, <2>4 DEF Deliver, TypeOK
        <3>2. Elems(incoming) \cup {d} \subseteq Elems(incoming')
            BY <1>0, <3>1, AppendElems
        <3> QED BY <2>3, <3>1, <3>2 DEF NoneStranded
    <2>5. CASE SkipDuplicate(m)
        <3>1. state'[d] = "skipped" /\ UNCHANGED <<incoming, tasks>>
            BY <1>0, <2>2, <2>5 DEF SkipDuplicate, TypeOK
        <3> QED BY <2>3, <3>1 DEF NoneStranded
    <2> QED BY <1>b, <2>4, <2>5
<1>c. ASSUME NEW d \in Delivery, WorkerStep(d) PROVE NoneStranded'
    <2>1. /\ \A e \in Delivery : e # d => state'[e] = state[e]
          /\ incoming' = incoming /\ state'[d] # "incoming"
          /\ \/ tasks' = Append(tasks, d)
             \/ tasks' = tasks /\ state'[d] # "acking"
        BY <1>0, <1>c, WorkerMoves
    <2>2. Elems(tasks) \cup {d} \subseteq Elems(Append(tasks, d))
        BY <1>0, AppendElems
    <2> QED BY <2>1, <2>2 DEF NoneStranded
<1>d. CASE Submit
    <2>1. /\ incoming # << >> /\ incoming' = Tail(incoming) /\ tasks' = tasks
          /\ Head(incoming) \in Delivery
          /\ state' = [state EXCEPT ![Head(incoming)] = "submitted"]
        BY <1>0, <1>d, PollMoves DEF Submit
    <2>2. Elems(incoming) \subseteq Elems(incoming') \cup {Head(incoming)}
        BY <1>0, <2>1, TailElems
    <2>3. \A e \in Delivery :
            state'[e] = IF e = Head(incoming) THEN "submitted" ELSE state[e]
        BY <1>0, <2>1 DEF TypeOK
    <2> QED BY <2>1, <2>2, <2>3 DEF NoneStranded
<1>e. CASE ProcessTask
    <2>1. /\ tasks # << >> /\ tasks' = Tail(tasks) /\ incoming' = incoming
          /\ Head(tasks) \in Delivery
          /\ state' = [state EXCEPT ![Head(tasks)] = "acked"]
        BY <1>0, <1>e, PollMoves DEF ProcessTask
    <2>2. Elems(tasks) \subseteq Elems(tasks') \cup {Head(tasks)}
        BY <1>0, <2>1, TailElems
    <2>3. \A e \in Delivery :
            state'[e] = IF e = Head(tasks) THEN "acked" ELSE state[e]
        BY <1>0, <2>1 DEF TypeOK
    <2> QED BY <2>1, <2>2, <2>3 DEF NoneStranded
<1>f. CASE ConnectionDrop
    BY <1>f DEF ConnectionDrop, NoneStranded
<1>g. CASE ServerRestart
    BY <1>g DEF ServerRestart, Live, Unacked, NoneStranded
<1> QED BY <1>a, <1>b, <1>c, <1>d, <1>e, <1>f, <1>g DEF Next

(* No message that the listener accepted, and no greenthread that waits    *)
(* for its ack, is ever forgotten by the polling thread, whatever fails.   *)
THEOREM NothingStranded == Spec => []NoneStranded
<1>1. Init => NoneStranded
    BY DEF Init, NoneStranded
<1> QED BY <1>1, StrandedStep, RpcInvariant, PTL DEF Spec

-----------------------------------------------------------------------------
(* The refinement.  Only the steps that change an outcome or produce an    *)
(* answer are steps of the contract; all the others leave its state alone. *)

(* How one request's view changes when its sender or outcome changes.      *)
LEMMA ViewOfRequest ==
    ASSUME NEW m \in Msg, \A k \in Msg : k # m => sender'[k] = sender[k] /\ result'[k] = result[k]
    PROVE  /\ PhaseMap' = [PhaseMap EXCEPT ![m] = Phase(m)']
           /\ ResultMap' = [ResultMap EXCEPT ![m] = IF result'[m] \in Answer THEN result'[m] ELSE "none"]
<1>1. \A k \in Msg : k # m => Phase(k)' = Phase(k)
    BY DEF Phase
<1> QED BY <1>1 DEF PhaseMap, ResultMap

(* Nothing the caller sees changes while these three do not. *)
LEMMA ViewUnchanged ==
    ASSUME UNCHANGED <<sender, result, answer>>
    PROVE  UNCHANGED <<PhaseMap, ResultMap, AnswersMap>>
<1>1. PhaseMap' = PhaseMap BY DEF PhaseMap, Phase
<1>2. ResultMap' = ResultMap BY DEF ResultMap
<1>3. AnswersMap' = AnswersMap BY DEF AnswersMap
<1> QED BY <1>1, <1>2, <1>3

(* The contract's Produce: one more answer, for the request that ran. *)
LEMMA AnswersGrow ==
    ASSUME TypeOK, AnswerInv, NEW d \in Delivery, NEW a \in Answer, answer[d] = "none",
           answer' = [answer EXCEPT ![d] = a]
    PROVE  AnswersMap' = [AnswersMap EXCEPT ![d[1]] = @ \cup {a}]
<1>0. answer \in [Delivery -> Answer \cup {"none"}] /\ d[1] \in Msg /\ a # "none"
    BY DEF TypeOK, Delivery, Answer
<1>1. \A e \in Delivery : answer'[e] = IF e = d THEN a ELSE answer[e]
    BY <1>0
<1>2. ASSUME NEW m \in Msg, m # d[1]
      PROVE  {answer'[e] : e \in CopiesOf(m)} \ {"none"} = {answer[e] : e \in CopiesOf(m)} \ {"none"}
    <2>1. \A e \in CopiesOf(m) : answer'[e] = answer[e] BY <1>1, <1>2 DEF CopiesOf
    <2> QED BY <2>1
<1>3. {answer'[e] : e \in CopiesOf(d[1])} \ {"none"}
        = ({answer[e] : e \in CopiesOf(d[1])} \ {"none"}) \cup {a}
    <2>1. d \in CopiesOf(d[1]) /\ CopiesOf(d[1]) \subseteq Delivery BY DEF CopiesOf
    <2> QED BY <1>0, <1>1, <2>1
<1> QED BY <1>0, <1>2, <1>3 DEF AnswersMap

(* Every step of the driver is a step of the contract or leaves it alone.  *)
LEMMA ContractStep ==
    RpcInv /\ [Next]_vars => [Contract!ContractNext]_(Contract!contractVars)
<1> SUFFICES ASSUME RpcInv, [Next]_vars
             PROVE  Contract!ContractNext \/ UNCHANGED <<PhaseMap, ResultMap, AnswersMap>>
    BY DEF Contract!contractVars
<1> USE DEF clientVars, brokerVars, serverVars, faultVars, historyVars
<1>0. /\ TypeOK /\ SendInv /\ CopyInv /\ AnswerInv /\ ReplyInv
      /\ sender \in [Msg -> {"idle", "sending", "waiting", "leaving", "done"}]
      /\ result \in [Msg -> Answer \cup {"none", "timeout", "undelivered"}]
    BY DEF RpcInv, TypeOK
<1>a. ASSUME NEW m \in Msg, ClientStep(m)
      PROVE  Contract!ContractNext \/ UNCHANGED <<PhaseMap, ResultMap, AnswersMap>>
    <2>1. \A k \in Msg : k # m => sender'[k] = sender[k] /\ result'[k] = result[k]
        BY <1>0, <1>a DEF ClientStep, Listen, Publish, PublishAgain, PublishFails, GetReply,
            WaitTimeout, Unlisten
    <2>2. /\ PhaseMap' = [PhaseMap EXCEPT ![m] = Phase(m)']
          /\ ResultMap' = [ResultMap EXCEPT ![m] = IF result'[m] \in Answer THEN result'[m] ELSE "none"]
        BY <2>1, ViewOfRequest
    <2>3. answer' = answer
        BY <1>a DEF ClientStep, Listen, Publish, PublishAgain, PublishFails, GetReply,
            WaitTimeout, Unlisten
    <2>4. AnswersMap' = AnswersMap BY <2>3 DEF AnswersMap
    <2>5. /\ PhaseMap[m] = Phase(m) /\ PhaseMap = [PhaseMap EXCEPT ![m] = PhaseMap[m]]
          /\ ResultMap[m] = (IF result[m] \in Answer THEN result[m] ELSE "none")
          /\ ResultMap = [ResultMap EXCEPT ![m] = ResultMap[m]]
          /\ AnswersMap[m] = {answer[d] : d \in CopiesOf(m)} \ {"none"}
        BY DEF PhaseMap, ResultMap, AnswersMap
    <2>6. CASE Listen(m)
        <3>1. sender[m] = "idle" /\ sender'[m] = "sending" /\ result' = result /\ result[m] = "none"
            BY <1>0, <2>6 DEF Listen, SendInv
        <3>2. Phase(m) = "new" /\ Phase(m)' = "pending" BY <3>1 DEF Phase, Answer
        <3>3. Contract!Send(m) BY <2>2, <2>4, <2>5, <3>1, <3>2 DEF Contract!Send
        <3> QED BY <3>3 DEF Contract!ContractNext
    <2>7. CASE Publish(m)
        <3>1. /\ sender[m] = "sending" /\ sender'[m] = (IF m \in Call THEN "waiting" ELSE "done")
              /\ result' = result /\ result[m] = "none"
            BY <1>0, <2>7 DEF Publish, SendInv
        <3>2. CASE m \in Call
            <4>1. Phase(m) = "pending" /\ Phase(m)' = "pending" BY <3>1, <3>2 DEF Phase, Answer
            <4> QED BY <2>2, <2>4, <2>5, <3>1, <4>1
        <3>3. CASE m \notin Call
            <4>1. Phase(m) = "pending" /\ Phase(m)' = "sent" BY <3>1, <3>3 DEF Phase, Answer
            <4>2. Contract!Accept(m)
                BY <2>2, <2>4, <2>5, <3>1, <3>3, <4>1 DEF Contract!Accept, Call
            <4> QED BY <4>2 DEF Contract!ContractNext
        <3> QED BY <3>2, <3>3
    <2>8. CASE PublishAgain(m)
        BY <2>3, <2>8, ViewUnchanged DEF PublishAgain
    <2>9. CASE PublishFails(m)
        <3>1. /\ sender[m] = "sending" /\ sender'[m] # "idle" /\ result[m] = "none"
              /\ result'[m] = "undelivered"
            BY <1>0, <2>9 DEF PublishFails, SendInv
        <3>2. Phase(m) = "pending" /\ Phase(m)' = "undelivered" BY <3>1 DEF Phase, Answer
        <3>3. ResultMap' = ResultMap BY <2>2, <2>5, <3>1 DEF Answer
        <3>4. Contract!FailToSend(m)
            BY <2>2, <2>4, <2>5, <3>2, <3>3 DEF Contract!FailToSend
        <3> QED BY <3>4 DEF Contract!ContractNext
    <2>10. CASE GetReply(m)
        <3> DEFINE a == answer[Head(inbox[m])]
        <3>1. /\ sender[m] = "waiting" /\ sender'[m] = "leaving" /\ result[m] = "none"
              /\ result'[m] = a /\ m \in Call
            BY <1>0, <2>10 DEF GetReply, SendInv
        <3>2. inbox[m] \in Seq(Delivery) /\ inbox[m] # << >>
            BY <1>0, <2>10 DEF GetReply, TypeOK
        <3>3. Head(inbox[m]) \in CopiesOf(m) /\ a \in Answer
            BY <1>0, <3>2, QueueHead DEF ReplyInv, CopiesOf
        <3>4. a \in AnswersMap[m] BY <2>5, <3>3 DEF Answer
        <3> HIDE DEF a
        <3>5. Phase(m) = "pending" /\ Phase(m)' = "returned" BY <3>1, <3>3 DEF Phase, Answer
        <3>6. Contract!Return(m, a)
            BY <2>2, <2>4, <2>5, <3>1, <3>3, <3>4, <3>5 DEF Contract!Return, Call
        <3> QED BY <3>3, <3>6 DEF Contract!ContractNext
    <2>11. CASE WaitTimeout(m)
        <3>1. /\ sender[m] = "waiting" /\ sender'[m] = "leaving" /\ result[m] = "none"
              /\ result'[m] = "timeout" /\ m \in Call
            BY <1>0, <2>11 DEF WaitTimeout, SendInv
        <3>2. Phase(m) = "pending" /\ Phase(m)' = "timeout" BY <3>1 DEF Phase, Answer
        <3>3. ResultMap' = ResultMap BY <2>2, <2>5, <3>1 DEF Answer
        <3>4. Contract!TimeOut(m)
            BY <2>2, <2>4, <2>5, <3>1, <3>2, <3>3 DEF Contract!TimeOut, Call
        <3> QED BY <3>4 DEF Contract!ContractNext
    <2>12. CASE Unlisten(m)
        <3>1. /\ sender[m] = "leaving" /\ sender'[m] = "done" /\ result' = result
              /\ result[m] # "none"
            BY <1>0, <2>12 DEF Unlisten, SendInv
        <3>2. Phase(m)' = Phase(m) BY <3>1 DEF Phase
        <3> QED BY <2>2, <2>4, <2>5, <3>1, <3>2
    <2> QED BY <1>a, <2>6, <2>7, <2>8, <2>9, <2>10, <2>11, <2>12 DEF ClientStep
<1>b. ASSUME NEW d \in Delivery, Finish(d)
      PROVE  Contract!ContractNext
    <2>1. PICK a \in Answer : answer' = [answer EXCEPT ![d] = a]
        BY <1>b DEF Finish
    <2>2. state[d] = "running" /\ UNCHANGED <<sender, result>>
        BY <1>b DEF Finish
    <2>3. answer[d] = "none" BY <1>0, <2>2 DEF AnswerInv
    <2>4. AnswersMap' = [AnswersMap EXCEPT ![d[1]] = @ \cup {a}]
        BY <1>0, <2>1, <2>3, AnswersGrow
    <2>5. PhaseMap' = PhaseMap /\ ResultMap' = ResultMap
        BY <2>2 DEF PhaseMap, ResultMap, Phase
    <2>6. d[1] \in Msg /\ d[2] > 0 BY RpcAssumption DEF Delivery
    <2>7. sender[d[1]] # "idle"
        <3>1. ~(d[2] > copies[d[1]]) BY <1>0, <2>2 DEF CopyInv
        <3> QED BY <1>0, <2>6, <3>1 DEF SendInv
    <2>8. PhaseMap[d[1]] # "new"
        BY <1>0, <2>6, <2>7 DEF PhaseMap, Phase, Answer
    <2>9. Contract!Produce(d[1], a) BY <2>4, <2>5, <2>8 DEF Contract!Produce
    <2> QED BY <2>1, <2>6, <2>9 DEF Contract!ContractNext
<1>c. ASSUME NEW m \in Msg, Expire(m) \/ Deliver(m) \/ SkipDuplicate(m)
      PROVE  UNCHANGED <<PhaseMap, ResultMap, AnswersMap>>
    <2>1. UNCHANGED <<sender, result, answer>> BY <1>c DEF Expire, Deliver, SkipDuplicate
    <2> QED BY <2>1, ViewUnchanged
<1>d. ASSUME NEW d \in Delivery, WorkerStep(d)
      PROVE  Finish(d) \/ UNCHANGED <<PhaseMap, ResultMap, AnswersMap>>
    <2>1. Finish(d) \/ UNCHANGED <<sender, result, answer>>
        BY <1>d DEF WorkerStep, Acknowledge, Dispatch, SkipReply, SendReply,
                    SendReplyAgain, GiveUpReply, ReplyRaises
    <2> QED BY <2>1, ViewUnchanged
<1>e. ASSUME \/ ReceiveReply \/ Submit \/ ProcessTask \/ ConnectionDrop \/ ServerRestart
             \/ ReplyQueueGone \/ ReplyQueueBack \/ ForgetObsolete \/ UNCHANGED vars
      PROVE  UNCHANGED <<PhaseMap, ResultMap, AnswersMap>>
    <2>1. UNCHANGED <<sender, result, answer>>
        BY <1>e DEF ReceiveReply, Submit, ProcessTask, ConnectionDrop, ServerRestart,
                    ReplyQueueGone, ReplyQueueBack, ForgetObsolete, vars
    <2> QED BY <2>1, ViewUnchanged
<1> QED BY <1>a, <1>b, <1>c, <1>d, <1>e DEF Next

(* The rabbit driver implements the RPC contract. *)
THEOREM DriverImplementsContract == Spec => ImplementsContract
<1>1. Init => Contract!ContractInit
    <2> SUFFICES ASSUME Init PROVE Contract!ContractInit
        OBVIOUS
    <2>1. PhaseMap = [m \in Msg |-> "new"] BY DEF Init, PhaseMap, Phase
    <2>2. ResultMap = [m \in Msg |-> "none"] BY DEF Init, ResultMap, Answer
    <2>3. AnswersMap = [m \in Msg |-> {}]
        <3>1. \A m \in Msg : \A d \in CopiesOf(m) : answer[d] = "none"
            BY DEF Init, CopiesOf
        <3>2. \A m \in Msg : {answer[d] : d \in CopiesOf(m)} \ {"none"} = {}
            BY <3>1
        <3> QED BY <3>2 DEF AnswersMap
    <2> QED BY <2>1, <2>2, <2>3 DEF Contract!ContractInit
<1> QED BY <1>1, ContractStep, RpcInvariant, PTL DEF Spec, ImplementsContract, Contract!ContractSpec
====
