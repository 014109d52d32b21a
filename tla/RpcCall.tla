------------------------------ MODULE RpcCall ------------------------------
(***************************************************************************)
(* One RPC client and one RPC server of oslo_messaging over its rabbit     *)
(* driver.  The client registers a queue for the reply, publishes, waits   *)
(* with a timeout and unregisters (AMQPDriverBase._send).  On the server   *)
(* the polling thread receives messages and performs acknowledgements,     *)
(* worker greenthreads acknowledge, dispatch and reply.                    *)
(*                                                                         *)
(* A request can reach the server more than once: the broker delivers an   *)
(* unacknowledged message again when the server's connection is lost, and  *)
(* the publisher sends again when its connection breaks.  A delivery is a  *)
(* request and the number of the copy.  The broker itself is external.     *)
(***************************************************************************)
EXTENDS Integers, Sequences, FiniteSets

CONSTANTS
    Msg,        \* the requests; each has a unique_id of its own
    Cast,       \* the requests sent with cast(): no msg_id, no reply
    CacheSize,  \* _MsgIdCache.DUP_MSG_CHECK_SIZE
    MaxCopies,  \* bound: deliveries per request
    MaxDrops,   \* bound: lost server connections and server crashes
    MaxResends, \* bound: publications repeated by Connection.ensure
    MaxOutages  \* bound: disappearances of the reply queue

ASSUME RpcAssumption ==
    /\ IsFiniteSet(Msg)
    /\ Cast \subseteq Msg
    /\ CacheSize \in Nat \ {0}
    /\ MaxCopies \in Nat \ {0}
    /\ MaxDrops \in Nat /\ MaxResends \in Nat /\ MaxOutages \in Nat

VARIABLES
    sender,     \* Msg -> how far _send is
    result,     \* Msg -> how _send ended
    waiters,    \* the keys of ReplyWaiters._queues
    inbox,      \* Msg -> ReplyWaiters._queues[msg_id]
    ready,      \* broker: Msg -> copies waiting in the topic queue
    unacked,    \* broker: deliveries it may still hear an ack for
    copies,     \* Msg -> number of deliveries made
    incoming,   \* AMQPListener.incoming
    tasks,      \* MessageOperationsHandler._tasks
    cache,      \* _MsgIdCache.prev_msgids of the listener
    state,      \* Delivery -> how far the server is with it
    answer,     \* Delivery -> what the endpoint method produced
    replyq,     \* broker: the reply queue of the client
    reachable,  \* broker: the reply queue and its exchange exist
    obsolete,   \* is the reply queue in ObsoleteReplyQueuesCache?
    drops, resends, outages,  \* faults so far
    ran,        \* history: deliveries dispatched to an endpoint
    expired,    \* history: requests of which the broker dropped a copy
    abandoned,  \* history: acknowledged requests a crash interrupted
    discarded   \* history: replies put() found no queue for

clientVars == <<sender, result, waiters, inbox>>
brokerVars == <<ready, unacked, copies, replyq, reachable>>
serverVars == <<incoming, tasks, cache, state, answer, obsolete>>
faultVars == <<drops, resends, outages>>
historyVars == <<ran, expired, abandoned, discarded>>
vars == <<clientVars, brokerVars, serverVars, faultVars, historyVars>>

-----------------------------------------------------------------------------
Delivery == Msg \X (1 .. MaxCopies)
Call == Msg \ Cast
Answer == {"value", "failure"}

CopiesOf(m) == {d \in Delivery : d[1] = m}
Elems(s) == {s[i] : i \in DOMAIN s}

(* Stages of a delivery on the server, in the order the code passes them.  *)
(* "replied" and "dropped" are the ends of _process_incoming, "skipped" is *)
(* a detected duplicate, "lost" a delivery that a crash interrupted.       *)
Unacked == {"incoming", "submitted", "acking"}
Acked == {"acked", "running", "replying"}
Live == Unacked \cup Acked
Ended == {"replied", "dropped", "skipped", "lost"}

Init ==
    /\ sender = [m \in Msg |-> "idle"]
    /\ result = [m \in Msg |-> "none"]
    /\ waiters = {}
    /\ inbox = [m \in Msg |-> << >>]
    /\ ready = [m \in Msg |-> 0]
    /\ unacked = {}
    /\ copies = [m \in Msg |-> 0]
    /\ incoming = << >> /\ tasks = << >> /\ cache = << >>
    /\ state = [d \in Delivery |-> "none"]
    /\ answer = [d \in Delivery |-> "none"]
    /\ replyq = << >> /\ reachable = TRUE /\ obsolete = FALSE
    /\ drops = 0 /\ resends = 0 /\ outages = 0
    /\ ran = {} /\ expired = {} /\ abandoned = {} /\ discarded = {}

-----------------------------------------------------------------------------
(* The client: AMQPDriverBase._send. *)

(* Fault: the reply queue is registered only when waiting for it.          *)
ListenLate(m) ==
    /\ sender[m] = "idle"
    /\ sender' = [sender EXCEPT ![m] = "sending"]
    /\ inbox' = [inbox EXCEPT ![m] = << >>]
    /\ UNCHANGED <<result, waiters, brokerVars, serverVars, faultVars, historyVars>>

(* A call registers its msg_id before it publishes; a cast does not.       *)
Listen(m) ==
    /\ sender[m] = "idle"
    /\ sender' = [sender EXCEPT ![m] = "sending"]
    /\ waiters' = IF m \in Call THEN waiters \cup {m} ELSE waiters
    /\ inbox' = [inbox EXCEPT ![m] = << >>]
    /\ UNCHANGED <<result, brokerVars, serverVars, faultVars, historyVars>>

(* topic_send returns: a cast is over, a call waits. *)
Publish(m) ==
    /\ sender[m] = "sending"
    /\ ready' = [ready EXCEPT ![m] = @ + 1]
    /\ sender' = [sender EXCEPT ![m] = IF m \in Call THEN "waiting" ELSE "done"]
    /\ UNCHANGED <<result, waiters, inbox, unacked, copies, replyq, reachable,
                   serverVars, faultVars, historyVars>>

(* The broker got the message but the connection broke: ensure publishes   *)
(* the same message, with the same unique_id, once more.                   *)
PublishAgain(m) ==
    /\ sender[m] = "sending" /\ resends < MaxResends
    /\ ready' = [ready EXCEPT ![m] = @ + 1]
    /\ resends' = resends + 1
    /\ UNCHANGED <<clientVars, unacked, copies, replyq, reachable, serverVars,
                   drops, outages, historyVars>>

(* Fault: the exception leaves _send without passing the finally clause.   *)
PublishFailsUncaught(m) ==
    /\ sender[m] = "sending"
    /\ sender' = [sender EXCEPT ![m] = "done"]
    /\ result' = [result EXCEPT ![m] = "undelivered"]
    /\ UNCHANGED <<waiters, inbox, brokerVars, serverVars, faultVars, historyVars>>

(* ensure gives up: MessageDeliveryFailure, through the finally clause.    *)
PublishFails(m) ==
    /\ sender[m] = "sending"
    /\ sender' = [sender EXCEPT ![m] = IF m \in Call THEN "leaving" ELSE "done"]
    /\ result' = [result EXCEPT ![m] = "undelivered"]
    /\ UNCHANGED <<waiters, inbox, brokerVars, serverVars, faultVars, historyVars>>

(* ReplyWaiter.wait: every reply has ending = True, so the first one ends  *)
(* the wait; a failure is raised in the caller.                            *)
GetReply(m) ==
    /\ sender[m] = "waiting" /\ inbox[m] # << >>
    /\ result' = [result EXCEPT ![m] = answer[Head(inbox[m])]]
    /\ inbox' = [inbox EXCEPT ![m] = Tail(@)]
    /\ sender' = [sender EXCEPT ![m] = "leaving"]
    /\ UNCHANGED <<waiters, brokerVars, serverVars, faultVars, historyVars>>

(* Fault: the empty queue is ignored, and wait returns final_reply.        *)
WaitReturnsNone(m) ==
    /\ sender[m] = "waiting" /\ inbox[m] = << >>
    /\ result' = [result EXCEPT ![m] = "value"]
    /\ sender' = [sender EXCEPT ![m] = "leaving"]
    /\ UNCHANGED <<waiters, inbox, brokerVars, serverVars, faultVars, historyVars>>

(* Fault: a call without a timeout waits for its reply for ever.           *)
WaitForever(m) ==
    /\ sender[m] = "waiting" /\ inbox[m] = << >>
    /\ UNCHANGED vars

(* Queue.get raises Empty only when nothing is in the queue. *)
WaitTimeout(m) ==
    /\ sender[m] = "waiting" /\ inbox[m] = << >>
    /\ result' = [result EXCEPT ![m] = "timeout"]
    /\ sender' = [sender EXCEPT ![m] = "leaving"]
    /\ UNCHANGED <<waiters, inbox, brokerVars, serverVars, faultVars, historyVars>>

(* The finally clause: the queue goes, with any reply that came too late.  *)
Unlisten(m) ==
    /\ sender[m] = "leaving"
    /\ waiters' = waiters \ {m}
    /\ inbox' = [inbox EXCEPT ![m] = << >>]
    /\ sender' = [sender EXCEPT ![m] = "done"]
    /\ UNCHANGED <<result, brokerVars, serverVars, faultVars, historyVars>>

(* Fault: a reply that nobody waits for goes to whoever waits.             *)
PutAnywhere(d) ==
    IF waiters # {}
    THEN /\ \E m \in waiters : inbox' = [inbox EXCEPT ![m] = Append(@, d)]
         /\ UNCHANGED discarded
    ELSE discarded' = discarded \cup {d} /\ UNCHANGED inbox

(* Fault: a reply that arrives while the request is being sent is dropped. *)
PutIfWaiting(d) ==
    IF sender[d[1]] \in {"waiting", "leaving"}
    THEN inbox' = [inbox EXCEPT ![d[1]] = Append(@, d)] /\ UNCHANGED discarded
    ELSE discarded' = discarded \cup {d} /\ UNCHANGED inbox

(* ReplyWaiters.put drops a reply that nobody has registered for.          *)
Put(d) ==
    IF d[1] \in waiters
    THEN inbox' = [inbox EXCEPT ![d[1]] = Append(@, d)] /\ UNCHANGED discarded
    ELSE discarded' = discarded \cup {d} /\ UNCHANGED inbox

(* The client's polling thread takes the oldest reply and acknowledges it. *)
ReceiveReply ==
    /\ replyq # << >>
    /\ replyq' = Tail(replyq)
    /\ Put(Head(replyq))
    /\ UNCHANGED <<sender, result, waiters, ready, unacked, copies, reachable,
                   serverVars, faultVars, ran, expired, abandoned>>

-----------------------------------------------------------------------------
(* The broker (external) and the faults.                                   *)

(* A call is published with an expiration equal to its timeout. *)
Expire(m) ==
    /\ m \in Call /\ ready[m] > 0
    /\ ready' = [ready EXCEPT ![m] = @ - 1]
    /\ expired' = expired \cup {m}
    /\ UNCHANGED <<clientVars, unacked, copies, replyq, reachable, serverVars,
                   faultVars, ran, abandoned, discarded>>

(* What the broker does with the unacknowledged deliveries of a connection *)
(* that is gone: each goes back to the topic queue.                        *)
Requeue ==
    /\ ready' = [m \in Msg |-> ready[m] + Cardinality(unacked \cap CopiesOf(m))]
    /\ unacked' = {}

(* The listener's connection is lost and re-established by ensure.  What   *)
(* has been received stays in incoming and with the greenthreads.          *)
ConnectionDrop ==
    /\ drops < MaxDrops /\ drops' = drops + 1
    /\ Requeue
    /\ UNCHANGED <<clientVars, copies, replyq, reachable, serverVars, resends,
                   outages, historyVars>>

(* The server process dies and a new one listens, with an empty cache.     *)
ServerRestart ==
    /\ drops < MaxDrops /\ drops' = drops + 1
    /\ Requeue
    /\ incoming' = << >> /\ tasks' = << >> /\ cache' = << >> /\ obsolete' = FALSE
    /\ abandoned' = abandoned \cup {d[1] : d \in {e \in Delivery : state[e] \in Acked}}
    /\ state' = [d \in Delivery |-> IF state[d] \in Live THEN "lost" ELSE state[d]]
    /\ UNCHANGED <<clientVars, copies, replyq, reachable, answer, resends, outages,
                   ran, expired, discarded>>

(* The auto-deleted reply queue disappears with what it holds ... *)
ReplyQueueGone ==
    /\ reachable /\ outages < MaxOutages
    /\ reachable' = FALSE /\ outages' = outages + 1 /\ replyq' = << >>
    /\ UNCHANGED <<clientVars, ready, unacked, copies, serverVars, drops, resends,
                   historyVars>>

(* ... and the client's reconnection declares it again. *)
ReplyQueueBack ==
    /\ ~reachable
    /\ reachable' = TRUE
    /\ UNCHANGED <<clientVars, ready, unacked, copies, replyq, serverVars, faultVars,
                   historyVars>>

-----------------------------------------------------------------------------
(* The server's polling thread.                                            *)

(* check_duplicate_message: the unique_id is among the last CacheSize ones *)
(* that were acknowledged.                                                 *)
Duplicate(m) == m \in Elems(cache)

(* AMQPListener.__call__ queues the message.  The order in which the       *)
(* broker delivers is left open.                                           *)
Deliver(m) ==
    LET d == <<m, copies[m] + 1>> IN
    /\ ready[m] > 0 /\ copies[m] < MaxCopies /\ ~Duplicate(m)
    /\ ready' = [ready EXCEPT ![m] = @ - 1]
    /\ copies' = [copies EXCEPT ![m] = @ + 1]
    /\ unacked' = unacked \cup {d}
    /\ state' = [state EXCEPT ![d] = "incoming"]
    /\ incoming' = Append(incoming, d)
    /\ UNCHANGED <<clientVars, replyq, reachable, tasks, cache, answer, obsolete,
                   faultVars, historyVars>>

(* A duplicate makes __call__ raise: Consumer._callback logs and acks it.  *)
SkipDuplicate(m) ==
    LET d == <<m, copies[m] + 1>> IN
    /\ ready[m] > 0 /\ copies[m] < MaxCopies /\ Duplicate(m)
    /\ ready' = [ready EXCEPT ![m] = @ - 1]
    /\ copies' = [copies EXCEPT ![m] = @ + 1]
    /\ state' = [state EXCEPT ![d] = "skipped"]
    /\ UNCHANGED <<clientVars, unacked, replyq, reachable, incoming, tasks, cache,
                   answer, obsolete, faultVars, historyVars>>

(* Fault: a pool that is busy rejects the message.                         *)
SubmitRejected ==
    /\ incoming # << >>
    /\ incoming' = Tail(incoming)
    /\ state' = [state EXCEPT ![Head(incoming)] =
                    IF \E d \in Delivery : state[d] = "running" THEN "dropped" ELSE "submitted"]
    /\ UNCHANGED <<clientVars, brokerVars, tasks, cache, answer, obsolete, faultVars,
                   historyVars>>

(* poll returns the oldest message, _on_incoming submits it to the pool.   *)
Submit ==
    /\ incoming # << >>
    /\ incoming' = Tail(incoming)
    /\ state' = [state EXCEPT ![Head(incoming)] = "submitted"]
    /\ UNCHANGED <<clientVars, brokerVars, tasks, cache, answer, obsolete, faultVars,
                   historyVars>>

(* Fault: the ack covers every delivery of the channel (multiple = True).  *)
ProcessTaskMultiple ==
    /\ tasks # << >>
    /\ tasks' = Tail(tasks)
    /\ unacked' = {}
    /\ state' = [state EXCEPT ![Head(tasks)] = "acked"]
    /\ UNCHANGED <<clientVars, ready, copies, replyq, reachable, incoming, cache,
                   answer, obsolete, faultVars, historyVars>>

(* MessageOperationsHandler.process runs the oldest ack.  On a channel     *)
(* that is gone it raises, but the finally clause sets the event all the   *)
(* same and the waiting greenthread never learns.                          *)
ProcessTask ==
    /\ tasks # << >>
    /\ tasks' = Tail(tasks)
    /\ unacked' = unacked \ {Head(tasks)}
    /\ state' = [state EXCEPT ![Head(tasks)] = "acked"]
    /\ UNCHANGED <<clientVars, ready, copies, replyq, reachable, incoming, cache,
                   answer, obsolete, faultVars, historyVars>>

-----------------------------------------------------------------------------
(* A worker greenthread: RPCServer._process_incoming.                      *)

(* message.acknowledge() hands the ack to the polling thread and waits.    *)
Acknowledge(d) ==
    /\ state[d] = "submitted"
    /\ state' = [state EXCEPT ![d] = "acking"]
    /\ tasks' = Append(tasks, d)
    /\ UNCHANGED <<clientVars, brokerVars, incoming, cache, answer, obsolete,
                   faultVars, historyVars>>

(* Fault: the id is never recorded. *)
RememberNot(c, m) == c

(* deque.append with maxlen: the oldest id falls out. *)
Remember(c, m) ==
    IF m \in Elems(c) THEN c
    ELSE IF Len(c) < CacheSize THEN Append(c, m) ELSE Append(Tail(c), m)

(* The ack was processed: record the unique_id and dispatch the message.   *)
Dispatch(d) ==
    /\ state[d] = "acked"
    /\ cache' = Remember(cache, d[1])
    /\ state' = [state EXCEPT ![d] = "running"]
    /\ ran' = ran \cup {d}
    /\ UNCHANGED <<clientVars, brokerVars, incoming, tasks, answer, obsolete, faultVars,
                   expired, abandoned, discarded>>

(* The endpoint method returns or raises. *)
Finish(d) ==
    /\ state[d] = "running"
    /\ \E a \in Answer : answer' = [answer EXCEPT ![d] = a]
    /\ state' = [state EXCEPT ![d] = "replying"]
    /\ UNCHANGED <<clientVars, brokerVars, incoming, tasks, cache, obsolete, faultVars,
                   historyVars>>

(* Without a msg_id there is nobody to reply to, and a reply queue known   *)
(* to be gone is not tried, even if it is back in the meantime.            *)
SkipReply(d) ==
    /\ state[d] = "replying" /\ (d[1] \in Cast \/ obsolete)
    /\ state' = [state EXCEPT ![d] = "dropped"]
    /\ UNCHANGED <<clientVars, brokerVars, incoming, tasks, cache, answer, obsolete,
                   faultVars, historyVars>>

(* direct_send: the passive exchange of the reply queue must exist. *)
SendReply(d) ==
    /\ state[d] = "replying" /\ d[1] \in Call /\ ~obsolete /\ reachable
    /\ replyq' = Append(replyq, d)
    /\ state' = [state EXCEPT ![d] = "replied"]
    /\ UNCHANGED <<clientVars, ready, unacked, copies, reachable, incoming, tasks, cache,
                   answer, obsolete, faultVars, historyVars>>

(* The connection broke behind a reply: ensure publishes it once more.     *)
SendReplyAgain(d) ==
    /\ state[d] = "replying" /\ d[1] \in Call /\ ~obsolete /\ reachable
    /\ resends < MaxResends
    /\ replyq' = Append(replyq, d)
    /\ resends' = resends + 1
    /\ UNCHANGED <<clientVars, ready, unacked, copies, reachable, serverVars, drops,
                   outages, historyVars>>

(* Fault: the reply is tried again without a timer. *)
GiveUpNever(d) ==
    /\ state[d] = "replying" /\ d[1] \in Call /\ ~obsolete /\ ~reachable
    /\ UNCHANGED vars

(* AMQPDestinationNotFound until the timer ran out: the queue is recorded  *)
(* as gone and the reply abandoned.                                        *)
GiveUpReply(d) ==
    /\ state[d] = "replying" /\ d[1] \in Call /\ ~obsolete /\ ~reachable
    /\ obsolete' = TRUE
    /\ state' = [state EXCEPT ![d] = "dropped"]
    /\ UNCHANGED <<clientVars, brokerVars, incoming, tasks, cache, answer, faultVars,
                   historyVars>>

(* ensure gives up on the reply: _process_incoming logs the exception.     *)
ReplyRaises(d) ==
    /\ state[d] = "replying" /\ d[1] \in Call /\ ~obsolete
    /\ state' = [state EXCEPT ![d] = "dropped"]
    /\ UNCHANGED <<clientVars, brokerVars, incoming, tasks, cache, answer, obsolete,
                   faultVars, historyVars>>

(* The entry of the TTLCache is a minute old. *)
ForgetObsolete ==
    /\ obsolete
    /\ obsolete' = FALSE
    /\ UNCHANGED <<clientVars, brokerVars, incoming, tasks, cache, state, answer,
                   faultVars, historyVars>>

-----------------------------------------------------------------------------
ClientStep(m) ==
    \/ Listen(m) \/ Publish(m) \/ PublishAgain(m) \/ PublishFails(m)
    \/ GetReply(m) \/ WaitTimeout(m) \/ Unlisten(m)

WorkerStep(d) ==
    \/ Acknowledge(d) \/ Dispatch(d) \/ Finish(d) \/ SkipReply(d)
    \/ SendReply(d) \/ SendReplyAgain(d) \/ GiveUpReply(d) \/ ReplyRaises(d)

Next ==
    \/ \E m \in Msg : ClientStep(m) \/ Expire(m) \/ Deliver(m) \/ SkipDuplicate(m)
    \/ \E d \in Delivery : WorkerStep(d)
    \/ ReceiveReply \/ Submit \/ ProcessTask
    \/ ConnectionDrop \/ ServerRestart \/ ReplyQueueGone \/ ReplyQueueBack
    \/ ForgetObsolete

Spec == Init /\ [][Next]_vars

(* What the two processes and a broker that can be reached do by           *)
(* themselves: the threads run, the broker delivers to its consumers, the  *)
(* endpoint methods end, the timers of the call and of the reply run out.  *)
Progress ==
    \/ \E m \in Msg : \/ GetReply(m) \/ WaitTimeout(m) \/ Unlisten(m)
                      \/ Deliver(m) \/ SkipDuplicate(m)
    \/ \E d \in Delivery : \/ Acknowledge(d) \/ Dispatch(d) \/ Finish(d)
                           \/ SkipReply(d) \/ SendReply(d) \/ GiveUpReply(d)
    \/ ReceiveReply \/ Submit \/ ProcessTask

(* Fairness: while one of these steps is possible, they go on.  Nothing is *)
(* assumed about the faults, nor that a lost reply queue ever comes back,  *)
(* nor that the publication of a request ends: without a broker,           *)
(* Connection.ensure repeats it for ever unless rabbit_max_retries is set, *)
(* and the timer of a call starts only after its publication.              *)
FairSpec == Spec /\ WF_vars(Progress)

-----------------------------------------------------------------------------
(* Every variable has its type; the deque never exceeds its maxlen. *)
TypeOK ==
    /\ sender \in [Msg -> {"idle", "sending", "waiting", "leaving", "done"}]
    /\ result \in [Msg -> Answer \cup {"none", "timeout", "undelivered"}]
    /\ waiters \subseteq Call
    /\ inbox \in [Msg -> Seq(Delivery)]
    /\ ready \in [Msg -> Nat] /\ copies \in [Msg -> 0 .. MaxCopies]
    /\ unacked \subseteq Delivery
    /\ incoming \in Seq(Delivery) /\ tasks \in Seq(Delivery) /\ replyq \in Seq(Delivery)
    /\ cache \in Seq(Msg) /\ Len(cache) <= CacheSize
    /\ state \in [Delivery -> {"none"} \cup Live \cup Ended]
    /\ answer \in [Delivery -> Answer \cup {"none"}]
    /\ reachable \in BOOLEAN /\ obsolete \in BOOLEAN
    /\ drops \in Nat /\ resends \in Nat /\ outages \in Nat
    /\ ran \subseteq Delivery /\ discarded \subseteq Delivery
    /\ expired \subseteq Msg /\ abandoned \subseteq Msg

(* No leak of reply queues: exactly the calls inside _send's try/finally   *)
(* are registered in ReplyWaiters, however they end.                       *)
WaitersExact ==
    waiters = {m \in Call : sender[m] \in {"sending", "waiting", "leaving"}}

(* put() throws a reply away only when its caller is through with the      *)
(* call: registering before publishing closes the window in which a quick  *)
(* server's reply would find nobody waiting.                               *)
OnlyLateDiscarded == \A d \in discarded : sender[d[1]] = "done"

(* A caller gets an answer that an execution of its own request produced,  *)
(* whatever is delivered twice, late or after a reconnection.              *)
ReplyOfOwnRun ==
    \A m \in Msg : result[m] \in Answer =>
        m \in Call /\ \E d \in ran \cap CopiesOf(m) : answer[d] = result[m]

(* As long as the reply queue never went away, the reply of a finished     *)
(* request is on its way to a caller that still waits for one.             *)
ReplyNotLost ==
    outages = 0 =>
        \A d \in Delivery : state[d] = "replied" /\ sender[d[1]] = "waiting" =>
            d \in Elems(replyq) \cup Elems(inbox[d[1]])

(* A request that was published is waiting at the broker, being handled or *)
(* was dispatched, unless it expired or a crash hit it after its ack: lost *)
(* connections and failing acks lose nothing.                              *)
RequestNotLost ==
    \A m \in Msg :
        /\ sender[m] \in {"waiting", "leaving", "done"}
        /\ result[m] # "undelivered"
        => \/ ready[m] > 0
           \/ \E d \in CopiesOf(m) : state[d] \in Live \/ d \in ran
           \/ m \in expired \cup abandoned

(* A request is dispatched at most once as long as no connection breaks.   *)
OnceUndisturbed ==
    drops = 0 /\ resends = 0 =>
        \A m \in Msg : \A d, e \in ran \cap CopiesOf(m) : d = e

(* While a request is being executed, the message id cache keeps a copy of *)
(* it that arrives later from being accepted, if it is large enough.       *)
NotAcceptedWhileRunning ==
    [][CacheSize >= Cardinality(Msg) =>
        \A d \in Delivery : state[d] = "none" /\ state'[d] = "incoming" =>
            \A e \in CopiesOf(d[1]) : state[e] \notin {"running", "replying"}]_vars

(* The phases of a call, as its caller can tell them apart. *)
Phase(m) ==
    IF sender[m] = "idle" THEN "new"
    ELSE IF result[m] \in Answer THEN "returned"
    ELSE IF result[m] # "none" THEN result[m]
    ELSE IF sender[m] = "done" THEN "sent" ELSE "pending"

PhaseMap == [m \in Msg |-> Phase(m)]
ResultMap == [m \in Msg |-> IF result[m] \in Answer THEN result[m] ELSE "none"]
AnswersMap == [m \in Msg |-> {answer[d] : d \in CopiesOf(m)} \ {"none"}]

Contract == INSTANCE RpcContract
    WITH phase <- PhaseMap, result <- ResultMap, answers <- AnswersMap

(* The driver implements the contract of an RPC.                           *)
ImplementsContract == Contract!ContractSpec

(* A call that was published ends, whatever the server and the broker do   *)
(* from then on: the timer of wait() ends it at the latest, and the finally *)
(* clause is passed.                                                       *)
WaitEnds == \A m \in Call : sender[m] = "waiting" ~> sender[m] = "done"

(* Whatever the listener accepts leaves the server, also when its ack      *)
(* fails on a lost channel and when the reply queue is gone for good:      *)
(* after the last of the (finitely many) deliveries nothing stays in       *)
(* progress.                                                               *)
DeliveryEnds ==
    (\E d \in Delivery : state[d] = "incoming") ~> (\A d \in Delivery : state[d] \notin Live)

(* A cast that was published is executed, unless the server crashes with   *)
(* it after the acknowledgement, which precedes the dispatch.              *)
CastRuns ==
    \A m \in Cast :
        sender[m] = "done" /\ result[m] = "none"
            ~> (m \in abandoned \/ \E d \in CopiesOf(m) : d \in ran)

(* check_duplicate_message says that it prevents a message from being read *)
(* twice when exceptions occur before the ack is returned. The code does   *)
(* not keep it (README, section 3).                                        *)
AtMostOnce == \A m \in Msg : \A d, e \in ran \cap CopiesOf(m) : d = e

-----------------------------------------------------------------------------
(* The parts of the inductive invariant behind these properties.           *)

(* What a stage of _send says about the outcome and about the broker. *)
SendInv ==
    \A m \in Msg :
        /\ sender[m] = "idle" => ready[m] = 0 /\ copies[m] = 0
        /\ sender[m] \in {"idle", "sending", "waiting"} => result[m] = "none"
        /\ sender[m] \in {"waiting", "leaving"} => m \in Call
        /\ sender[m] \in {"leaving", "done"} /\ m \in Call => result[m] # "none"

(* Copies are numbered in the order they are delivered, and only what is   *)
(* not yet acknowledged can be delivered again.                            *)
CopyInv ==
    /\ \A d \in Delivery : d[2] > copies[d[1]] => state[d] = "none"
    /\ \A d \in unacked : state[d] \in Unacked

(* The queues of the polling thread hold each delivery once, at its stage. *)
QueueInv ==
    /\ \A i \in 1 .. Len(incoming) : state[incoming[i]] = "incoming"
    /\ \A i, j \in 1 .. Len(incoming) : incoming[i] = incoming[j] => i = j
    /\ \A i \in 1 .. Len(tasks) : state[tasks[i]] = "acking"
    /\ \A i, j \in 1 .. Len(tasks) : tasks[i] = tasks[j] => i = j

(* An answer exists from the end of the endpoint method on, not before. *)
AnswerInv ==
    \A d \in Delivery :
        /\ state[d] \in {"none", "acked", "running", "skipped"} \cup Unacked => answer[d] = "none"
        /\ state[d] \in {"replying", "replied"} => answer[d] \in Answer
        /\ state[d] = "running" \/ answer[d] # "none" => d \in ran

(* What travels back is an answer, to the call that asked for it. *)
ReplyInv ==
    /\ \A i \in 1 .. Len(replyq) : replyq[i][1] \in Call /\ answer[replyq[i]] \in Answer
    /\ \A m \in Msg : \A i \in 1 .. Len(inbox[m]) :
            inbox[m][i][1] = m /\ answer[inbox[m][i]] \in Answer
    /\ \A d \in discarded : answer[d] # "none"

RpcInv ==
    /\ TypeOK /\ SendInv /\ CopyInv /\ QueueInv /\ AnswerInv /\ ReplyInv
    /\ WaitersExact /\ OnlyLateDiscarded /\ ReplyOfOwnRun
=============================================================================
