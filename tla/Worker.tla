------------------------------- MODULE Worker -------------------------------
(***************************************************************************)
(* The queue worker of ai_module: one process that consumes analysis       *)
(* requests from the RabbitMQ input queue (worker/consumer.py), runs the   *)
(* pipeline on each, publishes an answer to the output queue with bounded  *)
(* retries (worker/publisher.py) and then settles the request, over one    *)
(* robust connection (adapters/rabbitmq_adapter.py) that is opened and     *)
(* closed by the application's lifespan (main.py).                         *)
(*                                                                         *)
(* Every `await' of the code is a point where other handlers, the broker   *)
(* and the process's life may move, so a handler is a record that advances *)
(* one awaited call at a time.  The pipeline is one step with its possible *)
(* outcomes; module Pipeline opens it.                                     *)
(*                                                                         *)
(* The broker, aio-pika and the sender of requests are not in the          *)
(* repository: they are modelled from how the code uses them.              *)
(***************************************************************************)
EXTENDS Integers, FiniteSets

CONSTANTS
    Messages,           \* the requests that may be sent, in order of arrival
    Malformed,          \* those that fail the JSON, schema or base64 checks
    PrefetchCount,      \* RABBITMQ_PREFETCH_COUNT; 0 is AMQP's "no limit"
    MaxPublishAttempts, \* _MAX_PUBLISH_ATTEMPTS
    ResultsBound,       \* is the output queue bound to the exchange?
    AckTimeout,         \* does the broker enforce an acknowledgement timeout?
    Disturbances,       \* the kinds of disturbance that may happen
    MaxDisturbances     \* BOUND: how many of them in one behaviour

DisturbanceKinds ==
    { "connection",     \* the connection to the broker is lost
      "slow",           \* an analysis outlasts the acknowledgement timeout
      "crash",          \* the process dies
      "stop",           \* the application is shut down
      "start",          \* MessageConsumer.start() raises
      "publish",        \* a publish attempt raises, nothing was published
      "confirm",        \* a publish attempt raises after the broker took it
      "blank" }         \* the pipeline raises an exception whose str() is blank

ASSUME MessagesAssumption == Messages \subseteq Nat /\ IsFiniteSet(Messages)
ASSUME MalformedAssumption == Malformed \subseteq Messages
ASSUME PrefetchAssumption == PrefetchCount \in Nat
ASSUME AttemptsAssumption == MaxPublishAttempts \in Nat \ {0}
ASSUME TopologyAssumption == /\ ResultsBound \in BOOLEAN
                             /\ AckTimeout \in BOOLEAN
ASSUME DisturbancesAssumption == /\ Disturbances \subseteq DisturbanceKinds
                                 /\ MaxDisturbances \in Nat

VARIABLES
    request,      \* where the broker has each request
    deliveries,   \* how many times each request was delivered
    answers,      \* copies of each kind of answer in the output queue
    handlers,     \* the _handle_message coroutines of the process
    process,      \* the life of the process
    consumer,     \* the subscription made by MessageConsumer
    link,         \* the process's connection to the broker
    metrics,      \* the queue counters of core/metrics.py
    disturbances  \* how many disturbances have happened

brokerVars  == <<request, deliveries, answers>>
processVars == <<process, consumer, link>>
vars == <<brokerVars, handlers, processVars, metrics, disturbances>>

-----------------------------------------------------------------------------
(* Data.                                                                   *)

Answer == {"success", "error"}

Places == {"unsent", "ready", "unacked", "acked", "rejected"}

\* A coroutine of _handle_message: the request, which of its deliveries this
\* is (the delivery tag), the await it stands at, the answer it has to give
\* and the publish attempts that failed so far.
Handler ==
    [ msg     : Messages,
      nth     : Nat,
      stage   : {"received", "nack", "pipeline", "publish", "ack"},
      answer  : Answer \cup {"none"},
      attempt : 0 .. MaxPublishAttempts - 1 ]

Counters == { "consumed", "validationErrors", "pipelineErrors",
              "resultsPublished", "errorsPublished", "publishFailures" }

ZeroMetrics == [c \in Counters |-> 0]

Count(counter) == metrics' = [metrics EXCEPT ![counter] = @ + 1]

\* The settlement of a delivery reaches the broker only on the channel that
\* delivered it: once the request went back to the queue, the tag is void.
Holds(h) == request[h.msg] = "unacked" /\ deliveries[h.msg] = h.nth

\* Unsettled on an open channel, and no coroutine is left to settle it.
Stranded(m) == /\ request[m] = "unacked"
               /\ \A h \in handlers : h.msg = m => ~Holds(h)

Unacked == {m \in Messages : request[m] = "unacked"}

Copies(m) == answers[m]["success"] + answers[m]["error"]

Disturb(kind) == /\ kind \in Disturbances
                 /\ disturbances < MaxDisturbances
                 /\ disturbances' = disturbances + 1

Init ==
    /\ request = [m \in Messages |-> "unsent"]
    /\ deliveries = [m \in Messages |-> 0]
    /\ answers = [m \in Messages |-> [a \in Answer |-> 0]]
    /\ handlers = {}
    /\ process = "off"
    /\ consumer = "none"
    /\ link = "none"
    /\ metrics = ZeroMetrics
    /\ disturbances = 0

-----------------------------------------------------------------------------
(* The broker, and the sender of requests.                                 *)

\* The requesting system publishes its next request.
Submit(m) ==
    /\ request[m] = "unsent"
    /\ \A k \in Messages : k < m => request[k] # "unsent"
    /\ request' = [request EXCEPT ![m] = "ready"]
    /\ UNCHANGED <<deliveries, answers, handlers, processVars, metrics, disturbances>>

\* Mutant of Deliver: the prefetch count was never set on the channel.
DeliverWithoutPrefetch(m) ==
    /\ consumer = "consuming"
    /\ link = "open"
    /\ request[m] = "ready"
    /\ \A k \in Messages : request[k] = "ready" => m <= k
    /\ request' = [request EXCEPT ![m] = "unacked"]
    /\ deliveries' = [deliveries EXCEPT ![m] = @ + 1]
    /\ handlers' = handlers \cup
          {[msg |-> m, nth |-> deliveries[m] + 1, stage |-> "received",
            answer |-> "none", attempt |-> 0]}
    /\ UNCHANGED <<answers, processVars, metrics, disturbances>>

\* The broker pushes the oldest ready request to the consumer, as long as the
\* unsettled deliveries of its channel are fewer than the prefetch count.
Deliver(m) ==
    /\ consumer = "consuming"
    /\ link = "open"
    /\ request[m] = "ready"
    /\ \A k \in Messages : request[k] = "ready" => m <= k
    /\ PrefetchCount = 0 \/ Cardinality(Unacked) < PrefetchCount
    /\ request' = [request EXCEPT ![m] = "unacked"]
    /\ deliveries' = [deliveries EXCEPT ![m] = @ + 1]
    /\ handlers' = handlers \cup
          {[msg |-> m, nth |-> deliveries[m] + 1, stage |-> "received",
            answer |-> "none", attempt |-> 0]}
    /\ UNCHANGED <<answers, processVars, metrics, disturbances>>

\* A channel ends: the broker takes back what it has not seen settled.
RequeueUnacked ==
    request' = [m \in Messages |-> IF m \in Unacked THEN "ready" ELSE request[m]]

\* When a channel ends, the client library may cancel any of the coroutines it
\* started for it; those that go on hold a void delivery.
SomeHandlersCancelled == handlers' \in SUBSET handlers

ConnectionLost ==
    /\ link = "open"
    /\ Disturb("connection")
    /\ link' = "lost"
    /\ RequeueUnacked
    /\ SomeHandlersCancelled
    /\ UNCHANGED <<deliveries, answers, process, consumer, metrics>>

\* Mutant of Reconnect: connect() in the place of connect_robust().
ReconnectWithoutConsumer ==
    /\ link = "lost"
    /\ link' = "open"
    /\ consumer' = "none"
    /\ UNCHANGED <<brokerVars, handlers, process, metrics, disturbances>>

\* connect_robust() reconnects and restores channel, queue and consumer.
Reconnect ==
    /\ link = "lost"
    /\ link' = "open"
    /\ UNCHANGED <<brokerVars, handlers, process, consumer, metrics, disturbances>>

\* A delivery nobody will settle makes the broker close the channel of the
\* consumer; the robust channel reopens and consumes again.
AckTimeoutClose ==
    /\ AckTimeout
    /\ link = "open"
    /\ \E m \in Messages : Stranded(m)
    /\ RequeueUnacked
    /\ SomeHandlersCancelled
    /\ UNCHANGED <<deliveries, answers, processVars, metrics, disturbances>>

\* The timeout strikes a delivery that is still in work: the broker closes the
\* channel, over the open connection, and delivers the request again.
AckTimeoutSlow ==
    /\ AckTimeout
    /\ link = "open"
    /\ Unacked # {}
    /\ Disturb("slow")
    /\ RequeueUnacked
    /\ SomeHandlersCancelled
    /\ UNCHANGED <<deliveries, answers, processVars, metrics>>

-----------------------------------------------------------------------------
(* MessageConsumer._handle_message, one awaited call at a time.            *)

Advance(h, g) == handlers' = (handlers \ {h}) \cup {g}

Finish(h) == handlers' = handlers \ {h}

\* Steps 1 to 3: decode, validate, base64.  No await comes between the
\* verdict and the counter.
Receive(h) ==
    /\ h.stage = "received"
    /\ IF h.msg \in Malformed
       THEN Count("validationErrors") /\ Advance(h, [h EXCEPT !.stage = "nack"])
       ELSE Count("consumed") /\ Advance(h, [h EXCEPT !.stage = "pipeline"])
    /\ UNCHANGED <<brokerVars, processVars, disturbances>>

\* message.nack(requeue=False)
Nack(h) ==
    /\ h.stage = "nack"
    /\ Holds(h)
    /\ request' = [request EXCEPT ![h.msg] = "rejected"]
    /\ Finish(h)
    /\ UNCHANGED <<deliveries, answers, processVars, metrics, disturbances>>

\* Mutant of PipelineReturns: acknowledges first, and publishes never.
PipelineReturnsAckFirst(h) ==
    /\ h.stage = "pipeline"
    /\ Advance(h, [h EXCEPT !.stage = "ack", !.answer = "success"])
    /\ UNCHANGED <<brokerVars, processVars, metrics, disturbances>>

\* run_pipeline() returned: a success response is to be published.
PipelineReturns(h) ==
    /\ h.stage = "pipeline"
    /\ Advance(h, [h EXCEPT !.stage = "publish", !.answer = "success"])
    /\ UNCHANGED <<brokerVars, processVars, metrics, disturbances>>

\* Mutant of PipelineRaises: nacks a request whose analysis failed.
PipelineRaisesNack(h) ==
    /\ h.stage = "pipeline"
    /\ Count("pipelineErrors")
    /\ Advance(h, [h EXCEPT !.stage = "nack"])
    /\ UNCHANGED <<brokerVars, processVars, disturbances>>

\* run_pipeline() raised: each of the four except clauses counts the error
\* and publishes an error response.
PipelineRaises(h) ==
    /\ h.stage = "pipeline"
    /\ Count("pipelineErrors")
    /\ Advance(h, [h EXCEPT !.stage = "publish", !.answer = "error"])
    /\ UNCHANGED <<brokerVars, processVars, disturbances>>

\* run_pipeline() raised an exception whose str() is blank: the model of the
\* error response refuses it, and that second exception leaves the handler.
PipelineRaisesBlank(h) ==
    /\ h.stage = "pipeline"
    /\ Disturb("blank")
    /\ Count("pipelineErrors")
    /\ Finish(h)
    /\ UNCHANGED <<brokerVars, processVars>>

\* message.ack()
Ack(h) ==
    /\ h.stage = "ack"
    /\ Holds(h)
    /\ request' = [request EXCEPT ![h.msg] = "acked"]
    /\ Finish(h)
    /\ UNCHANGED <<deliveries, answers, processVars, metrics, disturbances>>

\* Mutant of SettleRaises: sends the request again when it cannot settle it.
SettleRaisesResend(h) ==
    /\ h.stage \in {"ack", "nack"}
    /\ ~Holds(h)
    /\ Finish(h)
    /\ request' = [request EXCEPT ![h.msg] = "ready"]
    /\ UNCHANGED <<deliveries, answers, processVars, metrics, disturbances>>

\* ack() or nack() on a channel that is gone: the call raises, the coroutine
\* ends, and the broker hears nothing.
SettleRaises(h) ==
    /\ h.stage \in {"ack", "nack"}
    /\ ~Holds(h)
    /\ Finish(h)
    /\ UNCHANGED <<brokerVars, processVars, metrics, disturbances>>

-----------------------------------------------------------------------------
(* RabbitMQResultPublisher._publish: each attempt opens a channel of its   *)
(* own, so it does not depend on the channel of the delivery.              *)

\* The broker routes the answer, if the output queue is bound; it confirms an
\* unroutable message all the same.
Enqueue(h) ==
    answers' = IF ResultsBound
               THEN [answers EXCEPT ![h.msg][h.answer] = @ + 1]
               ELSE answers

\* Mutant of PublishConfirmed: no return after the attempt that succeeded.
PublishConfirmedGoesOn(h) ==
    /\ h.stage = "publish"
    /\ link = "open"
    /\ Enqueue(h)
    /\ Count(IF h.answer = "success" THEN "resultsPublished" ELSE "errorsPublished")
    /\ Advance(h, IF h.attempt < MaxPublishAttempts - 1
                  THEN [h EXCEPT !.attempt = @ + 1]
                  ELSE [h EXCEPT !.stage = "ack"])
    /\ UNCHANGED <<request, deliveries, processVars, disturbances>>

PublishConfirmed(h) ==
    /\ h.stage = "publish"
    /\ link = "open"
    /\ Enqueue(h)
    /\ Count(IF h.answer = "success" THEN "resultsPublished" ELSE "errorsPublished")
    /\ Advance(h, [h EXCEPT !.stage = "ack"])
    /\ UNCHANGED <<request, deliveries, processVars, disturbances>>

\* Mutants of AttemptFailed: one attempt too many; the error swallowed after
\* the last attempt; every attempt counted as a failure; none counted.
AttemptFailedOneMore(h) ==
    IF h.attempt < MaxPublishAttempts
    THEN /\ Advance(h, [h EXCEPT !.attempt = @ + 1])
         /\ UNCHANGED metrics
    ELSE /\ Finish(h)
         /\ Count("publishFailures")

AttemptFailedSwallowed(h) ==
    IF h.attempt < MaxPublishAttempts - 1
    THEN /\ Advance(h, [h EXCEPT !.attempt = @ + 1])
         /\ UNCHANGED metrics
    ELSE /\ Advance(h, [h EXCEPT !.stage = "ack"])
         /\ Count("publishFailures")

AttemptFailedCountedEach(h) ==
    /\ IF h.attempt < MaxPublishAttempts - 1
       THEN Advance(h, [h EXCEPT !.attempt = @ + 1])
       ELSE Finish(h)
    /\ Count("publishFailures")

AttemptFailedUncounted(h) ==
    /\ IF h.attempt < MaxPublishAttempts - 1
       THEN Advance(h, [h EXCEPT !.attempt = @ + 1])
       ELSE Finish(h)
    /\ UNCHANGED metrics

\* The except clause of the loop: sleep and go round again, or, after the last
\* attempt, count the failure and re-raise it, which ends the handler.
AttemptFailed(h) ==
    IF h.attempt < MaxPublishAttempts - 1
    THEN /\ Advance(h, [h EXCEPT !.attempt = @ + 1])
         /\ UNCHANGED metrics
    ELSE /\ Finish(h)
         /\ Count("publishFailures")

\* The attempt raises although the broker has the message: the confirmation
\* was lost.
PublishUnconfirmed(h) ==
    /\ h.stage = "publish"
    /\ link = "open"
    /\ Disturb("confirm")
    /\ Enqueue(h)
    /\ AttemptFailed(h)
    /\ UNCHANGED <<request, deliveries, processVars>>

\* The attempt raises and nothing was published; without a connection it
\* needs no further disturbance.
PublishRaises(h) ==
    /\ h.stage = "publish"
    /\ IF link = "open" THEN Disturb("publish") ELSE UNCHANGED disturbances
    /\ AttemptFailed(h)
    /\ UNCHANGED <<brokerVars, processVars>>

-----------------------------------------------------------------------------
(* main.lifespan: the life of the process.                                 *)

\* Startup: adapter.connect() retries until it succeeds, then the task of
\* consumer.start() is created.
Boot ==
    /\ process = "off"
    /\ process' = "running"
    /\ link' = "open"
    /\ consumer' = "starting"
    /\ UNCHANGED <<brokerVars, handlers, metrics, disturbances>>

\* MessageConsumer.start(): declare, bind, consume.
StartConsumer ==
    /\ consumer = "starting"
    /\ link = "open"
    /\ consumer' = "consuming"
    /\ UNCHANGED <<brokerVars, handlers, process, link, metrics, disturbances>>

\* start() raises: its task ends, and nobody looks at it.
StartConsumerRaises ==
    /\ consumer = "starting"
    /\ Disturb("start")
    /\ consumer' = "failed"
    /\ UNCHANGED <<brokerVars, handlers, process, link, metrics>>

\* MessageConsumer.stop(): an exception of cancel() is swallowed, and then the
\* client library still knows the consumer and restores it on reconnection.  A
\* start() that is still under way is cancelled, perhaps after the broker has
\* begun to deliver.
StopConsumer ==
    /\ process = "running"
    /\ Disturb("stop")
    /\ process' = "draining"
    /\ consumer' \in IF \/ consumer = "consuming" /\ link = "lost"
                        \/ consumer = "starting" /\ link = "open"
                     THEN {"none", "consuming"}
                     ELSE {"none"}
    /\ UNCHANGED <<brokerVars, handlers, link, metrics>>

\* RabbitMQAdapter.disconnect(): it does not wait for the handlers.
Disconnect ==
    /\ process = "draining"
    /\ process' = "closed"
    /\ link' = "none"
    /\ consumer' = "none"
    /\ RequeueUnacked
    /\ SomeHandlersCancelled
    /\ UNCHANGED <<deliveries, answers, metrics, disturbances>>

\* The end of the process takes the coroutines and the counters with it.
Exit ==
    /\ process = "closed"
    /\ process' = "off"
    /\ handlers' = {}
    /\ metrics' = ZeroMetrics
    /\ UNCHANGED <<brokerVars, consumer, link, disturbances>>

Crash ==
    /\ process # "off"
    /\ Disturb("crash")
    /\ process' = "off"
    /\ link' = "none"
    /\ consumer' = "none"
    /\ RequeueUnacked
    /\ handlers' = {}
    /\ metrics' = ZeroMetrics
    /\ UNCHANGED <<deliveries, answers>>

-----------------------------------------------------------------------------
HandlerStep(h) ==
    \/ Receive(h)
    \/ Nack(h)
    \/ PipelineReturns(h)
    \/ PipelineRaises(h)
    \/ PipelineRaisesBlank(h)
    \/ PublishConfirmed(h)
    \/ PublishUnconfirmed(h)
    \/ PublishRaises(h)
    \/ Ack(h)
    \/ SettleRaises(h)

Next ==
    \/ \E m \in Messages : Submit(m) \/ Deliver(m)
    \/ \E h \in handlers : HandlerStep(h)
    \/ ConnectionLost \/ Reconnect \/ AckTimeoutClose \/ AckTimeoutSlow
    \/ Boot \/ StartConsumer \/ StartConsumerRaises
    \/ StopConsumer \/ Disconnect \/ Exit \/ Crash

Spec == Init /\ [][Next]_vars

\* The event loop runs every coroutine that can run; the broker delivers while
\* it may; the robust connection retries for ever; a shutdown, once begun, is
\* not suspended.  Nobody promises that requests are sent, that the process is
\* started, stopped or killed, or that anything goes wrong.
Fairness ==
    /\ \A m \in Messages :
          WF_vars(\E h \in handlers : h.msg = m /\ HandlerStep(h))
    /\ WF_vars(\E m \in Messages : Deliver(m))
    /\ WF_vars(Reconnect)
    /\ WF_vars(AckTimeoutClose)
    /\ WF_vars(StartConsumer)
    /\ WF_vars(Disconnect)
    /\ WF_vars(Exit)

FairSpec == Spec /\ Fairness

-----------------------------------------------------------------------------
(* Properties.                                                             *)

\* The shape of the state.
TypeOK ==
    /\ request \in [Messages -> Places]
    /\ deliveries \in [Messages -> Nat]
    /\ answers \in [Messages -> [Answer -> Nat]]
    /\ handlers \subseteq Handler
    /\ process \in {"off", "running", "draining", "closed"}
    /\ consumer \in {"none", "starting", "consuming", "failed"}
    /\ link \in {"none", "open", "lost"}
    /\ metrics \in [Counters -> Nat]
    /\ disturbances \in Nat

\* No request is lost silently: one the worker acknowledged has an answer in
\* the output queue, whatever connection losses, crashes, redeliveries and
\* publish retries came between (publish, then ack: consumer.py).
AckedIsAnswered == \A m \in Messages : request[m] = "acked" => Copies(m) > 0

\* A request is rejected without an answer exactly when it is malformed: no
\* failure of the pipeline or of the publisher rejects a good request, and no
\* malformed one reaches the pipeline or is answered (consumer.py steps 1-3).
VerdictMatchesRequest ==
    \A m \in Messages :
        /\ request[m] = "rejected" => m \in Malformed
        /\ request[m] = "acked" \/ Copies(m) > 0 => m \notin Malformed

\* Duplicate answers have a cause each: a request has at most one answer more
\* than there were disturbances, so exactly one when nothing went wrong.  The
\* redelivery of a stranded request and a retry after a lost confirmation
\* both draw on the disturbance that caused them.
DuplicatesHaveACause == \A m \in Messages : Copies(m) <= 1 + disturbances

AtStage(stages) == {h \in handlers : h.stage \in stages}

\* The counters tell no more outcomes than requests consumed: every consumed
\* request is still in work or was counted at most once, as a published result,
\* a published error or a publish failure; every pipeline error likewise.
OutcomesNeverOvercounted ==
    /\ metrics["resultsPublished"] + metrics["errorsPublished"]
         + metrics["publishFailures"] + Cardinality(AtStage({"pipeline", "publish"}))
       <= metrics["consumed"]
    /\ metrics["errorsPublished"]
         + Cardinality({h \in AtStage({"publish"}) : h.answer = "error"})
       <= metrics["pipelineErrors"]

\* Prefetch is back-pressure on the work of the process, and not only on the
\* deliveries of a channel: coroutines that outlive their channel add at most
\* one prefetch count for each disturbance (rabbitmq_adapter.py get_channel).
WorkBounded ==
    PrefetchCount > 0 =>
        Cardinality(handlers) <= PrefetchCount * (1 + disturbances)

\* A request once settled stays settled, and keeps its verdict: a coroutine that
\* outlived its channel can neither settle the delivery of another nor bring a
\* settled request back.
SettledForGood ==
    [][\A m \in Messages :
          request[m] \in {"acked", "rejected"} => request'[m] = request[m]]_vars

\* If the process eventually stays up, every request sent is settled: neither
\* a failing publisher, a lost connection nor a full prefetch window holds a
\* request for ever.  It takes the broker's acknowledgement timeout: see
\* FailuresSurface.
EventuallySettled ==
    <>[](process = "running") =>
        \A m \in Messages :
            request[m] \in {"ready", "unacked"} ~> request[m] \in {"acked", "rejected"}

\* A publication that failed is surfaced so that the message can be retried
\* (spec.md ERR-005): whoever gives up a delivery on an open channel tells the
\* broker, and leaves none unsettled behind.
FailuresSurface == \A m \in Messages : ~Stranded(m)

=============================================================================
