------------------------------ MODULE Lifespan ------------------------------
(***************************************************************************)
(* The life of one process of ai_module: startup and shutdown by lifespan  *)
(* (main.py), the loop that connects (adapters/rabbitmq_adapter.py), the   *)
(* background task that subscribes and its cancellation                    *)
(* (worker/consumer.py start and stop), and the three globals behind       *)
(* GET /health (core/state.py, api/routes/health.py).                      *)
(*                                                                         *)
(* Module Worker sees startup, subscription and shutdown as one step each; *)
(* here each of their awaits is a step, and the last property says that    *)
(* nothing comes of it that Worker does not have.                          *)
(***************************************************************************)
EXTENDS Integers

CONSTANTS
    MaxDelay,         \* RABBITMQ_RECONNECT_MAX_DELAY_SECONDS
    MaxDisturbances   \* BOUND: losses, failed starts, shutdowns and crashes

ASSUME DelayAssumption == MaxDelay \in Nat \ {0}
ASSUME BoundAssumption == MaxDisturbances \in Nat

VARIABLES
    settings,     \* what of core/settings.py matters: read once, never changed
    phase,        \* how far lifespan() has come
    delay,        \* the local variable of connect()
    broker,       \* can the broker be reached?
    link,         \* the adapter's connection; "lost" while it is restored
    task,         \* worker_task, the task of consumer.start()
    tag,          \* is _consumer_tag set?
    subscribed,   \* does the broker, or the library that restores, know a consumer?
    flags,        \* the globals of core/state.py
    disturbances  \* how many disturbances have happened

vars == <<settings, phase, delay, broker, link, task, tag, subscribed, flags, disturbances>>

-----------------------------------------------------------------------------
Settings == [workerEnabled : BOOLEAN, keyPresent : BOOLEAN]

Phases == {"off", "connecting", "serving", "stopping", "cancelling", "disconnecting", "closed"}

\* consumer.start() opens its channel, then declares, binds and consumes.
Starting == {"opening", "declaring"}

Flags == [serviceHealthy : BOOLEAN, queueConnected : BOOLEAN, adapterSet : BOOLEAN]

ZeroFlags == [serviceHealthy |-> FALSE, queueConnected |-> FALSE, adapterSet |-> FALSE]

\* Mutant of Lesser: the delay grows without a cap.
FirstOf(a, b) == a

Lesser(a, b) == IF a < b THEN a ELSE b

Disturb == /\ disturbances < MaxDisturbances
           /\ disturbances' = disturbances + 1

Init ==
    /\ settings \in Settings
    /\ phase = "off"
    /\ delay = 1
    /\ broker \in {"up", "down"}
    /\ link = "none"
    /\ task = "none"
    /\ tag = FALSE
    /\ subscribed = FALSE
    /\ flags = ZeroFlags
    /\ disturbances = 0

-----------------------------------------------------------------------------
(* Startup.                                                                *)

\* The keys are checked; without the worker there is nothing to wait for.
Start ==
    /\ phase = "off"
    /\ phase' = IF settings.workerEnabled THEN "connecting" ELSE "serving"
    /\ delay' = 1
    /\ flags' = [flags EXCEPT !.serviceHealthy = settings.keyPresent]
    /\ UNCHANGED <<settings, broker, link, task, tag, subscribed, disturbances>>

\* Mutant of Connect: connect() without its loop.
ConnectAtOnce ==
    /\ phase = "connecting"
    /\ broker = "up"
    /\ delay = 1
    /\ link' = "open"
    /\ flags' = [flags EXCEPT !.queueConnected = TRUE, !.adapterSet = TRUE]
    /\ task' = "opening"
    /\ phase' = "serving"
    /\ UNCHANGED <<settings, delay, broker, tag, subscribed, disturbances>>

\* connect() returns; no await comes before the task is created.
Connect ==
    /\ phase = "connecting"
    /\ broker = "up"
    /\ link' = "open"
    /\ flags' = [flags EXCEPT !.queueConnected = TRUE, !.adapterSet = TRUE]
    /\ task' = "opening"
    /\ phase' = "serving"
    /\ UNCHANGED <<settings, delay, broker, tag, subscribed, disturbances>>

\* connect() catches everything, sleeps, and goes round again.
ConnectFails ==
    /\ phase = "connecting"
    /\ broker = "down"
    /\ delay' = Lesser(2 * delay, MaxDelay)
    /\ UNCHANGED <<settings, phase, broker, link, task, tag, subscribed, flags, disturbances>>

OpenChannel ==
    /\ phase = "serving"
    /\ task = "opening"
    /\ link = "open"
    /\ task' = "declaring"
    /\ UNCHANGED <<settings, phase, delay, broker, link, tag, subscribed, flags, disturbances>>

\* The last await of start() returns, and the task is done.
Subscribe ==
    /\ phase = "serving"
    /\ task = "declaring"
    /\ link = "open"
    /\ task' = "done"
    /\ tag' = TRUE
    /\ subscribed' = TRUE
    /\ UNCHANGED <<settings, phase, delay, broker, link, flags, disturbances>>

\* Any await of start() may raise; the exception stays in the task.
StartRaises ==
    /\ phase = "serving"
    /\ task \in Starting
    /\ Disturb
    /\ task' = "failed"
    /\ UNCHANGED <<settings, phase, delay, broker, link, tag, subscribed, flags>>

-----------------------------------------------------------------------------
(* Shutdown.                                                               *)

\* Mutant of AfterStop: the task is left alone.
AfterStopLeavesTask == IF ~settings.workerEnabled THEN "closed" ELSE "disconnecting"

\* Behind the await of consumer.stop(), if it has one: cancel a task that is
\* not done, and disconnect; without a worker only the globals are reset.
AfterStop == IF ~settings.workerEnabled THEN "closed"
             ELSE IF task \in Starting THEN "cancelling"
             ELSE "disconnecting"

\* stop() has nothing to await as long as it has no consumer tag.
Shutdown ==
    /\ phase = "serving"
    /\ Disturb
    /\ phase' = IF tag THEN "stopping" ELSE AfterStop
    /\ UNCHANGED <<settings, delay, broker, link, task, tag, subscribed, flags>>

\* Mutant of CancelConsumer: stop() forgets the tag and does not tell the broker.
CancelConsumerForgets ==
    /\ phase = "stopping"
    /\ tag' = FALSE
    /\ phase' = "disconnecting"
    /\ UNCHANGED <<settings, delay, broker, link, task, subscribed, flags, disturbances>>

\* stop(): queue.cancel() returns.
CancelConsumer ==
    /\ phase = "stopping"
    /\ link = "open"
    /\ subscribed' = FALSE
    /\ tag' = FALSE
    /\ phase' = AfterStop
    /\ UNCHANGED <<settings, delay, broker, link, task, flags, disturbances>>

\* stop(): queue.cancel() raises, which stop() swallows.
CancelConsumerRaises ==
    /\ phase = "stopping"
    /\ link = "lost"
    /\ subscribed' \in BOOLEAN
    /\ tag' = FALSE
    /\ phase' = AfterStop
    /\ UNCHANGED <<settings, delay, broker, link, task, flags, disturbances>>

\* Mutant of TaskCancelled: start() swallows the CancelledError and goes on.
TaskCancelledSwallowed ==
    /\ phase = "cancelling"
    /\ task = "opening"
    /\ task' = "declaring"
    /\ UNCHANGED <<settings, phase, delay, broker, link, tag, subscribed, flags, disturbances>>

\* The task ends with a CancelledError, perhaps after the broker has taken its
\* last request.
TaskCancelled ==
    /\ phase = "cancelling"
    /\ task' = "cancelled"
    /\ subscribed' \in IF link = "open" THEN BOOLEAN ELSE {FALSE}
    /\ phase' = "disconnecting"
    /\ UNCHANGED <<settings, delay, broker, link, tag, flags, disturbances>>

\* Mutant of Disconnect: the flag behind the adapter is not reset.
DisconnectKeepsFlag ==
    /\ phase = "disconnecting"
    /\ link' = "none"
    /\ subscribed' = FALSE
    /\ flags' = [flags EXCEPT !.adapterSet = FALSE]
    /\ phase' = "closed"
    /\ UNCHANGED <<settings, delay, broker, task, tag, disturbances>>

\* disconnect() suppresses every exception; the globals follow at once.
Disconnect ==
    /\ phase = "disconnecting"
    /\ link' = "none"
    /\ subscribed' = FALSE
    /\ flags' = [flags EXCEPT !.queueConnected = FALSE, !.adapterSet = FALSE]
    /\ phase' = "closed"
    /\ UNCHANGED <<settings, delay, broker, task, tag, disturbances>>

\* The process ends; or the application is started again in the same process,
\* as the tests do, and finds the globals as they were left.
Exit ==
    /\ phase = "closed"
    /\ phase' = "off"
    /\ task' = "none"
    /\ flags' \in {flags, ZeroFlags}
    /\ UNCHANGED <<settings, delay, broker, link, tag, subscribed, disturbances>>

\* The process dies.  It costs a disturbance of its own unless it happens
\* before the process serves or takes the place of a shutdown.
Crash ==
    /\ phase # "off"
    /\ IF phase \in {"connecting", "stopping", "cancelling"}
       THEN UNCHANGED disturbances
       ELSE Disturb
    /\ phase' = "off"
    /\ link' = "none"
    /\ task' = "none"
    /\ tag' = FALSE
    /\ subscribed' = FALSE
    /\ flags' = ZeroFlags
    /\ UNCHANGED <<settings, delay, broker>>

-----------------------------------------------------------------------------
(* The broker and the network.                                             *)

LoseLink == /\ link = "open"
            /\ Disturb
            /\ link' = "lost"

ConnectionLost ==
    /\ LoseLink
    /\ UNCHANGED <<settings, phase, delay, broker, task, tag, subscribed, flags>>

BrokerGoes ==
    /\ broker = "up"
    /\ broker' = "down"
    /\ \/ LoseLink
       \/ link # "open" /\ UNCHANGED <<link, disturbances>>
    /\ UNCHANGED <<settings, phase, delay, task, tag, subscribed, flags>>

BrokerComes ==
    /\ broker = "down"
    /\ broker' = "up"
    /\ UNCHANGED <<settings, phase, delay, link, task, tag, subscribed, flags, disturbances>>

\* connect_robust() restores the connection, with its consumers.
Reconnect ==
    /\ link = "lost"
    /\ broker = "up"
    /\ link' = "open"
    /\ UNCHANGED <<settings, phase, delay, broker, task, tag, subscribed, flags, disturbances>>

-----------------------------------------------------------------------------
Next == \/ Start \/ Connect \/ ConnectFails
        \/ OpenChannel \/ Subscribe \/ StartRaises
        \/ Shutdown \/ CancelConsumer \/ CancelConsumerRaises
        \/ TaskCancelled \/ Disconnect \/ Exit \/ Crash
        \/ ConnectionLost \/ BrokerGoes \/ BrokerComes \/ Reconnect

Spec == Init /\ [][Next]_vars

\* The loops of connect() and of the robust connection go on, and the event
\* loop runs what can run.  That a cancel() on a lost connection raises in the
\* end is not assumed.
Fairness ==
    /\ WF_vars(Connect) /\ WF_vars(Reconnect)
    /\ WF_vars(OpenChannel) /\ WF_vars(Subscribe)
    /\ WF_vars(CancelConsumer) /\ WF_vars(TaskCancelled)
    /\ WF_vars(Disconnect) /\ WF_vars(Exit)

FairSpec == Spec /\ Fairness

-----------------------------------------------------------------------------
(* GET /health.                                                            *)

\* Whether is_closed tells a connection under restoration from an open one is
\* the library's business: lossVisible.
GetQueueConnected(lossVisible) ==
    IF flags.adapterSet
    THEN link = "open" \/ (link = "lost" /\ ~lossVisible)
    ELSE flags.queueConnected

HealthStatus == IF flags.serviceHealthy THEN 200 ELSE 503

-----------------------------------------------------------------------------
(* Properties.                                                             *)

\* The shape of the state.
TypeOK ==
    /\ settings \in Settings
    /\ phase \in Phases
    /\ delay \in 1 .. MaxDelay
    /\ broker \in {"up", "down"}
    /\ link \in {"none", "open", "lost"}
    /\ task \in {"none", "done", "failed", "cancelled"} \cup Starting
    /\ tag \in BOOLEAN
    /\ subscribed \in BOOLEAN
    /\ flags \in Flags
    /\ disturbances \in Nat

\* What /health says of the queue is the state of a connection that exists, in
\* every phase, also of a second life in the same process: neither global is
\* ever stale (core/state.py: "live RabbitMQ connection state").
QueueConnectedIsLive ==
    /\ GetQueueConnected(TRUE) <=> link = "open"
    /\ GetQueueConnected(FALSE) <=> link # "none"

\* Wherever a shutdown found the startup, nothing of the worker outlives it:
\* no connection, no consumer, no task that could subscribe later (main.py).
NothingOutlives ==
    phase \in {"off", "closed"} =>
        link = "none" /\ ~subscribed /\ ~tag /\ task \notin Starting

\* An application that is started comes to consume as soon as the broker stays
\* reachable, unless start() failed or somebody ends it (connect() loops).
StartupEnds ==
    <>[](broker = "up") =>
        (phase = "connecting" ~> \/ subscribed
                                  \/ task = "failed"
                                  \/ phase \notin {"connecting", "serving"})

\* A shutdown that began comes to its end if the broker stays reachable.
ShutdownEnds ==
    <>[](broker = "up") =>
        (phase \in {"stopping", "cancelling", "disconnecting"} ~> phase = "off")

\* The life that Worker gives a process without any message: what it calls
\* running begins with the connection and ends with the consumer; a shutdown
\* counts there when it has stopped the consumer.
processBar == CASE ~settings.workerEnabled -> "off"
                [] phase \in {"off", "connecting"} -> "off"
                [] phase = "disconnecting" -> "draining"
                [] phase = "closed" -> "closed"
                [] OTHER -> "running"

consumerBar == CASE subscribed -> "consuming"
                 [] phase \in {"serving", "cancelling"} /\ task \in Starting -> "starting"
                 [] phase = "serving" /\ task = "failed" -> "failed"
                 [] OTHER -> "none"

disturbancesBar == CASE ~settings.workerEnabled -> 0
                     [] phase \in {"stopping", "cancelling"} -> disturbances - 1
                     [] OTHER -> disturbances

W == INSTANCE Worker WITH
        Messages <- {}, Malformed <- {}, PrefetchCount <- 1, MaxPublishAttempts <- 1,
        ResultsBound <- TRUE, AckTimeout <- FALSE,
        Disturbances <- {"connection", "crash", "stop", "start"},
        request <- <<>>, deliveries <- <<>>, answers <- <<>>, handlers <- {},
        metrics <- [c \in { "consumed", "validationErrors", "pipelineErrors",
                            "resultsPublished", "errorsPublished", "publishFailures" } |-> 0],
        process <- processBar, consumer <- consumerBar, disturbances <- disturbancesBar

ImplementsWorker == W!Spec

\* A startup whose consumer could not be started shows in /health (spec.md
\* AC-009: degraded startup answers 503; main.py:101-102 means to).
DegradedStartupShows == phase = "serving" /\ task = "failed" => HealthStatus = 503

=============================================================================
