------------------------------- MODULE System -------------------------------
(***************************************************************************)
(* The worker and the analyses it runs, composed: a process that serves,   *)
(* from its start on.  The one step in which a coroutine of Worker awaits  *)
(* the pipeline is replaced by the analysis of Pipeline for its delivery,  *)
(* and each of the joint steps is a step of the code between two awaits:   *)
(* validation runs on into the first call of the LLM, and the return or    *)
(* exception of the pipeline runs on into the publication.                 *)
(*                                                                         *)
(* A coroutine that is cancelled takes its analysis with it; one that      *)
(* outlives its channel goes on with the analysis while the request is     *)
(* analysed again for its next delivery.                                   *)
(***************************************************************************)
EXTENDS Integers, Sequences, FiniteSets

CONSTANTS Messages, Malformed, PrefetchCount, MaxPublishAttempts, AckTimeout,
          Disturbances, MaxDisturbances,  \* as in Worker
          MaxRetries, Files               \* as in Pipeline

VARIABLES request, deliveries, answers, handlers, process, consumer, link,
          metrics, disturbances,          \* as in Worker
          run, replies, requestMetrics,   \* as in Pipeline
          abandoned  \* coroutines that ended between analysis and outcome

\* BOUND: one delivery for each disturbance, and the first.
Analyses == Messages \X (1 .. MaxDisturbances + 1)

W == INSTANCE Worker WITH ResultsBound <- TRUE

P == INSTANCE Pipeline WITH Queued <- Analyses, metrics <- requestMetrics

workerVars == <<request, deliveries, answers, handlers, process, consumer, link,
                metrics, disturbances>>

pipelineVars == <<run, replies, requestMetrics>>

vars == <<workerVars, pipelineVars, abandoned>>

ASSUME MessagesAssumption == Messages \subseteq Nat /\ IsFiniteSet(Messages)
ASSUME MalformedAssumption == Malformed \subseteq Messages
ASSUME PrefetchAssumption == PrefetchCount \in Nat
ASSUME AttemptsAssumption == MaxPublishAttempts \in Nat \ {0}
ASSUME TimeoutAssumption == AckTimeout \in BOOLEAN
ASSUME BoundAssumption == MaxDisturbances \in Nat
ASSUME RetriesAssumption == MaxRetries \in Nat
ASSUME FilesAssumption == Files \subseteq P!File

\* The process lives through the behaviour: lives and deaths are for Worker
\* and Lifespan.
ASSUME ServesOn == Disturbances \subseteq {"connection", "slow", "publish", "confirm", "blank"}

-----------------------------------------------------------------------------
AnalysisOf(h) == <<h.msg, h.nth>>

AtPipeline == {h \in handlers : h.stage = "pipeline"}

Init == W!Init /\ P!Init /\ abandoned = 0

\* What the worker does outside the pipeline.
Apart(step) == step /\ UNCHANGED <<pipelineVars, abandoned>>

\* Steps 1 to 4 of _handle_message, up to the first await of the pipeline.
Receive(h) ==
    /\ W!Receive(h)
    /\ IF h.msg \in Malformed
       THEN UNCHANGED pipelineVars
       ELSE \/ P!AdapterRaises(AnalysisOf(h))
            \/ \E file \in Files : \/ P!Reject(AnalysisOf(h), file)
                                   \/ P!Start(AnalysisOf(h), file)
    /\ UNCHANGED abandoned

\* A call of the LLM ends, for a coroutine that still awaits it.
Called(h) ==
    /\ h.stage = "pipeline"
    /\ P!Called(AnalysisOf(h))
    /\ UNCHANGED <<workerVars, abandoned>>

\* Mutant of Return: run_pipeline() is not awaited.
ReturnUnawaited(h) ==
    /\ W!PipelineReturns(h)
    /\ UNCHANGED <<pipelineVars, abandoned>>

\* run_pipeline() returns, and the answer is about to be published.
Return(h) ==
    /\ P!AnswerReport(AnalysisOf(h))
    /\ W!PipelineReturns(h)
    /\ UNCHANGED abandoned

\* One of the except clauses.  Only an exception from elsewhere can be blank.
Raise(h) ==
    /\ P!QueueError(AnalysisOf(h))
    /\ \/ W!PipelineRaises(h) /\ UNCHANGED abandoned
       \/ /\ run[AnalysisOf(h)].exception = "Exception"
          /\ W!PipelineRaisesBlank(h)
          /\ abandoned' = abandoned + 1

\* A channel ends, and coroutines with it.  A coroutine can be cancelled only
\* where it awaits: not between an exception and its clause.
ChannelEnds(step) ==
    /\ step
    /\ \A h \in AtPipeline \ handlers' : run[AnalysisOf(h)].phase = "calling"
    /\ abandoned' = abandoned +
          Cardinality({h \in handlers \ handlers' : h.stage = "publish"})
    /\ UNCHANGED pipelineVars

\* The CancelledError reaches the analysis.
Cancelled(a) ==
    /\ \A h \in AtPipeline : AnalysisOf(h) # a
    /\ P!Cancel(a)
    /\ UNCHANGED <<workerVars, abandoned>>

Step(h) == \/ Receive(h)
           \/ Called(h)
           \/ Return(h)
           \/ Raise(h)
           \/ Apart(\/ W!Nack(h)
                    \/ W!PublishConfirmed(h)
                    \/ W!PublishUnconfirmed(h)
                    \/ W!PublishRaises(h)
                    \/ W!Ack(h)
                    \/ W!SettleRaises(h))

Next ==
    \/ \E m \in Messages : Apart(W!Submit(m) \/ W!Deliver(m))
    \/ \E h \in handlers : Step(h)
    \/ ChannelEnds(W!ConnectionLost)
    \/ ChannelEnds(W!AckTimeoutClose)
    \/ ChannelEnds(W!AckTimeoutSlow)
    \/ \E a \in Analyses : Cancelled(a)
    \/ Apart(W!Boot \/ W!StartConsumer \/ W!Reconnect)

Spec == Init /\ [][Next]_vars

\* That of Worker, with one exception: nothing is assumed of the pipeline as a
\* whole, only that each of its awaits ends.
Fairness ==
    /\ \A m \in Messages : WF_vars(\E h \in handlers : h.msg = m /\ Step(h))
    /\ WF_vars(\E m \in Messages : Apart(W!Deliver(m)))
    /\ WF_vars(Apart(W!Reconnect))
    /\ WF_vars(ChannelEnds(W!AckTimeoutClose))
    /\ WF_vars(Apart(W!StartConsumer))

FairSpec == Spec /\ Fairness

-----------------------------------------------------------------------------
(* Properties.                                                             *)

Phase(phases) == {a \in Analyses : run[a].phase \in phases}

\* One /metrics document tells one story (spec.md OBS-004): each consumed
\* request is a success, a pipeline error, in work or cancelled; each of the
\* first two is a published answer, a publish failure, being published or
\* abandoned; whatever connections were lost and requests delivered again.
OutcomesBalance ==
    /\ metrics["consumed"] =
          requestMetrics.success + metrics["pipelineErrors"]
            + Cardinality(Phase({"calling", "raised", "cancelled"}))
    /\ requestMetrics.success + metrics["pipelineErrors"] =
          metrics["resultsPublished"] + metrics["errorsPublished"]
            + metrics["publishFailures"] + abandoned
            + Cardinality(Phase({"returned"}))
            + Cardinality({h \in handlers : h.stage = "publish"})

\* The deliveries of a request whose analysis gave such an answer.
AnalysesOf(m, kinds) ==
    {n \in 1 .. MaxDisturbances + 1 : run[<<m, n>>].answer \in kinds}

\* Every answer in the output queue is the answer of an analysis of that
\* request, of a report if it says success and of an error if not; what is
\* there more than once without an analysis of its own has a disturbance for
\* cause (consumer.py, publisher.py).
AnswersComeFromAnalyses ==
    \A m \in Messages :
        LET reports == AnalysesOf(m, {"success"})
            errors  == AnalysesOf(m, P!ErrorCodes)
        IN  /\ answers[m]["success"] > 0 => reports # {}
            /\ answers[m]["error"] > 0 => errors # {}
            /\ W!Copies(m) <= Cardinality(reports) + Cardinality(errors) + disturbances

\* The delivery that is acknowledged is the one whose own analysis came to an
\* end, and no coroutine of an earlier delivery settles it; a malformed request
\* reaches no analysis at all (consumer.py; spec.md ERR-004).
SettledByItsOwnAnalysis ==
    \A m \in Messages :
        /\ request[m] = "acked" => run[<<m, deliveries[m]>>].phase = "done"
        /\ m \in Malformed => \A n \in 1 .. MaxDisturbances + 1 :
                                  run[<<m, n>>].phase = "idle"

\* The calls of the LLM that were made for a request.
CallsFor(m) == UNION {{n} \X DOMAIN replies[<<m, n>>] : n \in 1 .. MaxDisturbances + 1}

\* What a request costs: redelivery multiplies the calls of the LLM only as
\* often as something went wrong (spec.md ERR-002, PER-004).
CallsBounded ==
    \A m \in Messages : Cardinality(CallsFor(m)) <= MaxRetries * (1 + disturbances)

\* The composition is a worker, and a fair one: that the pipeline always ends,
\* which Worker assumes, follows from the bounded loop of the analyses, so that
\* what holds of Worker under its fairness holds here.
ImplementsWorker == W!FairSpec

=============================================================================
