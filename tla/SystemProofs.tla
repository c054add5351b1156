---------------------------- MODULE SystemProofs ----------------------------
(***************************************************************************)
(* The worker with its analyses inside, for every number of requests,      *)
(* attempts and disturbances.                                              *)
(*                                                                         *)
(* The proofs of the two parts are instantiated (WP, PP), and every step   *)
(* of System is shown to be a step of each part or to leave it alone, so   *)
(* that System implements Worker and Pipeline and inherits what is proved  *)
(* of them.  JointInv relates the parts: each coroutine has an analysis of *)
(* its own, at the place where the coroutine stands.  It rests on the fact *)
(* that a delivery of a request has one coroutine at most, and carries the *)
(* settlements, the balance of the counters (BalanceInv), the sources of   *)
(* the answers (SourceInv) and the number of calls (CostInv).              *)
(***************************************************************************)
EXTENDS System, FiniteSetTheorems, TLAPS

\* What is proved of the two parts.
WP == INSTANCE WorkerLoadProofs WITH ResultsBound <- TRUE

PP == INSTANCE PipelineProofs WITH Queued <- Analyses, metrics <- requestMetrics

-----------------------------------------------------------------------------
(* The constants are those the two parts assume.                           *)

\* The instance of Worker gets constants that Worker allows.
LEMMA WorkerConstants ==
    /\ Messages \subseteq Nat /\ WP!IsFiniteSet(Messages)
    /\ Malformed \subseteq Messages
    /\ PrefetchCount \in Nat
    /\ MaxPublishAttempts \in Nat \ {0}
    /\ TRUE \in BOOLEAN /\ AckTimeout \in BOOLEAN
    /\ Disturbances \subseteq WP!DisturbanceKinds /\ MaxDisturbances \in Nat
<1>1. WP!IsFiniteSet(Messages)
  BY MessagesAssumption DEF IsFiniteSet, WP!IsFiniteSet
<1>2. Disturbances \subseteq WP!DisturbanceKinds
  BY ServesOn DEF WP!DisturbanceKinds
<1>3. QED
  BY <1>1, <1>2, MessagesAssumption, MalformedAssumption, PrefetchAssumption,
     AttemptsAssumption, TimeoutAssumption, BoundAssumption

\* There are finitely many analyses, one for each delivery a request may have.
LEMMA FiniteAnalyses == IsFiniteSet(Analyses)
<1>1. IsFiniteSet(1 .. MaxDisturbances + 1)
  BY BoundAssumption, FS_Interval
<1>2. QED
  BY <1>1, MessagesAssumption, FS_Product DEF Analyses

\* The constants of the pipeline of System satisfy its assumptions.
LEMMA PipelineConstants ==
    /\ PP!IsFiniteSet(Analyses) /\ Analyses \subseteq Analyses
    /\ MaxRetries \in Nat
    /\ Files \subseteq PP!File
<1>1. PP!IsFiniteSet(Analyses)
  BY FiniteAnalyses DEF IsFiniteSet, PP!IsFiniteSet
<1>2. P!File = PP!File
  BY DEF P!File, PP!File
<1>3. QED
  BY <1>1, <1>2, RetriesAssumption, FilesAssumption

-----------------------------------------------------------------------------
(* The composition takes steps of its parts.                               *)

\* The worker of System is the worker of the proofs: the two instances define
\* the same steps.
LEMMA SameHandlerStep == ASSUME NEW h, W!HandlerStep(h) PROVE WP!HandlerStep(h)
<1> USE DEF W!brokerVars, WP!brokerVars, W!processVars, WP!processVars, W!Disturb,
           WP!Disturb, W!Unacked, WP!Unacked, W!RequeueUnacked, WP!RequeueUnacked,
           W!SomeHandlersCancelled, WP!SomeHandlersCancelled, W!Holds, WP!Holds,
           W!Stranded, WP!Stranded, W!Count, WP!Count, W!Advance, WP!Advance,
           W!Finish, WP!Finish, W!Enqueue, WP!Enqueue, W!AttemptFailed,
           WP!AttemptFailed
<1>1. W!Receive(h) => WP!Receive(h)
  BY DEF W!Receive, WP!Receive
<1>2. W!Nack(h) => WP!Nack(h)
  BY DEF W!Nack, WP!Nack
<1>3. W!PipelineReturns(h) => WP!PipelineReturns(h)
  BY DEF W!PipelineReturns, WP!PipelineReturns
<1>4. W!PipelineRaises(h) => WP!PipelineRaises(h)
  BY DEF W!PipelineRaises, WP!PipelineRaises
<1>5. W!PipelineRaisesBlank(h) => WP!PipelineRaisesBlank(h)
  BY DEF W!PipelineRaisesBlank, WP!PipelineRaisesBlank
<1>6. W!PublishConfirmed(h) => WP!PublishConfirmed(h)
  BY DEF W!PublishConfirmed, WP!PublishConfirmed
<1>7. W!PublishUnconfirmed(h) => WP!PublishUnconfirmed(h)
  BY DEF W!PublishUnconfirmed, WP!PublishUnconfirmed
<1>8. W!PublishRaises(h) => WP!PublishRaises(h)
  BY DEF W!PublishRaises, WP!PublishRaises
<1>9. W!Ack(h) => WP!Ack(h)
  BY DEF W!Ack, WP!Ack
<1>10. W!SettleRaises(h) => WP!SettleRaises(h)
  BY DEF W!SettleRaises, WP!SettleRaises
<1>11. QED
  BY <1>1, <1>2, <1>3, <1>4, <1>5, <1>6, <1>7, <1>8, <1>9, <1>10 DEF W!HandlerStep, WP!HandlerStep

\* Initial states and steps of the two instances of Worker agree.
LEMMA SameWorker == (W!Init => WP!Init) /\ ([W!Next]_(W!vars) => [WP!Next]_(WP!vars))
<1> USE DEF W!brokerVars, WP!brokerVars, W!processVars, WP!processVars, W!Disturb,
           WP!Disturb, W!Unacked, WP!Unacked, W!RequeueUnacked, WP!RequeueUnacked,
           W!SomeHandlersCancelled, WP!SomeHandlersCancelled, W!Holds, WP!Holds,
           W!Stranded, WP!Stranded, W!Count, WP!Count, W!Advance, WP!Advance,
           W!Finish, WP!Finish, W!Enqueue, WP!Enqueue, W!AttemptFailed,
           WP!AttemptFailed
<1>1. W!Init => WP!Init
  BY DEF W!Init, WP!Init, W!Answer, WP!Answer, W!ZeroMetrics, WP!ZeroMetrics,
         W!Counters, WP!Counters
<1>2. UNCHANGED W!vars => UNCHANGED WP!vars
  BY DEF W!vars, WP!vars
<1>3. ASSUME NEW m, W!Submit(m) PROVE WP!Submit(m)
  BY <1>3 DEF W!Submit, WP!Submit
<1>4. ASSUME NEW m, W!Deliver(m) PROVE WP!Deliver(m)
  BY <1>4 DEF W!Deliver, WP!Deliver, W!Cardinality, WP!Cardinality
<1>5. W!ConnectionLost => WP!ConnectionLost
  BY DEF W!ConnectionLost, WP!ConnectionLost
<1>6. W!Reconnect => WP!Reconnect
  BY DEF W!Reconnect, WP!Reconnect
<1>7. W!AckTimeoutClose => WP!AckTimeoutClose
  BY DEF W!AckTimeoutClose, WP!AckTimeoutClose
<1>8. W!AckTimeoutSlow => WP!AckTimeoutSlow
  BY DEF W!AckTimeoutSlow, WP!AckTimeoutSlow
<1>9. W!Boot => WP!Boot
  BY DEF W!Boot, WP!Boot
<1>10. W!StartConsumer => WP!StartConsumer
  BY DEF W!StartConsumer, WP!StartConsumer
<1>11. W!StartConsumerRaises => WP!StartConsumerRaises
  BY DEF W!StartConsumerRaises, WP!StartConsumerRaises
<1>12. W!StopConsumer => WP!StopConsumer
  BY DEF W!StopConsumer, WP!StopConsumer
<1>13. W!Disconnect => WP!Disconnect
  BY DEF W!Disconnect, WP!Disconnect
<1>14. W!Exit => WP!Exit
  BY DEF W!Exit, WP!Exit, W!ZeroMetrics, WP!ZeroMetrics, W!Counters, WP!Counters
<1>15. W!Crash => WP!Crash
  BY DEF W!Crash, WP!Crash,
         W!ZeroMetrics, WP!ZeroMetrics, W!Counters, WP!Counters
<1>16. W!Next => WP!Next
  BY SameHandlerStep, <1>3, <1>4, <1>5, <1>6, <1>7, <1>8, <1>9, <1>10, <1>11, <1>12, <1>13, <1>14, <1>15
     DEF W!Next, WP!Next
<1>17. QED
  BY <1>1, <1>2, <1>16

\* The analyses of System are the analyses of the proofs.
LEMMA SamePipeline == (P!Init => PP!Init) /\ ([P!Next]_(P!vars) => [PP!Next]_(PP!vars))
<1> USE DEF P!Continue, PP!Continue, P!NextAttempt, PP!NextAttempt, P!Raise, PP!Raise,
            P!Preprocess, PP!Preprocess, P!Receive, PP!Receive, P!Answer, PP!Answer
<1>1. P!Init => PP!Init
  BY DEF P!Init, PP!Init
<1>2. UNCHANGED P!vars => UNCHANGED PP!vars
  BY DEF P!vars, PP!vars
<1>3. ASSUME NEW a, NEW file, P!Reject(a, file) \/ P!Start(a, file)
      PROVE  PP!Reject(a, file) \/ PP!Start(a, file)
  BY <1>3 DEF P!Reject, PP!Reject, P!Start, PP!Start
<1>4. ASSUME NEW a, P!AdapterRaises(a) \/ P!Cancel(a) PROVE PP!AdapterRaises(a) \/ PP!Cancel(a)
  BY <1>4 DEF P!AdapterRaises, PP!AdapterRaises, P!Cancel, PP!Cancel
<1>5. ASSUME NEW a, P!Called(a) PROVE PP!Called(a)
  <2>1. P!CallTimesOut(a) => PP!CallTimesOut(a)
    BY DEF P!CallTimesOut, PP!CallTimesOut
  <2>2. P!CallFails(a) => PP!CallFails(a)
    BY DEF P!CallFails, PP!CallFails
  <2>3. P!ReplyInvalid(a) => PP!ReplyInvalid(a)
    BY DEF P!ReplyInvalid, PP!ReplyInvalid
  <2>4. P!ReplyAlien(a) => PP!ReplyAlien(a)
    BY DEF P!ReplyAlien, PP!ReplyAlien
  <2>5. P!ReplyValid(a) => PP!ReplyValid(a)
    BY DEF P!ReplyValid, PP!ReplyValid
  <2>6. QED
    BY <1>5, <2>1, <2>2, <2>3, <2>4, <2>5 DEF P!Called, PP!Called
<1>6. ASSUME NEW a, P!Answered(a) PROVE PP!Answered(a)
  <2>1. P!AnswerReport(a) => PP!AnswerReport(a)
    BY DEF P!AnswerReport, PP!AnswerReport
  <2>2. P!HttpError(a) => PP!HttpError(a)
    BY DEF P!HttpError, PP!HttpError, P!HttpCode, PP!HttpCode
  <2>3. P!QueueError(a) => PP!QueueError(a)
    BY DEF P!QueueError, PP!QueueError, P!QueueCode, PP!QueueCode
  <2>4. QED
    BY <1>6, <2>1, <2>2, <2>3 DEF P!Answered, PP!Answered
<1>7. P!Next => PP!Next
  BY <1>3, <1>4, <1>5, <1>6 DEF P!Next, PP!Next
<1>8. QED
  BY <1>1, <1>2, <1>7

\* Every step of the composition is a step of the worker, or none of its
\* business.
LEMMA WorkerSteps == ASSUME [Next]_vars PROVE [W!Next]_(W!vars)
<1>1. ASSUME UNCHANGED workerVars PROVE UNCHANGED W!vars
  BY <1>1 DEF workerVars, W!vars, W!brokerVars, W!processVars
<1>2. CASE UNCHANGED vars
  BY <1>1, <1>2 DEF vars
<1>3. ASSUME NEW h \in handlers, Step(h) PROVE [W!Next]_(W!vars)
  <2>1. CASE Called(h)
    BY <1>1, <2>1 DEF Called
  <2>2. CASE ~Called(h)
    BY <1>3, <2>2 DEF Step, Receive, Return, Raise, Apart, W!HandlerStep, W!Next
  <2>3. QED
    BY <2>1, <2>2
<1>4. ASSUME NEW a, Cancelled(a) PROVE UNCHANGED W!vars
  BY <1>1, <1>4 DEF Cancelled
<1>5. CASE ChannelEnds(W!ConnectionLost) \/ ChannelEnds(W!AckTimeoutClose) \/ ChannelEnds(W!AckTimeoutSlow)
  BY <1>5 DEF ChannelEnds, W!Next
<1>6. CASE \/ \E m \in Messages : Apart(W!Submit(m) \/ W!Deliver(m))
           \/ Apart(W!Boot \/ W!StartConsumer \/ W!Reconnect)
  BY <1>6 DEF Apart, W!Next
<1>7. QED
  BY <1>2, <1>3, <1>4, <1>5, <1>6 DEF Next

\* Every step of the composition is a step of one analysis at most, if the
\* coroutines have analyses of their own.
LEMMA PipelineSteps ==
    ASSUME [Next]_vars, \A h \in handlers : AnalysisOf(h) \in Analyses
    PROVE  [P!Next]_(P!vars)
<1>1. ASSUME UNCHANGED pipelineVars PROVE UNCHANGED P!vars
  BY <1>1 DEF pipelineVars, P!vars
<1>2. CASE UNCHANGED vars
  BY <1>1, <1>2 DEF vars
<1>3. ASSUME NEW h \in handlers, Step(h) PROVE [P!Next]_(P!vars)
  <2>1. CASE Receive(h)
    BY <1>1, <2>1 DEF Receive, P!Next
  <2>2. CASE Called(h)
    BY <2>2 DEF Called, P!Next
  <2>3. CASE Return(h) \/ Raise(h)
    BY <2>3 DEF Return, Raise, P!Answered, P!Next
  <2>4. CASE ~Receive(h) /\ ~Called(h) /\ ~Return(h) /\ ~Raise(h)
    BY <1>1, <1>3, <2>4 DEF Step, Apart
  <2>5. QED
    BY <2>1, <2>2, <2>3, <2>4
<1>4. ASSUME NEW a \in Analyses, Cancelled(a) PROVE P!Next
  BY <1>4 DEF Cancelled, P!Next
<1>5. CASE ChannelEnds(W!ConnectionLost) \/ ChannelEnds(W!AckTimeoutClose) \/ ChannelEnds(W!AckTimeoutSlow)
  BY <1>1, <1>5 DEF ChannelEnds
<1>6. CASE \/ \E m \in Messages : Apart(W!Submit(m) \/ W!Deliver(m))
           \/ Apart(W!Boot \/ W!StartConsumer \/ W!Reconnect)
  BY <1>1, <1>6 DEF Apart
<1>7. QED
  BY <1>2, <1>3, <1>4, <1>5, <1>6 DEF Next

-----------------------------------------------------------------------------
(* What the parts keep true inside the composition.                        *)

DisturbancesCapped == disturbances <= MaxDisturbances

\* The inductive invariants of the parts.  What they say together of the
\* composition is that each coroutine has an analysis of its own.
PartsInv ==
    /\ WP!LoadInv
    /\ WP!DeliveryInv
    /\ PP!IInv
    /\ \A h \in handlers : h.nth > 0
    /\ DisturbancesCapped

\* Each delivery but the first has a disturbance for cause.
LEMMA DeliveriesPaid ==
    ASSUME PartsInv, NEW m \in Messages
    PROVE  /\ deliveries[m] \in Nat /\ disturbances \in Nat
           /\ deliveries[m] <= 1 + disturbances
<1>1. deliveries[m] \in Nat /\ disturbances \in Nat
  BY DEF PartsInv, WP!LoadInv, WP!AccountInv, WP!TypeInv, WP!TypeOK
<1>2. deliveries[m] + WP!Due(m) <= 1 + WP!Slack /\ WP!Due(m) \in 0 .. 1
  BY DEF PartsInv, WP!DeliveryInv, WP!Due
<1>3. WP!Slack \in Int /\ WP!Slack <= disturbances
  BY <1>1 DEF WP!Slack, WP!StrandCredit, WP!StopCredit
<1>4. QED
  BY <1>1, <1>2, <1>3

\* Where each coroutine finds its analysis.
LEMMA OwnAnalysis ==
    ASSUME PartsInv
    PROVE  /\ \A h \in handlers : /\ h.msg \in Messages
                                  /\ h.nth \in 1 .. deliveries[h.msg]
                                  /\ AnalysisOf(h) \in Analyses
           /\ \A g, h \in handlers : AnalysisOf(g) = AnalysisOf(h) => g = h
           /\ deliveries \in [Messages -> 0 .. MaxDisturbances + 1]
<1>1. ASSUME NEW m \in Messages PROVE deliveries[m] \in 0 .. MaxDisturbances + 1
  BY DeliveriesPaid, BoundAssumption DEF PartsInv, DisturbancesCapped
<1>2. ASSUME NEW h \in handlers
      PROVE  h.msg \in Messages /\ h.nth \in 1 .. deliveries[h.msg]
  <2>1. h.msg \in Messages /\ h.nth \in Nat /\ h.nth > 0
    BY DEF PartsInv, WP!LoadInv, WP!AccountInv, WP!TypeInv, WP!TypeOK, WP!Handler
  <2>2. h.nth <= deliveries[h.msg] /\ deliveries[h.msg] \in Nat
    BY <1>1, <2>1, BoundAssumption DEF PartsInv, WP!LoadInv, WP!OneCoroutineEach
  <2>3. QED
    BY <2>1, <2>2
<1>3. ASSUME NEW h \in handlers PROVE AnalysisOf(h) \in Analyses
  <2>1. h.nth \in 1 .. MaxDisturbances + 1
    BY <1>1, <1>2, BoundAssumption
  <2>2. QED
    BY <1>2, <2>1 DEF AnalysisOf, Analyses
<1>4. \A g, h \in handlers : AnalysisOf(g) = AnalysisOf(h) => g = h
  BY DEF AnalysisOf, PartsInv, WP!LoadInv, WP!OneCoroutineEach
<1>5. deliveries \in [Messages -> 0 .. MaxDisturbances + 1]
  <2>1. deliveries \in [Messages -> Nat]
    BY DEF PartsInv, WP!LoadInv, WP!AccountInv, WP!TypeInv, WP!TypeOK
  <2>2. QED
    BY <1>1, <2>1
<1>6. QED
  BY <1>2, <1>3, <1>4, <1>5

\* The same, in the state after a step.
LEMMA OwnAnalysisNext ==
    PartsInv' => /\ \A h \in handlers' : AnalysisOf(h) \in Analyses
                 /\ \A g, h \in handlers' : AnalysisOf(g) = AnalysisOf(h) => g = h
                 /\ deliveries' \in [Messages -> 0 .. MaxDisturbances + 1]
<1> DEFINE Own == /\ \A h \in handlers : AnalysisOf(h) \in Analyses
                  /\ \A g, h \in handlers : AnalysisOf(g) = AnalysisOf(h) => g = h
                  /\ deliveries \in [Messages -> 0 .. MaxDisturbances + 1]
<1>1. PartsInv => Own
  BY OwnAnalysis
<1> HIDE DEF Own
<1>2. PartsInv' => Own'
  BY <1>1, PTL
<1>3. QED
  BY <1>2 DEF Own

\* Disturbances are counted one by one, up to the bound.
LEMMA CappedStep ==
    ASSUME disturbances \in Nat, DisturbancesCapped, [W!Next]_(W!vars)
    PROVE  DisturbancesCapped' /\ disturbances' \in Nat /\ disturbances <= disturbances'
<1> DEFINE Grown == DisturbancesCapped' /\ disturbances' \in Nat /\ disturbances <= disturbances'
<1> SUFFICES Grown
  OBVIOUS
<1>1. ASSUME NEW kind, W!Disturb(kind) PROVE Grown
  BY <1>1, BoundAssumption DEF W!Disturb, DisturbancesCapped
<1>2. ASSUME UNCHANGED disturbances PROVE Grown
  BY <1>2 DEF DisturbancesCapped
<1> HIDE DEF Grown
<1>3. ASSUME NEW h, W!HandlerStep(h) PROVE Grown
  <2>1. CASE W!Receive(h) \/ W!Nack(h) \/ W!PipelineReturns(h) \/ W!PipelineRaises(h)
             \/ W!PublishConfirmed(h) \/ W!Ack(h) \/ W!SettleRaises(h)
    BY <1>2, <2>1 DEF W!Receive, W!Nack, W!PipelineReturns, W!PipelineRaises,
       W!PublishConfirmed, W!Ack, W!SettleRaises
  <2>2. CASE W!PipelineRaisesBlank(h) \/ W!PublishUnconfirmed(h)
    BY <1>1, <2>2 DEF W!PipelineRaisesBlank, W!PublishUnconfirmed
  <2>3. CASE W!PublishRaises(h)
    BY <1>1, <1>2, <2>3 DEF W!PublishRaises
  <2>4. QED
    BY <1>3, <2>1, <2>2, <2>3 DEF W!HandlerStep
<1>4. CASE W!ConnectionLost \/ W!AckTimeoutSlow \/ W!StartConsumerRaises \/ W!StopConsumer \/ W!Crash
  BY <1>1, <1>4 DEF W!ConnectionLost, W!AckTimeoutSlow, W!StartConsumerRaises,
     W!StopConsumer, W!Crash
<1>5. CASE W!Reconnect \/ W!AckTimeoutClose \/ W!Boot \/ W!StartConsumer \/ W!Disconnect \/ W!Exit
  BY <1>2, <1>5 DEF W!Reconnect, W!AckTimeoutClose, W!Boot, W!StartConsumer,
     W!Disconnect, W!Exit
<1>6. ASSUME NEW m, W!Submit(m) \/ W!Deliver(m) PROVE Grown
  BY <1>2, <1>6 DEF W!Submit, W!Deliver
<1>7. CASE UNCHANGED W!vars
  BY <1>2, <1>7 DEF W!vars
<1>8. QED
  BY <1>3, <1>4, <1>5, <1>6, <1>7 DEF W!Next

\* Every step of the composition keeps the invariants of its two parts.
LEMMA PartsStep == ASSUME PartsInv, [Next]_vars PROVE PartsInv'
<1>1. [W!Next]_(W!vars) /\ [WP!Next]_(WP!vars)
  BY WorkerSteps, SameWorker
<1>2. [PP!Next]_(PP!vars)
  BY OwnAnalysis, PipelineSteps, SamePipeline
<1>3. WP!LoadInv'
  BY <1>1, WorkerConstants, WP!LoadStep DEF PartsInv
<1>4. WP!DeliveryInv'
  BY <1>1, WorkerConstants, WP!DeliveryStep DEF PartsInv
<1>5. PP!IInv'
  BY <1>2, PipelineConstants, PP!InductiveStep DEF PartsInv
<1>6. \A h \in handlers' : h.nth > 0
  <2>1. WP!AccountInv /\ \A h \in handlers : h.nth > 0
    BY DEF PartsInv, WP!LoadInv
  <2>2. \/ WP!Requeues \/ WP!Rests
        \/ \E m \in Messages : WP!Deliver(m)
        \/ \E h \in handlers : WP!Moves(h)
    BY <1>1, <2>1, WorkerConstants, WP!StepKinds
  <2>3. CASE WP!Requeues \/ WP!Rests
    BY <2>1, <2>3 DEF WP!Requeues, WP!Rests
  <2>4. ASSUME NEW m \in Messages, WP!Deliver(m) PROVE \A h \in handlers' : h.nth > 0
    <3>1. PICK g : g.nth = deliveries[m] + 1 /\ handlers' = handlers \cup {g}
      BY <2>4, WorkerConstants, WP!NewCoroutine
    <3>2. deliveries[m] \in Nat
      BY OwnAnalysis, BoundAssumption
    <3>3. QED
      BY <2>1, <3>1, <3>2
  <2>5. ASSUME NEW h \in handlers, WP!Moves(h) PROVE \A g \in handlers' : g.nth > 0
    BY <2>1, <2>5 DEF WP!Moves, WP!Advance, WP!Finish
  <2>6. QED
    BY <2>2, <2>3, <2>4, <2>5
<1>7. DisturbancesCapped'
  BY <1>1, CappedStep DEF PartsInv, WP!LoadInv, WP!AccountInv, WP!TypeInv, WP!TypeOK
<1>8. QED
  BY <1>3, <1>4, <1>5, <1>6, <1>7 DEF PartsInv

-----------------------------------------------------------------------------
(* What the steps of an analysis are to its coroutine.                     *)

PipelineTypes ==
    /\ run \in [Analyses -> PP!Run]
    /\ replies \in [Analyses -> Seq(PP!Replies)]
    /\ requestMetrics \in [success : Nat, error : Nat, retries : Nat]

Becomes(a, r) == run' = [run EXCEPT ![a] = r]

\* Going round the loop, or out of it.
LEMMA RoundTheLoop ==
    ASSUME NEW g \in PP!Run, NEW a \in Analyses, PipelineTypes, P!Continue(a, g)
    PROVE  /\ \E r : Becomes(a, r) /\ r.phase \in {"calling", "raised"}
           /\ requestMetrics'.success = requestMetrics.success
<1>1. P!NextAttempt(g).phase \in {"calling", "raised"}
  BY DEF P!NextAttempt, P!Raise, PP!Run
<1>2. Becomes(a, P!NextAttempt(g))
  BY DEF P!Continue, Becomes
<1>3. requestMetrics'.success = requestMetrics.success
  BY DEF P!Continue, PipelineTypes
<1>4. QED
  BY <1>1, <1>2, <1>3

\* An analysis begins: it calls the LLM, or has failed before.
LEMMA AnalysisBegins ==
    ASSUME PipelineTypes, NEW a \in Analyses,
           P!AdapterRaises(a) \/ \E file \in Files : P!Reject(a, file) \/ P!Start(a, file)
    PROVE  /\ run[a].phase = "idle"
           /\ \E r : Becomes(a, r) /\ r.phase \in {"calling", "raised"}
           /\ requestMetrics'.success = requestMetrics.success
<1>0. run[a] \in PP!Run
  BY DEF PipelineTypes
<1>1. ASSUME NEW e, Becomes(a, P!Raise(run[a], e))
      PROVE  \E r : Becomes(a, r) /\ r.phase \in {"calling", "raised"}
  <2>1. P!Raise(run[a], e).phase = "raised"
    BY <1>0 DEF P!Raise, PP!Run
  <2>2. QED
    BY <1>1, <2>1
<1>2. CASE P!AdapterRaises(a)
  BY <1>1, <1>2 DEF P!AdapterRaises, Becomes
<1>3. ASSUME NEW file \in Files, P!Reject(a, file)
      PROVE  /\ run[a].phase = "idle"
             /\ \E r : Becomes(a, r) /\ r.phase \in {"calling", "raised"}
             /\ requestMetrics'.success = requestMetrics.success
  BY <1>1, <1>3 DEF P!Reject, Becomes
<1>4. ASSUME NEW file \in Files, P!Start(a, file)
      PROVE  /\ run[a].phase = "idle"
             /\ \E r : Becomes(a, r) /\ r.phase \in {"calling", "raised"}
             /\ requestMetrics'.success = requestMetrics.success
  BY <1>0, <1>4, RoundTheLoop DEF P!Start
<1>5. QED
  BY <1>2, <1>3, <1>4

\* A call ends: the analysis goes on, has failed or has its report, and a
\* report is counted.
LEMMA AnalysisCalled ==
    ASSUME PipelineTypes, NEW a \in Analyses, P!Called(a)
    PROVE  /\ run[a].phase = "calling"
           /\ \E r : /\ Becomes(a, r)
                     /\ \/ /\ r.phase \in {"calling", "raised"}
                           /\ requestMetrics'.success = requestMetrics.success
                        \/ /\ r.phase = "returned"
                           /\ requestMetrics'.success = requestMetrics.success + 1
<1>0. run[a] \in PP!Run /\ run[a].attempt \in PP!Attempts
  BY DEF PipelineTypes, PP!Run
<1>1. run[a].phase = "calling"
  BY DEF P!Called, P!CallTimesOut, P!CallFails, P!ReplyInvalid, P!ReplyAlien, P!ReplyValid,
     P!Receive
<1>2. CASE P!CallTimesOut(a)
  <2>1. [run[a] EXCEPT !.timedOut = TRUE] \in PP!Run
    BY <1>0 DEF PP!Run
  <2>2. P!Continue(a, [run[a] EXCEPT !.timedOut = TRUE])
    BY <1>2 DEF P!CallTimesOut
  <2>3. QED
    BY <1>1, <2>1, <2>2, RoundTheLoop
<1>3. CASE P!CallFails(a)
  BY <1>0, <1>1, <1>3, RoundTheLoop DEF P!CallFails
<1>4. CASE P!ReplyInvalid(a)
  <2>1. [run[a] EXCEPT !.lastRaw = run[a].attempt] \in PP!Run
    BY <1>0 DEF PP!Run
  <2>2. P!Continue(a, [run[a] EXCEPT !.lastRaw = run[a].attempt])
    BY <1>4 DEF P!ReplyInvalid
  <2>3. QED
    BY <1>1, <2>1, <2>2, RoundTheLoop
<1>5. CASE P!ReplyAlien(a)
  <2>1. P!Raise(run[a], "Exception").phase = "raised"
    BY <1>0 DEF P!Raise, PP!Run
  <2>2. Becomes(a, P!Raise(run[a], "Exception")) /\ requestMetrics' = requestMetrics
    BY <1>5 DEF P!ReplyAlien, Becomes
  <2>3. QED
    BY <1>1, <2>1, <2>2
<1>6. CASE P!ReplyValid(a)
  <2> DEFINE r == [run[a] EXCEPT !.phase = "returned", !.report = run[a].attempt]
  <2>1. r.phase = "returned"
    BY <1>0 DEF PP!Run
  <2>2. Becomes(a, r)
    BY <1>6 DEF P!ReplyValid, Becomes, PipelineTypes
  <2>3. requestMetrics'.success = requestMetrics.success + 1
    BY <1>6 DEF P!ReplyValid, PipelineTypes
  <2> HIDE DEF r
  <2>4. QED
    BY <1>1, <2>1, <2>2, <2>3
<1>7. QED
  BY <1>2, <1>3, <1>4, <1>5, <1>6 DEF P!Called

\* An analysis comes to its end, and counts no success any more.
LEMMA AnalysisAnswered ==
    ASSUME PipelineTypes, NEW a \in Analyses
    PROVE  /\ P!AnswerReport(a) =>
                 /\ run[a].phase = "returned" /\ requestMetrics' = requestMetrics
                 /\ \E r : Becomes(a, r) /\ r.phase = "done" /\ r.answer = "success"
           /\ P!QueueError(a) =>
                 /\ run[a].phase = "raised" /\ requestMetrics' = requestMetrics
                 /\ \E r : Becomes(a, r) /\ r.phase = "done" /\ r.answer \in P!ErrorCodes
           /\ P!Cancel(a) =>
                 /\ run[a].phase = "calling" /\ requestMetrics' = requestMetrics
                 /\ \E r : Becomes(a, r) /\ r.phase = "cancelled" /\ r.answer = run[a].answer
<1>0. run[a] \in PP!Run /\ run \in [Analyses -> PP!Run]
  BY DEF PipelineTypes
<1>1. ASSUME NEW x, P!Answer(a, x)
      PROVE  \E r : Becomes(a, r) /\ r.phase = "done" /\ r.answer = x
  <2> DEFINE r == [run[a] EXCEPT !.phase = "done", !.answer = x]
  <2>1. r.phase = "done" /\ r.answer = x
    BY <1>0 DEF PP!Run
  <2>2. Becomes(a, r)
    BY <1>0, <1>1 DEF P!Answer, Becomes
  <2> HIDE DEF r
  <2>3. QED
    BY <2>1, <2>2
<1>2. ASSUME P!AnswerReport(a)
      PROVE  /\ run[a].phase = "returned" /\ requestMetrics' = requestMetrics
             /\ \E r : Becomes(a, r) /\ r.phase = "done" /\ r.answer = "success"
  BY <1>1, <1>2 DEF P!AnswerReport
<1>3. ASSUME P!QueueError(a)
      PROVE  /\ run[a].phase = "raised" /\ requestMetrics' = requestMetrics
             /\ \E r : Becomes(a, r) /\ r.phase = "done" /\ r.answer \in P!ErrorCodes
  <2>1. P!QueueCode(run[a].exception) \in P!ErrorCodes
    BY DEF P!QueueCode, P!ErrorCodes
  <2>2. QED
    BY <1>1, <1>3, <2>1 DEF P!QueueError
<1>4. ASSUME P!Cancel(a)
      PROVE  /\ run[a].phase = "calling" /\ requestMetrics' = requestMetrics
             /\ \E r : Becomes(a, r) /\ r.phase = "cancelled" /\ r.answer = run[a].answer
  <2> DEFINE r == [run[a] EXCEPT !.phase = "cancelled"]
  <2>1. r.phase = "cancelled" /\ r.answer = run[a].answer
    BY <1>0 DEF PP!Run
  <2>2. Becomes(a, r)
    BY <1>0, <1>4 DEF P!Cancel, Becomes
  <2> HIDE DEF r
  <2>3. QED
    BY <1>4, <2>1, <2>2 DEF P!Cancel
<1>5. QED
  BY <1>2, <1>3, <1>4

-----------------------------------------------------------------------------
(* Each coroutine and its analysis keep step.                              *)

\* What the await of a coroutine says of the state of its analysis.
Matches(h, r) ==
    /\ h.stage \in {"received", "nack"} => r.phase = "idle"
    /\ h.stage = "pipeline" => r.phase \in {"calling", "raised", "returned"}
    /\ h.stage = "publish"  => /\ r.phase = "done"
                               /\ h.answer = "success" => r.answer = "success"
                               /\ h.answer = "error" => r.answer \in P!ErrorCodes
    /\ h.stage = "ack"      => r.phase = "done"

\* What makes SettledByItsOwnAnalysis inductive: the coroutines keep step with
\* their analyses, and no analysis is of a delivery to come.
JointInv ==
    /\ PartsInv
    /\ \A h \in handlers : Matches(h, run[AnalysisOf(h)])
    /\ \A m \in Messages, n \in 1 .. MaxDisturbances + 1 :
          n > deliveries[m] => run[<<m, n>>].phase = "idle"
    /\ \A m \in Messages : request[m] = "acked" => deliveries[m] > 0
    /\ SettledByItsOwnAnalysis

\* The kinds of steps, seen from a coroutine and its analysis: the two go on
\* together, or the coroutine ends, an analysis is cancelled whose coroutine is
\* gone, a request is delivered or acknowledged.
GoesOn(h, g, r) ==
    /\ UNCHANGED <<request, deliveries>>
    /\ handlers' = (handlers \ {h}) \cup {g}
    /\ g.msg = h.msg /\ g.nth = h.nth
    /\ Becomes(AnalysisOf(h), r)
    /\ Matches(g, r)
    /\ run[AnalysisOf(h)].phase = "done" => r.phase = "done"
    /\ r.phase # "idle" => h.msg \notin Malformed

Ends(h, r) ==
    /\ UNCHANGED <<request, deliveries>>
    /\ handlers' = handlers \ {h}
    /\ Becomes(AnalysisOf(h), r)
    /\ r.phase = "done" /\ run[AnalysisOf(h)].phase # "idle"

Loses ==
    /\ UNCHANGED <<deliveries, run>>
    /\ handlers' \subseteq handlers
    /\ \A m \in Messages : request'[m] = "acked" => request[m] = "acked"

Delivers(m) == W!Deliver(m) /\ UNCHANGED run

Acknowledges(h) == W!Ack(h) /\ UNCHANGED run

\* A coroutine that goes round the publisher's loop, or out of it.
LEMMA AttemptKinds ==
    ASSUME NEW h \in handlers, h \in WP!Handler, W!AttemptFailed(h)
    PROVE  \/ /\ h.attempt < MaxPublishAttempts - 1
              /\ \E g : /\ handlers' = (handlers \ {h}) \cup {g}
                        /\ g.msg = h.msg /\ g.nth = h.nth
                        /\ g.stage = h.stage /\ g.answer = h.answer
              /\ metrics' = metrics
           \/ /\ ~(h.attempt < MaxPublishAttempts - 1)
              /\ handlers' = handlers \ {h}
              /\ metrics' = [metrics EXCEPT !["publishFailures"] = @ + 1]
<1>1. CASE h.attempt < MaxPublishAttempts - 1
  <2> DEFINE g == [h EXCEPT !.attempt = @ + 1]
  <2>1. g.msg = h.msg /\ g.nth = h.nth /\ g.stage = h.stage /\ g.answer = h.answer
    BY DEF WP!Handler
  <2>2. handlers' = (handlers \ {h}) \cup {g} /\ metrics' = metrics
    BY <1>1 DEF W!AttemptFailed, W!Advance
  <2> HIDE DEF g
  <2>3. QED
    BY <1>1, <2>1, <2>2
<1>2. CASE ~(h.attempt < MaxPublishAttempts - 1)
  BY <1>2 DEF W!AttemptFailed, W!Finish, W!Count
<1>3. QED
  BY <1>1, <1>2

\* The types, as the steps need them.
LEMMA Types ==
    ASSUME PartsInv
    PROVE  /\ PipelineTypes
           /\ handlers \subseteq WP!Handler /\ IsFiniteSet(handlers)
           /\ \A h \in handlers : h.stage = "publish" => h.answer \in {"success", "error"}
           /\ request \in [Messages -> WP!Places] /\ deliveries \in [Messages -> Nat]
           /\ metrics \in [WP!Counters -> Nat]
           /\ answers \in [Messages -> [WP!Answer -> Nat]]
           /\ disturbances \in Nat
<1>1. PipelineTypes
  BY DEF PartsInv, PP!IInv, PP!TypeOK, PipelineTypes
<1>2. IsFiniteSet(handlers)
  BY DEF PartsInv, WP!LoadInv, WP!AccountInv, IsFiniteSet, WP!IsFiniteSet
<1>3. \A h \in handlers : h.stage = "publish" => h.answer \in {"success", "error"}
  BY DEF PartsInv, WP!LoadInv, WP!AccountInv, WP!TypeInv, WP!AnswerChosen, WP!Answer
<1>4. WP!TypeOK
  BY DEF PartsInv, WP!LoadInv, WP!AccountInv, WP!TypeInv
<1>5. QED
  BY <1>1, <1>2, <1>3, <1>4 DEF WP!TypeOK

\* What a coroutine does, it does with its analysis.
LEMMA CoroutineKinds ==
    ASSUME JointInv, NEW h \in handlers, Step(h)
    PROVE  \/ \E g, r : GoesOn(h, g, r)
           \/ \E r : Ends(h, r)
           \/ Loses
           \/ Acknowledges(h)
<1> DEFINE a == AnalysisOf(h)
<1>0. /\ h \in WP!Handler /\ h.msg \in Messages /\ h.nth \in 1 .. MaxDisturbances + 1
      /\ a \in Analyses
      /\ PipelineTypes /\ run \in [Analyses -> PP!Run]
      /\ Matches(h, run[a])
      /\ request \in [Messages -> WP!Places] /\ deliveries \in [Messages -> Nat]
  <2>1. h.nth \in 1 .. deliveries[h.msg] /\ deliveries[h.msg] \in 0 .. MaxDisturbances + 1
    BY OwnAnalysis DEF JointInv
  <2>2. h.nth \in 1 .. MaxDisturbances + 1
    BY <2>1, BoundAssumption
  <2>3. QED
    BY <2>2, OwnAnalysis, Types DEF JointInv, PipelineTypes
<1>1. run[a].phase # "idle" => h.msg \notin Malformed
  BY <1>0 DEF JointInv, SettledByItsOwnAnalysis, AnalysisOf
<1>2. ASSUME UNCHANGED run PROVE Becomes(a, run[a])
  BY <1>0, <1>2 DEF Becomes
<1> HIDE DEF a
<1>3. CASE Receive(h)
  <2>1. /\ h.stage = "received" /\ run[a].phase = "idle"
        /\ UNCHANGED <<request, deliveries>>
    BY <1>0, <1>3 DEF Receive, W!Receive, Matches, W!brokerVars
  <2>2. CASE h.msg \in Malformed
    <3> DEFINE g == [h EXCEPT !.stage = "nack"]
    <3>1. g.msg = h.msg /\ g.nth = h.nth /\ g.stage = "nack"
      BY <1>0 DEF WP!Handler
    <3>2. handlers' = (handlers \ {h}) \cup {g} /\ Becomes(a, run[a])
      BY <1>2, <1>3, <2>2 DEF Receive, W!Receive, W!Advance, pipelineVars
    <3> HIDE DEF g
    <3>3. GoesOn(h, g, run[a])
      BY <2>1, <3>1, <3>2 DEF GoesOn, Matches, a
    <3>4. QED
      BY <3>3
  <2>3. CASE h.msg \notin Malformed
    <3> DEFINE g == [h EXCEPT !.stage = "pipeline"]
    <3>1. g.msg = h.msg /\ g.nth = h.nth /\ g.stage = "pipeline"
      BY <1>0 DEF WP!Handler
    <3>2. handlers' = (handlers \ {h}) \cup {g}
      BY <1>3, <2>3 DEF Receive, W!Receive, W!Advance
    <3>3. P!AdapterRaises(a) \/ \E file \in Files : P!Reject(a, file) \/ P!Start(a, file)
      BY <1>3, <2>3 DEF Receive, a
    <3>4. PICK r : Becomes(a, r) /\ r.phase \in {"calling", "raised"}
      BY <1>0, <3>3, AnalysisBegins
    <3> HIDE DEF g
    <3>5. GoesOn(h, g, r)
      BY <2>1, <2>3, <3>1, <3>2, <3>4 DEF GoesOn, Matches, a
    <3>6. QED
      BY <3>5
  <2>4. QED
    BY <2>2, <2>3
<1>4. CASE Called(h)
  <2>1. /\ h.stage = "pipeline" /\ P!Called(a)
        /\ UNCHANGED <<request, deliveries, handlers>>
    BY <1>4 DEF Called, workerVars, a
  <2>2. /\ run[a].phase = "calling"
        /\ \E r : Becomes(a, r) /\ r.phase \in {"calling", "raised", "returned"}
    BY <1>0, <2>1, AnalysisCalled
  <2>3. PICK r : Becomes(a, r) /\ r.phase \in {"calling", "raised", "returned"}
    BY <2>2
  <2>4. handlers' = (handlers \ {h}) \cup {h}
    BY <2>1
  <2>5. GoesOn(h, h, r)
    BY <1>1, <2>1, <2>2, <2>3, <2>4 DEF GoesOn, Matches, a
  <2>6. QED
    BY <2>5
<1>5. CASE Return(h)
  <2> DEFINE g == [h EXCEPT !.stage = "publish", !.answer = "success"]
  <2>1. g.msg = h.msg /\ g.nth = h.nth /\ g.stage = "publish" /\ g.answer = "success"
    BY <1>0 DEF WP!Handler
  <2>2. /\ handlers' = (handlers \ {h}) \cup {g} /\ P!AnswerReport(a)
        /\ UNCHANGED <<request, deliveries>>
    BY <1>5 DEF Return, W!PipelineReturns, W!Advance, W!brokerVars, a
  <2>3. run[a].phase = "returned" /\ \E r : Becomes(a, r) /\ r.phase = "done" /\ r.answer = "success"
    BY <1>0, <2>2, AnalysisAnswered
  <2>4. PICK r : Becomes(a, r) /\ r.phase = "done" /\ r.answer = "success"
    BY <2>3
  <2> HIDE DEF g
  <2>5. GoesOn(h, g, r)
    BY <1>1, <2>1, <2>2, <2>3, <2>4 DEF GoesOn, Matches, a
  <2>6. QED
    BY <2>5
<1>6. CASE Raise(h)
  <2>1. P!QueueError(a) /\ UNCHANGED <<request, deliveries>>
    BY <1>6 DEF Raise, W!PipelineRaises, W!PipelineRaisesBlank, W!brokerVars, a
  <2>2. run[a].phase = "raised" /\ \E r : Becomes(a, r) /\ r.phase = "done" /\ r.answer \in P!ErrorCodes
    BY <1>0, <2>1, AnalysisAnswered
  <2>3. PICK r : Becomes(a, r) /\ r.phase = "done" /\ r.answer \in P!ErrorCodes
    BY <2>2
  <2>4. CASE W!PipelineRaises(h)
    <3> DEFINE g == [h EXCEPT !.stage = "publish", !.answer = "error"]
    <3>1. g.msg = h.msg /\ g.nth = h.nth /\ g.stage = "publish" /\ g.answer = "error"
      BY <1>0 DEF WP!Handler
    <3>2. handlers' = (handlers \ {h}) \cup {g}
      BY <2>4 DEF W!PipelineRaises, W!Advance
    <3> HIDE DEF g
    <3>3. GoesOn(h, g, r)
      BY <1>1, <2>1, <2>2, <2>3, <3>1, <3>2 DEF GoesOn, Matches, a
    <3>4. QED
      BY <3>3
  <2>5. CASE W!PipelineRaisesBlank(h)
    <3>1. Ends(h, r)
      BY <2>1, <2>2, <2>3, <2>5 DEF Ends, W!PipelineRaisesBlank, W!Finish, a
    <3>2. QED
      BY <3>1
  <2>6. QED
    BY <1>6, <2>4, <2>5 DEF Raise
<1>7. CASE Apart(W!PublishConfirmed(h))
  <2> DEFINE g == [h EXCEPT !.stage = "ack"]
  <2>1. g.msg = h.msg /\ g.nth = h.nth /\ g.stage = "ack"
    BY <1>0 DEF WP!Handler
  <2>2. /\ h.stage = "publish" /\ handlers' = (handlers \ {h}) \cup {g}
        /\ UNCHANGED <<request, deliveries>> /\ UNCHANGED run
    BY <1>7 DEF Apart, W!PublishConfirmed, W!Advance, pipelineVars
  <2>3. run[a].phase = "done"
    BY <1>0, <2>2 DEF Matches
  <2> HIDE DEF g
  <2>4. GoesOn(h, g, run[a])
    BY <1>1, <1>2, <2>1, <2>2, <2>3 DEF GoesOn, Matches, a
  <2>5. QED
    BY <2>4
<1>8. CASE Apart(W!PublishUnconfirmed(h)) \/ Apart(W!PublishRaises(h))
  <2>1. /\ h.stage = "publish" /\ W!AttemptFailed(h)
        /\ UNCHANGED <<request, deliveries>> /\ UNCHANGED run
    BY <1>8 DEF Apart, W!PublishUnconfirmed, W!PublishRaises, W!brokerVars, pipelineVars
  <2>2. CASE handlers' = handlers \ {h}
    BY <2>1, <2>2 DEF Loses
  <2>3. ASSUME NEW g, handlers' = (handlers \ {h}) \cup {g}, g.msg = h.msg, g.nth = h.nth,
               g.stage = h.stage, g.answer = h.answer
        PROVE  GoesOn(h, g, run[a])
    BY <1>0, <1>1, <1>2, <2>1, <2>3 DEF GoesOn, Matches, a
  <2>4. QED
    BY <1>0, <2>1, <2>2, <2>3, AttemptKinds
<1>9. CASE Apart(W!Nack(h)) \/ Apart(W!SettleRaises(h))
  <2>1. UNCHANGED <<deliveries, run>> /\ handlers' \subseteq handlers
    BY <1>9 DEF Apart, W!Nack, W!SettleRaises, W!Finish, W!brokerVars, pipelineVars
  <2>2. request' = request \/ request' = [request EXCEPT ![h.msg] = "rejected"]
    BY <1>9 DEF Apart, W!Nack, W!SettleRaises, W!brokerVars
  <2>3. \A m \in Messages : request'[m] = "acked" => request[m] = "acked"
    BY <1>0, <2>2
  <2>4. QED
    BY <2>1, <2>3 DEF Loses
<1>10. CASE Apart(W!Ack(h))
  BY <1>10 DEF Apart, Acknowledges, pipelineVars
<1>11. QED
  BY <1>3, <1>4, <1>5, <1>6, <1>7, <1>8, <1>9, <1>10 DEF Step, Apart

\* Every step is of one of the kinds.
LEMMA JointKinds ==
    ASSUME JointInv, [Next]_vars
    PROVE  \/ \E h \in handlers : \/ \E g, r : GoesOn(h, g, r)
                                  \/ \E r : Ends(h, r)
                                  \/ Acknowledges(h)
           \/ Loses
           \/ \E m \in Messages : Delivers(m)
           \/ \E a \in Analyses : Cancelled(a)
<1>0. request \in [Messages -> WP!Places]
  BY Types DEF JointInv
<1>1. ASSUME NEW h \in handlers, Step(h)
      PROVE  \/ \E g, r : GoesOn(h, g, r)
             \/ \E r : Ends(h, r)
             \/ Loses
             \/ Acknowledges(h)
  BY <1>1, CoroutineKinds
<1>2. ASSUME NEW m \in Messages, Apart(W!Submit(m) \/ W!Deliver(m)) PROVE Loses \/ Delivers(m)
  <2>1. CASE W!Submit(m)
    <3>1. UNCHANGED <<deliveries, run, handlers>> /\ request' = [request EXCEPT ![m] = "ready"]
      BY <1>2, <2>1 DEF Apart, W!Submit, pipelineVars
    <3>2. \A k \in Messages : request'[k] = "acked" => request[k] = "acked"
      BY <1>0, <3>1
    <3>3. QED
      BY <3>1, <3>2 DEF Loses
  <2>2. CASE W!Deliver(m)
    BY <1>2, <2>2 DEF Apart, Delivers, pipelineVars
  <2>3. QED
    BY <1>2, <2>1, <2>2 DEF Apart
<1>3. ASSUME W!RequeueUnacked, W!SomeHandlersCancelled, UNCHANGED <<deliveries, run>> PROVE Loses
  <2>1. \A m \in Messages : request'[m] = "acked" => request[m] = "acked"
    BY <1>0, <1>3 DEF W!RequeueUnacked, W!Unacked
  <2>2. QED
    BY <1>3, <2>1 DEF Loses, W!SomeHandlersCancelled
<1>4. CASE ChannelEnds(W!ConnectionLost) \/ ChannelEnds(W!AckTimeoutClose) \/ ChannelEnds(W!AckTimeoutSlow)
  BY <1>3, <1>4 DEF ChannelEnds, W!ConnectionLost, W!AckTimeoutClose, W!AckTimeoutSlow, pipelineVars
<1>5. CASE Apart(W!Boot \/ W!StartConsumer \/ W!Reconnect)
  BY <1>5 DEF Apart, W!Boot, W!StartConsumer, W!Reconnect, W!brokerVars, pipelineVars, Loses
<1>6. CASE UNCHANGED vars
  BY <1>6 DEF vars, workerVars, pipelineVars, Loses
<1>7. QED
  BY <1>1, <1>2, <1>4, <1>5, <1>6 DEF Next

\* A step of one analysis changes no other.
LEMMA OthersStay ==
    ASSUME PipelineTypes, NEW a \in Analyses, NEW r, Becomes(a, r)
    PROVE  run'[a] = r /\ \A b \in Analyses : b # a => run'[b] = run[b]
BY DEF PipelineTypes, Becomes

\* The part of the invariant that is not about coroutines.
DeliveriesInv ==
    /\ \A m \in Messages, n \in 1 .. MaxDisturbances + 1 :
          n > deliveries[m] => run[<<m, n>>].phase = "idle"
    /\ \A m \in Messages : request[m] = "acked" => deliveries[m] > 0
    /\ SettledByItsOwnAnalysis

\* An analysis that moves keeps it: one that has ended stays so, and none of a
\* malformed request begins.
LEMMA MovingAnalysis ==
    ASSUME JointInv, UNCHANGED <<request, deliveries>>,
           NEW k \in Messages, NEW i \in 1 .. deliveries[k], NEW r, Becomes(<<k, i>>, r),
           run[<<k, i>>].phase = "done" => r.phase = "done",
           r.phase # "idle" => k \notin Malformed
    PROVE  DeliveriesInv'
<1> DEFINE a == <<k, i>>
<1>0. /\ \A m \in Messages : deliveries[m] \in 0 .. MaxDisturbances + 1
      /\ a \in Analyses
  <2>1. \A m \in Messages : deliveries[m] \in 0 .. MaxDisturbances + 1
    BY OwnAnalysis DEF JointInv
  <2>2. i \in 1 .. MaxDisturbances + 1
    BY <2>1, BoundAssumption
  <2>3. QED
    BY <2>1, <2>2 DEF Analyses
<1>1. run'[a] = r /\ \A b \in Analyses : b # a => run'[b] = run[b]
  BY <1>0, OthersStay, Types DEF JointInv
<1>3. ASSUME NEW m \in Messages, NEW n \in 1 .. MaxDisturbances + 1, n > deliveries[m]
      PROVE  run'[<<m, n>>].phase = "idle"
  <2>1. <<m, n>> \in Analyses /\ <<m, n>> # a
    BY <1>0, <1>3 DEF Analyses
  <2>2. QED
    BY <1>1, <1>3, <2>1 DEF JointInv
<1>4. ASSUME NEW m \in Messages, request[m] = "acked"
      PROVE  run'[<<m, deliveries[m]>>].phase = "done"
  <2>1. deliveries[m] \in 1 .. MaxDisturbances + 1
    BY <1>0, <1>4, BoundAssumption DEF JointInv
  <2>2. <<m, deliveries[m]>> \in Analyses /\ run[<<m, deliveries[m]>>].phase = "done"
    BY <1>4, <2>1 DEF Analyses, JointInv, SettledByItsOwnAnalysis
  <2>3. CASE <<m, deliveries[m]>> = a
    BY <1>1, <2>2, <2>3
  <2>4. CASE <<m, deliveries[m]>> # a
    BY <1>1, <2>2, <2>4
  <2>5. QED
    BY <2>3, <2>4
<1>5. ASSUME NEW m \in Malformed, NEW n \in 1 .. MaxDisturbances + 1
      PROVE  run'[<<m, n>>].phase = "idle"
  <2>1. <<m, n>> \in Analyses /\ run[<<m, n>>].phase = "idle" /\ m \in Messages
    BY MalformedAssumption DEF Analyses, JointInv, SettledByItsOwnAnalysis
  <2>2. CASE <<m, n>> = a
    BY <1>0, <1>1, <2>2
  <2>3. CASE <<m, n>> # a
    BY <1>1, <2>1, <2>3
  <2>4. QED
    BY <2>2, <2>3
<1>6. SettledByItsOwnAnalysis'
  BY <1>4, <1>5 DEF SettledByItsOwnAnalysis
<1>7. QED
  BY <1>3, <1>6 DEF JointInv, DeliveriesInv

\* A coroutine that goes on with its analysis, or ends with it.
LEMMA MovingJoint ==
    ASSUME JointInv, PartsInv', NEW h \in handlers, NEW r,
           (\E g : GoesOn(h, g, r)) \/ Ends(h, r)
    PROVE  JointInv'
<1> DEFINE a == AnalysisOf(h)
<1>0. /\ a \in Analyses /\ PipelineTypes /\ a = <<h.msg, h.nth>>
      /\ h.msg \in Messages /\ h.nth \in 1 .. deliveries[h.msg]
      /\ \A x \in handlers : AnalysisOf(x) \in Analyses /\ (AnalysisOf(x) = a => x = h)
      /\ \A m \in Messages : deliveries[m] \in 0 .. MaxDisturbances + 1
  BY OwnAnalysis, Types DEF JointInv, AnalysisOf
<1> HIDE DEF a
<1>1. run'[a] = r /\ \A b \in Analyses : b # a => run'[b] = run[b]
  BY <1>0, OthersStay DEF GoesOn, Ends, a
<1>2. \A x \in handlers : x # h => Matches(x, run'[AnalysisOf(x)])
  BY <1>0, <1>1 DEF JointInv
<1>3. \A x \in handlers' : Matches(x, run'[AnalysisOf(x)])
  <2>1. ASSUME NEW g, GoesOn(h, g, r) PROVE \A x \in handlers' : Matches(x, run'[AnalysisOf(x)])
    <3>1. AnalysisOf(g) = a
      BY <1>0, <2>1 DEF GoesOn, AnalysisOf
    <3>2. QED
      BY <1>1, <1>2, <2>1, <3>1 DEF GoesOn
  <2>2. CASE Ends(h, r)
    BY <1>2, <2>2 DEF Ends
  <2>3. QED
    BY <2>1, <2>2
<1>4. Ends(h, r) => h.msg \notin Malformed
  <2>1. h.nth \in 1 .. MaxDisturbances + 1
    BY <1>0, BoundAssumption
  <2>2. h.msg \in Malformed => run[<<h.msg, h.nth>>].phase = "idle"
    BY <1>0, <2>1 DEF JointInv, SettledByItsOwnAnalysis
  <2>3. QED
    BY <1>0, <2>2 DEF Ends, a
<1>5. DeliveriesInv'
  BY <1>0, <1>4, MovingAnalysis DEF GoesOn, Ends, a
<1>6. QED
  BY <1>3, <1>5 DEF JointInv, DeliveriesInv

\* An analysis that is cancelled has no coroutine that waits for it.
LEMMA CancelledJoint ==
    ASSUME JointInv, PartsInv', NEW a \in Analyses, Cancelled(a) PROVE JointInv'
<1>0. /\ PipelineTypes
      /\ \A x \in handlers : AnalysisOf(x) \in Analyses
      /\ \A m \in Messages : deliveries[m] \in 0 .. MaxDisturbances + 1
  BY OwnAnalysis, Types DEF JointInv
<1>1. UNCHANGED <<request, deliveries, handlers>> /\ P!Cancel(a)
  BY DEF Cancelled, workerVars
<1>2. run[a].phase = "calling" /\ \E r : Becomes(a, r) /\ r.phase = "cancelled"
  BY <1>0, <1>1, AnalysisAnswered
<1>3. PICK r : Becomes(a, r) /\ r.phase = "cancelled"
  BY <1>2
<1>4. run'[a] = r /\ \A b \in Analyses : b # a => run'[b] = run[b]
  BY <1>0, <1>3, OthersStay
<1>5. \A x \in handlers' : Matches(x, run'[AnalysisOf(x)])
  <2>1. ASSUME NEW x \in handlers, AnalysisOf(x) = a PROVE FALSE
    <3>1. Matches(x, run[a]) /\ x.stage # "pipeline"
      BY <2>1 DEF JointInv, Cancelled, AtPipeline
    <3>2. x.stage \in {"received", "nack", "pipeline", "publish", "ack"}
      BY <2>1, Types DEF JointInv, WP!Handler
    <3>3. QED
      BY <1>2, <3>1, <3>2 DEF Matches
  <2>2. QED
    BY <1>0, <1>1, <1>4, <2>1 DEF JointInv
<1>6. PICK k \in Messages, i \in 1 .. MaxDisturbances + 1 : a = <<k, i>>
  BY DEF Analyses
<1>7. i \in 1 .. deliveries[k] /\ k \notin Malformed
  <2>1. run[<<k, i>>].phase # "idle"
    BY <1>2, <1>6
  <2>2. ~(i > deliveries[k])
    BY <2>1 DEF JointInv
  <2>3. k \notin Malformed
    BY <2>1 DEF JointInv, SettledByItsOwnAnalysis
  <2>4. QED
    BY <1>0, <2>2, <2>3, BoundAssumption
<1>8. DeliveriesInv'
  BY <1>1, <1>2, <1>3, <1>6, <1>7, MovingAnalysis
<1>9. QED
  BY <1>5, <1>8 DEF JointInv, DeliveriesInv

\* Coroutines end, and requests go back to the queue or are sent or rejected.
LEMMA LosingJoint == ASSUME JointInv, PartsInv', Loses PROVE JointInv'
<1>1. \A x \in handlers' : Matches(x, run'[AnalysisOf(x)])
  BY DEF JointInv, Loses
<1>2. DeliveriesInv'
  BY DEF JointInv, Loses, DeliveriesInv, SettledByItsOwnAnalysis
<1>3. QED
  BY <1>1, <1>2 DEF JointInv, DeliveriesInv

\* The analysis of a delivery has not begun when its coroutine does.
LEMMA DeliveredJoint ==
    ASSUME JointInv, PartsInv', NEW m \in Messages, Delivers(m) PROVE JointInv'
<1> DEFINE g == [msg |-> m, nth |-> deliveries[m] + 1, stage |-> "received",
                 answer |-> "none", attempt |-> 0]
<1>0. /\ \A k \in Messages : deliveries[k] \in 0 .. MaxDisturbances + 1
      /\ \A k \in Messages : deliveries'[k] \in 0 .. MaxDisturbances + 1
  BY OwnAnalysis, OwnAnalysisNext DEF JointInv
<1>1. /\ request' = [request EXCEPT ![m] = "unacked"]
      /\ deliveries' = [deliveries EXCEPT ![m] = @ + 1]
      /\ run' = run
      /\ handlers' = handlers \cup {g}
  BY DEF Delivers, W!Deliver
<1>2. /\ request'[m] = "unacked" /\ deliveries'[m] = deliveries[m] + 1
      /\ \A k \in Messages : k # m => request'[k] = request[k] /\ deliveries'[k] = deliveries[k]
  BY <1>1, Types DEF JointInv
<1>3. g.stage = "received" /\ AnalysisOf(g) = <<m, deliveries[m] + 1>>
  BY DEF AnalysisOf
<1> HIDE DEF g
<1>4. deliveries[m] + 1 \in 1 .. MaxDisturbances + 1 /\ deliveries[m] + 1 > deliveries[m]
  BY <1>0, <1>2, BoundAssumption
<1>5. run[<<m, deliveries[m] + 1>>].phase = "idle"
  BY <1>4 DEF JointInv
<1>6. \A x \in handlers' : Matches(x, run'[AnalysisOf(x)])
  <2>1. Matches(g, run'[AnalysisOf(g)])
    BY <1>1, <1>3, <1>5 DEF Matches
  <2>2. QED
    BY <1>1, <2>1 DEF JointInv
<1>7. ASSUME NEW k \in Messages, NEW n \in 1 .. MaxDisturbances + 1, n > deliveries'[k]
      PROVE  run'[<<k, n>>].phase = "idle"
  <2>1. n > deliveries[k]
    BY <1>0, <1>2, <1>7, BoundAssumption
  <2>2. QED
    BY <1>1, <2>1 DEF JointInv
<1>8. ASSUME NEW k \in Messages, request'[k] = "acked"
      PROVE  deliveries'[k] > 0 /\ run'[<<k, deliveries'[k]>>].phase = "done"
  BY <1>1, <1>2, <1>8 DEF JointInv, SettledByItsOwnAnalysis
<1>9. SettledByItsOwnAnalysis'
  BY <1>1, <1>8 DEF JointInv, SettledByItsOwnAnalysis
<1>10. QED
  BY <1>6, <1>7, <1>8, <1>9 DEF JointInv

\* Only the coroutine of the current delivery can acknowledge it, and it does so
\* when its own analysis has ended.
LEMMA AcknowledgedJoint ==
    ASSUME JointInv, PartsInv', NEW h \in handlers, Acknowledges(h) PROVE JointInv'
<1>0. h.msg \in Messages /\ h.nth \in 1 .. deliveries[h.msg] /\ deliveries[h.msg] \in Nat
  BY OwnAnalysis, Types DEF JointInv
<1>1. /\ h.stage = "ack" /\ deliveries[h.msg] = h.nth
      /\ request' = [request EXCEPT ![h.msg] = "acked"]
      /\ UNCHANGED <<deliveries, run>>
      /\ handlers' \subseteq handlers
  BY DEF Acknowledges, W!Ack, W!Holds, W!Finish
<1>2. run[<<h.msg, deliveries[h.msg]>>].phase = "done" /\ deliveries[h.msg] > 0
  BY <1>0, <1>1 DEF JointInv, Matches, AnalysisOf
<1>3. \A m \in Messages : m # h.msg => request'[m] = request[m]
  BY <1>1, Types DEF JointInv
<1>4. \A x \in handlers' : Matches(x, run'[AnalysisOf(x)])
  BY <1>1 DEF JointInv
<1>5. DeliveriesInv'
  BY <1>1, <1>2, <1>3 DEF JointInv, DeliveriesInv, SettledByItsOwnAnalysis
<1>6. QED
  BY <1>4, <1>5 DEF JointInv, DeliveriesInv

\* Every step of the composition keeps what relates coroutines to analyses.
LEMMA JointStep == ASSUME JointInv, [Next]_vars PROVE JointInv'
<1>1. PartsInv'
  BY PartsStep DEF JointInv
<1>2. QED
  BY <1>1, JointKinds, MovingJoint, CancelledJoint, LosingJoint, DeliveredJoint, AcknowledgedJoint

\* The invariants of the parts hold at the start.
LEMMA InitialParts == Init => PartsInv
<1> SUFFICES ASSUME Init PROVE PartsInv
  OBVIOUS
<1>1. WP!Init /\ PP!Init
  BY SameWorker, SamePipeline DEF Init
<1>2. WP!LoadInv /\ WP!DeliveryInv
  BY <1>1, WorkerConstants, WP!InitialLoad, WP!InitialDelivery
<1>3. PP!IInv
  BY <1>1, PipelineConstants, PP!InitialInv
<1>4. handlers = {} /\ disturbances = 0
  BY <1>1 DEF WP!Init
<1>5. QED
  BY <1>2, <1>3, <1>4, BoundAssumption DEF PartsInv, DisturbancesCapped

\* No coroutine and no analysis is there at the start, so nothing relates them.
LEMMA InitialJoint == Init => JointInv
<1> SUFFICES ASSUME Init PROVE JointInv
  OBVIOUS
<1>1. /\ handlers = {} /\ deliveries = [m \in Messages |-> 0]
      /\ request = [m \in Messages |-> "unsent"]
  BY DEF Init, W!Init
<1>2. \A a \in Analyses : run[a].phase = "idle"
  BY DEF Init, P!Init
<1>3. \A m \in Messages, n \in 1 .. MaxDisturbances + 1 : run[<<m, n>>].phase = "idle"
  BY <1>2 DEF Analyses
<1>4. SettledByItsOwnAnalysis
  BY <1>1, <1>3, MalformedAssumption DEF SettledByItsOwnAnalysis
<1>5. QED
  BY <1>1, <1>3, <1>4, InitialParts DEF JointInv

\* In every reachable state each coroutine that has a request in work has an
\* analysis of its own, at the place the coroutine stands at.
THEOREM JointInductive == Spec => []JointInv
<1>1. Init => JointInv
  BY InitialJoint
<1>2. JointInv /\ [Next]_vars => JointInv'
  BY JointStep
<1>3. QED
  BY <1>1, <1>2, PTL DEF Spec

\* The delivery that is acknowledged is the one whose own analysis ended, and no
\* malformed request is analysed, however many coroutines of earlier deliveries
\* are still at work (consumer.py).
THEOREM SettlementsMatch == Spec => []SettledByItsOwnAnalysis
<1>1. JointInv => SettledByItsOwnAnalysis
  BY DEF JointInv
<1>2. QED
  BY <1>1, JointInductive, PTL

-----------------------------------------------------------------------------
(* Refinement.                                                             *)

\* The composition is a worker: with the analyses in the place of the one step
\* it takes for the pipeline, the process does nothing to the broker, the
\* counters and its coroutines that Worker does not allow (consumer.py).  That
\* it is a fair one, as ImplementsWorker says, is for TLC.
THEOREM CompositionIsWorker == Spec => W!Spec
<1>1. Init => W!Init
  BY DEF Init
<1>2. [Next]_vars => [W!Next]_(W!vars)
  BY WorkerSteps
<1>3. QED
  BY <1>1, <1>2, PTL DEF Spec, W!Spec

\* The composition runs the analyses as Pipeline does: the queue starts, cancels
\* and answers them in no other order than Pipeline allows, so that what is
\* proved of the pipeline holds of every delivery (consumer.py, pipeline.py).
THEOREM CompositionIsPipeline == Spec => P!Spec
<1>1. Init => P!Init
  BY DEF Init
<1>2. JointInv /\ [Next]_vars => [P!Next]_(P!vars)
  <2>1. JointInv => \A h \in handlers : AnalysisOf(h) \in Analyses
    BY OwnAnalysis DEF JointInv
  <2>2. QED
    BY <2>1, PipelineSteps
<1>3. QED
  BY <1>1, <1>2, JointInductive, PTL DEF Spec, P!Spec

-----------------------------------------------------------------------------
(* What a request costs.                                                   *)

CostInv == JointInv /\ PP!RepliesCapped

\* Longer sides make a larger product.
LEMMA TimesGrows == ASSUME NEW d \in Nat, NEW e \in Nat, NEW k \in Nat, d <= e
                    PROVE  d * k <= k * e
OBVIOUS

\* The calls for a request: for each of its deliveries, at most LLM_MAX_RETRIES.
LEMMA CallsCounted == ASSUME CostInv PROVE CallsBounded
<1> SUFFICES ASSUME NEW m \in Messages
             PROVE  Cardinality(CallsFor(m)) <= MaxRetries * (1 + disturbances)
  BY DEF CallsBounded
<1>0. /\ deliveries[m] \in Nat /\ disturbances \in Nat
      /\ deliveries[m] <= 1 + disturbances
      /\ deliveries[m] <= MaxDisturbances + 1
      /\ MaxRetries \in Nat
  BY DeliveriesPaid, OwnAnalysis, BoundAssumption, RetriesAssumption DEF CostInv, JointInv
<1> DEFINE D == 1 .. deliveries[m]
           K == 1 .. MaxRetries
<1>1. ASSUME NEW n \in 1 .. MaxDisturbances + 1, NEW i \in DOMAIN replies[<<m, n>>]
      PROVE  n \in D /\ i \in K
  <2>1. <<m, n>> \in Analyses /\ replies[<<m, n>>] \in Seq(PP!Replies)
    BY Types DEF Analyses, CostInv, JointInv, PipelineTypes
  <2>2. Len(replies[<<m, n>>]) <= MaxRetries
    BY <2>1 DEF CostInv, PP!RepliesCapped
  <2>3. i \in 1 .. Len(replies[<<m, n>>])
    BY <1>1, <2>1
  <2>4. i \in K
    BY <1>0, <2>1, <2>2, <2>3
  <2>5. run[<<m, n>>].phase = "idle" => replies[<<m, n>>] = <<>>
    BY <2>1 DEF CostInv, JointInv, PartsInv, PP!IInv, PP!RunInv
  <2>6. replies[<<m, n>>] # <<>>
    BY <2>3
  <2>7. ~(n > deliveries[m])
    BY <2>5, <2>6 DEF CostInv, JointInv
  <2>8. QED
    BY <1>0, <2>4, <2>7, BoundAssumption
<1>2. CallsFor(m) \subseteq D \X K
  <2> SUFFICES ASSUME NEW x \in CallsFor(m) PROVE x \in D \X K
    OBVIOUS
  <2>1. PICK n \in 1 .. MaxDisturbances + 1 : x \in {n} \X DOMAIN replies[<<m, n>>]
    BY DEF CallsFor
  <2>2. PICK i \in DOMAIN replies[<<m, n>>] : x = <<n, i>>
    BY <2>1
  <2>3. n \in D /\ i \in K
    BY <1>1
  <2>4. QED
    BY <2>2, <2>3
<1>3. /\ IsFiniteSet(D) /\ Cardinality(D) = deliveries[m]
      /\ IsFiniteSet(K) /\ Cardinality(K) = MaxRetries
  <2>1. ASSUME NEW k \in Nat PROVE IsFiniteSet(1 .. k) /\ Cardinality(1 .. k) = k
    <3>1. IsFiniteSet(1 .. k) /\ Cardinality(1 .. k) = IF 1 > k THEN 0 ELSE k - 1 + 1
      BY FS_Interval
    <3>2. QED
      BY <3>1
  <2>2. QED
    BY <1>0, <2>1
<1> HIDE DEF D, K
<1>4. IsFiniteSet(D \X K) /\ Cardinality(D \X K) = deliveries[m] * MaxRetries
  BY <1>3, FS_Product
<1>5. Cardinality(CallsFor(m)) <= Cardinality(D \X K) /\ Cardinality(CallsFor(m)) \in Nat
  BY <1>2, <1>4, FS_Subset, FS_CardinalityType
<1>6. deliveries[m] * MaxRetries <= MaxRetries * (1 + disturbances)
  BY <1>0, TimesGrows
<1>7. deliveries[m] * MaxRetries \in Nat /\ MaxRetries * (1 + disturbances) \in Nat
  BY <1>0
<1>8. QED
  BY <1>4, <1>5, <1>6, <1>7

\* A request costs at most LLM_MAX_RETRIES calls of the LLM, and as many again
\* for each disturbance: redelivery multiplies the calls only as often as
\* something went wrong (consumer.py, _step_retry_loop).
THEOREM CostsBounded == Spec => []CallsBounded
<1>1. Init => PP!RepliesCapped
  <2>1. Init => PP!Init
    BY SamePipeline DEF Init
  <2>2. QED
    BY <2>1, PipelineConstants, PP!NoCallYet
<1>2. JointInv /\ PP!RepliesCapped /\ [Next]_vars => PP!RepliesCapped'
  <2> SUFFICES ASSUME JointInv, PP!RepliesCapped, [Next]_vars PROVE PP!RepliesCapped'
    OBVIOUS
  <2>1. [PP!Next]_(PP!vars) /\ PP!IInv
    BY OwnAnalysis, PipelineSteps, SamePipeline DEF JointInv, PartsInv
  <2>2. QED
    BY <2>1, PipelineConstants, PP!RepliesStep
<1>3. JointInv /\ PP!RepliesCapped => CallsBounded
  BY CallsCounted DEF CostInv
<1>4. QED
  BY <1>1, <1>2, <1>3, JointInductive, PTL DEF Spec

-----------------------------------------------------------------------------
(* Counting coroutines and analyses.                                       *)

\* The coroutines that are about to publish an answer to some requests.
PublishingOf(M) == {h \in handlers : h.stage = "publish" /\ h.msg \in M}

\* A set in which one element enters, or which one leaves.
LEMMA Exchanged ==
    ASSUME NEW S, IsFiniteSet(S), NEW x
    PROVE  /\ Cardinality(S) \in Nat
           /\ x \notin S => Cardinality(S \cup {x}) = Cardinality(S) + 1
           /\ x \in S => /\ IsFiniteSet(S \ {x})
                        /\ Cardinality(S \ {x}) = Cardinality(S) - 1
                        /\ Cardinality(S) > 0
<1>0. Cardinality(S) \in Nat
  BY FS_CardinalityType
<1>1. x \notin S => Cardinality(S \cup {x}) = Cardinality(S) + 1
  BY FS_AddElement
<1>2. ASSUME x \in S
      PROVE  /\ IsFiniteSet(S \ {x}) /\ Cardinality(S \ {x}) \in Nat
             /\ Cardinality(S \ {x}) = Cardinality(S) - 1
  <2>1. IsFiniteSet(S \ {x}) /\ Cardinality(S \ {x}) = Cardinality(S) - 1
    BY <1>2, FS_RemoveElement
  <2>2. Cardinality(S \ {x}) \in Nat
    BY <2>1, FS_CardinalityType
  <2>3. QED
    BY <2>1, <2>2
<1>3. QED
  BY <1>0, <1>1, <1>2

\* The coroutines that publish, and those that are about to settle, are finitely
\* many.
LEMMA PublishingFinite ==
    ASSUME IsFiniteSet(handlers), NEW M
    PROVE  IsFiniteSet(PublishingOf(M)) /\ Cardinality(PublishingOf(M)) \in Nat
<1>1. PublishingOf(M) \in SUBSET handlers
  BY DEF PublishingOf
<1>2. QED
  BY <1>1, FS_Subset, FS_CardinalityType

\* A coroutine enters the publication, stays in it or outside of it, or leaves it.
LEMMA PublishingMoves ==
    ASSUME IsFiniteSet(handlers), NEW h \in handlers, NEW M, h.msg \in M
    PROVE  /\ Cardinality(PublishingOf(M)) \in Nat
           /\ \A g : /\ handlers' = (handlers \ {h}) \cup {g}
                     /\ g \notin handlers \ {h}
                     /\ g.msg = h.msg
                     => CASE h.stage # "publish" /\ g.stage = "publish" ->
                                Cardinality(PublishingOf(M)') = Cardinality(PublishingOf(M)) + 1
                          [] h.stage = "publish" /\ g.stage # "publish" ->
                                /\ Cardinality(PublishingOf(M)') = Cardinality(PublishingOf(M)) - 1
                                /\ Cardinality(PublishingOf(M)) > 0
                          [] OTHER ->
                                Cardinality(PublishingOf(M)') = Cardinality(PublishingOf(M))
           /\ handlers' = handlers \ {h} =>
                IF h.stage = "publish"
                THEN /\ Cardinality(PublishingOf(M)') = Cardinality(PublishingOf(M)) - 1
                     /\ Cardinality(PublishingOf(M)) > 0
                ELSE Cardinality(PublishingOf(M)') = Cardinality(PublishingOf(M))
<1>0. IsFiniteSet(PublishingOf(M)) /\ Cardinality(PublishingOf(M)) \in Nat
  BY PublishingFinite
<1>1. h \in PublishingOf(M) <=> h.stage = "publish"
  BY DEF PublishingOf
<1>2. ASSUME NEW g, handlers' = (handlers \ {h}) \cup {g}, g \notin handlers \ {h}, g.msg = h.msg
      PROVE  CASE h.stage # "publish" /\ g.stage = "publish" ->
                     Cardinality(PublishingOf(M)') = Cardinality(PublishingOf(M)) + 1
               [] h.stage = "publish" /\ g.stage # "publish" ->
                     /\ Cardinality(PublishingOf(M)') = Cardinality(PublishingOf(M)) - 1
                     /\ Cardinality(PublishingOf(M)) > 0
               [] OTHER ->
                     Cardinality(PublishingOf(M)') = Cardinality(PublishingOf(M))
  <2>1. CASE h.stage # "publish" /\ g.stage = "publish"
    <3>1. PublishingOf(M)' = PublishingOf(M) \cup {g} /\ g \notin PublishingOf(M)
      BY <1>2, <2>1 DEF PublishingOf
    <3>2. QED
      BY <1>0, <2>1, <3>1, Exchanged
  <2>2. CASE h.stage = "publish" /\ g.stage # "publish"
    <3>1. PublishingOf(M)' = PublishingOf(M) \ {h}
      BY <1>2, <2>2 DEF PublishingOf
    <3>2. QED
      BY <1>0, <1>1, <2>2, <3>1, Exchanged
  <2>3. CASE h.stage = "publish" /\ g.stage = "publish"
    <3>1. PublishingOf(M)' = (PublishingOf(M) \ {h}) \cup {g} /\ g \notin PublishingOf(M) \ {h}
      BY <1>2, <2>3 DEF PublishingOf
    <3> DEFINE S == PublishingOf(M)
    <3>2. IsFiniteSet(S) /\ h \in S /\ g \notin S \ {h}
      BY <1>0, <1>1, <2>3, <3>1
    <3> HIDE DEF S
    <3>3. /\ IsFiniteSet(S \ {h}) /\ Cardinality(S) \in Nat
          /\ Cardinality(S \ {h}) = Cardinality(S) - 1
      BY <3>2, Exchanged
    <3>4. Cardinality((S \ {h}) \cup {g}) = Cardinality(S \ {h}) + 1
      BY <3>2, <3>3, Exchanged
    <3>5. QED
      BY <2>3, <3>1, <3>3, <3>4 DEF S
  <2>4. CASE h.stage # "publish" /\ g.stage # "publish"
    <3>1. PublishingOf(M)' = PublishingOf(M)
      BY <1>2, <2>4 DEF PublishingOf
    <3>2. QED
      BY <2>4, <3>1
  <2>5. QED
    BY <2>1, <2>2, <2>3, <2>4
<1>3. ASSUME handlers' = handlers \ {h}
      PROVE  IF h.stage = "publish"
             THEN /\ Cardinality(PublishingOf(M)') = Cardinality(PublishingOf(M)) - 1
                  /\ Cardinality(PublishingOf(M)) > 0
             ELSE Cardinality(PublishingOf(M)') = Cardinality(PublishingOf(M))
  <2>1. PublishingOf(M)' = IF h.stage = "publish" THEN PublishingOf(M) \ {h} ELSE PublishingOf(M)
    BY <1>3 DEF PublishingOf
  <2>2. QED
    BY <1>0, <1>1, <2>1, Exchanged
<1>4. QED
  BY <1>0, <1>2, <1>3

\* An analysis enters a set of phases, leaves it, or neither.
LEMMA PhaseMoves ==
    ASSUME PipelineTypes, NEW a \in Analyses, NEW r, Becomes(a, r), NEW phases
    PROVE  /\ Cardinality(Phase(phases)) \in Nat
           /\ Cardinality(Phase(phases)') =
                IF run[a].phase \in phases
                THEN IF r.phase \in phases THEN Cardinality(Phase(phases))
                                           ELSE Cardinality(Phase(phases)) - 1
                ELSE IF r.phase \in phases THEN Cardinality(Phase(phases)) + 1
                                           ELSE Cardinality(Phase(phases))
<1>0. run'[a] = r /\ \A b \in Analyses : b # a => run'[b] = run[b]
  BY OthersStay
<1>1. IsFiniteSet(Phase(phases)) /\ Cardinality(Phase(phases)) \in Nat
  <2>1. Phase(phases) \in SUBSET Analyses
    BY DEF Phase
  <2>2. QED
    BY <2>1, FiniteAnalyses, FS_Subset, FS_CardinalityType
<1>2. a \in Phase(phases) <=> run[a].phase \in phases
  BY DEF Phase
<1>3. CASE run[a].phase \in phases /\ r.phase \in phases
  <2>1. Phase(phases)' = Phase(phases)
    BY <1>0, <1>3 DEF Phase
  <2>2. QED
    BY <1>1, <1>3, <2>1
<1>4. CASE run[a].phase \in phases /\ r.phase \notin phases
  <2>1. Phase(phases)' = Phase(phases) \ {a}
    BY <1>0, <1>4 DEF Phase
  <2>2. QED
    BY <1>1, <1>2, <1>4, <2>1, Exchanged
<1>5. CASE run[a].phase \notin phases /\ r.phase \in phases
  <2>1. Phase(phases)' = Phase(phases) \cup {a}
    BY <1>0, <1>5 DEF Phase
  <2>2. QED
    BY <1>1, <1>2, <1>5, <2>1, Exchanged
<1>6. CASE run[a].phase \notin phases /\ r.phase \notin phases
  <2>1. Phase(phases)' = Phase(phases)
    BY <1>0, <1>6 DEF Phase
  <2>2. QED
    BY <1>1, <1>6, <2>1
<1>7. QED
  BY <1>1, <1>3, <1>4, <1>5, <1>6

-----------------------------------------------------------------------------
(* The books of /metrics balance.                                          *)

Told == metrics["resultsPublished"] + metrics["errorsPublished"] + metrics["publishFailures"]

Ongoing   == Phase({"calling", "raised", "cancelled"})
Reporting == Phase({"returned"})

\* OutcomesBalance, in these terms.
Balanced ==
    /\ abandoned \in Nat
    /\ metrics["consumed"] =
          requestMetrics.success + metrics["pipelineErrors"] + Cardinality(Ongoing)
    /\ requestMetrics.success + metrics["pipelineErrors"] =
          Told + abandoned + Cardinality(Reporting) + Cardinality(PublishingOf(Messages))

\* It is inductive as it stands, once the coroutines are known to keep step with
\* analyses of their own.
BalanceInv == JointInv /\ Balanced

\* The numbers are numbers.
LEMMA Numbers ==
    ASSUME JointInv
    PROVE  /\ metrics["consumed"] \in Nat /\ metrics["pipelineErrors"] \in Nat /\ Told \in Nat
           /\ requestMetrics.success \in Nat
           /\ IsFiniteSet(handlers)
           /\ Cardinality(PublishingOf(Messages)) \in Nat
<1>1. metrics \in [WP!Counters -> Nat] /\ PipelineTypes /\ IsFiniteSet(handlers)
  BY Types DEF JointInv
<1>2. /\ metrics["consumed"] \in Nat /\ metrics["pipelineErrors"] \in Nat
      /\ metrics["resultsPublished"] \in Nat /\ metrics["errorsPublished"] \in Nat
      /\ metrics["publishFailures"] \in Nat
  BY <1>1 DEF WP!Counters
<1>3. QED
  BY <1>1, <1>2, PublishingFinite DEF Told, PipelineTypes

\* What the counters of the worker count.
LEMMA Counted ==
    ASSUME JointInv
    PROVE  /\ W!Count("consumed") => /\ metrics'["consumed"] = metrics["consumed"] + 1
                                     /\ metrics'["pipelineErrors"] = metrics["pipelineErrors"]
                                     /\ Told' = Told
           /\ W!Count("pipelineErrors") =>
                 /\ metrics'["consumed"] = metrics["consumed"]
                 /\ metrics'["pipelineErrors"] = metrics["pipelineErrors"] + 1
                 /\ Told' = Told
           /\ W!Count("validationErrors") =>
                 /\ metrics'["consumed"] = metrics["consumed"]
                 /\ metrics'["pipelineErrors"] = metrics["pipelineErrors"]
                 /\ Told' = Told
           /\ \A c \in {"resultsPublished", "errorsPublished", "publishFailures"} :
                 W!Count(c) => /\ metrics'["consumed"] = metrics["consumed"]
                               /\ metrics'["pipelineErrors"] = metrics["pipelineErrors"]
                               /\ Told' = Told + 1
<1>1. metrics \in [WP!Counters -> Nat]
  BY Types DEF JointInv
<1>2. ASSUME NEW c \in WP!Counters, W!Count(c)
      PROVE  /\ metrics'[c] = metrics[c] + 1
             /\ \A d \in WP!Counters : d # c => metrics'[d] = metrics[d]
  BY <1>1, <1>2 DEF W!Count
<1>3. \A c \in WP!Counters : metrics[c] \in Nat
  BY <1>1
<1>4. QED
  BY <1>2, <1>3 DEF WP!Counters, Told

\* A coroutine that advances is no other coroutine of the process.
LEMMA Fresh ==
    ASSUME JointInv, NEW h \in handlers, NEW g, g.msg = h.msg, g.nth = h.nth
    PROVE  g \notin handlers \ {h}
BY OwnAnalysis DEF JointInv, AnalysisOf

\* How an analysis that moves changes the two numbers.
LEMMA PhaseNumbers ==
    ASSUME JointInv, NEW a \in Analyses, NEW r, Becomes(a, r)
    PROVE  /\ Cardinality(Ongoing) \in Nat /\ Cardinality(Reporting) \in Nat
           /\ Cardinality(Ongoing') =
                IF run[a].phase \in {"calling", "raised", "cancelled"}
                THEN IF r.phase \in {"calling", "raised", "cancelled"}
                     THEN Cardinality(Ongoing) ELSE Cardinality(Ongoing) - 1
                ELSE IF r.phase \in {"calling", "raised", "cancelled"}
                     THEN Cardinality(Ongoing) + 1 ELSE Cardinality(Ongoing)
           /\ Cardinality(Reporting') =
                IF run[a].phase = "returned"
                THEN IF r.phase = "returned"
                     THEN Cardinality(Reporting) ELSE Cardinality(Reporting) - 1
                ELSE IF r.phase = "returned"
                     THEN Cardinality(Reporting) + 1 ELSE Cardinality(Reporting)
<1>1. PipelineTypes
  BY Types DEF JointInv
<1>2. QED
  BY <1>1, PhaseMoves DEF Ongoing, Reporting

\* A coroutine receives its request: it is consumed, and its analysis begins, or
\* it is malformed.
LEMMA ReceiveBalance ==
    ASSUME BalanceInv, NEW h \in handlers, Receive(h) PROVE Balanced'
<1> DEFINE a == AnalysisOf(h)
<1>0. /\ a \in Analyses /\ h.msg \in Messages /\ h \in WP!Handler /\ PipelineTypes
      /\ JointInv /\ IsFiniteSet(handlers) /\ h.stage = "received"
      /\ UNCHANGED abandoned
  BY OwnAnalysis, Types DEF BalanceInv, JointInv, Receive, W!Receive
<1>1. CASE h.msg \in Malformed
  <2> DEFINE g == [h EXCEPT !.stage = "nack"]
  <2>1. g.msg = h.msg /\ g.nth = h.nth /\ g.stage = "nack"
    BY <1>0 DEF WP!Handler
  <2>2. /\ handlers' = (handlers \ {h}) \cup {g}
        /\ W!Count("validationErrors") /\ UNCHANGED pipelineVars
    BY <1>1 DEF Receive, W!Receive, W!Advance
  <2> HIDE DEF g
  <2>3. Cardinality(PublishingOf(Messages)') = Cardinality(PublishingOf(Messages))
    BY <1>0, <2>1, <2>2, Fresh, PublishingMoves
  <2>4. /\ UNCHANGED <<Ongoing, Reporting, requestMetrics>>
    BY <2>2 DEF pipelineVars, Ongoing, Reporting, Phase
  <2>5. QED
    BY <1>0, <2>2, <2>3, <2>4, Counted DEF BalanceInv, Balanced
<1>2. CASE h.msg \notin Malformed
  <2> DEFINE g == [h EXCEPT !.stage = "pipeline"]
  <2>1. g.msg = h.msg /\ g.nth = h.nth /\ g.stage = "pipeline"
    BY <1>0 DEF WP!Handler
  <2>2. /\ handlers' = (handlers \ {h}) \cup {g} /\ W!Count("consumed")
        /\ P!AdapterRaises(a) \/ \E file \in Files : P!Reject(a, file) \/ P!Start(a, file)
    BY <1>2 DEF Receive, W!Receive, W!Advance
  <2> HIDE DEF g, a
  <2>3. Cardinality(PublishingOf(Messages)') = Cardinality(PublishingOf(Messages))
    BY <1>0, <2>1, <2>2, Fresh, PublishingMoves
  <2>4. /\ run[a].phase = "idle"
        /\ \E r : Becomes(a, r) /\ r.phase \in {"calling", "raised"}
        /\ requestMetrics'.success = requestMetrics.success
    BY <1>0, <2>2, AnalysisBegins
  <2>5. PICK r : Becomes(a, r) /\ r.phase \in {"calling", "raised"}
    BY <2>4
  <2>6. /\ Cardinality(Ongoing') = Cardinality(Ongoing) + 1
        /\ Cardinality(Reporting') = Cardinality(Reporting)
        /\ Cardinality(Ongoing) \in Nat
    BY <1>0, <2>4, <2>5, PhaseNumbers
  <2>7. QED
    BY <1>0, <2>2, <2>3, <2>4, <2>6, Numbers, Counted DEF BalanceInv, Balanced
<1>3. QED
  BY <1>1, <1>2

\* A call of the LLM ends, for a coroutine that awaits it.
LEMMA CalledBalance == ASSUME BalanceInv, NEW h \in handlers, Called(h) PROVE Balanced'
<1> DEFINE a == AnalysisOf(h)
<1>0. /\ a \in Analyses /\ PipelineTypes /\ JointInv
      /\ P!Called(a) /\ UNCHANGED <<handlers, metrics, abandoned>>
  BY OwnAnalysis, Types DEF BalanceInv, JointInv, Called, workerVars
<1> HIDE DEF a
<1>1. run[a].phase = "calling"
  BY <1>0, AnalysisCalled
<1>2. PICK r : /\ Becomes(a, r)
               /\ \/ /\ r.phase \in {"calling", "raised"}
                     /\ requestMetrics'.success = requestMetrics.success
                  \/ /\ r.phase = "returned"
                     /\ requestMetrics'.success = requestMetrics.success + 1
  BY <1>0, AnalysisCalled
<1>3. UNCHANGED <<Told, PublishingOf(Messages)>>
  BY <1>0 DEF Told, PublishingOf
<1>4. CASE r.phase \in {"calling", "raised"} /\ requestMetrics'.success = requestMetrics.success
  <2>1. UNCHANGED <<Cardinality(Ongoing), Cardinality(Reporting)>>
    BY <1>0, <1>1, <1>2, <1>4, PhaseNumbers
  <2>2. QED
    BY <1>0, <1>3, <1>4, <2>1 DEF BalanceInv, Balanced
<1>5. CASE r.phase = "returned" /\ requestMetrics'.success = requestMetrics.success + 1
  <2>1. /\ Cardinality(Ongoing') = Cardinality(Ongoing) - 1
        /\ Cardinality(Reporting') = Cardinality(Reporting) + 1
        /\ Cardinality(Ongoing) \in Nat /\ Cardinality(Reporting) \in Nat
    BY <1>0, <1>1, <1>2, <1>5, PhaseNumbers
  <2>2. QED
    BY <1>0, <1>3, <1>5, <2>1, Numbers DEF BalanceInv, Balanced
<1>6. QED
  BY <1>2, <1>4, <1>5

\* The report is about to be published.
LEMMA ReturnBalance == ASSUME BalanceInv, NEW h \in handlers, Return(h) PROVE Balanced'
<1> DEFINE a == AnalysisOf(h)
           g == [h EXCEPT !.stage = "publish", !.answer = "success"]
<1>0. /\ a \in Analyses /\ PipelineTypes /\ JointInv /\ IsFiniteSet(handlers)
      /\ h.msg \in Messages /\ h \in WP!Handler
  BY OwnAnalysis, Types DEF BalanceInv, JointInv
<1>1. g.msg = h.msg /\ g.nth = h.nth /\ g.stage = "publish"
  BY <1>0 DEF WP!Handler
<1>2. /\ handlers' = (handlers \ {h}) \cup {g} /\ h.stage = "pipeline"
      /\ P!AnswerReport(a) /\ UNCHANGED <<metrics, abandoned, requestMetrics>>
  BY DEF Return, W!PipelineReturns, W!Advance, P!AnswerReport
<1> HIDE DEF a, g
<1>3. run[a].phase = "returned"
  BY <1>0, <1>2, AnalysisAnswered
<1>4. PICK r : Becomes(a, r) /\ r.phase = "done"
  BY <1>0, <1>2, AnalysisAnswered
<1>5. Cardinality(PublishingOf(Messages)') = Cardinality(PublishingOf(Messages)) + 1
  BY <1>0, <1>1, <1>2, Fresh, PublishingMoves
<1>6. /\ Cardinality(Ongoing') = Cardinality(Ongoing)
      /\ Cardinality(Reporting') = Cardinality(Reporting) - 1
      /\ Cardinality(Reporting) \in Nat
  BY <1>0, <1>3, <1>4, PhaseNumbers
<1>7. UNCHANGED <<Told, metrics["consumed"], metrics["pipelineErrors"], requestMetrics.success>>
  BY <1>2 DEF Told
<1>8. QED
  BY <1>0, <1>2, <1>5, <1>6, <1>7, Numbers DEF BalanceInv, Balanced

\* The error is counted, and is about to be published or abandoned.
LEMMA RaiseBalance == ASSUME BalanceInv, NEW h \in handlers, Raise(h) PROVE Balanced'
<1> DEFINE a == AnalysisOf(h)
           g == [h EXCEPT !.stage = "publish", !.answer = "error"]
<1>0. /\ a \in Analyses /\ PipelineTypes /\ JointInv /\ IsFiniteSet(handlers)
      /\ h.msg \in Messages /\ h \in WP!Handler /\ abandoned \in Nat
  BY OwnAnalysis, Types DEF BalanceInv, JointInv, Balanced
<1>1. g.msg = h.msg /\ g.nth = h.nth /\ g.stage = "publish"
  BY <1>0 DEF WP!Handler
<1>2. /\ P!QueueError(a) /\ h.stage = "pipeline" /\ W!Count("pipelineErrors")
      /\ \/ handlers' = (handlers \ {h}) \cup {g} /\ abandoned' = abandoned
         \/ handlers' = handlers \ {h} /\ abandoned' = abandoned + 1
  BY DEF Raise, W!PipelineRaises, W!PipelineRaisesBlank, W!Advance, W!Finish
<1> HIDE DEF a, g
<1>3. run[a].phase = "raised" /\ requestMetrics' = requestMetrics
  BY <1>0, <1>2, AnalysisAnswered
<1>4. PICK r : Becomes(a, r) /\ r.phase = "done"
  BY <1>0, <1>2, AnalysisAnswered
<1>5. /\ Cardinality(Ongoing') = Cardinality(Ongoing) - 1
      /\ Cardinality(Reporting') = Cardinality(Reporting)
      /\ Cardinality(Ongoing) \in Nat /\ Cardinality(Reporting) \in Nat
  BY <1>0, <1>3, <1>4, PhaseNumbers
<1>6. /\ metrics'["consumed"] = metrics["consumed"]
      /\ metrics'["pipelineErrors"] = metrics["pipelineErrors"] + 1
      /\ Told' = Told
  BY <1>0, <1>2, Counted
<1>7. CASE handlers' = (handlers \ {h}) \cup {g} /\ abandoned' = abandoned
  <2>1. Cardinality(PublishingOf(Messages)') = Cardinality(PublishingOf(Messages)) + 1
    BY <1>0, <1>1, <1>2, <1>7, Fresh, PublishingMoves
  <2>2. QED
    BY <1>0, <1>3, <1>5, <1>6, <1>7, <2>1, Numbers DEF BalanceInv, Balanced
<1>8. CASE handlers' = handlers \ {h} /\ abandoned' = abandoned + 1
  <2>1. Cardinality(PublishingOf(Messages)') = Cardinality(PublishingOf(Messages))
    BY <1>0, <1>2, <1>8, PublishingMoves
  <2>2. QED
    BY <1>0, <1>3, <1>5, <1>6, <1>8, <2>1, Numbers DEF BalanceInv, Balanced
<1>9. QED
  BY <1>2, <1>7, <1>8

\* An attempt to publish ends, well or not.
LEMMA PublishBalance ==
    ASSUME BalanceInv, NEW h \in handlers,
           Apart(W!PublishConfirmed(h) \/ W!PublishUnconfirmed(h) \/ W!PublishRaises(h))
    PROVE  Balanced'
<1>0. /\ JointInv /\ IsFiniteSet(handlers) /\ h.msg \in Messages /\ h \in WP!Handler
      /\ h.stage = "publish"
  BY OwnAnalysis, Types DEF BalanceInv, JointInv, Apart, W!PublishConfirmed,
     W!PublishUnconfirmed, W!PublishRaises
<1>1. UNCHANGED <<Ongoing, Reporting, requestMetrics, abandoned>>
  BY DEF Apart, pipelineVars, Ongoing, Reporting, Phase
<1>2. ASSUME Told' = Told + 1, metrics'["consumed"] = metrics["consumed"],
             metrics'["pipelineErrors"] = metrics["pipelineErrors"],
             Cardinality(PublishingOf(Messages)') = Cardinality(PublishingOf(Messages)) - 1
      PROVE  Balanced'
  <2>1. Cardinality(Reporting) \in Nat
    <3>1. Reporting \in SUBSET Analyses
      BY DEF Reporting, Phase
    <3>2. QED
      BY <3>1, FiniteAnalyses, FS_Subset, FS_CardinalityType
  <2>2. QED
    BY <1>0, <1>1, <1>2, <2>1, Numbers DEF BalanceInv, Balanced
<1>3. CASE W!PublishConfirmed(h)
  <2> DEFINE g == [h EXCEPT !.stage = "ack"]
  <2>1. g.msg = h.msg /\ g.nth = h.nth /\ g.stage = "ack"
    BY <1>0 DEF WP!Handler
  <2>2. /\ handlers' = (handlers \ {h}) \cup {g}
        /\ W!Count("resultsPublished") \/ W!Count("errorsPublished")
    BY <1>3 DEF W!PublishConfirmed, W!Advance
  <2> HIDE DEF g
  <2>3. Cardinality(PublishingOf(Messages)') = Cardinality(PublishingOf(Messages)) - 1
    BY <1>0, <2>1, <2>2, Fresh, PublishingMoves
  <2>4. QED
    BY <1>0, <1>2, <2>2, <2>3, Counted
<1>4. CASE W!AttemptFailed(h)
  <2>1. CASE handlers' = handlers \ {h}
             /\ metrics' = [metrics EXCEPT !["publishFailures"] = @ + 1]
    <3>1. Cardinality(PublishingOf(Messages)') = Cardinality(PublishingOf(Messages)) - 1
      BY <1>0, <2>1, PublishingMoves
    <3>2. W!Count("publishFailures")
      BY <2>1 DEF W!Count
    <3>3. QED
      BY <1>0, <1>2, <3>1, <3>2, Counted
  <2>2. ASSUME NEW g, handlers' = (handlers \ {h}) \cup {g}, g.msg = h.msg, g.nth = h.nth,
               g.stage = h.stage, metrics' = metrics
        PROVE  Balanced'
    <3>1. Cardinality(PublishingOf(Messages)') = Cardinality(PublishingOf(Messages))
      BY <1>0, <2>2, Fresh, PublishingMoves
    <3>2. Told' = Told
      BY <2>2 DEF Told
    <3>3. QED
      BY <1>1, <2>2, <3>1, <3>2 DEF BalanceInv, Balanced
  <2>3. QED
    BY <1>0, <1>4, <2>1, <2>2, AttemptKinds
<1>5. QED
  BY <1>3, <1>4 DEF Apart, W!PublishUnconfirmed, W!PublishRaises

\* Steps that touch neither an analysis nor a counter, and no coroutine that is
\* about to publish.
LEMMA RestBalance ==
    ASSUME BalanceInv, UNCHANGED <<Ongoing, Reporting, requestMetrics, metrics, abandoned>>,
           \A x : x \in PublishingOf(Messages) <=> x \in PublishingOf(Messages)'
    PROVE  Balanced'
<1>1. PublishingOf(Messages)' = PublishingOf(Messages)
  <2>1. \A S, T : (\A x : x \in S <=> x \in T) => S = T
    OBVIOUS
  <2>2. QED
    BY <2>1
<1>2. Told' = Told
  BY DEF Told
<1>3. QED
  BY <1>1, <1>2 DEF BalanceInv, Balanced

\* A channel ends: the answers of the coroutines that were publishing are given up.
LEMMA ChannelBalance ==
    ASSUME BalanceInv,
           \/ ChannelEnds(W!ConnectionLost)
           \/ ChannelEnds(W!AckTimeoutClose)
           \/ ChannelEnds(W!AckTimeoutSlow)
    PROVE  Balanced'
<1> DEFINE S == PublishingOf(Messages)
           L == {h \in handlers \ handlers' : h.stage = "publish"}
<1>0. /\ JointInv /\ IsFiniteSet(handlers) /\ abandoned \in Nat
      /\ \A h \in handlers : h.msg \in Messages
  BY OwnAnalysis, Types DEF BalanceInv, JointInv, Balanced
<1>1. /\ handlers' \subseteq handlers
      /\ UNCHANGED <<metrics, Ongoing, Reporting, requestMetrics>>
      /\ abandoned' = abandoned + Cardinality(L)
  BY DEF ChannelEnds, W!ConnectionLost, W!AckTimeoutClose, W!AckTimeoutSlow,
     W!SomeHandlersCancelled, pipelineVars, Ongoing, Reporting, Phase
<1>2. PublishingOf(Messages)' = S \ L /\ S \cap L = L /\ L \in SUBSET handlers
  BY <1>0, <1>1 DEF PublishingOf
<1>3. IsFiniteSet(S) /\ Cardinality(S) \in Nat
  BY <1>0, PublishingFinite
<1>4. Told' = Told
  BY <1>1 DEF Told
<1> HIDE DEF L, S
<1>5. Cardinality(L) \in Nat
  BY <1>0, <1>2, FS_Subset, FS_CardinalityType
<1>6. Cardinality(S \ L) = Cardinality(S) - Cardinality(S \cap L)
  BY <1>3, FS_Difference
<1>7. Cardinality(PublishingOf(Messages)') = Cardinality(S) - Cardinality(L)
  BY <1>2, <1>6
<1>8. Cardinality(Reporting) \in Nat
  <2>1. Reporting \in SUBSET Analyses
    BY DEF Reporting, Phase
  <2>2. QED
    BY <2>1, FiniteAnalyses, FS_Subset, FS_CardinalityType
<1>9. Cardinality(S) = Cardinality(PublishingOf(Messages))
  BY DEF S
<1>10. QED
  BY <1>0, <1>1, <1>3, <1>4, <1>5, <1>7, <1>8, <1>9, Numbers DEF BalanceInv, Balanced

\* An analysis that is cancelled is still one that was consumed.
LEMMA CancelledBalance == ASSUME BalanceInv, NEW a \in Analyses, Cancelled(a) PROVE Balanced'
<1>0. /\ JointInv /\ PipelineTypes /\ P!Cancel(a)
      /\ UNCHANGED <<handlers, metrics, abandoned>>
  BY Types DEF BalanceInv, JointInv, Cancelled, workerVars
<1>1. run[a].phase = "calling" /\ requestMetrics' = requestMetrics
  BY <1>0, AnalysisAnswered
<1>2. PICK r : Becomes(a, r) /\ r.phase = "cancelled"
  BY <1>0, AnalysisAnswered
<1>3. Cardinality(Ongoing') = Cardinality(Ongoing) /\ Cardinality(Reporting') = Cardinality(Reporting)
  BY <1>0, <1>1, <1>2, PhaseNumbers
<1>4. UNCHANGED <<Told, PublishingOf(Messages)>>
  BY <1>0 DEF Told, PublishingOf
<1>5. QED
  BY <1>0, <1>1, <1>3, <1>4 DEF BalanceInv, Balanced

\* Every step moves both sides of the balance of outcomes by the same amount.
LEMMA BalanceStep == ASSUME BalanceInv, [Next]_vars PROVE BalanceInv'
<1>0. JointInv' /\ \A h \in handlers : h.msg \in Messages
  BY JointStep, OwnAnalysis DEF BalanceInv, JointInv
<1> SUFFICES Balanced'
  BY <1>0 DEF BalanceInv
<1>1. ASSUME UNCHANGED <<pipelineVars, metrics, abandoned>>,
             \A x : x \in PublishingOf(Messages) <=> x \in PublishingOf(Messages)'
      PROVE  Balanced'
  BY <1>1, RestBalance DEF pipelineVars, Ongoing, Reporting, Phase
<1>2. ASSUME NEW h \in handlers, Apart(W!Nack(h) \/ W!Ack(h) \/ W!SettleRaises(h))
      PROVE  Balanced'
  <2>1. /\ h.stage # "publish" /\ handlers' = handlers \ {h}
        /\ UNCHANGED <<pipelineVars, metrics, abandoned>>
    BY <1>2 DEF Apart, W!Nack, W!Ack, W!SettleRaises, W!Finish
  <2>2. QED
    BY <1>1, <2>1 DEF PublishingOf
<1>3. ASSUME NEW m \in Messages, Apart(W!Deliver(m)) PROVE Balanced'
  <2> DEFINE g == [msg |-> m, nth |-> deliveries[m] + 1, stage |-> "received",
                   answer |-> "none", attempt |-> 0]
  <2>1. /\ handlers' = handlers \cup {g} /\ g.stage = "received"
        /\ UNCHANGED <<pipelineVars, metrics, abandoned>>
    BY <1>3 DEF Apart, W!Deliver
  <2> HIDE DEF g
  <2>2. QED
    BY <1>1, <2>1 DEF PublishingOf
<1>4. CASE \/ \E m \in Messages : Apart(W!Submit(m))
           \/ Apart(W!Boot \/ W!StartConsumer \/ W!Reconnect)
  <2>1. UNCHANGED <<handlers, pipelineVars, metrics, abandoned>>
    BY <1>4 DEF Apart, W!Submit, W!Boot, W!StartConsumer, W!Reconnect
  <2>2. QED
    BY <1>1, <2>1 DEF PublishingOf
<1>5. CASE UNCHANGED vars
  <2>1. UNCHANGED <<handlers, pipelineVars, metrics, abandoned>>
    BY <1>5 DEF vars, workerVars
  <2>2. QED
    BY <1>1, <2>1 DEF PublishingOf
<1>6. ASSUME NEW h \in handlers, Step(h) PROVE Balanced'
  <2>1. \/ Receive(h) \/ Called(h) \/ Return(h) \/ Raise(h)
        \/ Apart(W!Nack(h) \/ W!Ack(h) \/ W!SettleRaises(h))
        \/ Apart(W!PublishConfirmed(h) \/ W!PublishUnconfirmed(h) \/ W!PublishRaises(h))
    BY <1>6 DEF Step, Apart
  <2>2. QED
    BY <1>2, <2>1, ReceiveBalance, CalledBalance, ReturnBalance, RaiseBalance, PublishBalance
<1>7. ASSUME NEW m \in Messages, Apart(W!Submit(m) \/ W!Deliver(m)) PROVE Balanced'
  BY <1>3, <1>4, <1>7 DEF Apart
<1>8. QED
  BY <1>4, <1>5, <1>6, <1>7, ChannelBalance, CancelledBalance DEF Next

\* All counters and sets of the balance are empty at the start.
LEMMA InitialBalance == Init => BalanceInv
<1> SUFFICES ASSUME Init PROVE BalanceInv
  OBVIOUS
<1>1. /\ handlers = {} /\ abandoned = 0
      /\ \A c \in WP!Counters : metrics[c] = 0
  BY DEF Init, W!Init, W!ZeroMetrics, W!Counters, WP!Counters
<1>2. requestMetrics.success = 0 /\ \A a \in Analyses : run[a].phase = "idle"
  BY DEF Init, P!Init
<1>3. Ongoing = {} /\ Reporting = {} /\ PublishingOf(Messages) = {}
  BY <1>1, <1>2 DEF Ongoing, Reporting, Phase, PublishingOf
<1>4. Cardinality({}) = 0
  BY FS_EmptySet
<1>5. Told = 0 /\ metrics["consumed"] = 0 /\ metrics["pipelineErrors"] = 0
  BY <1>1 DEF Told, WP!Counters
<1>6. QED
  BY <1>1, <1>2, <1>3, <1>4, <1>5, InitialJoint DEF BalanceInv, Balanced

\* One /metrics document tells one story: the counters of the consumer, of the
\* pipeline and of the publisher balance at every moment, whatever connections
\* were lost, coroutines cancelled and requests delivered again (spec.md OBS-004,
\* core/metrics.py).
THEOREM BooksBalance == Spec => []OutcomesBalance
<1>1. Init => BalanceInv
  BY InitialBalance
<1>2. BalanceInv /\ [Next]_vars => BalanceInv'
  BY BalanceStep
<1>3. BalanceInv => OutcomesBalance
  <2> SUFFICES ASSUME BalanceInv PROVE OutcomesBalance
    OBVIOUS
  <2>1. \A h \in handlers : h.msg \in Messages
    BY OwnAnalysis DEF BalanceInv, JointInv
  <2>2. PublishingOf(Messages) = {h \in handlers : h.stage = "publish"}
    BY <2>1 DEF PublishingOf
  <2>3. /\ Ongoing = Phase({"calling", "raised", "cancelled"})
        /\ Reporting = Phase({"returned"})
        /\ Told = metrics["resultsPublished"] + metrics["errorsPublished"]
                    + metrics["publishFailures"]
    BY DEF Ongoing, Reporting, Told
  <2>4. QED
    BY <2>2, <2>3 DEF BalanceInv, Balanced, OutcomesBalance
<1>4. QED
  BY <1>1, <1>2, <1>3, PTL DEF Spec

-----------------------------------------------------------------------------
(* Where the answers come from.                                            *)

Reports(m) == AnalysesOf(m, {"success"})
Errors(m)  == AnalysesOf(m, P!ErrorCodes)

\* What makes AnswersComeFromAnalyses inductive: an answer that is about to be
\* published counts as published.
Sourced(m) ==
    /\ answers[m]["success"] > 0 => Reports(m) # {}
    /\ answers[m]["error"] > 0 => Errors(m) # {}
    /\ W!Copies(m) + Cardinality(PublishingOf({m}))
         <= Cardinality(Reports(m)) + Cardinality(Errors(m)) + disturbances

SourceInv == JointInv /\ PP!NoAnswerYet /\ \A m \in Messages : Sourced(m)

\* A set that has not become smaller, by how much it has grown at least.
LEMMA LargerSet ==
    ASSUME NEW T, IsFiniteSet(T), NEW S, S \subseteq T
    PROVE  /\ Cardinality(S) \in Nat /\ Cardinality(T) \in Nat
           /\ Cardinality(S) <= Cardinality(T)
           /\ \A x \in T : x \notin S => Cardinality(S) + 1 <= Cardinality(T)
<1>1. IsFiniteSet(S) /\ Cardinality(S) <= Cardinality(T)
  BY FS_Subset
<1>2. Cardinality(S) \in Nat /\ Cardinality(T) \in Nat
  BY <1>1, FS_CardinalityType
<1>3. ASSUME NEW x \in T, x \notin S PROVE Cardinality(S) + 1 <= Cardinality(T)
  <2>1. Cardinality(S \cup {x}) = Cardinality(S) + 1
    BY <1>1, <1>3, FS_AddElement
  <2>2. S \cup {x} \subseteq T
    OBVIOUS
  <2>3. Cardinality(S \cup {x}) <= Cardinality(T)
    BY <2>2, FS_Subset
  <2>4. QED
    BY <2>1, <2>3
<1>4. QED
  BY <1>1, <1>2, <1>3

\* No report and no error of an analysis is taken back.
LEMMA AnalysesGrow ==
    ASSUME SourceInv, [Next]_vars, NEW m \in Messages
    PROVE  /\ Reports(m) \subseteq Reports(m)' /\ IsFiniteSet(Reports(m)')
           /\ Errors(m) \subseteq Errors(m)' /\ IsFiniteSet(Errors(m)')
<1>1. [PP!Next]_(PP!vars)
  BY OwnAnalysis, PipelineSteps, SamePipeline DEF SourceInv, JointInv
<1>2. \A a \in Analyses : run[a].answer # "none" => run'[a] = run[a]
  BY <1>1, PipelineConstants, PP!AnswerStays DEF SourceInv, JointInv, PartsInv
<1>3. ASSUME NEW kinds, "none" \notin kinds
      PROVE  AnalysesOf(m, kinds) \subseteq AnalysesOf(m, kinds)'
  BY <1>2, <1>3 DEF AnalysesOf, Analyses
<1>4. ASSUME NEW kinds PROVE IsFiniteSet(AnalysesOf(m, kinds)')
  <2>1. AnalysesOf(m, kinds)' \subseteq 1 .. MaxDisturbances + 1
    BY DEF AnalysesOf
  <2>2. IsFiniteSet(1 .. MaxDisturbances + 1)
    BY BoundAssumption, FS_Interval
  <2>3. QED
    BY <2>1, <2>2, FS_Subset
<1>5. "none" \notin {"success"} /\ "none" \notin P!ErrorCodes
  BY DEF P!ErrorCodes
<1>6. (P!ErrorCodes)' = P!ErrorCodes
  BY DEF P!ErrorCodes
<1>7. QED
  BY <1>3, <1>4, <1>5, <1>6 DEF Reports, Errors

\* The numbers are numbers, and none of the right-hand side becomes smaller.
LEMMA SourceNumbers ==
    ASSUME SourceInv, [Next]_vars, NEW m \in Messages
    PROVE  /\ answers[m]["success"] \in Nat /\ answers[m]["error"] \in Nat
           /\ W!Copies(m) \in Nat
           /\ Cardinality(PublishingOf({m})) \in Nat
           /\ Cardinality(Reports(m)) \in Nat /\ Cardinality(Reports(m)') \in Nat
           /\ Cardinality(Reports(m)) <= Cardinality(Reports(m)')
           /\ Cardinality(Errors(m)) \in Nat /\ Cardinality(Errors(m)') \in Nat
           /\ Cardinality(Errors(m)) <= Cardinality(Errors(m)')
           /\ disturbances \in Nat /\ disturbances' \in Nat /\ disturbances <= disturbances'
<1>1. /\ answers \in [Messages -> [WP!Answer -> Nat]] /\ disturbances \in Nat
      /\ IsFiniteSet(handlers)
  BY Types DEF SourceInv, JointInv
<1>2. answers[m]["success"] \in Nat /\ answers[m]["error"] \in Nat
  BY <1>1 DEF WP!Answer
<1>3. disturbances' \in Nat /\ disturbances <= disturbances'
  BY <1>1, WorkerSteps, CappedStep DEF SourceInv, JointInv, PartsInv
<1>4. Cardinality(PublishingOf({m})) \in Nat
  BY <1>1, PublishingFinite
<1>5. /\ Cardinality(Reports(m)) \in Nat /\ Cardinality(Reports(m)') \in Nat
      /\ Cardinality(Reports(m)) <= Cardinality(Reports(m)')
  BY AnalysesGrow, LargerSet
<1>6. /\ Cardinality(Errors(m)) \in Nat /\ Cardinality(Errors(m)') \in Nat
      /\ Cardinality(Errors(m)) <= Cardinality(Errors(m)')
  BY AnalysesGrow, LargerSet
<1>7. QED
  BY <1>1, <1>2, <1>3, <1>4, <1>5, <1>6 DEF W!Copies

\* A step that publishes nothing for a request and adds no coroutine that is
\* about to.
LEMMA SourcedStays ==
    ASSUME SourceInv, [Next]_vars, NEW m \in Messages, answers'[m] = answers[m],
           Cardinality(PublishingOf({m})') \in Nat,
           Cardinality(PublishingOf({m})') <= Cardinality(PublishingOf({m}))
    PROVE  Sourced(m)'
<1>1. Reports(m) \subseteq Reports(m)' /\ Errors(m) \subseteq Errors(m)'
  BY AnalysesGrow
<1>2. Sourced(m)
  BY DEF SourceInv
<1>3. /\ answers'[m]["success"] > 0 => Reports(m)' # {}
      /\ answers'[m]["error"] > 0 => Errors(m)' # {}
  BY <1>1, <1>2 DEF Sourced
<1>4. W!Copies(m)' = W!Copies(m)
  BY DEF W!Copies
<1>5. W!Copies(m)' + Cardinality(PublishingOf({m})')
         <= Cardinality(Reports(m)') + Cardinality(Errors(m)') + disturbances'
  BY <1>2, <1>4, SourceNumbers DEF Sourced
<1>6. QED
  BY <1>3, <1>5 DEF Sourced

\* A step that publishes nothing for a request, and begins nothing, keeps its account.
LEMMA SourcedKept ==
    ASSUME SourceInv, [Next]_vars, NEW m \in Messages, answers'[m] = answers[m],
           PublishingOf({m})' \subseteq PublishingOf({m})
    PROVE  Sourced(m)'
<1>1. IsFiniteSet(PublishingOf({m}))
  BY PublishingFinite, Types DEF SourceInv, JointInv
<1>2. /\ Cardinality(PublishingOf({m})') \in Nat
      /\ Cardinality(PublishingOf({m})') <= Cardinality(PublishingOf({m}))
  BY <1>1, LargerSet
<1>3. QED
  BY <1>2, SourcedStays

\* The coroutines of other requests do not mind a coroutine's step.
LEMMA OthersPublish ==
    ASSUME NEW h \in handlers, NEW m, h.msg # m,
           \/ handlers' = handlers \ {h}
           \/ \E g : handlers' = (handlers \ {h}) \cup {g} /\ g.msg = h.msg
    PROVE  PublishingOf({m})' \subseteq PublishingOf({m})
BY DEF PublishingOf

\* An analysis gives its answer, and its coroutine is about to publish it.
LEMMA AnsweredSourced ==
    ASSUME SourceInv, [Next]_vars, NEW h \in handlers, h.stage = "pipeline",
           run[AnalysisOf(h)].phase # "done",
           NEW g, g.msg = h.msg, g.nth = h.nth,
           handlers' = (handlers \ {h}) \cup {g},
           UNCHANGED answers,
           run'[AnalysisOf(h)].answer \in {"success"} \cup P!ErrorCodes,
           NEW m \in Messages
    PROVE  Sourced(m)'
<1>0. /\ JointInv /\ IsFiniteSet(handlers) /\ h.msg \in Messages
      /\ AnalysisOf(h) \in Analyses /\ AnalysisOf(h) = <<h.msg, h.nth>>
      /\ h.nth \in 1 .. MaxDisturbances + 1
  BY OwnAnalysis, Types DEF SourceInv, JointInv, AnalysisOf, Analyses
<1>1. CASE h.msg # m
  BY <1>1, OthersPublish, SourcedKept
<1>2. CASE h.msg = m
  <2>1. run[<<m, h.nth>>].answer = "none"
    BY <1>0, <1>2 DEF SourceInv, PP!NoAnswerYet
  <2>2. h.nth \notin Reports(m) /\ h.nth \notin Errors(m)
    BY <2>1 DEF Reports, Errors, AnalysesOf, P!ErrorCodes
  <2>3. h.nth \in Reports(m)' \/ h.nth \in Errors(m)'
    BY <1>0, <1>2 DEF Reports, Errors, AnalysesOf, P!ErrorCodes
  <2>4. Cardinality(Reports(m)) + Cardinality(Errors(m)) + 1
           <= Cardinality(Reports(m)') + Cardinality(Errors(m)')
    <3>1. \/ Cardinality(Reports(m)) + 1 <= Cardinality(Reports(m)')
          \/ Cardinality(Errors(m)) + 1 <= Cardinality(Errors(m)')
      BY <2>2, <2>3, AnalysesGrow, LargerSet
    <3>2. /\ Cardinality(Reports(m)) \in Nat /\ Cardinality(Reports(m)') \in Nat
          /\ Cardinality(Reports(m)) <= Cardinality(Reports(m)')
          /\ Cardinality(Errors(m)) \in Nat /\ Cardinality(Errors(m)') \in Nat
          /\ Cardinality(Errors(m)) <= Cardinality(Errors(m)')
      BY SourceNumbers
    <3>3. QED
      BY <3>1, <3>2
  <2>5. /\ Cardinality(PublishingOf({m})') \in Nat
        /\ Cardinality(PublishingOf({m})') <= Cardinality(PublishingOf({m})) + 1
    <3>1. g \notin handlers \ {h} /\ h.msg \in {m}
      BY <1>0, <1>2, Fresh
    <3>2. /\ Cardinality(PublishingOf({m})) \in Nat
          /\ \/ Cardinality(PublishingOf({m})') = Cardinality(PublishingOf({m}))
             \/ Cardinality(PublishingOf({m})') = Cardinality(PublishingOf({m})) + 1
      BY <1>0, <3>1, PublishingMoves
    <3>3. QED
      BY <3>2
  <2>6. Reports(m) \subseteq Reports(m)' /\ Errors(m) \subseteq Errors(m)' /\ Sourced(m)
    BY AnalysesGrow DEF SourceInv
  <2>7. /\ answers'[m]["success"] > 0 => Reports(m)' # {}
        /\ answers'[m]["error"] > 0 => Errors(m)' # {}
    BY <2>6 DEF Sourced
  <2>8. W!Copies(m)' = W!Copies(m)
    BY DEF W!Copies
  <2>9. W!Copies(m)' + Cardinality(PublishingOf({m})')
           <= Cardinality(Reports(m)') + Cardinality(Errors(m)') + disturbances'
    BY <2>4, <2>5, <2>6, <2>8, SourceNumbers DEF Sourced
  <2>10. QED
    BY <2>7, <2>9 DEF Sourced
<1>3. QED
  BY <1>1, <1>2

\* An answer that is published is that of the coroutine's own analysis.
LEMMA Enqueued ==
    ASSUME SourceInv, NEW h \in handlers, h.stage = "publish", W!Enqueue(h)
    PROVE  /\ \A m \in Messages : m # h.msg => answers'[m] = answers[m]
           /\ W!Copies(h.msg)' = W!Copies(h.msg) + 1
           /\ answers'[h.msg]["success"] > 0 =>
                 answers[h.msg]["success"] > 0 \/ Reports(h.msg) # {}
           /\ answers'[h.msg]["error"] > 0 =>
                 answers[h.msg]["error"] > 0 \/ Errors(h.msg) # {}
<1>0. /\ answers \in [Messages -> [WP!Answer -> Nat]]
      /\ h.msg \in Messages /\ h.answer \in {"success", "error"}
      /\ h.nth \in 1 .. MaxDisturbances + 1
      /\ Matches(h, run[<<h.msg, h.nth>>])
  BY OwnAnalysis, Types DEF SourceInv, JointInv, AnalysisOf, Analyses
<1>1. /\ h.answer = "success" => h.nth \in Reports(h.msg)
      /\ h.answer = "error" => h.nth \in Errors(h.msg)
  BY <1>0 DEF Matches, Reports, Errors, AnalysesOf
<1>2. answers' = [answers EXCEPT ![h.msg][h.answer] = @ + 1]
  BY DEF W!Enqueue
<1>3. /\ \A m \in Messages : m # h.msg => answers'[m] = answers[m]
      /\ answers'[h.msg] = [answers[h.msg] EXCEPT ![h.answer] = @ + 1]
      /\ answers[h.msg] \in [{"success", "error"} -> Nat]
  BY <1>0, <1>2 DEF WP!Answer
<1>4. CASE h.answer = "success"
  <2>1. /\ answers'[h.msg]["success"] = answers[h.msg]["success"] + 1
        /\ answers'[h.msg]["error"] = answers[h.msg]["error"]
        /\ answers[h.msg]["success"] \in Nat /\ answers[h.msg]["error"] \in Nat
    BY <1>3, <1>4
  <2>2. QED
    BY <1>1, <1>3, <1>4, <2>1 DEF W!Copies
<1>5. CASE h.answer = "error"
  <2>1. /\ answers'[h.msg]["error"] = answers[h.msg]["error"] + 1
        /\ answers'[h.msg]["success"] = answers[h.msg]["success"]
        /\ answers[h.msg]["success"] \in Nat /\ answers[h.msg]["error"] \in Nat
    BY <1>3, <1>5
  <2>2. QED
    BY <1>1, <1>3, <1>5, <2>1 DEF W!Copies
<1>6. QED
  BY <1>0, <1>4, <1>5

\* An answer is published: confirmed, and the coroutine goes on to acknowledge, or
\* unconfirmed, and a disturbance pays for the copy the next attempt may make.
LEMMA PublishedSourced ==
    ASSUME SourceInv, [Next]_vars, NEW h \in handlers, NEW m \in Messages,
           Apart(W!PublishConfirmed(h) \/ W!PublishUnconfirmed(h))
    PROVE  Sourced(m)'
<1>0. /\ JointInv /\ IsFiniteSet(handlers) /\ h.msg \in Messages /\ h \in WP!Handler
      /\ h.stage = "publish" /\ W!Enqueue(h)
      /\ Reports(m) \subseteq Reports(m)' /\ Errors(m) \subseteq Errors(m)' /\ Sourced(m)
  BY OwnAnalysis, Types, AnalysesGrow DEF SourceInv, JointInv, Apart, W!PublishConfirmed,
     W!PublishUnconfirmed
<1>1. \/ /\ \E g : /\ handlers' = (handlers \ {h}) \cup {g}
                   /\ g.msg = h.msg /\ g.nth = h.nth /\ g.stage = "ack"
         /\ disturbances' = disturbances
      \/ /\ \/ \E g : /\ handlers' = (handlers \ {h}) \cup {g}
                      /\ g.msg = h.msg /\ g.nth = h.nth /\ g.stage = "publish"
            \/ handlers' = handlers \ {h}
         /\ disturbances' = disturbances + 1
  <2>1. CASE W!PublishConfirmed(h)
    <3> DEFINE g == [h EXCEPT !.stage = "ack"]
    <3>1. g.msg = h.msg /\ g.nth = h.nth /\ g.stage = "ack"
      BY <1>0 DEF WP!Handler
    <3>2. handlers' = (handlers \ {h}) \cup {g} /\ disturbances' = disturbances
      BY <2>1 DEF W!PublishConfirmed, W!Advance
    <3> HIDE DEF g
    <3>3. QED
      BY <3>1, <3>2
  <2>2. CASE W!PublishUnconfirmed(h)
    <3>1. disturbances' = disturbances + 1 /\ W!AttemptFailed(h)
      BY <2>2 DEF W!PublishUnconfirmed, W!Disturb
    <3>2. QED
      BY <1>0, <3>1, AttemptKinds
  <2>3. QED
    BY <2>1, <2>2 DEF Apart
<1>2. CASE h.msg # m
  <2>1. answers'[m] = answers[m]
    BY <1>0, <1>2, Enqueued
  <2>2. PublishingOf({m})' \subseteq PublishingOf({m})
    BY <1>1, <1>2, OthersPublish
  <2>3. QED
    BY <2>1, <2>2, SourcedKept
<1>3. CASE h.msg = m
  <2>1. /\ W!Copies(m)' = W!Copies(m) + 1
        /\ answers'[m]["success"] > 0 => Reports(m)' # {}
        /\ answers'[m]["error"] > 0 => Errors(m)' # {}
    BY <1>0, <1>3, Enqueued DEF Sourced
  <2>2. /\ Cardinality(PublishingOf({m})') \in Int
        /\ Cardinality(PublishingOf({m})') + 1 + disturbances
              <= Cardinality(PublishingOf({m})) + disturbances'
    <3>1. h.msg \in {m} /\ disturbances \in Nat
      BY <1>0, <1>3, Types DEF JointInv
    <3>2. ASSUME NEW g, handlers' = (handlers \ {h}) \cup {g}, g.msg = h.msg, g.nth = h.nth
          PROVE  /\ Cardinality(PublishingOf({m})) \in Nat
                 /\ g.stage = "publish" =>
                       Cardinality(PublishingOf({m})') = Cardinality(PublishingOf({m}))
                 /\ g.stage # "publish" =>
                       Cardinality(PublishingOf({m})') = Cardinality(PublishingOf({m})) - 1
      <4>1. g \notin handlers \ {h}
        BY <1>0, <3>2, Fresh
      <4>2. QED
        BY <1>0, <3>1, <3>2, <4>1, PublishingMoves
    <3>3. ASSUME handlers' = handlers \ {h}
          PROVE  /\ Cardinality(PublishingOf({m})) \in Nat
                 /\ Cardinality(PublishingOf({m})') = Cardinality(PublishingOf({m})) - 1
      BY <1>0, <3>1, <3>3, PublishingMoves
    <3>4. QED
      BY <1>1, <3>1, <3>2, <3>3
  <2>3. W!Copies(m)' + Cardinality(PublishingOf({m})')
           <= Cardinality(Reports(m)') + Cardinality(Errors(m)') + disturbances'
    BY <1>0, <2>1, <2>2, SourceNumbers DEF Sourced
  <2>4. QED
    BY <2>1, <2>3 DEF Sourced
<1>4. QED
  BY <1>2, <1>3

\* A coroutine's step.
LEMMA CoroutineSourced ==
    ASSUME SourceInv, [Next]_vars, NEW h \in handlers, Step(h), NEW m \in Messages
    PROVE  Sourced(m)'
<1>0. /\ JointInv /\ PipelineTypes /\ h \in WP!Handler /\ AnalysisOf(h) \in Analyses
      /\ run \in [Analyses -> PP!Run]
  BY OwnAnalysis, Types DEF SourceInv, JointInv, PipelineTypes
<1>1. ASSUME answers' = answers, h.stage # "publish",
             \/ handlers' = handlers \/ handlers' = handlers \ {h}
             \/ \E g : handlers' = (handlers \ {h}) \cup {g} /\ g.stage # "publish"
      PROVE  Sourced(m)'
  <2>1. PublishingOf({m})' \subseteq PublishingOf({m})
    BY <1>1 DEF PublishingOf
  <2>2. QED
    BY <1>1, <2>1, SourcedKept
<1>2. CASE Receive(h)
  <2> DEFINE g(stage) == [h EXCEPT !.stage = stage]
  <2>1. g("nack").stage # "publish" /\ g("pipeline").stage # "publish"
    BY <1>0 DEF WP!Handler
  <2>2. /\ answers' = answers /\ h.stage # "publish"
        /\ \/ handlers' = (handlers \ {h}) \cup {g("nack")}
           \/ handlers' = (handlers \ {h}) \cup {g("pipeline")}
    BY <1>2 DEF Receive, W!Receive, W!Advance, W!brokerVars
  <2> HIDE DEF g
  <2>3. QED
    BY <1>1, <2>1, <2>2
<1>3. CASE Called(h)
  BY <1>1, <1>3 DEF Called, workerVars
<1>4. CASE Return(h)
  <2> DEFINE g == [h EXCEPT !.stage = "publish", !.answer = "success"]
  <2>1. g.msg = h.msg /\ g.nth = h.nth
    BY <1>0 DEF WP!Handler
  <2>2. /\ handlers' = (handlers \ {h}) \cup {g} /\ h.stage = "pipeline"
        /\ UNCHANGED answers /\ P!AnswerReport(AnalysisOf(h))
    BY <1>4 DEF Return, W!PipelineReturns, W!Advance, W!brokerVars
  <2> HIDE DEF g
  <2>3. PICK r : Becomes(AnalysisOf(h), r) /\ r.answer = "success"
    BY <1>0, <2>2, AnalysisAnswered
  <2>4. run[AnalysisOf(h)].phase # "done" /\ run'[AnalysisOf(h)].answer \in {"success"} \cup P!ErrorCodes
    BY <1>0, <2>2, <2>3, AnalysisAnswered, OthersStay
  <2>5. QED
    BY <2>1, <2>2, <2>4, AnsweredSourced
<1>5. CASE Raise(h)
  <2> DEFINE g == [h EXCEPT !.stage = "publish", !.answer = "error"]
  <2>1. g.msg = h.msg /\ g.nth = h.nth
    BY <1>0 DEF WP!Handler
  <2>2. /\ handlers' = (handlers \ {h}) \cup {g} \/ handlers' = handlers \ {h}
        /\ h.stage = "pipeline"
        /\ UNCHANGED answers /\ P!QueueError(AnalysisOf(h))
    BY <1>5 DEF Raise, W!PipelineRaises, W!PipelineRaisesBlank, W!Advance, W!Finish, W!brokerVars
  <2> HIDE DEF g
  <2>3. PICK r : Becomes(AnalysisOf(h), r) /\ r.answer \in P!ErrorCodes
    BY <1>0, <2>2, AnalysisAnswered
  <2>4. run[AnalysisOf(h)].phase # "done" /\ run'[AnalysisOf(h)].answer \in {"success"} \cup P!ErrorCodes
    BY <1>0, <2>2, <2>3, AnalysisAnswered, OthersStay
  <2>5. QED
    BY <1>1, <2>1, <2>2, <2>4, AnsweredSourced
<1>6. CASE Apart(W!PublishConfirmed(h) \/ W!PublishUnconfirmed(h))
  BY <1>6, PublishedSourced
<1>7. CASE Apart(W!PublishRaises(h))
  <2>1. answers' = answers /\ W!AttemptFailed(h)
    BY <1>7 DEF Apart, W!PublishRaises, W!brokerVars
  <2>2. CASE h.msg # m
    <3>1. PublishingOf({m})' \subseteq PublishingOf({m})
      BY <1>0, <2>1, <2>2, AttemptKinds, OthersPublish
    <3>2. QED
      BY <2>1, <3>1, SourcedKept
  <2>3. CASE h.msg = m
    <3>1. h.msg \in {m} /\ IsFiniteSet(handlers) /\ h.stage = "publish"
      BY <1>0, <1>7, <2>3, Types DEF JointInv, Apart, W!PublishRaises
    <3>2. ASSUME NEW g, handlers' = (handlers \ {h}) \cup {g}, g.msg = h.msg, g.nth = h.nth,
                 g.stage = h.stage
          PROVE  /\ Cardinality(PublishingOf({m})) \in Nat
                 /\ Cardinality(PublishingOf({m})') = Cardinality(PublishingOf({m}))
      <4>1. g \notin handlers \ {h}
        BY <1>0, <3>2, Fresh
      <4>2. QED
        BY <3>1, <3>2, <4>1, PublishingMoves
    <3>3. ASSUME handlers' = handlers \ {h}
          PROVE  PublishingOf({m})' \subseteq PublishingOf({m})
      BY <3>3 DEF PublishingOf
    <3>4. CASE handlers' = handlers \ {h}
      BY <2>1, <3>3, <3>4, SourcedKept
    <3>5. ASSUME NEW g, handlers' = (handlers \ {h}) \cup {g}, g.msg = h.msg, g.nth = h.nth,
                 g.stage = h.stage
          PROVE  Sourced(m)'
      <4>1. /\ Cardinality(PublishingOf({m})') \in Nat
            /\ Cardinality(PublishingOf({m})') <= Cardinality(PublishingOf({m}))
        BY <3>2, <3>5
      <4>2. QED
        BY <2>1, <4>1, SourcedStays
    <3>6. QED
      BY <1>0, <2>1, <3>4, <3>5, AttemptKinds
  <2>4. QED
    BY <2>2, <2>3
<1>8. CASE Apart(W!Nack(h) \/ W!Ack(h) \/ W!SettleRaises(h))
  BY <1>1, <1>8 DEF Apart, W!Nack, W!Ack, W!SettleRaises, W!Finish, W!brokerVars
<1>9. QED
  BY <1>2, <1>3, <1>4, <1>5, <1>6, <1>7, <1>8 DEF Step, Apart

\* Every step keeps the answers of a request within what its analyses came to.
LEMMA SourceStep == ASSUME SourceInv, [Next]_vars PROVE SourceInv'
<1>0. JointInv' /\ PP!NoAnswerYet'
  <2>1. JointInv'
    BY JointStep DEF SourceInv
  <2>2. [PP!Next]_(PP!vars) /\ PP!IInv /\ PP!IInv'
    BY <2>1, OwnAnalysis, PipelineSteps, SamePipeline DEF SourceInv, JointInv, PartsInv
  <2>3. PP!NoAnswerYet'
    BY <2>2, PipelineConstants, PP!NoAnswerStep DEF SourceInv
  <2>4. QED
    BY <2>1, <2>3
<1> SUFFICES ASSUME NEW m \in Messages PROVE Sourced(m)'
  BY <1>0 DEF SourceInv
<1>1. ASSUME answers' = answers,
             \A x \in handlers' : x \in handlers \/ x.stage # "publish"
      PROVE  Sourced(m)'
  <2>1. PublishingOf({m})' \subseteq PublishingOf({m})
    BY <1>1 DEF PublishingOf
  <2>2. QED
    BY <1>1, <2>1, SourcedKept
<1>2. ASSUME NEW k \in Messages, Apart(W!Submit(k) \/ W!Deliver(k)) PROVE Sourced(m)'
  <2> DEFINE g == [msg |-> k, nth |-> deliveries[k] + 1, stage |-> "received",
                   answer |-> "none", attempt |-> 0]
  <2>1. /\ answers' = answers
        /\ handlers' = handlers \/ handlers' = handlers \cup {g}
        /\ g.stage # "publish"
    BY <1>2 DEF Apart, W!Submit, W!Deliver
  <2> HIDE DEF g
  <2>2. QED
    BY <1>1, <2>1
<1>3. CASE ChannelEnds(W!ConnectionLost) \/ ChannelEnds(W!AckTimeoutClose) \/ ChannelEnds(W!AckTimeoutSlow)
  BY <1>1, <1>3 DEF ChannelEnds, W!ConnectionLost, W!AckTimeoutClose, W!AckTimeoutSlow,
     W!SomeHandlersCancelled
<1>4. CASE \/ \E a \in Analyses : Cancelled(a)
           \/ Apart(W!Boot \/ W!StartConsumer \/ W!Reconnect)
           \/ UNCHANGED vars
  BY <1>1, <1>4 DEF Cancelled, Apart, W!Boot, W!StartConsumer, W!Reconnect, W!brokerVars,
     vars, workerVars
<1>5. QED
  BY <1>2, <1>3, <1>4, CoroutineSourced DEF Next

\* There are no answers at the start.
LEMMA InitialSources == Init => SourceInv
<1> SUFFICES ASSUME Init PROVE SourceInv
  OBVIOUS
<1>1. JointInv
  BY InitialJoint
<1>2. PP!NoAnswerYet
  BY DEF Init, P!Init, PP!NoAnswerYet
<1>3. ASSUME NEW m \in Messages PROVE Sourced(m)
  <2>1. /\ answers[m] = [a \in W!Answer |-> 0] /\ handlers = {} /\ disturbances = 0
    BY DEF Init, W!Init
  <2>2. answers[m]["success"] = 0 /\ answers[m]["error"] = 0
    BY <2>1 DEF W!Answer
  <2>3. PublishingOf({m}) = {}
    BY <2>1 DEF PublishingOf
  <2>4. \A a \in Analyses : run[a].answer = "none"
    BY DEF Init, P!Init
  <2>5. Reports(m) = {} /\ Errors(m) = {}
    BY <2>4 DEF Reports, Errors, AnalysesOf, Analyses, P!ErrorCodes
  <2>6. Cardinality({}) = 0
    BY FS_EmptySet
  <2>7. QED
    BY <2>1, <2>2, <2>3, <2>5, <2>6 DEF Sourced, W!Copies
<1>4. QED
  BY <1>1, <1>2, <1>3 DEF SourceInv

\* Every answer in the output queue is the answer of an analysis of its request,
\* and whatever is there more than once has a disturbance for cause: neither a
\* retried publication nor a coroutine that outlives its delivery makes up an
\* answer of its own (consumer.py, publisher.py).
THEOREM AnswersHaveASource == Spec => []AnswersComeFromAnalyses
<1>1. Init => SourceInv
  BY InitialSources
<1>2. SourceInv /\ [Next]_vars => SourceInv'
  BY SourceStep
<1>3. SourceInv => AnswersComeFromAnalyses
  <2> SUFFICES ASSUME SourceInv, NEW m \in Messages
               PROVE  /\ answers[m]["success"] > 0 => Reports(m) # {}
                      /\ answers[m]["error"] > 0 => Errors(m) # {}
                      /\ W!Copies(m) <= Cardinality(Reports(m)) + Cardinality(Errors(m)) + disturbances
    BY DEF AnswersComeFromAnalyses, Reports, Errors
  <2>1. Sourced(m)
    BY DEF SourceInv
  <2>2. /\ Cardinality(PublishingOf({m})) \in Nat /\ disturbances \in Nat
        /\ answers[m]["success"] \in Nat /\ answers[m]["error"] \in Nat
    BY PublishingFinite, Types DEF SourceInv, JointInv, WP!Answer
  <2>3. Cardinality(Reports(m)) \in Nat /\ Cardinality(Errors(m)) \in Nat
    <3>1. ASSUME NEW kinds PROVE Cardinality(AnalysesOf(m, kinds)) \in Nat
      <4>1. AnalysesOf(m, kinds) \subseteq 1 .. MaxDisturbances + 1
        BY DEF AnalysesOf
      <4>2. IsFiniteSet(1 .. MaxDisturbances + 1)
        BY BoundAssumption, FS_Interval
      <4>3. QED
        BY <4>1, <4>2, LargerSet
    <3>2. QED
      BY <3>1 DEF Reports, Errors
  <2>4. QED
    BY <2>1, <2>2, <2>3 DEF Sourced, W!Copies
<1>4. QED
  BY <1>1, <1>2, <1>3, PTL DEF Spec


-----------------------------------------------------------------------------
(* What the parts promise, kept by the whole.                              *)

\* To those who use the two queues, the process with its analyses inside is a
\* worker that delivers at least once and judges no request twice: no answer of an
\* analysis, late, repeated or cancelled, breaks it (consumer.py, publisher.py).
THEOREM WorkerPromisesKept ==
    Spec => /\ []WP!AckedIsAnswered
            /\ []WP!VerdictMatchesRequest
            /\ []WP!DuplicatesHaveACause
            /\ WP!SettledForGood
            /\ WP!ImplementsAtLeastOnce
<1>1. Init => WP!Init
  BY SameWorker DEF Init
<1>2. [Next]_vars => [WP!Next]_(WP!vars)
  BY WorkerSteps, SameWorker
<1>3. Spec => WP!Spec
  BY <1>1, <1>2, PTL DEF Spec, WP!Spec
<1>4. WP!Spec => []WP!AckedIsAnswered
  BY WorkerConstants, WP!NothingLost
<1>5. WP!Spec => []WP!VerdictMatchesRequest
  BY WorkerConstants, WP!VerdictsSound
<1>6. WP!Spec => []WP!DuplicatesHaveACause
  BY WorkerConstants, WP!DuplicatesBounded
<1>7. WP!Spec => WP!SettledForGood
  BY WorkerConstants, WP!SettledStays
<1>8. WP!Spec => WP!ImplementsAtLeastOnce
  BY WorkerConstants, WP!Implements
<1>9. QED
  BY <1>3, <1>4, <1>5, <1>6, <1>7, <1>8, PTL

\* To each delivery, the pipeline keeps the promise of an analysis: one answer, that
\* its own calls justify, by prompts that quote its own replies (pipeline.py).
THEOREM AnalysisPromisesKept ==
    Spec => /\ []PP!PromptQuotesLatestInvalid
            /\ []PP!AnswerFollowsReplies
            /\ []PP!SuccessesAddUp
            /\ PP!ImplementsAnalysis
<1>1. Init => PP!Init
  BY SamePipeline DEF Init
<1>2. JointInv /\ [Next]_vars => [PP!Next]_(PP!vars)
  <2>1. JointInv => \A h \in handlers : AnalysisOf(h) \in Analyses
    BY OwnAnalysis DEF JointInv
  <2>2. QED
    BY <2>1, PipelineSteps, SamePipeline
<1>3. Spec => PP!Spec
  BY <1>1, <1>2, JointInductive, PTL DEF Spec, PP!Spec
<1>4. PP!Spec => []PP!PromptQuotesLatestInvalid
  BY PipelineConstants, PP!PromptCorrect
<1>5. PP!Spec => []PP!AnswerFollowsReplies
  BY PipelineConstants, PP!AnswersJustified
<1>6. PP!Spec => []PP!SuccessesAddUp
  BY PipelineConstants, PP!CountersAddUp
<1>7. PP!Spec => PP!ImplementsAnalysis
  BY PipelineConstants, PP!AnalysesKeepTheirPromise
<1>8. QED
  BY <1>3, <1>4, <1>5, <1>6, <1>7, PTL

=============================================================================
