---------------------------- MODULE WorkerProofs ----------------------------
(***************************************************************************)
(* What is proved of the worker for every set of requests, prefetch count, *)
(* number of publish attempts and number of disturbances.                  *)
(***************************************************************************)
EXTENDS WorkerAbstraction, TLAPS

-----------------------------------------------------------------------------
(* Lemmas about the operators of the model.                                *)

\* A field update that keeps the type of the handler: a new stage.
LEMMA StageUpdate ==
    ASSUME NEW h \in Handler,
           NEW s \in {"received", "nack", "pipeline", "publish", "ack"}
    PROVE  [h EXCEPT !.stage = s] \in Handler
BY DEF Handler

\* The same for a new stage together with the answer to give.
LEMMA AnswerUpdate ==
    ASSUME NEW h \in Handler, NEW a \in Answer
    PROVE  [h EXCEPT !.stage = "publish", !.answer = a] \in Handler
BY DEF Handler

\* Incrementing a counter keeps the counters natural numbers.
LEMMA CountType ==
    ASSUME metrics \in [Counters -> Nat], NEW c \in Counters, Count(c)
    PROVE  metrics' \in [Counters -> Nat]
BY DEF Count

\* An attempt that failed either goes round the loop or ends the handler; in
\* both cases the types are kept.
LEMMA AttemptFailedType ==
    ASSUME TypeOK, NEW h \in handlers, AttemptFailed(h)
    PROVE  handlers' \subseteq Handler /\ metrics' \in [Counters -> Nat]
<1>1. h \in Handler
  BY DEF TypeOK
<1>2. CASE h.attempt < MaxPublishAttempts - 1
  <2>1. h.attempt + 1 \in 0 .. MaxPublishAttempts - 1
    BY <1>1, <1>2, AttemptsAssumption DEF Handler
  <2>2. [h EXCEPT !.attempt = @ + 1] \in Handler
    BY <1>1, <2>1 DEF Handler
  <2>3. QED
    BY <1>2, <2>2 DEF AttemptFailed, Advance, TypeOK
<1>3. CASE ~(h.attempt < MaxPublishAttempts - 1)
  <2>1. "publishFailures" \in Counters
    BY DEF Counters
  <2>2. Count("publishFailures") /\ Finish(h)
    BY <1>3 DEF AttemptFailed
  <2>3. QED
    BY <2>1, <2>2, CountType DEF Finish, TypeOK
<1>4. QED
  BY <1>2, <1>3

\* Publishing an answer adds to the copies of one request and takes none away.
LEMMA EnqueueType ==
    ASSUME TypeOK, NEW h \in handlers, h.answer \in Answer, Enqueue(h)
    PROVE  /\ answers' \in [Messages -> [Answer -> Nat]]
           /\ \A m \in Messages : Copies(m)' >= Copies(m)
           /\ ResultsBound => Copies(h.msg)' > 0
           /\ Copies(h.msg)' <= Copies(h.msg) + 1
           /\ \A m \in Messages : m # h.msg => Copies(m)' = Copies(m)
<1>1. h.msg \in Messages
  BY DEF TypeOK, Handler
<1>2. answers \in [Messages -> [Answer -> Nat]]
  BY DEF TypeOK
<1>3. \A m \in Messages : answers[m]["success"] \in Nat /\ answers[m]["error"] \in Nat
  BY <1>2 DEF Answer
<1>4. CASE ~ResultsBound
  <2>1. answers' = answers
    BY <1>4 DEF Enqueue
  <2>2. \A m \in Messages : Copies(m) \in Nat /\ Copies(m)' = Copies(m)
    BY <1>3, <2>1 DEF Copies
  <2>3. \A m \in Messages : Copies(m)' >= Copies(m) /\ Copies(m)' <= Copies(m) + 1
    BY <2>2
  <2>4. QED
    BY <1>1, <1>2, <1>4, <2>1, <2>2, <2>3
<1>5. CASE ResultsBound
  <2> DEFINE row == [a \in Answer |-> IF a = h.answer THEN answers[h.msg][a] + 1
                                                      ELSE answers[h.msg][a]]
  <2>1. answers' = [answers EXCEPT ![h.msg] = row]
    <3>1. answers' = [answers EXCEPT ![h.msg][h.answer] = @ + 1]
      BY <1>5 DEF Enqueue
    <3>2. [answers[h.msg] EXCEPT ![h.answer] = @ + 1] = row
      BY <1>1, <1>2
    <3>3. QED
      BY <3>1, <3>2
  <2>2. row \in [Answer -> Nat]
    BY <1>1, <1>2
  <2>3. Copies(h.msg)' = Copies(h.msg) + 1
    <3>1. answers'[h.msg] = row
      BY <1>1, <1>2, <2>1
    <3>2. \/ row["success"] = answers[h.msg]["success"] + 1 /\ row["error"] = answers[h.msg]["error"]
          \/ row["success"] = answers[h.msg]["success"] /\ row["error"] = answers[h.msg]["error"] + 1
      BY DEF Answer
    <3>3. QED
      BY <1>1, <1>3, <3>1, <3>2 DEF Copies
  <2>4. \A m \in Messages : m # h.msg => Copies(m)' = Copies(m)
    BY <1>2, <2>1 DEF Copies
  <2>5. \A m \in Messages : Copies(m) \in Nat
    BY <1>3 DEF Copies
  <2>6. answers' \in [Messages -> [Answer -> Nat]]
    BY <1>1, <1>2, <2>1, <2>2
  <2>7. QED
    BY <1>1, <2>3, <2>4, <2>5, <2>6
<1>6. QED
  BY <1>4, <1>5

-----------------------------------------------------------------------------
(* Type correctness.                                                       *)

\* A coroutine that publishes has chosen its answer: with it the type
\* invariant is inductive, since an answer is an index of the output queue.
AnswerChosen == \A h \in handlers : h.stage = "publish" => h.answer \in Answer

TypeInv == TypeOK /\ AnswerChosen

\* What an action leaves alone keeps its type.
LEMMA StutterType == ASSUME TypeInv, UNCHANGED vars PROVE TypeInv'
BY DEF TypeInv, TypeOK, AnswerChosen, vars, brokerVars, processVars

\* The steps of the broker and of the connection.
LEMMA BrokerType ==
    ASSUME TypeInv,
           \/ \E m \in Messages : Submit(m) \/ Deliver(m)
           \/ ConnectionLost \/ Reconnect \/ AckTimeoutClose \/ AckTimeoutSlow
    PROVE  TypeInv'
<1> USE DEF TypeInv, TypeOK, AnswerChosen, brokerVars, processVars, Places
<1>1. ASSUME NEW m \in Messages, Submit(m) PROVE TypeInv'
  BY <1>1 DEF Submit
<1>2. ASSUME NEW m \in Messages, Deliver(m) PROVE TypeInv'
  <2> DEFINE g == [msg |-> m, nth |-> deliveries[m] + 1, stage |-> "received",
                   answer |-> "none", attempt |-> 0]
  <2>1. 0 \in 0 .. MaxPublishAttempts - 1
    BY AttemptsAssumption
  <2>2. g \in Handler
    BY <2>1 DEF Handler
  <2>3. handlers' = handlers \cup {g} /\ g.stage = "received"
    BY <1>2 DEF Deliver
  <2>4. handlers' \subseteq Handler /\ AnswerChosen'
    BY <2>2, <2>3
  <2>5. QED
    BY <1>2, <2>4 DEF Deliver
<1>3. CASE ConnectionLost
  BY <1>3 DEF ConnectionLost, Disturb, RequeueUnacked, Unacked, SomeHandlersCancelled
<1>4. CASE Reconnect
  BY <1>4 DEF Reconnect
<1>5. CASE AckTimeoutClose
  BY <1>5 DEF AckTimeoutClose, RequeueUnacked, Unacked, SomeHandlersCancelled
<1>6. CASE AckTimeoutSlow
  BY <1>6 DEF AckTimeoutSlow, Disturb, RequeueUnacked, Unacked, SomeHandlersCancelled
<1>7. QED
  BY <1>1, <1>2, <1>3, <1>4, <1>5, <1>6

\* The steps of a coroutine.
LEMMA HandlerType ==
    ASSUME TypeInv, NEW h \in handlers, HandlerStep(h)
    PROVE  TypeInv'
<1> USE DEF TypeInv, brokerVars, processVars
<1>0. h \in Handler
  BY DEF TypeOK
<1>a. ASSUME NEW g \in Handler, Advance(h, g), g.stage = "publish" => g.answer \in Answer
      PROVE  handlers' \subseteq Handler /\ AnswerChosen'
  BY <1>a DEF Advance, TypeOK, AnswerChosen
<1>b. ASSUME Finish(h) PROVE handlers' \subseteq Handler /\ AnswerChosen'
  BY <1>b DEF Finish, TypeOK, AnswerChosen
<1>c. ASSUME NEW c \in Counters, Count(c) PROVE metrics' \in [Counters -> Nat]
  BY <1>c, CountType DEF TypeOK
<1>d. ASSUME AttemptFailed(h), h.stage = "publish"
      PROVE  handlers' \subseteq Handler /\ AnswerChosen' /\ metrics' \in [Counters -> Nat]
  <2>1. handlers' \subseteq Handler /\ metrics' \in [Counters -> Nat]
    BY <1>d, AttemptFailedType
  <2>2. AnswerChosen'
    <3>1. CASE h.attempt < MaxPublishAttempts - 1
      <4>1. Advance(h, [h EXCEPT !.attempt = @ + 1])
        BY <1>d, <3>1 DEF AttemptFailed
      <4>2. [h EXCEPT !.attempt = @ + 1].answer \in Answer
        BY <1>0, <1>d DEF AnswerChosen, Handler
      <4>3. QED
        BY <4>1, <4>2 DEF Advance, AnswerChosen
    <3>2. CASE ~(h.attempt < MaxPublishAttempts - 1)
      BY <1>b, <1>d, <3>2 DEF AttemptFailed
    <3>3. QED
      BY <3>1, <3>2
  <2>3. QED
    BY <2>1, <2>2
<1>1. CASE Receive(h)
  <2>1. /\ [h EXCEPT !.stage = "nack"] \in Handler
        /\ [h EXCEPT !.stage = "nack"].stage = "nack"
        /\ [h EXCEPT !.stage = "pipeline"] \in Handler
        /\ [h EXCEPT !.stage = "pipeline"].stage = "pipeline"
    BY <1>0, StageUpdate DEF Handler
  <2>2. handlers' \subseteq Handler /\ AnswerChosen'
    BY <1>1, <1>a, <2>1 DEF Receive
  <2>3. metrics' \in [Counters -> Nat]
    BY <1>1, <1>c DEF Receive, Counters
  <2>4. QED
    BY <1>1, <2>2, <2>3 DEF Receive, TypeOK
<1>2. CASE Nack(h)
  BY <1>2, <1>b, <1>0 DEF Nack, TypeOK, Places, Handler
<1>3. CASE PipelineReturns(h)
  <2> DEFINE g == [h EXCEPT !.stage = "publish", !.answer = "success"]
  <2>1. g \in Handler /\ g.answer \in Answer
    BY <1>0, AnswerUpdate DEF Answer, Handler
  <2>2. QED
    BY <1>3, <1>a, <2>1 DEF PipelineReturns, TypeOK
<1>4. CASE PipelineRaises(h)
  <2> DEFINE g == [h EXCEPT !.stage = "publish", !.answer = "error"]
  <2>1. g \in Handler /\ g.answer \in Answer
    BY <1>0, AnswerUpdate DEF Answer, Handler
  <2>2. metrics' \in [Counters -> Nat]
    BY <1>4, <1>c DEF PipelineRaises, Counters
  <2>3. QED
    BY <1>4, <1>a, <2>1, <2>2 DEF PipelineRaises, TypeOK
<1>5. CASE PipelineRaisesBlank(h)
  BY <1>5, <1>b, <1>c DEF PipelineRaisesBlank, Disturb, Counters, TypeOK
<1>6. CASE PublishConfirmed(h)
  <2>1. answers' \in [Messages -> [Answer -> Nat]]
    BY <1>6, EnqueueType DEF PublishConfirmed, AnswerChosen
  <2>2. [h EXCEPT !.stage = "ack"] \in Handler /\ [h EXCEPT !.stage = "ack"].stage = "ack"
    BY <1>0, StageUpdate DEF Handler
  <2>3. metrics' \in [Counters -> Nat]
    BY <1>6, <1>c DEF PublishConfirmed, Counters
  <2>4. QED
    BY <1>6, <1>a, <2>1, <2>2, <2>3 DEF PublishConfirmed, TypeOK
<1>7. CASE PublishUnconfirmed(h)
  <2>1. answers' \in [Messages -> [Answer -> Nat]]
    BY <1>7, EnqueueType DEF PublishUnconfirmed, AnswerChosen
  <2>2. QED
    BY <1>7, <1>d, <2>1 DEF PublishUnconfirmed, Disturb, TypeOK
<1>8. CASE PublishRaises(h)
  <2>1. disturbances' \in Nat
    BY <1>8 DEF PublishRaises, Disturb, TypeOK
  <2>2. QED
    BY <1>8, <1>d, <2>1 DEF PublishRaises, TypeOK
<1>9. CASE Ack(h)
  BY <1>9, <1>b, <1>0 DEF Ack, TypeOK, Places, Handler
<1>10. CASE SettleRaises(h)
  BY <1>10, <1>b DEF SettleRaises, TypeOK
<1>11. QED
  BY <1>1, <1>2, <1>3, <1>4, <1>5, <1>6, <1>7, <1>8, <1>9, <1>10 DEF HandlerStep

\* The steps of the application's lifespan.
LEMMA LifespanType ==
    ASSUME TypeInv,
           \/ Boot \/ StartConsumer \/ StartConsumerRaises
           \/ StopConsumer \/ Disconnect \/ Exit \/ Crash
    PROVE  TypeInv'
<1> USE DEF TypeInv, TypeOK, AnswerChosen, brokerVars, processVars, Places
<1>1. CASE Boot
  BY <1>1 DEF Boot
<1>2. CASE StartConsumer
  BY <1>2 DEF StartConsumer
<1>3. CASE StartConsumerRaises
  BY <1>3 DEF StartConsumerRaises, Disturb
<1>4. CASE StopConsumer
  BY <1>4 DEF StopConsumer, Disturb
<1>5. CASE Disconnect
  BY <1>5 DEF Disconnect, RequeueUnacked, Unacked, SomeHandlersCancelled
<1>6. CASE Exit
  BY <1>6 DEF Exit, ZeroMetrics
<1>7. CASE Crash
  BY <1>7 DEF Crash, Disturb, RequeueUnacked, Unacked, ZeroMetrics
<1>8. QED
  BY <1>1, <1>2, <1>3, <1>4, <1>5, <1>6, <1>7

\* The state of the worker keeps its shape: every coroutine has a request, a
\* delivery, a stage and an attempt number within the publisher's bound.
THEOREM TypeCorrect == Spec => []TypeOK
<1>1. Init => TypeInv
  BY DEF Init, TypeInv, TypeOK, AnswerChosen, Places, ZeroMetrics, Handler
<1>2. TypeInv /\ [Next]_vars => TypeInv'
  BY StutterType, BrokerType, HandlerType, LifespanType DEF Next
<1>3. TypeInv => TypeOK
  BY DEF TypeInv
<1>4. QED
  BY <1>1, <1>2, <1>3, PTL DEF Spec

-----------------------------------------------------------------------------
(* No request is lost, and none is judged wrongly.                         *)

\* What the stage of a coroutine says of its request.  This is what makes the
\* invariants inductive: an acknowledgement is justified by what the coroutine
\* did before, not by the state of the broker.
StageJustified(h) ==
    /\ request[h.msg] # "unsent"
    /\ h.stage = "nack" => h.msg \in Malformed
    /\ h.stage \in {"pipeline", "publish", "ack"} => h.msg \notin Malformed
    /\ h.stage = "ack" /\ ResultsBound => Copies(h.msg) > 0

SafetyInv ==
    /\ TypeInv
    /\ \A h \in handlers : StageJustified(h)
    /\ VerdictMatchesRequest
    /\ ResultsBound => AckedIsAnswered

\* Steps that leave the answers alone, settle nothing and start no coroutine
\* keep the invariant.
LEMMA RequeueSafe ==
    ASSUME SafetyInv, TypeInv', UNCHANGED answers, handlers' \subseteq handlers,
           \A m \in Messages : \/ request'[m] = request[m]
                              \/ request'[m] \in {"ready", "unacked"}
    PROVE  SafetyInv'
BY DEF SafetyInv, StageJustified, VerdictMatchesRequest, AckedIsAnswered, Copies,
   TypeInv, TypeOK, Handler

\* Requeueing settles nothing.
LEMMA RequeueSettlesNothing ==
    ASSUME RequeueUnacked
    PROVE  \A m \in Messages : \/ request'[m] = request[m]
                              \/ request'[m] \in {"ready", "unacked"}
BY DEF RequeueUnacked, Unacked

\* The steps of the broker keep the safety invariant.
LEMMA BrokerSafe ==
    ASSUME SafetyInv,
           \/ \E m \in Messages : Submit(m) \/ Deliver(m)
           \/ ConnectionLost \/ Reconnect \/ AckTimeoutClose \/ AckTimeoutSlow
    PROVE  SafetyInv'
<1>0. TypeInv'
  BY BrokerType DEF SafetyInv
<1>1. ASSUME NEW m \in Messages, Submit(m) PROVE SafetyInv'
  <2>1. \A k \in Messages : request'[k] = request[k] \/ request'[k] \in {"ready", "unacked"}
    BY <1>1 DEF Submit, SafetyInv, TypeInv, TypeOK
  <2>2. QED
    BY <1>0, <1>1, <2>1, RequeueSafe DEF Submit
<1>2. ASSUME NEW m \in Messages, Deliver(m) PROVE SafetyInv'
  <2>1. \A k \in Messages : request'[k] = request[k] \/ request'[k] \in {"ready", "unacked"}
    BY <1>2 DEF Deliver, SafetyInv, TypeInv, TypeOK
  <2>2. \A h \in handlers' : h \in handlers \/ (h.msg = m /\ h.stage = "received")
    BY <1>2 DEF Deliver
  <2>3. UNCHANGED answers /\ request'[m] # "unsent"
    BY <1>2 DEF Deliver, SafetyInv, TypeInv, TypeOK
  <2>4. QED
    BY <1>0, <2>1, <2>2, <2>3
    DEF SafetyInv, StageJustified, VerdictMatchesRequest, AckedIsAnswered, Copies,
        TypeInv, TypeOK, Handler
<1>3. CASE ConnectionLost
  BY <1>0, <1>3, RequeueSettlesNothing, RequeueSafe DEF ConnectionLost, SomeHandlersCancelled
<1>4. CASE Reconnect
  BY <1>0, <1>4, RequeueSafe DEF Reconnect, brokerVars
<1>5. CASE AckTimeoutClose
  BY <1>0, <1>5, RequeueSettlesNothing, RequeueSafe DEF AckTimeoutClose, SomeHandlersCancelled
<1>6. CASE AckTimeoutSlow
  BY <1>0, <1>6, RequeueSettlesNothing, RequeueSafe DEF AckTimeoutSlow, SomeHandlersCancelled
<1>7. QED
  BY <1>1, <1>2, <1>3, <1>4, <1>5, <1>6

\* The steps of the process keep the safety invariant.
LEMMA LifespanSafe ==
    ASSUME SafetyInv,
           \/ Boot \/ StartConsumer \/ StartConsumerRaises
           \/ StopConsumer \/ Disconnect \/ Exit \/ Crash
    PROVE  SafetyInv'
<1>0. TypeInv'
  BY LifespanType DEF SafetyInv
<1>1. CASE Boot \/ StartConsumer \/ StartConsumerRaises \/ StopConsumer \/ Exit
  <2>1. UNCHANGED brokerVars /\ handlers' \subseteq handlers
    BY <1>1 DEF Boot, StartConsumer, StartConsumerRaises, StopConsumer, Exit
  <2>2. QED
    BY <1>0, <2>1, RequeueSafe DEF brokerVars
<1>2. CASE Disconnect \/ Crash
  BY <1>0, <1>2, RequeueSettlesNothing, RequeueSafe
  DEF Disconnect, Crash, SomeHandlersCancelled
<1>3. QED
  BY <1>1, <1>2

\* A step of a coroutine: the requests it does not serve are untouched, and the
\* copies of its own can only grow.
LEMMA HandlerSafe ==
    ASSUME SafetyInv, NEW h \in handlers, HandlerStep(h)
    PROVE  SafetyInv'
<1>0. TypeInv' /\ TypeOK /\ h \in Handler /\ h.msg \in Messages /\ StageJustified(h)
  BY HandlerType DEF SafetyInv, TypeInv, TypeOK, Handler
<1>a. ASSUME UNCHANGED <<request, answers>>,
             \A g \in handlers' : g \in handlers \/ StageJustified(g)
      PROVE  SafetyInv'
  BY <1>0, <1>a DEF SafetyInv, StageJustified, VerdictMatchesRequest, AckedIsAnswered, Copies
<1>b. ASSUME Enqueue(h), UNCHANGED request, h.stage = "publish",
             \A g \in handlers' : \/ g \in handlers
                                  \/ g.msg = h.msg /\ g.stage \in {"publish", "ack"}
      PROVE  SafetyInv'
  <2>1. /\ \A m \in Messages : Copies(m)' >= Copies(m)
        /\ ResultsBound => Copies(h.msg)' > 0
        /\ \A m \in Messages : m # h.msg => Copies(m)' = Copies(m)
    BY <1>0, <1>b, EnqueueType DEF SafetyInv, TypeInv, AnswerChosen
  <2>2. h.msg \notin Malformed
    BY <1>b DEF SafetyInv, StageJustified
  <2>3. \A m \in Messages : Copies(m) \in Nat /\ Copies(m)' \in Nat
    BY <1>0 DEF TypeInv, TypeOK, Copies, Answer
  <2>4. \A g \in handlers' : StageJustified(g)'
    BY <1>0, <1>b, <2>1, <2>2, <2>3 DEF SafetyInv, StageJustified, TypeOK, Handler
  <2>5. VerdictMatchesRequest'
    BY <1>b, <2>1, <2>2 DEF SafetyInv, VerdictMatchesRequest
  <2>6. ResultsBound => AckedIsAnswered'
    BY <1>b, <2>1, <2>3 DEF SafetyInv, AckedIsAnswered
  <2>7. QED
    BY <1>0, <2>4, <2>5, <2>6 DEF SafetyInv
<1>1. CASE Receive(h)
  <2>1. \A g \in handlers' : g \in handlers \/ StageJustified(g)
    BY <1>0, <1>1 DEF Receive, Advance, StageJustified, Handler
  <2>2. QED
    BY <1>1, <1>a, <2>1 DEF Receive, brokerVars
<1>2. CASE Nack(h)
  <2>1. h.msg \in Malformed
    BY <1>2 DEF Nack, SafetyInv, StageJustified
  <2>2. /\ \A m \in Messages : m # h.msg => request'[m] = request[m]
        /\ request'[h.msg] = "rejected"
    BY <1>0, <1>2 DEF Nack, TypeOK
  <2>3. UNCHANGED answers /\ handlers' \subseteq handlers
    BY <1>2 DEF Nack, Finish
  <2>4. QED
    BY <1>0, <2>1, <2>2, <2>3
    DEF SafetyInv, StageJustified, VerdictMatchesRequest, AckedIsAnswered, Copies,
        TypeOK, Handler
<1>3. CASE PipelineReturns(h) \/ PipelineRaises(h)
  <2>1. h.msg \notin Malformed
    BY <1>3 DEF PipelineReturns, PipelineRaises, SafetyInv, StageJustified
  <2>2. \A g \in handlers' : g \in handlers \/ (g.msg = h.msg /\ g.stage = "publish")
    BY <1>0, <1>3 DEF PipelineReturns, PipelineRaises, Advance, Handler
  <2>3. QED
    BY <1>0, <1>3, <1>a, <2>1, <2>2 DEF PipelineReturns, PipelineRaises, StageJustified, brokerVars
<1>4. CASE PipelineRaisesBlank(h) \/ SettleRaises(h)
  BY <1>4, <1>a DEF PipelineRaisesBlank, SettleRaises, Finish, brokerVars
<1>5. CASE PublishConfirmed(h)
  <2>1. \A g \in handlers' : g \in handlers \/ (g.msg = h.msg /\ g.stage = "ack")
    BY <1>0, <1>5 DEF PublishConfirmed, Advance, Handler
  <2>2. QED
    BY <1>5, <1>b, <2>1 DEF PublishConfirmed
<1>6. CASE PublishUnconfirmed(h)
  <2>1. \A g \in handlers' : g \in handlers \/ (g.msg = h.msg /\ g.stage = "publish")
    BY <1>0, <1>6 DEF PublishUnconfirmed, AttemptFailed, Advance, Finish, Handler
  <2>2. QED
    BY <1>6, <1>b, <2>1 DEF PublishUnconfirmed
<1>7. CASE PublishRaises(h)
  <2>1. h.msg \notin Malformed
    BY <1>7 DEF PublishRaises, SafetyInv, StageJustified
  <2>2. \A g \in handlers' : g \in handlers \/ (g.msg = h.msg /\ g.stage = "publish")
    BY <1>0, <1>7 DEF PublishRaises, AttemptFailed, Advance, Finish, Handler
  <2>3. QED
    BY <1>0, <1>7, <1>a, <2>1, <2>2 DEF PublishRaises, StageJustified, brokerVars
<1>8. CASE Ack(h)
  <2>1. h.msg \notin Malformed /\ (ResultsBound => Copies(h.msg) > 0)
    BY <1>8 DEF Ack, SafetyInv, StageJustified
  <2>2. /\ \A m \in Messages : m # h.msg => request'[m] = request[m]
        /\ request'[h.msg] = "acked"
    BY <1>0, <1>8 DEF Ack, TypeOK
  <2>3. UNCHANGED answers /\ handlers' \subseteq handlers
    BY <1>8 DEF Ack, Finish
  <2>4. QED
    BY <1>0, <2>1, <2>2, <2>3
    DEF SafetyInv, StageJustified, VerdictMatchesRequest, AckedIsAnswered, Copies,
        TypeOK, Handler
<1>9. QED
  BY <1>1, <1>2, <1>3, <1>4, <1>5, <1>6, <1>7, <1>8 DEF HandlerStep

\* The invariant is inductive.
THEOREM SafetyInductive == Spec => []SafetyInv
<1>1. Init => SafetyInv
  BY DEF Init, SafetyInv, TypeInv, TypeOK, AnswerChosen, VerdictMatchesRequest,
         AckedIsAnswered, Copies, Places, ZeroMetrics, Handler, Answer
<1>2. SafetyInv /\ [Next]_vars => SafetyInv'
  <2>1. ASSUME SafetyInv, UNCHANGED vars PROVE SafetyInv'
    BY <2>1, StutterType, RequeueSafe DEF SafetyInv, vars, brokerVars
  <2>2. QED
    BY <2>1, BrokerSafe, HandlerSafe, LifespanSafe DEF Next
<1>3. QED
  BY <1>1, <1>2, PTL DEF Spec

\* No request is lost silently: if the output queue is bound, a request the
\* worker acknowledged has an answer there, whatever was lost, cancelled,
\* redelivered or restarted in between.
THEOREM NothingLost == ASSUME ResultsBound PROVE Spec => []AckedIsAnswered
<1>1. SafetyInv => AckedIsAnswered
  BY DEF SafetyInv
<1>2. QED
  BY <1>1, SafetyInductive, PTL

\* Only malformed requests are rejected, and they are never answered.
THEOREM VerdictsSound == Spec => []VerdictMatchesRequest
<1>1. SafetyInv => VerdictMatchesRequest
  BY DEF SafetyInv
<1>2. QED
  BY <1>1, SafetyInductive, PTL

\* A request that was acknowledged or rejected stays so, with the same verdict:
\* requeueing takes only what is unacknowledged, and a coroutine settles only
\* the delivery it holds.
THEOREM SettledStays == Spec => SettledForGood
<1> DEFINE Kept == \A m \in Messages :
                      request[m] \in {"acked", "rejected"} => request'[m] = request[m]
<1>1. ASSUME TypeOK, [Next]_vars PROVE Kept
  <2>1. CASE UNCHANGED vars
    BY <2>1 DEF vars, brokerVars
  <2>2. ASSUME NEW m \in Messages, Submit(m) \/ Deliver(m) PROVE Kept
    BY <1>1, <2>2 DEF Submit, Deliver, TypeOK
  <2>3. ASSUME NEW h \in handlers, HandlerStep(h) PROVE Kept
    <3>1. CASE Nack(h) \/ Ack(h)
      BY <1>1, <3>1 DEF Nack, Ack, Holds, TypeOK, Handler
    <3>2. CASE ~(Nack(h) \/ Ack(h))
      BY <2>3, <3>2
      DEF HandlerStep, Receive, PipelineReturns, PipelineRaises, PipelineRaisesBlank,
          PublishConfirmed, PublishUnconfirmed, PublishRaises, SettleRaises, brokerVars
    <3>3. QED
      BY <3>1, <3>2
  <2>4. CASE \/ ConnectionLost \/ AckTimeoutClose \/ AckTimeoutSlow
             \/ Disconnect \/ Crash
    BY <2>4
    DEF ConnectionLost, AckTimeoutClose, AckTimeoutSlow, Disconnect, Crash,
        RequeueUnacked, Unacked
  <2>5. CASE \/ Reconnect \/ Boot \/ StartConsumer \/ StartConsumerRaises
             \/ StopConsumer \/ Exit
    BY <2>5
    DEF Reconnect, Boot, StartConsumer, StartConsumerRaises, StopConsumer, Exit, brokerVars
  <2>6. QED
    BY <1>1, <2>1, <2>2, <2>3, <2>4, <2>5 DEF Next
<1>2. TypeOK /\ [Next]_vars => [Kept]_vars
  BY <1>1
<1>3. QED
  BY <1>2, TypeCorrect, PTL DEF Spec, SettledForGood

-----------------------------------------------------------------------------
(* The worker implements AtLeastOnce.                                      *)

\* Steps that move requests between places of the same abstract status and
\* leave the answers alone are invisible.
LEMMA Invisible ==
    ASSUME UNCHANGED answers,
           \A m \in Messages : StatusOf(request'[m]) = StatusOf(request[m])
    PROVE  UNCHANGED <<statusBar, answeredBar>>
BY DEF statusBar, answeredBar, Copies

\* Requeueing is invisible: ready and unacked are both pending.
LEMMA RequeueInvisible ==
    ASSUME RequeueUnacked
    PROVE  \A m \in Messages : StatusOf(request'[m]) = StatusOf(request[m])
BY DEF RequeueUnacked, Unacked, StatusOf

\* A request that moves to another place moves in the abstract, and no other.
LEMMA Move ==
    ASSUME TypeOK, NEW m \in Messages, NEW p \in Places,
           request' = [request EXCEPT ![m] = p]
    PROVE  statusBar' = [statusBar EXCEPT ![m] = StatusOf(p)]
<1>1. \A k \in Messages : request'[k] = IF k = m THEN p ELSE request[k]
  BY DEF TypeOK
<1>2. \A k \in Messages :
         StatusOf(request'[k]) = IF k = m THEN StatusOf(p) ELSE StatusOf(request[k])
  BY <1>1
<1>3. QED
  BY <1>2 DEF statusBar

\* The steps of the broker are steps of AtLeastOnce or leave it alone.
LEMMA BrokerImplements ==
    ASSUME TypeOK,
           \/ \E m \in Messages : Submit(m) \/ Deliver(m)
           \/ ConnectionLost \/ Reconnect \/ AckTimeoutClose \/ AckTimeoutSlow
    PROVE  \/ \E m \in Messages : Abstract!Submit(m)
           \/ UNCHANGED <<statusBar, answeredBar>>
<1>1. ASSUME NEW m \in Messages, Submit(m) PROVE Abstract!Submit(m)
  <2>1. statusBar[m] = "absent"
    BY <1>1 DEF Submit, statusBar, StatusOf
  <2>2. statusBar' = [statusBar EXCEPT ![m] = "pending"]
    <3>1. statusBar' = [statusBar EXCEPT ![m] = StatusOf("ready")]
      BY <1>1, Move DEF Submit, Places
    <3>2. StatusOf("ready") = "pending"
      BY DEF StatusOf
    <3>3. QED
      BY <3>1, <3>2
  <2>3. UNCHANGED answeredBar
    BY <1>1 DEF Submit, answeredBar, Copies
  <2>4. QED
    BY <2>1, <2>2, <2>3 DEF Abstract!Submit
<1>2. ASSUME NEW m \in Messages, Deliver(m) PROVE UNCHANGED <<statusBar, answeredBar>>
  <2>1. \A k \in Messages : StatusOf(request'[k]) = StatusOf(request[k])
    BY <1>2 DEF Deliver, StatusOf, TypeOK
  <2>2. QED
    BY <1>2, <2>1, Invisible DEF Deliver
<1>3. CASE ConnectionLost \/ AckTimeoutClose \/ AckTimeoutSlow
  BY <1>3, RequeueInvisible, Invisible DEF ConnectionLost, AckTimeoutClose, AckTimeoutSlow
<1>4. CASE Reconnect
  BY <1>4, Invisible DEF Reconnect, brokerVars
<1>5. QED
  BY <1>1, <1>2, <1>3, <1>4

\* The steps of the process are steps of AtLeastOnce or leave it alone.
LEMMA LifespanImplements ==
    ASSUME \/ Boot \/ StartConsumer \/ StartConsumerRaises
           \/ StopConsumer \/ Disconnect \/ Exit \/ Crash
    PROVE  UNCHANGED <<statusBar, answeredBar>>
<1>1. CASE Boot \/ StartConsumer \/ StartConsumerRaises \/ StopConsumer \/ Exit
  BY <1>1, Invisible
  DEF Boot, StartConsumer, StartConsumerRaises, StopConsumer, Exit, brokerVars
<1>2. CASE Disconnect \/ Crash
  BY <1>2, RequeueInvisible, Invisible DEF Disconnect, Crash
<1>3. QED
  BY <1>1, <1>2

\* A coroutine answers, settles or rejects in the abstract what it publishes,
\* acks or nacks; every other step of it is invisible.
LEMMA HandlerImplements ==
    ASSUME ResultsBound, SafetyInv, SafetyInv', NEW h \in handlers, HandlerStep(h)
    PROVE  \/ \E m \in Messages : \/ Abstract!Give(m)
                                  \/ Abstract!Settle(m)
                                  \/ Abstract!Reject(m)
           \/ UNCHANGED <<statusBar, answeredBar>>
<1>0. TypeOK /\ h \in Handler /\ h.msg \in Messages
  BY DEF SafetyInv, TypeInv, TypeOK, Handler
<1>1. CASE Receive(h) \/ PipelineReturns(h) \/ PipelineRaises(h) \/ PipelineRaisesBlank(h)
           \/ PublishRaises(h) \/ SettleRaises(h)
  BY <1>1, Invisible
  DEF Receive, PipelineReturns, PipelineRaises, PipelineRaisesBlank, PublishRaises,
      SettleRaises, brokerVars
<1>2. CASE Nack(h)
  <2>1. h.msg \in Malformed /\ statusBar[h.msg] = "pending"
    BY <1>0, <1>2 DEF Nack, Holds, SafetyInv, StageJustified, statusBar, StatusOf
  <2>2. statusBar' = [statusBar EXCEPT ![h.msg] = "rejected"]
    <3>1. statusBar' = [statusBar EXCEPT ![h.msg] = StatusOf("rejected")]
      BY <1>0, <1>2, Move DEF Nack, Places
    <3>2. StatusOf("rejected") = "rejected"
      BY DEF StatusOf
    <3>3. QED
      BY <3>1, <3>2
  <2>3. UNCHANGED answeredBar
    BY <1>2 DEF Nack, answeredBar, Copies
  <2>4. QED
    BY <1>0, <2>1, <2>2, <2>3 DEF Abstract!Reject
<1>3. CASE Ack(h)
  <2>1. h.msg \in answeredBar /\ statusBar[h.msg] = "pending"
    BY <1>0, <1>3 DEF Ack, Holds, SafetyInv, StageJustified, statusBar, StatusOf, answeredBar
  <2>2. statusBar' = [statusBar EXCEPT ![h.msg] = "settled"]
    <3>1. statusBar' = [statusBar EXCEPT ![h.msg] = StatusOf("acked")]
      BY <1>0, <1>3, Move DEF Ack, Places
    <3>2. StatusOf("acked") = "settled"
      BY DEF StatusOf
    <3>3. QED
      BY <3>1, <3>2
  <2>3. UNCHANGED answeredBar
    BY <1>3 DEF Ack, answeredBar, Copies
  <2>4. QED
    BY <1>0, <2>1, <2>2, <2>3 DEF Abstract!Settle
<1>4. CASE PublishConfirmed(h) \/ PublishUnconfirmed(h)
  <2>1. UNCHANGED request /\ Enqueue(h) /\ h.stage = "publish"
    BY <1>4 DEF PublishConfirmed, PublishUnconfirmed
  <2>2. UNCHANGED statusBar
    BY <2>1 DEF statusBar
  <2>3. h.msg \notin Malformed
    BY <2>1 DEF SafetyInv, StageJustified
  <2>4. /\ Copies(h.msg)' > 0
        /\ \A m \in Messages : m # h.msg => Copies(m)' = Copies(m)
    BY <1>0, <2>1, EnqueueType DEF SafetyInv, TypeInv, AnswerChosen
  <2>5. answeredBar' = answeredBar \cup {h.msg}
    BY <1>0, <2>4 DEF answeredBar
  <2>6. statusBar[h.msg] \in {"pending", "settled"}
    <3>1. request[h.msg] \in {"ready", "unacked", "acked"}
      BY <1>0, <2>1, <2>3, <2>4 DEF SafetyInv, StageJustified, VerdictMatchesRequest, TypeOK, Places
    <3>2. QED
      BY <1>0, <3>1 DEF statusBar, StatusOf
  <2>7. QED
    BY <1>0, <2>2, <2>3, <2>5, <2>6 DEF Abstract!Give
<1>5. QED
  BY <1>1, <1>2, <1>3, <1>4 DEF HandlerStep

\* Every behaviour of the worker, seen through its queues, is a behaviour of
\* AtLeastOnce, provided that the output queue is bound.
THEOREM Implements == ASSUME ResultsBound PROVE Spec => ImplementsAtLeastOnce
<1>1. Init => Abstract!Init
  BY DEF Init, Abstract!Init, statusBar, answeredBar, StatusOf, Copies, Answer
<1>2. SafetyInv /\ SafetyInv' /\ [Next]_vars => [Abstract!Next]_<<statusBar, answeredBar>>
  <2>1. ASSUME UNCHANGED vars PROVE UNCHANGED <<statusBar, answeredBar>>
    BY <2>1, Invisible DEF vars, brokerVars
  <2>2. QED
    BY <2>1, BrokerImplements, HandlerImplements, LifespanImplements
    DEF Next, Abstract!Next, SafetyInv, TypeInv
<1>3. QED
  BY <1>1, <1>2, SafetyInductive, PTL
  DEF Spec, ImplementsAtLeastOnce, Abstract!Spec, Abstract!vars

=============================================================================
