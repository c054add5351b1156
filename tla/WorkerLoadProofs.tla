-------------------------- MODULE WorkerLoadProofs --------------------------
(***************************************************************************)
(* The bounds on the work of the process and on the deliveries of a        *)
(* request, proved for every number of requests, prefetch count and number *)
(* of disturbances.                                                        *)
(*                                                                         *)
(* Both follow the account of WorkerDuplicateProofs.  A requeue is what    *)
(* lets coroutines outlive their delivery, and what makes a second         *)
(* delivery due; each is paid for by a disturbance of its own, at once or  *)
(* by a credit.  The disturbances that no credit binds are the slack: a    *)
(* requeue uses up one of them, and no other step uses up any.             *)
(***************************************************************************)
EXTENDS WorkerDuplicateProofs

\* The disturbances that do not stand for a requeue still to come.
Slack == disturbances - StrandCredit - StopCredit

\* The kinds of step, by what they do to deliveries and coroutines: a channel
\* ends; a coroutine moves on or ends; neither is touched, but for the end of
\* coroutines.  The fourth kind is Deliver.
Requeues == /\ RequeueUnacked
            /\ handlers' \subseteq handlers
            /\ UNCHANGED deliveries

Moves(h) ==
    /\ UNCHANGED deliveries
    /\ \/ /\ \E g \in Handler : Advance(h, g) /\ g.msg = h.msg /\ g.nth = h.nth
          /\ UNCHANGED request
       \/ /\ Finish(h)
          /\ \A m \in Messages :
                \/ request'[m] = request[m]
                \/ m = h.msg /\ Holds(h) /\ request'[m] \in {"acked", "rejected"}

Rests == /\ UNCHANGED deliveries
         /\ handlers' \subseteq handlers
         /\ \A m \in Messages : \/ request'[m] = request[m]
                                \/ request[m] = "unsent" /\ request'[m] = "ready"

-----------------------------------------------------------------------------
(* Every step is of one of the four kinds, and is paid for.                *)

\* The slack is an integer, before and after a step.
LEMMA SlackType ==
    ASSUME AccountInv, AccountInv'
    PROVE  /\ Slack \in Int /\ Slack <= disturbances
           /\ disturbances \in Nat /\ disturbances' \in Nat
           /\ StrandCredit \in 0 .. 1 /\ StopCredit \in 0 .. 1
           /\ Slack' \in Int
           /\ StrandCredit' \in 0 .. 1 /\ StopCredit' \in 0 .. 1
           /\ Slack' = disturbances' - StrandCredit' - StopCredit'
<1>1. /\ disturbances \in Nat /\ disturbances' \in Nat
      /\ StrandCredit \in 0 .. 1 /\ StopCredit \in 0 .. 1
      /\ StrandCredit' \in 0 .. 1 /\ StopCredit' \in 0 .. 1
  BY DEF AccountInv, TypeInv, TypeOK, StrandCredit, StopCredit
<1>2. Slack' = disturbances' - StrandCredit' - StopCredit'
  BY DEF Slack
<1>3. QED
  BY <1>1, <1>2 DEF Slack

\* The arithmetic of the slack, case by case.
LEMMA SlackArithmetic ==
    \A d, d1 \in Nat : \A s, s1, p, p1 \in 0 .. 1 :
        /\ \/ d1 = d /\ s1 <= s /\ p1 <= p
           \/ d1 = d + 1 /\ p1 <= p
           \/ d1 = d + 1 /\ s1 <= s
           => d - s - p <= d1 - s1 - p1
        /\ \/ d1 = d + 1 /\ s1 = 0 /\ p1 <= p
           \/ d1 = d /\ s = 1 /\ s1 = 0 /\ p1 <= p
           \/ d1 = d /\ s1 = 0 /\ p = 1 /\ p1 = 0
           => d - s - p + 1 <= d1 - s1 - p1
OBVIOUS

\* The same, about the state.
LEMMA SlackKept ==
    ASSUME AccountInv, AccountInv',
           \/ /\ disturbances' = disturbances
              /\ StrandCredit' <= StrandCredit /\ StopCredit' <= StopCredit
           \/ disturbances' = disturbances + 1 /\ StopCredit' <= StopCredit
           \/ disturbances' = disturbances + 1 /\ StrandCredit' <= StrandCredit
    PROVE  Slack <= Slack'
<1>1. Slack <= disturbances' - StrandCredit' - StopCredit'
  BY SlackType, SlackArithmetic DEF Slack
<1>2. QED
  BY <1>1, SlackType

\* A requeue uses up one disturbance, for good.
LEMMA SlackUsed ==
    ASSUME AccountInv, AccountInv', RequeueUnacked,
           \/ disturbances' = disturbances + 1 /\ StopCredit' <= StopCredit
           \/ disturbances' = disturbances /\ StrandCredit = 1 /\ StopCredit' <= StopCredit
           \/ disturbances' = disturbances /\ StopCredit = 1 /\ StopCredit' = 0
    PROVE  Slack + 1 <= Slack'
<1>1. StrandCredit' = 0
  <2>1. Unacked' = {}
    BY DEF RequeueUnacked, Unacked
  <2>2. QED
    BY <2>1 DEF StrandCredit, Stranded, Unacked
<1>2. Slack + 1 <= disturbances' - StrandCredit' - StopCredit'
  BY <1>1, SlackType, SlackArithmetic DEF Slack
<1>3. QED
  BY <1>2, SlackType

\* A step of a coroutine moves that coroutine, and uses up no slack.
LEMMA HandlerMoves ==
    ASSUME AccountInv, NEW h \in handlers, HandlerStep(h)
    PROVE  Moves(h) /\ Slack <= Slack'
<1>0. AccountInv' /\ h \in Handler /\ h.msg \in Messages /\ h.answer \in Answer \cup {"none"}
  BY HandlerAccount DEF AccountInv, TypeInv, TypeOK, Handler
<1>a. UNCHANGED process
  BY DEF HandlerStep, Receive, Nack, PipelineReturns, PipelineRaises, PipelineRaisesBlank,
         PublishConfirmed, PublishUnconfirmed, PublishRaises, Ack, SettleRaises, processVars
<1>b. StopCredit' <= StopCredit
  BY <1>a DEF StopCredit
<1>c. ASSUME NEW g \in Handler, Advance(h, g), g.msg = h.msg, g.nth = h.nth,
             h.stage \in {"received", "pipeline", "publish"},
             UNCHANGED <<request, deliveries>>,
             disturbances' \in {disturbances, disturbances + 1}
      PROVE  Moves(h) /\ Slack <= Slack'
  <2>1. StrandCredit' <= StrandCredit
    BY <1>c, AdvanceNeed
  <2>2. Slack <= Slack'
    BY <1>0, <1>b, <1>c, <2>1, SlackKept
  <2>3. QED
    BY <1>c, <2>2 DEF Moves
<1>d. ASSUME AttemptFailed(h), h.stage = "publish", UNCHANGED <<request, deliveries>>,
             \/ disturbances' = disturbances + 1
             \/ disturbances' = disturbances /\ Unacked = {}
      PROVE  Moves(h) /\ Slack <= Slack'
  <2>1. CASE Finish(h)
    <3>1. Moves(h)
      BY <1>d, <2>1 DEF Moves
    <3>2. Unacked = {} => StrandCredit' <= StrandCredit
      BY <1>d DEF StrandCredit, Stranded, Unacked
    <3>3. QED
      BY <1>0, <1>b, <1>d, <3>1, <3>2, SlackKept
  <2>2. CASE ~Finish(h)
    <3>1. PICK g \in Handler : Advance(h, g) /\ g.msg = h.msg /\ g.nth = h.nth
      BY <1>0, <1>d, <2>2, RetryHandler
    <3>2. QED
      BY <1>c, <1>d, <3>1
  <2>3. QED
    BY <2>1, <2>2
<1>1. CASE Receive(h)
  <2>1. /\ [h EXCEPT !.stage = "nack"] \in Handler
        /\ [h EXCEPT !.stage = "pipeline"] \in Handler
    BY <1>0, StageUpdate
  <2>2. PICK g \in Handler : Advance(h, g) /\ g.msg = h.msg /\ g.nth = h.nth
    BY <1>0, <1>1, <2>1 DEF Receive, Handler
  <2>3. /\ UNCHANGED <<request, deliveries, disturbances>> /\ h.stage = "received"
    BY <1>1 DEF Receive, brokerVars
  <2>4. QED
    BY <1>c, <2>2, <2>3
<1>2. CASE PipelineReturns(h) \/ PipelineRaises(h)
  <2>1. /\ [h EXCEPT !.stage = "publish", !.answer = "success"] \in Handler
        /\ [h EXCEPT !.stage = "publish", !.answer = "error"] \in Handler
    BY <1>0, AnswerUpdate DEF Answer
  <2>2. PICK g \in Handler : Advance(h, g) /\ g.msg = h.msg /\ g.nth = h.nth
    BY <1>0, <1>2, <2>1 DEF PipelineReturns, PipelineRaises, Handler
  <2>3. /\ UNCHANGED <<request, deliveries, disturbances>> /\ h.stage = "pipeline"
    BY <1>2 DEF PipelineReturns, PipelineRaises, brokerVars
  <2>4. QED
    BY <1>c, <2>2, <2>3
<1>3. CASE Nack(h) \/ Ack(h) \/ SettleRaises(h)
  <2>1. Finish(h) /\ UNCHANGED <<deliveries, disturbances>>
    BY <1>3 DEF Nack, Ack, SettleRaises, brokerVars
  <2>2. \A m \in Messages :
           \/ request'[m] = request[m]
           \/ m = h.msg /\ Holds(h) /\ request'[m] \in {"acked", "rejected"}
    BY <1>0, <1>3 DEF Nack, Ack, SettleRaises, brokerVars, AccountInv, TypeInv, TypeOK
  <2>3. /\ \A m \in Messages : request'[m] = "unacked" => request[m] = "unacked"
        /\ Holds(h) => request'[h.msg] # "unacked"
    BY <1>0, <1>3, <2>2 DEF Nack, Ack, SettleRaises, AccountInv, TypeInv, TypeOK
  <2>4. StrandCredit' <= StrandCredit
    BY <2>1, <2>3, FinishStrands
  <2>5. Slack <= Slack'
    BY <1>0, <1>b, <2>1, <2>4, SlackKept
  <2>6. QED
    BY <2>1, <2>2, <2>5 DEF Moves
<1>4. CASE PipelineRaisesBlank(h)
  <2>1. Finish(h) /\ UNCHANGED <<request, deliveries>> /\ disturbances' = disturbances + 1
    BY <1>4 DEF PipelineRaisesBlank, Disturb, brokerVars
  <2>2. Slack <= Slack'
    BY <1>0, <1>b, <2>1, SlackKept
  <2>3. QED
    BY <2>1, <2>2 DEF Moves
<1>5. CASE PublishConfirmed(h)
  <2>1. [h EXCEPT !.stage = "ack"] \in Handler
    BY <1>0, StageUpdate
  <2>2. PICK g \in Handler : Advance(h, g) /\ g.msg = h.msg /\ g.nth = h.nth
    BY <1>0, <1>5, <2>1 DEF PublishConfirmed, Handler
  <2>3. /\ UNCHANGED <<request, deliveries, disturbances>> /\ h.stage = "publish"
    BY <1>5 DEF PublishConfirmed
  <2>4. QED
    BY <1>c, <2>2, <2>3
<1>6. CASE PublishUnconfirmed(h)
  <2>1. /\ AttemptFailed(h) /\ h.stage = "publish" /\ UNCHANGED <<request, deliveries>>
        /\ disturbances' = disturbances + 1
    BY <1>6 DEF PublishUnconfirmed, Disturb
  <2>2. QED
    BY <1>d, <2>1
<1>7. CASE PublishRaises(h)
  <2>1. /\ AttemptFailed(h) /\ h.stage = "publish" /\ UNCHANGED <<request, deliveries>>
        /\ IF link = "open" THEN disturbances' = disturbances + 1
                            ELSE disturbances' = disturbances
    BY <1>7 DEF PublishRaises, Disturb, brokerVars
  <2>2. link # "open" => Unacked = {}
    BY DEF AccountInv, LinkInv
  <2>3. QED
    BY <1>d, <2>1, <2>2
<1>8. QED
  BY <1>1, <1>2, <1>3, <1>4, <1>5, <1>6, <1>7 DEF HandlerStep

\* The coroutine that a delivery starts.
LEMMA NewCoroutine ==
    ASSUME NEW m \in Messages, Deliver(m)
    PROVE  \E g : /\ g.msg = m /\ g.nth = deliveries[m] + 1
                  /\ handlers' = handlers \cup {g}
<1> DEFINE g == [msg |-> m, nth |-> deliveries[m] + 1, stage |-> "received",
                 answer |-> "none", attempt |-> 0]
<1>1. g.msg = m /\ g.nth = deliveries[m] + 1
  OBVIOUS
<1>2. handlers' = handlers \cup {g}
  BY DEF Deliver
<1>3. QED
  BY <1>1, <1>2

\* Every step delivers a request, ends a channel, moves one coroutine or rests;
\* and ending a channel is the only kind that uses up slack.
LEMMA StepKinds ==
    ASSUME AccountInv, [Next]_vars
    PROVE  \/ Requeues /\ Slack + 1 <= Slack'
           \/ /\ \/ \E m \in Messages : Deliver(m)
                 \/ \E h \in handlers : Moves(h)
                 \/ Rests
              /\ Slack <= Slack'
<1>0. AccountInv'
  BY AccountStep
<1>1. ASSUME NEW m \in Messages, Deliver(m) PROVE Slack <= Slack'
  <2>0. PICK g : /\ g.msg = m /\ g.nth = deliveries[m] + 1
                 /\ handlers' = handlers \cup {g}
    BY <1>1, NewCoroutine
  <2>1. /\ UNCHANGED <<process, disturbances>> /\ request[m] = "ready"
        /\ request' = [request EXCEPT ![m] = "unacked"]
        /\ deliveries' = [deliveries EXCEPT ![m] = @ + 1]
        /\ \E h \in handlers' : h.msg = m /\ h.nth = deliveries[m] + 1
        /\ handlers \subseteq handlers'
    BY <1>1, <2>0 DEF Deliver, processVars
  <2>2. ASSUME NEW n \in Messages, Stranded(n)' PROVE Stranded(n)
    <3>1. request' \in [Messages -> Places] /\ deliveries' \in [Messages -> Nat]
      BY <1>0 DEF AccountInv, TypeInv, TypeOK
    <3>2. request'[m] = "unacked" /\ deliveries'[m] = deliveries[m] + 1
      BY <2>1, <3>1 DEF AccountInv, TypeInv, TypeOK
    <3>3. n # m
      BY <2>1, <2>2, <3>2 DEF Stranded, Holds
    <3>4. request'[n] = request[n] /\ deliveries'[n] = deliveries[n]
      BY <2>1, <3>3 DEF AccountInv, TypeInv, TypeOK
    <3>5. QED
      BY <2>1, <2>2, <3>4 DEF Stranded, Holds
  <2>3. \A n \in Messages : Stranded(n)' => Stranded(n)
    BY <2>2
  <2>4. StrandCredit' <= StrandCredit
    BY <2>3 DEF StrandCredit
  <2>5. StopCredit' <= StopCredit
    BY <2>1 DEF StopCredit
  <2>6. QED
    BY <1>0, <2>1, <2>4, <2>5, SlackKept
<1>2. ASSUME NEW h \in handlers, HandlerStep(h) PROVE Moves(h) /\ Slack <= Slack'
  BY <1>2, HandlerMoves
<1>3. CASE \/ \E m \in Messages : Submit(m)
           \/ Reconnect \/ Boot \/ StartConsumer \/ StartConsumerRaises \/ UNCHANGED vars
  <2>1. /\ UNCHANGED <<handlers, deliveries>>
        /\ disturbances' = disturbances \/ disturbances' = disturbances + 1
        /\ \A m \in Messages : \/ request'[m] = request[m]
                               \/ request[m] = "unsent" /\ request'[m] = "ready"
    BY <1>3 DEF Submit, Reconnect, Boot, StartConsumer, StartConsumerRaises, Disturb, vars,
                brokerVars, processVars, AccountInv, TypeInv, TypeOK
  <2>2. process' # "draining" \/ process' = process
    BY <1>3 DEF Submit, Reconnect, Boot, StartConsumer, StartConsumerRaises, vars, processVars
  <2>3. StopCredit' <= StopCredit
    BY <2>2 DEF StopCredit
  <2>4. \A m \in Messages : Stranded(m)' => Stranded(m)
    BY <2>1 DEF Stranded, Holds
  <2>5. StrandCredit' <= StrandCredit
    BY <2>4 DEF StrandCredit
  <2>6. Slack <= Slack'
    BY <1>0, <2>1, <2>3, <2>5, SlackKept
  <2>7. QED
    BY <2>1, <2>6 DEF Rests
<1>4. CASE ConnectionLost \/ AckTimeoutSlow
  <2>1. /\ RequeueUnacked /\ handlers' \subseteq handlers
        /\ UNCHANGED <<deliveries, process>> /\ disturbances' = disturbances + 1
    BY <1>4 DEF ConnectionLost, AckTimeoutSlow, SomeHandlersCancelled, Disturb, processVars
  <2>2. StopCredit' <= StopCredit
    BY <2>1 DEF StopCredit
  <2>3. QED
    BY <1>0, <2>1, <2>2, SlackUsed DEF Requeues
<1>5. CASE AckTimeoutClose
  <2>1. /\ RequeueUnacked /\ handlers' \subseteq handlers
        /\ UNCHANGED <<deliveries, process, disturbances>>
        /\ \E m \in Messages : Stranded(m)
    BY <1>5 DEF AckTimeoutClose, SomeHandlersCancelled, processVars
  <2>2. StopCredit' <= StopCredit /\ StrandCredit = 1
    BY <2>1 DEF StopCredit, StrandCredit
  <2>3. QED
    BY <1>0, <2>1, <2>2, SlackUsed DEF Requeues
<1>6. CASE Disconnect
  <2>1. /\ RequeueUnacked /\ handlers' \subseteq handlers
        /\ UNCHANGED <<deliveries, disturbances>>
        /\ process = "draining" /\ process' = "closed"
    BY <1>6 DEF Disconnect, SomeHandlersCancelled
  <2>2. StopCredit = 1 /\ StopCredit' = 0
    BY <2>1 DEF StopCredit
  <2>3. QED
    BY <1>0, <2>1, <2>2, SlackUsed DEF Requeues
<1>7. CASE Crash
  <2>1. /\ RequeueUnacked /\ handlers' \subseteq handlers
        /\ UNCHANGED deliveries /\ disturbances' = disturbances + 1 /\ process' = "off"
    BY <1>7 DEF Crash, Disturb
  <2>2. StopCredit' <= StopCredit
    BY <2>1 DEF StopCredit
  <2>3. QED
    BY <1>0, <2>1, <2>2, SlackUsed DEF Requeues
<1>8. CASE StopConsumer
  <2>1. UNCHANGED <<request, deliveries, handlers>> /\ disturbances' = disturbances + 1
    BY <1>8 DEF StopConsumer, Disturb, brokerVars
  <2>2. StrandCredit' <= StrandCredit
    BY <2>1 DEF StrandCredit, Stranded, Holds
  <2>3. QED
    BY <1>0, <2>1, <2>2, SlackKept DEF Rests
<1>9. CASE Exit
  <2>1. /\ UNCHANGED <<request, deliveries, disturbances>> /\ handlers' = {}
        /\ process = "closed" /\ process' = "off"
    BY <1>9 DEF Exit, brokerVars
  <2>2. Unacked' = {}
    BY <2>1 DEF AccountInv, LinkInv, Unacked
  <2>3. StrandCredit' <= StrandCredit
    BY <2>2 DEF StrandCredit, Stranded, Unacked
  <2>4. StopCredit' <= StopCredit
    BY <2>1 DEF StopCredit
  <2>5. QED
    BY <1>0, <2>1, <2>3, <2>4, SlackKept DEF Rests
<1>10. QED
  BY <1>1, <1>2, <1>3, <1>4, <1>5, <1>6, <1>7, <1>8, <1>9 DEF Next

-----------------------------------------------------------------------------
(* How often a request is delivered.                                       *)

\* A request is delivered at most once more than there were disturbances.
DeliveriesBounded == \A m \in Messages : deliveries[m] <= 1 + disturbances

\* What is inductive: a delivery still due counts as made, and only the slack
\* has been used up.
DeliveryInv ==
    /\ AccountInv
    /\ \A m \in Messages : deliveries[m] + Due(m) <= 1 + Slack

\* The arithmetic: n deliveries, u one due, k the slack.
LEMMA DeliveryArithmetic ==
    \A n, n1 \in Nat : \A u, u1 \in 0 .. 1 : \A k, k1 \in Int :
        /\ n + u <= 1 + k
        /\ \/ n1 = n /\ k + 1 <= k1
           \/ n1 + u1 <= n + u /\ k <= k1
        => n1 + u1 <= 1 + k1
OBVIOUS

\* What a step of each kind does to the deliveries of a request.
LEMMA DeliveryCount ==
    ASSUME AccountInv, AccountInv', NEW m \in Messages
    PROVE  /\ Requeues => deliveries'[m] = deliveries[m]
           /\ \/ \E n \in Messages : Deliver(n)
              \/ \E h \in handlers : Moves(h)
              \/ Rests
              => deliveries'[m] + Due(m)' <= deliveries[m] + Due(m)
<1>1. Requeues => deliveries'[m] = deliveries[m]
  BY DEF Requeues
<1>2. deliveries[m] \in Nat /\ Due(m) \in 0 .. 1 /\ Due(m)' \in 0 .. 1
  BY DEF AccountInv, TypeInv, TypeOK, Due
<1>3. ASSUME NEW n \in Messages, Deliver(n)
      PROVE  deliveries'[m] + Due(m)' <= deliveries[m] + Due(m)
  <2>1. /\ request[n] = "ready" /\ request' = [request EXCEPT ![n] = "unacked"]
        /\ deliveries' = [deliveries EXCEPT ![n] = @ + 1]
    BY <1>3 DEF Deliver
  <2>2. /\ m = n => deliveries'[m] = deliveries[m] + 1 /\ request'[m] = "unacked"
        /\ m # n => deliveries'[m] = deliveries[m] /\ request'[m] = request[m]
    BY <2>1 DEF AccountInv, TypeInv, TypeOK
  <2>3. CASE m = n
    <3>1. Due(m) = 1 /\ Due(m)' = 0
      BY <2>1, <2>2, <2>3 DEF Due
    <3>2. QED
      BY <1>2, <2>2, <2>3, <3>1
  <2>4. CASE m # n
    <3>1. Due(m)' = Due(m)
      BY <2>2, <2>4 DEF Due
    <3>2. QED
      BY <1>2, <2>2, <2>4, <3>1
  <2>5. QED
    BY <2>3, <2>4
<1>4. ASSUME (\E h \in handlers : Moves(h)) \/ Rests
      PROVE  deliveries'[m] + Due(m)' <= deliveries[m] + Due(m)
  <2>1. /\ deliveries'[m] = deliveries[m]
        /\ \/ request'[m] = request[m]
           \/ request'[m] \in {"acked", "rejected"}
           \/ request[m] = "unsent" /\ request'[m] = "ready"
    BY <1>4 DEF Moves, Rests
  <2>2. Due(m)' <= Due(m)
    BY <2>1 DEF Due
  <2>3. QED
    BY <1>2, <2>1, <2>2
<1>5. QED
  BY <1>1, <1>3, <1>4

\* The bound is kept by every step.
LEMMA DeliveryStep == ASSUME DeliveryInv, [Next]_vars PROVE DeliveryInv'
<1>1. AccountInv /\ AccountInv'
  BY AccountStep DEF DeliveryInv
<1>2. ASSUME NEW m \in Messages PROVE deliveries'[m] + Due(m)' <= 1 + Slack'
  <2>1. /\ deliveries[m] \in Nat /\ deliveries'[m] \in Nat
        /\ Due(m) \in 0 .. 1 /\ Due(m)' \in 0 .. 1
    BY <1>1 DEF AccountInv, TypeInv, TypeOK, Due
  <2>2. deliveries[m] + Due(m) <= 1 + Slack
    BY DEF DeliveryInv
  <2>3. \/ deliveries'[m] = deliveries[m] /\ Slack + 1 <= Slack'
        \/ /\ deliveries'[m] + Due(m)' <= deliveries[m] + Due(m)
           /\ Slack <= Slack'
    <3>1. CASE Requeues /\ Slack + 1 <= Slack'
      BY <1>1, <3>1, DeliveryCount
    <3>2. CASE /\ \/ \E n \in Messages : Deliver(n)
                  \/ \E h \in handlers : Moves(h)
                  \/ Rests
               /\ Slack <= Slack'
      BY <1>1, <3>2, DeliveryCount
    <3>3. QED
      BY <1>1, <3>1, <3>2, StepKinds
  <2>4. Slack \in Int /\ Slack' \in Int
    BY <1>1, SlackType
  <2>5. QED
    BY <2>1, <2>2, <2>3, <2>4, DeliveryArithmetic
<1>3. QED
  BY <1>1, <1>2 DEF DeliveryInv

\* Nothing was delivered at the start.
LEMMA InitialDelivery == Init => DeliveryInv
<1> SUFFICES ASSUME Init PROVE DeliveryInv
  OBVIOUS
<1>1. AccountInv
  BY InitialAccount
<1>2. Unacked = {}
  BY DEF Init, Unacked
<1>3. StrandCredit = 0 /\ StopCredit = 0 /\ disturbances = 0
  BY <1>2, NothingStranded DEF Init, StopCredit
<1>4. Slack = 0
  BY <1>3 DEF Slack
<1>5. \A m \in Messages : deliveries[m] = 0 /\ Due(m) = 1
  BY DEF Init, Due
<1>6. QED
  BY <1>1, <1>4, <1>5 DEF DeliveryInv

\* A request is delivered at most once more than there were disturbances: each
\* redelivery has a cause of its own, also those the acknowledgement timeout
\* and the disconnection of a shutdown bring about (consumer.py, main.py).
THEOREM RedeliveriesHaveACause == Spec => []DeliveriesBounded
<1>1. Init => DeliveryInv
  BY InitialDelivery
<1>2. DeliveryInv /\ [Next]_vars => DeliveryInv'
  BY DeliveryStep
<1>3. DeliveryInv => DeliveriesBounded
  <2> SUFFICES ASSUME DeliveryInv, NEW m \in Messages PROVE deliveries[m] <= 1 + disturbances
    BY DEF DeliveriesBounded
  <2>1. deliveries[m] \in Nat /\ Due(m) \in 0 .. 1 /\ disturbances \in Nat
    BY DEF DeliveryInv, AccountInv, TypeInv, TypeOK, Due
  <2>2. StrandCredit \in 0 .. 1 /\ StopCredit \in 0 .. 1
    BY DEF StrandCredit, StopCredit
  <2>3. deliveries[m] + Due(m) <= 1 + Slack
    BY DEF DeliveryInv
  <2>4. QED
    BY <2>1, <2>2, <2>3 DEF Slack
<1>4. QED
  BY <1>1, <1>2, <1>3, PTL DEF Spec

-----------------------------------------------------------------------------
(* How many coroutines the process has at a time.                          *)

\* A delivery has one coroutine, and no coroutine is of a delivery to come.
OneCoroutineEach ==
    /\ \A g, h \in handlers : g.msg = h.msg /\ g.nth = h.nth => g = h
    /\ \A h \in handlers : h.nth <= deliveries[h.msg]

\* The coroutines that can still settle their delivery, and the others.
Current  == {h \in handlers : Holds(h)}
Outlived == handlers \ Current

\* What is inductive: the prefetch count bounds the deliveries of a channel,
\* and each disturbance that is used up leaves at most that many coroutines
\* behind.
LoadInv ==
    /\ AccountInv
    /\ OneCoroutineEach
    /\ PrefetchCount > 0 =>
          /\ Cardinality(Unacked) <= PrefetchCount
          /\ Cardinality(Outlived) <= PrefetchCount * Slack

\* The sets that are counted are finite.
LEMMA LoadNumbers ==
    ASSUME AccountInv
    PROVE  /\ IsFiniteSet(Unacked) /\ Cardinality(Unacked) \in Nat
           /\ IsFiniteSet(Current) /\ Cardinality(Current) \in Nat
           /\ IsFiniteSet(Outlived) /\ Cardinality(Outlived) \in Nat
           /\ IsFiniteSet(handlers) /\ Cardinality(handlers) \in Nat
<1>1. Unacked \in SUBSET Messages
  BY DEF Unacked
<1>2. Current \in SUBSET handlers /\ Outlived \in SUBSET handlers
  BY DEF Current, Outlived
<1>3. IsFiniteSet(Messages) /\ IsFiniteSet(handlers)
  BY MessagesAssumption DEF AccountInv
<1>4. IsFiniteSet(Unacked) /\ IsFiniteSet(Current) /\ IsFiniteSet(Outlived)
  BY <1>1, <1>2, <1>3, FS_Subset
<1>5. QED
  BY <1>3, <1>4, FS_CardinalityType

\* Two coroutines that can settle the same request are one: the current
\* coroutines are no more than the unsettled deliveries.
LEMMA CurrentAreUnacked ==
    ASSUME AccountInv, OneCoroutineEach
    PROVE  Cardinality(Current) <= Cardinality(Unacked)
<1> DEFINE f == [h \in Current |-> h.msg]
<1>1. \A h \in Current : h \in handlers /\ h.msg \in Unacked
  BY DEF Current, Holds, Unacked, AccountInv, TypeInv, TypeOK, Handler
<1>2. f \in [Current -> Unacked]
  BY <1>1
<1>3. ASSUME NEW g \in Current, NEW h \in Current, f[g] = f[h] PROVE g = h
  <2>1. g.msg = h.msg
    BY <1>3
  <2>2. g.nth = deliveries[g.msg] /\ h.nth = deliveries[h.msg]
    BY DEF Current, Holds
  <2>3. QED
    BY <1>1, <2>1, <2>2 DEF OneCoroutineEach
<1>4. f \in Injection(Current, Unacked)
  <2>1. DOMAIN f = Current
    OBVIOUS
  <2> HIDE DEF f
  <2>2. QED
    BY <1>2, <1>3, <2>1 DEF Injection, IsInjective
<1> HIDE DEF f
<1>5. QED
  BY <1>4, LoadNumbers, FS_Injection

\* All coroutines are current or outlived.
LEMMA CountHandlers ==
    ASSUME AccountInv
    PROVE  Cardinality(handlers) <= Cardinality(Current) + Cardinality(Outlived)
<1>1. handlers = Current \cup Outlived
  BY DEF Current, Outlived
<1>2. Current \cap Outlived = {}
  BY DEF Outlived
<1> HIDE DEF Current, Outlived
<1>3. Cardinality(Current \cup Outlived)
        = Cardinality(Current) + Cardinality(Outlived) - Cardinality(Current \cap Outlived)
  BY LoadNumbers, FS_Union
<1>4. Cardinality(Current \cap Outlived) = 0
  BY <1>2, FS_EmptySet
<1>5. QED
  BY <1>1, <1>3, <1>4, LoadNumbers

\* A delivery starts one coroutine, its own.
LEMMA OneCoroutineDeliver ==
    ASSUME AccountInv, OneCoroutineEach, NEW m \in Messages, Deliver(m)
    PROVE  OneCoroutineEach'
<1>1. PICK g : /\ g.msg = m /\ g.nth = deliveries[m] + 1
               /\ handlers' = handlers \cup {g}
  BY NewCoroutine
<1>2. /\ deliveries' = [deliveries EXCEPT ![m] = @ + 1]
      /\ deliveries \in [Messages -> Nat]
      /\ \A h \in handlers : h.msg \in Messages /\ h.nth \in Nat
  BY DEF Deliver, AccountInv, TypeInv, TypeOK, Handler
<1>3. /\ deliveries'[m] = deliveries[m] + 1
      /\ \A n \in Messages : deliveries'[n] \in Nat /\ deliveries[n] <= deliveries'[n]
  BY <1>2
<1>4. \A h \in handlers : h.nth <= deliveries'[h.msg]
  BY <1>2, <1>3 DEF OneCoroutineEach
<1>5. \A h \in handlers' : h.nth <= deliveries'[h.msg]
  BY <1>1, <1>3, <1>4
<1>6. \A h \in handlers : ~(h.msg = g.msg /\ h.nth = g.nth)
  BY <1>1, <1>2 DEF OneCoroutineEach
<1>7. \A x, y \in handlers' : x.msg = y.msg /\ x.nth = y.nth => x = y
  BY <1>1, <1>6 DEF OneCoroutineEach
<1>8. QED
  BY <1>5, <1>7 DEF OneCoroutineEach

\* Every step keeps one coroutine for each delivery.
LEMMA OneCoroutineStep ==
    ASSUME AccountInv, OneCoroutineEach, [Next]_vars
    PROVE  OneCoroutineEach'
<1>1. ASSUME handlers' \subseteq handlers, UNCHANGED deliveries
      PROVE  OneCoroutineEach'
  BY <1>1 DEF OneCoroutineEach
<1>2. CASE Requeues \/ Rests
  BY <1>1, <1>2 DEF Requeues, Rests
<1>3. ASSUME NEW m \in Messages, Deliver(m) PROVE OneCoroutineEach'
  BY <1>3, OneCoroutineDeliver
<1>4. ASSUME NEW h \in handlers, Moves(h) PROVE OneCoroutineEach'
  <2>1. CASE Finish(h)
    BY <1>1, <1>4, <2>1 DEF Moves, Finish
  <2>2. ASSUME NEW g \in Handler, Advance(h, g), g.msg = h.msg, g.nth = h.nth
        PROVE  OneCoroutineEach'
    BY <1>4, <2>2 DEF Moves, Advance, OneCoroutineEach
  <2>3. QED
    BY <1>4, <2>1, <2>2 DEF Moves
<1>5. QED
  BY <1>2, <1>3, <1>4, StepKinds

\* The broker never has more than the prefetch count of deliveries unsettled.
LEMMA PrefetchHolds ==
    ASSUME AccountInv, [Next]_vars, PrefetchCount > 0,
           Cardinality(Unacked) <= PrefetchCount
    PROVE  Cardinality(Unacked') <= PrefetchCount
<1>0. IsFiniteSet(Unacked) /\ Cardinality(Unacked) \in Nat /\ PrefetchCount \in Nat
  BY LoadNumbers, PrefetchAssumption
<1>1. ASSUME Unacked' \subseteq Unacked PROVE Cardinality(Unacked') <= PrefetchCount
  <2>1. IsFiniteSet(Unacked') /\ Cardinality(Unacked') <= Cardinality(Unacked)
    BY <1>0, <1>1, FS_Subset
  <2>2. Cardinality(Unacked') \in Nat
    BY <2>1, FS_CardinalityType
  <2>3. QED
    BY <1>0, <2>1, <2>2
<1>2. CASE Requeues
  BY <1>1, <1>2 DEF Requeues, RequeueUnacked, Unacked
<1>3. CASE (\E h \in handlers : Moves(h)) \/ Rests
  BY <1>1, <1>3 DEF Moves, Rests, Unacked
<1>4. ASSUME NEW m \in Messages, Deliver(m)
      PROVE  Cardinality(Unacked') <= PrefetchCount
  <2>1. Unacked' = Unacked \cup {m}
    BY <1>4 DEF Deliver, Unacked, AccountInv, TypeInv, TypeOK
  <2>2. Cardinality(Unacked \cup {m}) <= Cardinality(Unacked) + 1
    BY <1>0, OneMore
  <2>3. IsFiniteSet(Unacked \cup {m})
    BY <1>0, FS_AddElement
  <2>4. Cardinality(Unacked \cup {m}) \in Nat
    BY <2>3, FS_CardinalityType
  <2>5. Cardinality(Unacked) < PrefetchCount
    BY <1>4 DEF Deliver
  <2>6. QED
    BY <1>0, <2>1, <2>2, <2>4, <2>5
<1>5. QED
  BY <1>2, <1>3, <1>4, StepKinds

\* Only a requeue makes coroutines outlive their delivery.
LEMMA OutlivedStep ==
    ASSUME AccountInv, AccountInv', OneCoroutineEach,
           \/ \E m \in Messages : Deliver(m)
           \/ \E h \in handlers : Moves(h)
           \/ Rests
    PROVE  Cardinality(Outlived') <= Cardinality(Outlived)
<1>0. /\ IsFiniteSet(Outlived) /\ Cardinality(Outlived) \in Nat
      /\ \A h \in handlers : h.msg \in Messages /\ h.nth \in Nat
      /\ request \in [Messages -> Places] /\ deliveries \in [Messages -> Nat]
  BY LoadNumbers DEF AccountInv, TypeInv, TypeOK, Handler
<1>1. ASSUME Outlived' \subseteq Outlived
      PROVE  Cardinality(Outlived') <= Cardinality(Outlived)
  BY <1>0, <1>1, FS_Subset
<1>2. ASSUME NEW m \in Messages, Deliver(m) PROVE Outlived' \subseteq Outlived
  <2>1. PICK g : /\ g.msg = m /\ g.nth = deliveries[m] + 1
                 /\ handlers' = handlers \cup {g}
    BY <1>2, NewCoroutine
  <2>2. /\ request[m] = "ready"
        /\ request'[m] = "unacked" /\ deliveries'[m] = deliveries[m] + 1
        /\ \A n \in Messages : n # m => request'[n] = request[n]
                                       /\ deliveries'[n] = deliveries[n]
    BY <1>0, <1>2 DEF Deliver
  <2>3. Holds(g)'
    BY <2>1, <2>2 DEF Holds
  <2>4. ASSUME NEW h \in handlers, Holds(h) PROVE Holds(h)'
    BY <1>0, <2>2, <2>4 DEF Holds
  <2>5. QED
    BY <2>1, <2>3, <2>4 DEF Outlived, Current
<1>3. ASSUME NEW h \in handlers, Moves(h)
      PROVE  Cardinality(Outlived') <= Cardinality(Outlived)
  <2>1. CASE /\ Finish(h)
             /\ \A m \in Messages :
                  \/ request'[m] = request[m]
                  \/ m = h.msg /\ Holds(h) /\ request'[m] \in {"acked", "rejected"}
    <3>1. ASSUME NEW g \in handlers', Holds(g) PROVE Holds(g)'
      <4>1. g \in handlers /\ g # h /\ g.msg \in Messages
        BY <1>0, <2>1 DEF Finish
      <4>2. ~(g.msg = h.msg /\ Holds(h))
        BY <3>1, <4>1 DEF Holds, OneCoroutineEach
      <4>3. request'[g.msg] = request[g.msg] /\ UNCHANGED deliveries
        BY <1>3, <2>1, <4>1, <4>2 DEF Moves
      <4>4. QED
        BY <3>1, <4>3 DEF Holds
    <3>2. handlers' \subseteq handlers
      BY <2>1 DEF Finish
    <3>3. Outlived' \subseteq Outlived
      BY <3>1, <3>2 DEF Outlived, Current
    <3>4. QED
      BY <1>1, <3>3
  <2>2. ASSUME NEW g \in Handler, Advance(h, g), g.msg = h.msg, g.nth = h.nth,
               UNCHANGED request
        PROVE  Cardinality(Outlived') <= Cardinality(Outlived)
    <3>1. UNCHANGED <<request, deliveries>>
      BY <1>3, <2>2 DEF Moves
    <3>2. \A x : Holds(x)' <=> Holds(x)
      BY <3>1 DEF Holds
    <3>3. Holds(g) <=> Holds(h)
      BY <2>2 DEF Holds
    <3>4. CASE Holds(h)
      <4>1. Outlived' \subseteq Outlived
        BY <2>2, <3>2, <3>3, <3>4 DEF Outlived, Current, Advance
      <4>2. QED
        BY <1>1, <4>1
    <3>5. CASE ~Holds(h)
      <4>1. h \in Outlived /\ Outlived' = (Outlived \ {h}) \cup {g}
        BY <2>2, <3>2, <3>3, <3>5 DEF Outlived, Current, Advance
      <4>2. Cardinality((Outlived \ {h}) \cup {g}) <= Cardinality(Outlived)
        BY <1>0, <4>1, Exchange
      <4>3. QED
        BY <4>1, <4>2
    <3>6. QED
      BY <3>4, <3>5
  <2>3. QED
    BY <1>3, <2>1, <2>2 DEF Moves
<1>4. CASE Rests
  <2>1. \A h \in handlers' : h \in handlers /\ (Holds(h) => Holds(h)')
    BY <1>0, <1>4 DEF Rests, Holds
  <2>2. Outlived' \subseteq Outlived
    BY <2>1 DEF Outlived, Current
  <2>3. QED
    BY <1>1, <2>2
<1>5. QED
  BY <1>1, <1>2, <1>3, <1>4

\* Multiplication by the prefetch count: it keeps the order, and one more
\* disturbance is one more prefetch count.
LEMMA TimesPrefetch ==
    \A p \in Nat : \A k, k1 \in Int :
        /\ k <= k1 => p * k <= p * k1
        /\ p * k \in Int /\ p * (k + 1) = p * k + p
OBVIOUS

\* The arithmetic: o coroutines outlived and c current before the step, o1
\* outlived after it; x and x1 stand for the prefetch count times the slack.
LEMMA LoadArithmetic ==
    \A o, o1, c, p \in Nat : \A x, x1 \in Int :
        /\ o <= x /\ o1 <= o /\ x <= x1 => o1 <= x1
        /\ o <= x /\ c <= p /\ o1 <= c + o /\ x + p <= x1 => o1 <= x1
OBVIOUS

\* The bound on the load is kept by every step.
LEMMA LoadStep == ASSUME LoadInv, [Next]_vars PROVE LoadInv'
<1>1. AccountInv /\ AccountInv' /\ OneCoroutineEach /\ OneCoroutineEach'
  BY AccountStep, OneCoroutineStep DEF LoadInv
<1>2. ASSUME PrefetchCount > 0
      PROVE  Cardinality(Outlived') <= PrefetchCount * Slack'
  <2>1. /\ Cardinality(Unacked) <= PrefetchCount
        /\ Cardinality(Outlived) <= PrefetchCount * Slack
    BY <1>2 DEF LoadInv
  <2>2. PrefetchCount \in Nat /\ Slack \in Int /\ Slack' \in Int /\ Slack + 1 \in Int
    BY <1>1, SlackType, PrefetchAssumption
  <2> DEFINE x  == PrefetchCount * Slack
             x1 == PrefetchCount * Slack'
  <2>x. x \in Int /\ x1 \in Int /\ Cardinality(Outlived) <= x
    BY <2>1, <2>2, TimesPrefetch
  <2>3. /\ Cardinality(Outlived) \in Nat /\ Cardinality(Current) \in Nat
        /\ Cardinality(Unacked) \in Nat
        /\ IsFiniteSet(handlers) /\ Cardinality(handlers) \in Nat
    BY <1>1, LoadNumbers
  <2>4. Outlived' \in SUBSET handlers' /\ IsFiniteSet(handlers')
    BY <1>1 DEF Outlived, AccountInv
  <2>5. IsFiniteSet(Outlived') /\ Cardinality(Outlived') \in Nat
    BY <2>4, FS_Subset, FS_CardinalityType
  <2>6. CASE Requeues /\ Slack + 1 <= Slack'
    <3>1. Outlived' \in SUBSET handlers
      BY <2>4, <2>6 DEF Requeues
    <3>2. Cardinality(Outlived') <= Cardinality(handlers)
      BY <2>3, <3>1, FS_Subset
    <3>3. Cardinality(handlers) <= Cardinality(Current) + Cardinality(Outlived)
      BY <1>1, CountHandlers
    <3>4. Cardinality(Current) <= Cardinality(Unacked)
      BY <1>1, CurrentAreUnacked
    <3>5. x + PrefetchCount <= x1
      <4>1. PrefetchCount * (Slack + 1) <= PrefetchCount * Slack'
        BY <2>2, <2>6, TimesPrefetch
      <4>2. PrefetchCount * (Slack + 1) = PrefetchCount * Slack + PrefetchCount
        BY <2>2, TimesPrefetch
      <4>3. QED
        BY <4>1, <4>2
    <3>6. /\ Cardinality(Current) <= PrefetchCount
          /\ Cardinality(Outlived') <= Cardinality(Current) + Cardinality(Outlived)
      BY <2>1, <2>2, <2>3, <2>5, <3>2, <3>3, <3>4
    <3> HIDE DEF x, x1
    <3>7. Cardinality(Outlived') <= x1
      BY <2>2, <2>3, <2>5, <2>x, <3>5, <3>6, LoadArithmetic
    <3>8. QED
      BY <3>7 DEF x1
  <2>7. CASE /\ \/ \E m \in Messages : Deliver(m)
                \/ \E h \in handlers : Moves(h)
                \/ Rests
             /\ Slack <= Slack'
    <3>1. Cardinality(Outlived') <= Cardinality(Outlived)
      BY <1>1, <2>7, OutlivedStep
    <3>2. x <= x1
      BY <2>2, <2>7, TimesPrefetch
    <3> HIDE DEF x, x1
    <3>3. Cardinality(Outlived') <= x1
      BY <2>2, <2>3, <2>5, <2>x, <3>1, <3>2, LoadArithmetic
    <3>4. QED
      BY <3>3 DEF x1
  <2>8. QED
    BY <1>1, <2>6, <2>7, StepKinds
<1>3. PrefetchCount > 0 => Cardinality(Unacked') <= PrefetchCount
  BY <1>1, PrefetchHolds DEF LoadInv
<1>4. QED
  BY <1>1, <1>2, <1>3 DEF LoadInv

\* There are no coroutines at the start.
LEMMA InitialLoad == Init => LoadInv
<1> SUFFICES ASSUME Init PROVE LoadInv
  OBVIOUS
<1>1. AccountInv
  BY InitialAccount
<1>2. handlers = {} /\ Unacked = {}
  BY DEF Init, Unacked
<1>3. Outlived = {}
  BY <1>2 DEF Outlived
<1>4. Cardinality(Unacked) = 0 /\ Cardinality(Outlived) = 0
  BY <1>2, <1>3, FS_EmptySet
<1>5. StrandCredit = 0 /\ StopCredit = 0 /\ disturbances = 0
  BY <1>2, NothingStranded DEF Init, StopCredit
<1>6. Slack = 0
  BY <1>5 DEF Slack
<1>7. OneCoroutineEach
  BY <1>2 DEF OneCoroutineEach
<1>8. QED
  BY <1>1, <1>4, <1>6, <1>7, PrefetchAssumption DEF LoadInv

\* The prefetch count is back-pressure on the work of the process: its
\* coroutines are never more than one prefetch count, and one more for each
\* disturbance, however many connections it has lost with work in hand
\* (rabbitmq_adapter.py get_channel, consumer.py).
THEOREM LoadBounded == Spec => []WorkBounded
<1>1. Init => LoadInv
  BY InitialLoad
<1>2. LoadInv /\ [Next]_vars => LoadInv'
  BY LoadStep
<1>3. LoadInv => WorkBounded
  <2> SUFFICES ASSUME LoadInv, PrefetchCount > 0
      PROVE  Cardinality(handlers) <= PrefetchCount * (1 + disturbances)
    BY DEF WorkBounded
  <2>1. AccountInv /\ OneCoroutineEach
    BY DEF LoadInv
  <2>2. AccountInv => Slack \in Int /\ Slack <= disturbances /\ disturbances \in Nat
    BY DEF AccountInv, TypeInv, TypeOK, Slack, StrandCredit, StopCredit
  <2>3. PrefetchCount \in Nat /\ Slack \in Int /\ disturbances \in Int
    BY <2>1, <2>2, PrefetchAssumption
  <2>4. PrefetchCount * Slack <= PrefetchCount * disturbances
    BY <2>1, <2>2, <2>3, TimesPrefetch
  <2>5. /\ PrefetchCount * (disturbances + 1) = PrefetchCount * disturbances + PrefetchCount
        /\ PrefetchCount * Slack \in Int /\ PrefetchCount * disturbances \in Int
    BY <2>3, TimesPrefetch
  <2>6. /\ Cardinality(Current) <= Cardinality(Unacked)
        /\ Cardinality(handlers) <= Cardinality(Current) + Cardinality(Outlived)
    BY <2>1, CurrentAreUnacked, CountHandlers
  <2>7. /\ Cardinality(Unacked) <= PrefetchCount
        /\ Cardinality(Outlived) <= PrefetchCount * Slack
    BY DEF LoadInv
  <2>8. /\ Cardinality(handlers) \in Nat /\ Cardinality(Current) \in Nat
        /\ Cardinality(Outlived) \in Nat /\ Cardinality(Unacked) \in Nat
    BY <2>1, LoadNumbers
  <2>9. Cardinality(handlers) <= PrefetchCount * disturbances + PrefetchCount
    BY <2>3, <2>4, <2>5, <2>6, <2>7, <2>8
  <2>10. 1 + disturbances = disturbances + 1
    BY <2>3
  <2>11. QED
    BY <2>5, <2>9, <2>10
<1>4. QED
  BY <1>1, <1>2, <1>3, PTL DEF Spec

=============================================================================
