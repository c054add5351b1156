------------------------ MODULE WorkerCounterProofs ------------------------
(***************************************************************************)
(* The counters of the worker, proved for every number of requests,        *)
(* attempts and disturbances: no outcome is counted that was not earned,   *)
(* by a request consumed or by an analysis that failed.                    *)
(*                                                                         *)
(* Both inequalities of OutcomesNeverOvercounted are inductive once the    *)
(* coroutines are known to be finitely many: each step either moves one    *)
(* coroutine into a stage and counts its entry, or takes one out of it and *)
(* counts at most one outcome.  Coroutines that are cancelled only make    *)
(* the sum smaller, and the end of the process takes counters and          *)
(* coroutines alike.                                                       *)
(***************************************************************************)
EXTENDS WorkerProofs, FiniteSetTheorems

\* The coroutines that owe the counters an outcome, and those that owe one for
\* a pipeline error.
InWork == AtStage({"pipeline", "publish"})

Failing == {h \in AtStage({"publish"}) : h.answer = "error"}

Told == metrics["resultsPublished"] + metrics["errorsPublished"] + metrics["publishFailures"]

CounterInv == TypeInv /\ IsFiniteSet(handlers) /\ OutcomesNeverOvercounted

-----------------------------------------------------------------------------
(* Lemmas.                                                                 *)

\* How the cardinality of a set changes when one element leaves or enters.
LEMMA OneElement ==
    ASSUME NEW S, IsFiniteSet(S), NEW h, NEW g, NEW U
    PROVE  /\ Cardinality(S) \in Nat
           /\ U \subseteq S => Cardinality(U) \in Nat /\ Cardinality(U) <= Cardinality(S)
           /\ U \subseteq S \cup {g} =>
                 Cardinality(U) \in Nat /\ Cardinality(U) <= Cardinality(S) + 1
           /\ h \in S /\ U \subseteq S \ {h} =>
                 Cardinality(U) \in Nat /\ Cardinality(U) + 1 <= Cardinality(S)
           /\ h \in S /\ U \subseteq (S \ {h}) \cup {g} =>
                 Cardinality(U) \in Nat /\ Cardinality(U) <= Cardinality(S)
<1>1. \A V : IsFiniteSet(V) => Cardinality(V) \in Nat
  BY FS_CardinalityType
<1>2. ASSUME NEW V, IsFiniteSet(V), U \subseteq V
      PROVE  Cardinality(U) \in Nat /\ Cardinality(U) <= Cardinality(V)
  <2>1. U \in SUBSET V
    BY <1>2
  <2>2. IsFiniteSet(U) /\ Cardinality(U) <= Cardinality(V)
    BY <1>2, <2>1, FS_Subset
  <2>3. QED
    BY <1>1, <2>2
<1>3. /\ IsFiniteSet(S \cup {g})
      /\ Cardinality(S \cup {g}) \in Nat
      /\ Cardinality(S \cup {g}) <= Cardinality(S) + 1
  <2>1. /\ IsFiniteSet(S \cup {g})
        /\ Cardinality(S \cup {g}) = IF g \in S THEN Cardinality(S) ELSE Cardinality(S) + 1
    BY FS_AddElement
  <2>2. QED
    BY <1>1, <2>1
<1>4. ASSUME h \in S
      PROVE  /\ IsFiniteSet(S \ {h})
             /\ Cardinality(S \ {h}) \in Nat
             /\ Cardinality(S \ {h}) + 1 = Cardinality(S)
  <2>1. IsFiniteSet(S \ {h}) /\ Cardinality(S \ {h}) = Cardinality(S) - 1
    BY <1>4, FS_RemoveElement
  <2>2. QED
    BY <1>1, <2>1
<1>5. ASSUME h \in S
      PROVE  /\ IsFiniteSet((S \ {h}) \cup {g})
             /\ Cardinality((S \ {h}) \cup {g}) <= Cardinality(S)
  <2> DEFINE R == S \ {h}
  <2>1. IsFiniteSet(R) /\ Cardinality(R) \in Nat /\ Cardinality(R) + 1 = Cardinality(S)
    BY <1>4, <1>5
  <2> HIDE DEF R
  <2>2. /\ IsFiniteSet(R \cup {g})
        /\ Cardinality(R \cup {g}) = IF g \in R THEN Cardinality(R) ELSE Cardinality(R) + 1
    BY <2>1, FS_AddElement
  <2>3. Cardinality(R \cup {g}) <= Cardinality(S)
    BY <1>1, <2>1, <2>2
  <2>4. QED
    BY <2>2, <2>3 DEF R
<1>6. U \subseteq S \cup {g} => Cardinality(U) \in Nat /\ Cardinality(U) <= Cardinality(S) + 1
  <2> SUFFICES ASSUME U \subseteq S \cup {g}
               PROVE  Cardinality(U) \in Nat /\ Cardinality(U) <= Cardinality(S) + 1
    OBVIOUS
  <2>1. Cardinality(U) \in Nat /\ Cardinality(U) <= Cardinality(S \cup {g})
    BY <1>2, <1>3
  <2>2. Cardinality(S) \in Nat
    BY <1>1
  <2>3. QED
    BY <1>3, <2>1, <2>2
<1>7. h \in S /\ U \subseteq S \ {h} => Cardinality(U) \in Nat /\ Cardinality(U) + 1 <= Cardinality(S)
  <2> SUFFICES ASSUME h \in S, U \subseteq S \ {h}
               PROVE  Cardinality(U) \in Nat /\ Cardinality(U) + 1 <= Cardinality(S)
    OBVIOUS
  <2>1. Cardinality(U) \in Nat /\ Cardinality(U) <= Cardinality(S \ {h})
    BY <1>2, <1>4
  <2>2. Cardinality(S) \in Nat
    BY <1>1
  <2>3. QED
    BY <1>4, <2>1, <2>2
<1>8. h \in S /\ U \subseteq (S \ {h}) \cup {g} => Cardinality(U) \in Nat /\ Cardinality(U) <= Cardinality(S)
  <2> SUFFICES ASSUME h \in S, U \subseteq (S \ {h}) \cup {g}
               PROVE  Cardinality(U) \in Nat /\ Cardinality(U) <= Cardinality(S)
    OBVIOUS
  <2>1. Cardinality(U) \in Nat /\ Cardinality(U) <= Cardinality((S \ {h}) \cup {g})
    BY <1>2, <1>5
  <2>2. IsFiniteSet((S \ {h}) \cup {g}) /\ Cardinality((S \ {h}) \cup {g}) \in Nat
    BY <1>1, <1>5
  <2>3. Cardinality(S) \in Nat
    BY <1>1
  <2>4. QED
    BY <1>5, <2>1, <2>2, <2>3
<1>9. QED
  BY <1>1, <1>2, <1>6, <1>7, <1>8

\* The inequalities again, with the sets named.
LEMMA CounterForm ==
    OutcomesNeverOvercounted <=>
        /\ Told + Cardinality(InWork) <= metrics["consumed"]
        /\ metrics["errorsPublished"] + Cardinality(Failing) <= metrics["pipelineErrors"]
BY DEF OutcomesNeverOvercounted, Told, InWork, Failing

\* What the inequalities speak of are natural numbers.
LEMMA CounterNumbers ==
    ASSUME TypeOK, IsFiniteSet(handlers)
    PROVE  /\ IsFiniteSet(InWork) /\ Cardinality(InWork) \in Nat
           /\ IsFiniteSet(Failing) /\ Cardinality(Failing) \in Nat
           /\ \A c \in Counters : metrics[c] \in Nat
           /\ Told \in Nat
<1>1. InWork \in SUBSET handlers /\ Failing \in SUBSET handlers
  BY DEF InWork, Failing, AtStage
<1>2. IsFiniteSet(InWork) /\ IsFiniteSet(Failing)
  BY <1>1, FS_Subset
<1>3. Cardinality(InWork) \in Nat /\ Cardinality(Failing) \in Nat
  BY <1>2, FS_CardinalityType
<1>4. \A c \in Counters : metrics[c] \in Nat
  BY DEF TypeOK
<1>5. Told \in Nat
  BY <1>4 DEF Told, Counters
<1>6. QED
  BY <1>2, <1>3, <1>4, <1>5

\* The coroutines stay finitely many.
LEMMA FiniteStep ==
    ASSUME IsFiniteSet(handlers),
           \/ handlers' \subseteq handlers
           \/ \E g : handlers' \subseteq handlers \cup {g}
    PROVE  IsFiniteSet(handlers')
<1>1. ASSUME NEW g, handlers' \subseteq handlers \cup {g} PROVE IsFiniteSet(handlers')
  <2>1. IsFiniteSet(handlers \cup {g}) /\ handlers' \in SUBSET (handlers \cup {g})
    BY <1>1, FS_AddElement
  <2>2. QED
    BY <2>1, FS_Subset
<1>2. QED
  BY <1>1, FS_Subset

\* A step that counts nothing, and moves no coroutine into the stages of work.
LEMMA Uncounted ==
    ASSUME CounterInv, TypeInv', UNCHANGED metrics, IsFiniteSet(handlers'),
           InWork' \subseteq InWork, Failing' \subseteq Failing
    PROVE  CounterInv'
<1>1. /\ IsFiniteSet(InWork) /\ IsFiniteSet(Failing)
      /\ \A c \in Counters : metrics[c] \in Nat
      /\ Told \in Nat
  BY CounterNumbers DEF CounterInv, TypeInv
<1>2. /\ Cardinality(InWork') \in Nat /\ Cardinality(InWork') <= Cardinality(InWork)
      /\ Cardinality(Failing') \in Nat /\ Cardinality(Failing') <= Cardinality(Failing)
      /\ Cardinality(InWork) \in Nat /\ Cardinality(Failing) \in Nat
  BY <1>1, OneElement
<1>3. /\ Told + Cardinality(InWork) <= metrics["consumed"]
      /\ metrics["errorsPublished"] + Cardinality(Failing) <= metrics["pipelineErrors"]
  BY CounterForm DEF CounterInv
<1>4. UNCHANGED Told
  BY DEF Told
<1>5. metrics["consumed"] \in Nat /\ metrics["errorsPublished"] \in Nat /\ metrics["pipelineErrors"] \in Nat
  BY <1>1 DEF Counters
<1>6. Told + Cardinality(InWork') <= metrics["consumed"]
  BY <1>1, <1>2, <1>3, <1>5
<1>7. metrics["errorsPublished"] + Cardinality(Failing') <= metrics["pipelineErrors"]
  BY <1>1, <1>2, <1>3, <1>5
<1>8. OutcomesNeverOvercounted'
  BY <1>4, <1>6, <1>7 DEF OutcomesNeverOvercounted, Told, InWork, Failing
<1>9. QED
  BY <1>8 DEF CounterInv

\* Coroutines that are cancelled take nothing that was counted with them.
LEMMA CancelledUncounted ==
    ASSUME CounterInv, TypeInv', UNCHANGED metrics, handlers' \subseteq handlers
    PROVE  CounterInv'
<1>1. IsFiniteSet(handlers')
  BY FiniteStep DEF CounterInv
<1>2. InWork' \subseteq InWork /\ Failing' \subseteq Failing
  BY DEF InWork, Failing, AtStage
<1>3. QED
  BY <1>1, <1>2, Uncounted

\* Without coroutines and with new counters both sides are 0.
LEMMA FreshCounters ==
    ASSUME TypeInv', handlers' = {}, metrics' = ZeroMetrics
    PROVE  CounterInv'
<1>1. IsFiniteSet(handlers')
  BY FS_EmptySet
<1>2. InWork' = {} /\ Failing' = {}
  BY DEF InWork, Failing, AtStage
<1>3. Cardinality(InWork') = 0 /\ Cardinality(Failing') = 0
  BY <1>2, FS_EmptySet
<1>4. \A c \in Counters : metrics'[c] = 0
  BY DEF ZeroMetrics
<1>5. /\ metrics'["resultsPublished"] = 0 /\ metrics'["errorsPublished"] = 0
      /\ metrics'["publishFailures"] = 0 /\ metrics'["consumed"] = 0
      /\ metrics'["pipelineErrors"] = 0
  BY <1>4 DEF Counters
<1>6. OutcomesNeverOvercounted'
  BY <1>3, <1>5 DEF OutcomesNeverOvercounted, InWork, Failing
<1>7. QED
  BY <1>1, <1>6 DEF CounterInv

\* A step keeps the inequalities if neither left side grows more than its right.
LEMMA Balance ==
    ASSUME CounterInv, TypeInv', IsFiniteSet(handlers'),
           Told' + Cardinality(InWork') + metrics["consumed"]
              <= Told + Cardinality(InWork) + metrics'["consumed"],
           metrics'["errorsPublished"] + Cardinality(Failing') + metrics["pipelineErrors"]
              <= metrics["errorsPublished"] + Cardinality(Failing) + metrics'["pipelineErrors"]
    PROVE  CounterInv'
<1>1. /\ Cardinality(InWork) \in Nat /\ Cardinality(Failing) \in Nat /\ Told \in Nat
      /\ metrics["consumed"] \in Nat /\ metrics["errorsPublished"] \in Nat
      /\ metrics["pipelineErrors"] \in Nat
  BY CounterNumbers DEF CounterInv, TypeInv, Counters
<1>2. /\ metrics'["consumed"] \in Nat /\ metrics'["errorsPublished"] \in Nat
      /\ metrics'["pipelineErrors"] \in Nat /\ Told' \in Nat
  <2>1. \A c \in Counters : metrics'[c] \in Nat
    BY DEF TypeInv, TypeOK
  <2>2. QED
    BY <2>1 DEF Told, Counters
<1>3. Cardinality(InWork') \in Nat /\ Cardinality(Failing') \in Nat
  <2>1. InWork' \in SUBSET handlers' /\ Failing' \in SUBSET handlers'
    BY DEF InWork, Failing, AtStage
  <2>2. QED
    BY <2>1, FS_Subset, FS_CardinalityType
<1>4. /\ Told + Cardinality(InWork) <= metrics["consumed"]
      /\ metrics["errorsPublished"] + Cardinality(Failing) <= metrics["pipelineErrors"]
  BY CounterForm DEF CounterInv
<1>5. Told' + Cardinality(InWork') <= metrics'["consumed"]
  BY <1>1, <1>2, <1>3, <1>4
<1>6. metrics'["errorsPublished"] + Cardinality(Failing') <= metrics'["pipelineErrors"]
  BY <1>1, <1>2, <1>3, <1>4
<1>7. OutcomesNeverOvercounted'
  BY <1>5, <1>6 DEF OutcomesNeverOvercounted, Told, InWork, Failing
<1>8. QED
  BY <1>7 DEF CounterInv

\* The values of the counters after one of them was incremented.
LEMMA CountValues ==
    ASSUME TypeOK, NEW x \in Counters, Count(x)
    PROVE  \A c \in Counters : metrics'[c] = IF c = x THEN metrics[c] + 1 ELSE metrics[c]
BY DEF Count, TypeOK

\* A step of a coroutine.
LEMMA HandlerCounts ==
    ASSUME CounterInv, NEW h \in handlers, HandlerStep(h)
    PROVE  CounterInv'
<1>0. TypeInv' /\ TypeOK /\ h \in Handler /\ AnswerChosen
  BY HandlerType DEF CounterInv, TypeInv, TypeOK
<1>n. /\ IsFiniteSet(InWork) /\ Cardinality(InWork) \in Nat
      /\ IsFiniteSet(Failing) /\ Cardinality(Failing) \in Nat
      /\ metrics["consumed"] \in Nat /\ metrics["validationErrors"] \in Nat
      /\ metrics["pipelineErrors"] \in Nat /\ metrics["resultsPublished"] \in Nat
      /\ metrics["errorsPublished"] \in Nat /\ metrics["publishFailures"] \in Nat
      /\ Told \in Nat
  BY <1>0, CounterNumbers DEF CounterInv, Counters
<1>v. ASSUME NEW x \in Counters, Count(x)
      PROVE  /\ metrics'["consumed"] = metrics["consumed"] + (IF x = "consumed" THEN 1 ELSE 0)
             /\ metrics'["pipelineErrors"] =
                   metrics["pipelineErrors"] + (IF x = "pipelineErrors" THEN 1 ELSE 0)
             /\ metrics'["errorsPublished"] =
                   metrics["errorsPublished"] + (IF x = "errorsPublished" THEN 1 ELSE 0)
             /\ Told' = Told + (IF x \in {"resultsPublished", "errorsPublished", "publishFailures"}
                                THEN 1 ELSE 0)
  <2>1. \A c \in Counters : metrics'[c] = IF c = x THEN metrics[c] + 1 ELSE metrics[c]
    BY <1>0, <1>v, CountValues
  <2>2. QED
    BY <1>n, <2>1 DEF Counters, Told
<1>f. IsFiniteSet(handlers) /\ IsFiniteSet(handlers \ {h})
  BY FS_RemoveElement DEF CounterInv
<1>g. ASSUME NEW g, Advance(h, g) PROVE IsFiniteSet(handlers')
  BY <1>f, <1>g, FS_AddElement DEF Advance
<1>i. ASSUME Finish(h) PROVE IsFiniteSet(handlers')
  BY <1>f, <1>i DEF Finish
<1>1. CASE Receive(h)
  <2>1. CASE h.msg \in Malformed
    <3> DEFINE g == [h EXCEPT !.stage = "nack"]
    <3>1. Advance(h, g) /\ Count("validationErrors") /\ g.stage = "nack"
      BY <1>0, <1>1, <2>1 DEF Receive, Handler
    <3>2. InWork' \subseteq InWork /\ Failing' \subseteq Failing
      BY <3>1 DEF Advance, InWork, Failing, AtStage
    <3>3. /\ Cardinality(InWork') \in Nat /\ Cardinality(InWork') <= Cardinality(InWork)
          /\ Cardinality(Failing') \in Nat /\ Cardinality(Failing') <= Cardinality(Failing)
      BY <1>n, <3>2, OneElement
    <3>4. /\ UNCHANGED Told /\ metrics'["consumed"] = metrics["consumed"]
          /\ metrics'["errorsPublished"] = metrics["errorsPublished"]
          /\ metrics'["pipelineErrors"] = metrics["pipelineErrors"]
      BY <1>n, <1>v, <3>1 DEF Counters
    <3>5. IsFiniteSet(handlers')
      BY <1>g, <3>1
    <3>6. QED
      BY <1>0, <1>n, <3>3, <3>4, <3>5, Balance
  <2>2. CASE h.msg \notin Malformed
    <3> DEFINE g == [h EXCEPT !.stage = "pipeline"]
    <3>1. Advance(h, g) /\ Count("consumed") /\ g.stage = "pipeline"
      BY <1>0, <1>1, <2>2 DEF Receive, Handler
    <3>2. InWork' \subseteq InWork \cup {g} /\ Failing' \subseteq Failing
      BY <3>1 DEF Advance, InWork, Failing, AtStage
    <3>3. /\ Cardinality(InWork') \in Nat /\ Cardinality(InWork') <= Cardinality(InWork) + 1
          /\ Cardinality(Failing') \in Nat /\ Cardinality(Failing') <= Cardinality(Failing)
      BY <1>n, <3>2, OneElement
    <3>4. /\ UNCHANGED Told /\ metrics'["consumed"] = metrics["consumed"] + 1
          /\ metrics'["errorsPublished"] = metrics["errorsPublished"]
          /\ metrics'["pipelineErrors"] = metrics["pipelineErrors"]
      BY <1>n, <1>v, <3>1 DEF Counters
    <3>5. IsFiniteSet(handlers')
      BY <1>g, <3>1
    <3>6. QED
      BY <1>0, <1>n, <3>3, <3>4, <3>5, Balance
  <2>3. QED
    BY <2>1, <2>2
<1>2. CASE Nack(h) \/ Ack(h) \/ SettleRaises(h)
  BY <1>0, <1>2, CancelledUncounted DEF Nack, Ack, SettleRaises, Finish
<1>3. CASE PipelineReturns(h)
  <2> DEFINE g == [h EXCEPT !.stage = "publish", !.answer = "success"]
  <2>1. /\ Advance(h, g) /\ UNCHANGED metrics /\ h \in InWork
        /\ g.stage = "publish" /\ g.answer = "success"
    BY <1>0, <1>3 DEF PipelineReturns, InWork, AtStage, Handler
  <2>2. InWork' \subseteq (InWork \ {h}) \cup {g} /\ Failing' \subseteq Failing
    BY <2>1 DEF Advance, InWork, Failing, AtStage
  <2>3. /\ Cardinality(InWork') \in Nat /\ Cardinality(InWork') <= Cardinality(InWork)
        /\ Cardinality(Failing') \in Nat /\ Cardinality(Failing') <= Cardinality(Failing)
    BY <1>n, <2>1, <2>2, OneElement
  <2>4. UNCHANGED Told /\ IsFiniteSet(handlers')
    BY <1>g, <2>1 DEF Told
  <2>5. QED
    BY <1>0, <1>n, <2>1, <2>3, <2>4, Balance
<1>4. CASE PipelineRaises(h)
  <2> DEFINE g == [h EXCEPT !.stage = "publish", !.answer = "error"]
  <2>1. /\ Advance(h, g) /\ Count("pipelineErrors") /\ h \in InWork
        /\ g.stage = "publish"
    BY <1>0, <1>4 DEF PipelineRaises, InWork, AtStage, Handler
  <2>2. InWork' \subseteq (InWork \ {h}) \cup {g} /\ Failing' \subseteq Failing \cup {g}
    BY <2>1 DEF Advance, InWork, Failing, AtStage
  <2> HIDE DEF g
  <2>3. /\ Cardinality(InWork') \in Nat /\ Cardinality(InWork') <= Cardinality(InWork)
        /\ Cardinality(Failing') \in Nat /\ Cardinality(Failing') <= Cardinality(Failing) + 1
    BY <1>n, <2>1, <2>2, OneElement
  <2>4. /\ UNCHANGED Told /\ metrics'["consumed"] = metrics["consumed"]
        /\ metrics'["errorsPublished"] = metrics["errorsPublished"]
        /\ metrics'["pipelineErrors"] = metrics["pipelineErrors"] + 1
    BY <1>n, <1>v, <2>1 DEF Counters
  <2>5. IsFiniteSet(handlers')
    BY <1>g, <2>1
  <2>6. QED
    BY <1>0, <1>n, <2>3, <2>4, <2>5, Balance
<1>5. CASE PipelineRaisesBlank(h)
  <2>1. Finish(h) /\ Count("pipelineErrors")
    BY <1>5 DEF PipelineRaisesBlank
  <2>2. InWork' \subseteq InWork /\ Failing' \subseteq Failing
    BY <2>1 DEF Finish, InWork, Failing, AtStage
  <2>3. /\ Cardinality(InWork') \in Nat /\ Cardinality(InWork') <= Cardinality(InWork)
        /\ Cardinality(Failing') \in Nat /\ Cardinality(Failing') <= Cardinality(Failing)
    BY <1>n, <2>2, OneElement
  <2>4. /\ UNCHANGED Told /\ metrics'["consumed"] = metrics["consumed"]
        /\ metrics'["errorsPublished"] = metrics["errorsPublished"]
        /\ metrics'["pipelineErrors"] = metrics["pipelineErrors"] + 1
    BY <1>n, <1>v, <2>1 DEF Counters
  <2>5. QED
    BY <1>0, <1>i, <1>n, <2>1, <2>3, <2>4, Balance
<1>6. CASE PublishConfirmed(h)
  <2> DEFINE g == [h EXCEPT !.stage = "ack"]
             x == IF h.answer = "success" THEN "resultsPublished" ELSE "errorsPublished"
  <2>1. /\ Advance(h, g) /\ Count(x) /\ h \in InWork /\ g.stage = "ack"
        /\ h.stage = "publish"
    BY <1>0, <1>6 DEF PublishConfirmed, InWork, AtStage, Handler
  <2>2. x \in Counters /\ x \in {"resultsPublished", "errorsPublished"}
    BY DEF Counters
  <2>3. x = "errorsPublished" => h \in Failing
    BY <1>0, <2>1 DEF Failing, AtStage, AnswerChosen, Answer
  <2>4. /\ InWork' \subseteq InWork \ {h}
        /\ Failing' \subseteq Failing
        /\ h \in Failing => Failing' \subseteq Failing \ {h}
    BY <2>1 DEF Advance, InWork, Failing, AtStage
  <2>5. /\ Cardinality(InWork') \in Nat /\ Cardinality(InWork') + 1 <= Cardinality(InWork)
        /\ Cardinality(Failing') \in Nat /\ Cardinality(Failing') <= Cardinality(Failing)
        /\ h \in Failing => Cardinality(Failing') + 1 <= Cardinality(Failing)
    BY <1>n, <2>1, <2>4, OneElement
  <2> HIDE DEF x
  <2>6. /\ Told' = Told + 1 /\ metrics'["consumed"] = metrics["consumed"]
        /\ metrics'["errorsPublished"] =
              metrics["errorsPublished"] + (IF x = "errorsPublished" THEN 1 ELSE 0)
        /\ metrics'["pipelineErrors"] = metrics["pipelineErrors"]
    BY <1>n, <1>v, <2>1, <2>2
  <2>7. IsFiniteSet(handlers')
    BY <1>g, <2>1
  <2>8. Told' + Cardinality(InWork') + metrics["consumed"]
           <= Told + Cardinality(InWork) + metrics'["consumed"]
    BY <1>n, <2>5, <2>6
  <2>9. metrics'["errorsPublished"] + Cardinality(Failing') + metrics["pipelineErrors"]
           <= metrics["errorsPublished"] + Cardinality(Failing) + metrics'["pipelineErrors"]
    BY <1>n, <2>3, <2>5, <2>6
  <2>10. QED
    BY <1>0, <2>7, <2>8, <2>9, Balance
<1>7. ASSUME AttemptFailed(h), h.stage = "publish" PROVE CounterInv'
  <2>0. h \in InWork
    BY <1>7 DEF InWork, AtStage
  <2>1. CASE h.attempt < MaxPublishAttempts - 1
    <3> DEFINE g == [h EXCEPT !.attempt = @ + 1]
    <3>1. /\ Advance(h, g) /\ UNCHANGED metrics
          /\ g.stage = h.stage /\ g.answer = h.answer
      BY <1>0, <1>7, <2>1 DEF AttemptFailed, Handler
    <3>2. /\ InWork' \subseteq (InWork \ {h}) \cup {g}
          /\ h \in Failing => Failing' \subseteq (Failing \ {h}) \cup {g}
          /\ h \notin Failing => Failing' \subseteq Failing
      BY <1>7, <3>1 DEF Advance, InWork, Failing, AtStage
    <3> HIDE DEF g
    <3>3. /\ Cardinality(InWork') \in Nat /\ Cardinality(InWork') <= Cardinality(InWork)
          /\ Cardinality(Failing') \in Nat /\ Cardinality(Failing') <= Cardinality(Failing)
      BY <1>n, <2>0, <3>2, OneElement
    <3>4. UNCHANGED Told /\ IsFiniteSet(handlers')
      BY <1>g, <3>1 DEF Told
    <3>5. QED
      BY <1>0, <1>n, <3>1, <3>3, <3>4, Balance
  <2>2. CASE ~(h.attempt < MaxPublishAttempts - 1)
    <3>1. Finish(h) /\ Count("publishFailures")
      BY <1>7, <2>2 DEF AttemptFailed
    <3>2. InWork' \subseteq InWork \ {h} /\ Failing' \subseteq Failing
      BY <3>1 DEF Finish, InWork, Failing, AtStage
    <3>3. /\ Cardinality(InWork') \in Nat /\ Cardinality(InWork') + 1 <= Cardinality(InWork)
          /\ Cardinality(Failing') \in Nat /\ Cardinality(Failing') <= Cardinality(Failing)
      BY <1>n, <2>0, <3>2, OneElement
    <3>4. /\ Told' = Told + 1 /\ metrics'["consumed"] = metrics["consumed"]
          /\ metrics'["errorsPublished"] = metrics["errorsPublished"]
          /\ metrics'["pipelineErrors"] = metrics["pipelineErrors"]
      BY <1>n, <1>v, <3>1 DEF Counters
    <3>5. IsFiniteSet(handlers')
      BY <1>i, <3>1
    <3>6. QED
      BY <1>0, <1>n, <3>3, <3>4, <3>5, Balance
  <2>3. QED
    BY <2>1, <2>2
<1>8. CASE PublishUnconfirmed(h) \/ PublishRaises(h)
  BY <1>7, <1>8 DEF PublishUnconfirmed, PublishRaises
<1>9. QED
  BY <1>1, <1>2, <1>3, <1>4, <1>5, <1>6, <1>8 DEF HandlerStep

-----------------------------------------------------------------------------
(* The theorem.                                                            *)

\* The counters tell no more outcomes than requests were consumed, and no more
\* published errors than pipeline errors, whatever is redelivered, retried or
\* cancelled.
THEOREM CountersSound == Spec => []OutcomesNeverOvercounted
<1>1. Init => CounterInv
  <2> SUFFICES ASSUME Init PROVE CounterInv
    OBVIOUS
  <2>1. TypeInv
    BY DEF Init, TypeInv, TypeOK, AnswerChosen, Places, ZeroMetrics, Handler
  <2>2. InWork = {} /\ Failing = {} /\ IsFiniteSet(handlers)
    BY FS_EmptySet DEF Init, InWork, Failing, AtStage
  <2>3. Cardinality(InWork) = 0 /\ Cardinality(Failing) = 0
    BY <2>2, FS_EmptySet
  <2>4. Told = 0 /\ metrics["consumed"] = 0 /\ metrics["errorsPublished"] = 0
        /\ metrics["pipelineErrors"] = 0
    BY DEF Init, ZeroMetrics, Told, Counters
  <2>5. OutcomesNeverOvercounted
    BY <2>3, <2>4, CounterForm
  <2>6. QED
    BY <2>1, <2>2, <2>5 DEF CounterInv
<1>2. ASSUME CounterInv, [Next]_vars PROVE CounterInv'
  <2>0. TypeInv'
    BY <1>2, StutterType, BrokerType, HandlerType, LifespanType DEF Next, CounterInv
  <2>1. CASE UNCHANGED vars
    BY <1>2, <2>0, <2>1, CancelledUncounted DEF vars
  <2>2. ASSUME NEW m \in Messages, Submit(m) PROVE CounterInv'
    BY <1>2, <2>0, <2>2, CancelledUncounted DEF Submit
  <2>3. ASSUME NEW m \in Messages, Deliver(m) PROVE CounterInv'
    <3> DEFINE g == [msg |-> m, nth |-> deliveries[m] + 1, stage |-> "received",
                     answer |-> "none", attempt |-> 0]
    <3>1. handlers' = handlers \cup {g} /\ UNCHANGED metrics /\ g.stage = "received"
      BY <2>3 DEF Deliver
    <3>2. IsFiniteSet(handlers')
      BY <1>2, <3>1, FiniteStep DEF CounterInv
    <3>3. InWork' \subseteq InWork /\ Failing' \subseteq Failing
      BY <3>1 DEF InWork, Failing, AtStage
    <3>4. QED
      BY <1>2, <2>0, <3>1, <3>2, <3>3, Uncounted
  <2>4. CASE ConnectionLost \/ AckTimeoutClose \/ AckTimeoutSlow \/ Disconnect
    BY <1>2, <2>0, <2>4, CancelledUncounted
    DEF ConnectionLost, AckTimeoutClose, AckTimeoutSlow, Disconnect, SomeHandlersCancelled
  <2>5. CASE Reconnect \/ Boot \/ StartConsumer \/ StartConsumerRaises \/ StopConsumer
    BY <1>2, <2>0, <2>5, CancelledUncounted
    DEF Reconnect, Boot, StartConsumer, StartConsumerRaises, StopConsumer
  <2>6. CASE Exit \/ Crash
    BY <2>0, <2>6, FreshCounters DEF Exit, Crash
  <2>7. QED
    BY <1>2, <2>1, <2>2, <2>3, <2>4, <2>5, <2>6, HandlerCounts DEF Next
<1>3. CounterInv => OutcomesNeverOvercounted
  BY DEF CounterInv
<1>4. QED
  BY <1>1, <1>2, <1>3, PTL DEF Spec

=============================================================================
