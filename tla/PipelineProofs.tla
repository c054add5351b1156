--------------------------- MODULE PipelineProofs ---------------------------
(***************************************************************************)
(* What TLAPS proves of the pipeline, for every number of analyses, every  *)
(* LLM_MAX_RETRIES and every set of files.                                 *)
(*                                                                         *)
(* The invariant ties the local variables of each analysis to the replies  *)
(* it got: between two attempts, last_raw is the latest invalid reply,     *)
(* last_was_timeout tells whether a call timed out, and no reply was valid *)
(* or alien; an exception, a report and an answer are each justified by    *)
(* the replies.                                                            *)
(***************************************************************************)
EXTENDS PipelineAbstraction, FiniteSetTheorems, TLAPS

\* The reply is among the replies.
Has(s, kind) == \E i \in DOMAIN s : s[i] = kind

\* n is the place of the latest invalid reply, 0 if there is none.
Latest(s, n) ==
    IF Has(s, "invalid")
    THEN /\ n \in DOMAIN s
         /\ s[n] = "invalid"
         /\ \A i \in DOMAIN s : i > n => s[i] # "invalid"
    ELSE n = 0

\* What the loop knows of the replies before it goes round again.
LoopInv(r, s) == /\ Latest(s, r.lastRaw)
                 /\ r.timedOut <=> Has(s, "timeout")
                 /\ r.lastRaw = 0 => r.prompt = 0
                 /\ ~Has(s, "valid")
                 /\ ~Has(s, "alien")

\* What the replies were if this exception ended the analysis.
Cause(exception, s) ==
    /\ exception = "AITimeoutError" =>
          Len(s) = MaxRetries /\ ~Has(s, "alien") /\ Has(s, "timeout")
    /\ exception = "AIFailureError" =>
          Len(s) = MaxRetries /\ ~Has(s, "alien") /\ ~Has(s, "timeout")
    /\ exception \in {"UnsupportedFormatError", "InvalidInputError"} => s = <<>>
    /\ exception = "Exception" => s = <<>> \/ Has(s, "alien")
    /\ exception # "none"
    /\ ~Has(s, "valid")

\* The report was made from the last reply, the first valid one.
Reported(r, s) == /\ r.report = Len(s)
                  /\ s # <<>>
                  /\ \A i \in DOMAIN s : s[i] = "valid" <=> i = Len(s)

\* The answer names its cause.
AnswerInv(r, s) ==
    \/ r.answer = "success" /\ Reported(r, s)
    \/ \E e \in Exceptions : Cause(e, s) /\ r.answer = HttpCode(e)

RunInv(r, s) ==
    /\ r.phase = "idle" => LoopInv(r, s) /\ s = <<>> /\ r.attempt = 0
    /\ r.phase = "calling" => /\ LoopInv(r, s)
                              /\ r.attempt = Len(s) + 1
                              /\ r.prompt = r.lastRaw
    /\ r.phase = "raised" => Cause(r.exception, s)
    /\ r.phase = "returned" => Reported(r, s)
    /\ r.phase = "done" => AnswerInv(r, s)

IInv == TypeOK /\ \A a \in Analyses : RunInv(run[a], replies[a])

-----------------------------------------------------------------------------
(* Lemmas.                                                                 *)

\* What is in a sequence after a reply was appended.
LEMMA AppendHas ==
    ASSUME NEW s \in Seq(Replies), NEW x \in Replies
    PROVE  /\ Append(s, x) \in Seq(Replies)
           /\ Len(Append(s, x)) = Len(s) + 1
           /\ DOMAIN Append(s, x) = 1 .. Len(s) + 1
           /\ DOMAIN s = 1 .. Len(s)
           /\ Len(s) \in Nat
           /\ \A i \in 1 .. Len(s) : Append(s, x)[i] = s[i]
           /\ Append(s, x)[Len(s) + 1] = x
           /\ \A kind : Has(Append(s, x), kind) <=> Has(s, kind) \/ x = kind
<1>1. /\ Append(s, x) \in Seq(Replies)
      /\ Len(Append(s, x)) = Len(s) + 1
      /\ DOMAIN Append(s, x) = 1 .. Len(s) + 1
      /\ DOMAIN s = 1 .. Len(s)
      /\ Len(s) \in Nat
      /\ \A i \in 1 .. Len(s) : Append(s, x)[i] = s[i]
      /\ Append(s, x)[Len(s) + 1] = x
  OBVIOUS
<1>2. \A kind : Has(Append(s, x), kind) <=> Has(s, kind) \/ x = kind
  BY <1>1 DEF Has
<1>3. QED
  BY <1>1, <1>2

\* The latest invalid reply after another reply.
LEMMA AppendLatest ==
    ASSUME NEW s \in Seq(Replies), NEW x \in Replies, NEW n, Latest(s, n)
    PROVE  /\ x = "invalid" => Latest(Append(s, x), Len(s) + 1)
           /\ x # "invalid" => Latest(Append(s, x), n)
BY AppendHas DEF Latest, Has

\* Going round the loop, or out of it, keeps the invariant.
LEMMA NextAttemptInv ==
    ASSUME NEW r \in Run, NEW s \in Seq(Replies), LoopInv(r, s), Len(s) = r.attempt,
           r.phase \in {"idle", "calling"}
    PROVE  NextAttempt(r) \in Run /\ RunInv(NextAttempt(r), s)
<1>1. CASE r.attempt < MaxRetries
  <2> DEFINE p == IF r.lastRaw # 0 THEN r.lastRaw ELSE r.prompt
  <2>1. p = r.lastRaw
    BY DEF LoopInv
  <2>2. NextAttempt(r) = [r EXCEPT !.phase = "calling", !.attempt = r.attempt + 1, !.prompt = p]
    BY <1>1 DEF NextAttempt
  <2>3. r.attempt + 1 \in Attempts /\ p \in Attempts
    BY <1>1, RetriesAssumption DEF Run, Attempts
  <2> HIDE DEF p
  <2>4. QED
    BY <2>1, <2>2, <2>3 DEF Run, RunInv, LoopInv
<1>2. CASE ~(r.attempt < MaxRetries)
  <2>1. Len(s) = MaxRetries
    BY <1>2, RetriesAssumption DEF Run, Attempts
  <2>2. NextAttempt(r) = [r EXCEPT !.phase = "raised",
             !.exception = IF r.timedOut THEN "AITimeoutError" ELSE "AIFailureError"]
    BY <1>2 DEF NextAttempt, Raise
  <2>3. QED
    BY <2>1, <2>2 DEF Run, RunInv, LoopInv, Cause, Exceptions
<1>3. QED
  BY <1>1, <1>2

\* A step of one analysis keeps the invariant if its new state does.
LEMMA OneAnalysis ==
    ASSUME IInv, NEW a \in Analyses, NEW r \in Run, NEW s \in Seq(Replies), RunInv(r, s),
           run' = [run EXCEPT ![a] = r],
           replies' = [replies EXCEPT ![a] = s],
           metrics' \in [success : Nat, error : Nat, retries : Nat]
    PROVE  IInv'
<1>1. TypeOK'
  BY DEF IInv, TypeOK
<1>2. ASSUME NEW b \in Analyses PROVE RunInv(run'[b], replies'[b])
  BY DEF IInv, TypeOK
<1>3. QED
  BY <1>1, <1>2 DEF IInv

\* A step that leaves the replies alone.
LEMMA SameReplies ==
    ASSUME IInv, NEW a \in Analyses, NEW r \in Run, RunInv(r, replies[a]),
           run' = [run EXCEPT ![a] = r], replies' = replies,
           metrics' \in [success : Nat, error : Nat, retries : Nat]
    PROVE  IInv'
<1>1. replies[a] \in Seq(Replies) /\ replies' = [replies EXCEPT ![a] = replies[a]]
  BY DEF IInv, TypeOK
<1>2. QED
  BY <1>1, OneAnalysis

\* The two codes of an exception are the same, and no success.
LEMMA SameCode ==
    ASSUME NEW e \in Exceptions
    PROVE  QueueCode(e) = HttpCode(e) /\ HttpCode(e) \in ErrorCodes
BY DEF QueueCode, HttpCode, Exceptions, ErrorCodes

\* The steps before the first call, and those after the last.
LEMMA EndsInv ==
    ASSUME IInv, NEW a \in Analyses,
           \/ AdapterRaises(a) \/ \E file \in Files : Reject(a, file) \/ Start(a, file)
           \/ Cancel(a) \/ Answered(a)
    PROVE  IInv'
<1> DEFINE r == run[a]
           s == replies[a]
<1>0. /\ r \in Run /\ s \in Seq(Replies) /\ RunInv(r, s)
      /\ metrics \in [success : Nat, error : Nat, retries : Nat]
  BY DEF IInv, TypeOK
<1>1. CASE AdapterRaises(a)
  <2>1. Raise(r, "Exception") \in Run /\ RunInv(Raise(r, "Exception"), s)
    BY <1>0, <1>1 DEF AdapterRaises, Raise, Run, Exceptions, RunInv, LoopInv, Cause
  <2>2. QED
    BY <1>0, <1>1, <2>1, SameReplies DEF AdapterRaises
<1>2. ASSUME NEW file \in Files, Reject(a, file) PROVE IInv'
  <2> DEFINE e == Preprocess(file)
  <2>1. e \in {"UnsupportedFormatError", "InvalidInputError"}
    BY <1>2 DEF Reject, Preprocess
  <2>2. Raise(r, e) \in Run /\ RunInv(Raise(r, e), s)
    BY <1>0, <1>2, <2>1 DEF Reject, Raise, Run, Exceptions, RunInv, LoopInv, Cause
  <2>3. QED
    BY <1>0, <1>2, <2>2, SameReplies DEF Reject
<1>3. ASSUME NEW file \in Files, Start(a, file) PROVE IInv'
  <2>1. r.phase = "idle" /\ LoopInv(r, s) /\ s = <<>> /\ Len(s) = r.attempt
    BY <1>0, <1>3 DEF Start, RunInv
  <2>2. NextAttempt(r) \in Run /\ RunInv(NextAttempt(r), s)
    BY <1>0, <2>1, NextAttemptInv
  <2>3. metrics' \in [success : Nat, error : Nat, retries : Nat]
    BY <1>0, <1>3 DEF Start, Continue
  <2>4. QED
    BY <1>3, <2>2, <2>3, SameReplies DEF Start, Continue
<1>4. CASE Cancel(a)
  <2>1. [r EXCEPT !.phase = "cancelled"] \in Run /\ RunInv([r EXCEPT !.phase = "cancelled"], s)
    BY <1>0 DEF Run, RunInv
  <2>2. run' = [run EXCEPT ![a] = [r EXCEPT !.phase = "cancelled"]]
    BY <1>4 DEF Cancel
  <2>3. QED
    BY <1>0, <1>4, <2>1, <2>2, SameReplies DEF Cancel
<1>5. ASSUME NEW answer \in ErrorCodes \cup {"success"}, Answer(a, answer), replies' = replies,
             AnswerInv([r EXCEPT !.phase = "done", !.answer = answer], s),
             metrics' \in [success : Nat, error : Nat, retries : Nat]
      PROVE  IInv'
  <2> DEFINE g == [r EXCEPT !.phase = "done", !.answer = answer]
  <2>1. g \in Run /\ RunInv(g, s)
    BY <1>0, <1>5 DEF Run, RunInv
  <2>2. run' = [run EXCEPT ![a] = g]
    BY <1>5 DEF Answer
  <2> HIDE DEF g
  <2>3. QED
    BY <1>5, <2>1, <2>2, SameReplies
<1>6. CASE AnswerReport(a)
  <2>1. Answer(a, "success") /\ replies' = replies /\ metrics' = metrics
    BY <1>6 DEF AnswerReport
  <2>2. Reported(r, s)
    BY <1>0, <1>6 DEF AnswerReport, RunInv
  <2>3. AnswerInv([r EXCEPT !.phase = "done", !.answer = "success"], s)
    BY <1>0, <2>2 DEF AnswerInv, Reported, Run
  <2>4. QED
    BY <1>0, <1>5, <2>1, <2>3
<1>7. ASSUME r.phase = "raised" PROVE /\ r.exception \in Exceptions
                                     /\ Cause(r.exception, s)
                                     /\ HttpCode(r.exception) \in ErrorCodes
                                     /\ QueueCode(r.exception) = HttpCode(r.exception)
  <2>1. Cause(r.exception, s) /\ r.exception \in Exceptions
    BY <1>0, <1>7 DEF RunInv, Cause, Run
  <2>2. QED
    BY <2>1, SameCode
<1>8. ASSUME r.phase = "raised" PROVE
             AnswerInv([r EXCEPT !.phase = "done", !.answer = HttpCode(r.exception)], s)
  BY <1>0, <1>7, <1>8 DEF AnswerInv, Run
<1>9. CASE HttpError(a)
  <2>1. /\ r.phase = "raised" /\ Answer(a, HttpCode(r.exception)) /\ replies' = replies
        /\ metrics' \in [success : Nat, error : Nat, retries : Nat]
    BY <1>0, <1>9 DEF HttpError
  <2>2. QED
    BY <1>5, <1>7, <1>8, <2>1
<1>10. CASE QueueError(a)
  <2>1. /\ r.phase = "raised" /\ Answer(a, QueueCode(r.exception)) /\ replies' = replies
        /\ metrics' = metrics
    BY <1>10 DEF QueueError
  <2>2. Answer(a, HttpCode(r.exception))
    BY <1>7, <2>1
  <2>3. QED
    BY <1>0, <1>5, <1>7, <1>8, <2>1, <2>2
<1>11. QED
  BY <1>1, <1>2, <1>3, <1>4, <1>6, <1>9, <1>10 DEF Answered

\* The steps in which the LLM replies.
LEMMA CalledInv ==
    ASSUME IInv, NEW a \in Analyses, Called(a)
    PROVE  IInv'
<1> DEFINE r == run[a]
           s == replies[a]
<1>0. /\ r \in Run /\ s \in Seq(Replies) /\ RunInv(r, s)
      /\ metrics \in [success : Nat, error : Nat, retries : Nat]
  BY DEF IInv, TypeOK
<1>1. r.phase = "calling" /\ LoopInv(r, s) /\ r.attempt = Len(s) + 1 /\ r.attempt \in Attempts
  <2>1. r.phase = "calling"
    BY DEF Called, CallTimesOut, CallFails, ReplyInvalid, ReplyAlien, ReplyValid, Receive
  <2>2. QED
    BY <1>0, <2>1 DEF RunInv, Run
<1>2. ASSUME NEW x \in Replies, NEW g \in Run, g.phase = "calling",
             LoopInv(g, Append(s, x)), g.attempt = Len(s) + 1,
             replies' = [replies EXCEPT ![a] = Append(s, x)], Continue(a, g)
      PROVE  IInv'
  <2>1. Append(s, x) \in Seq(Replies) /\ Len(Append(s, x)) = g.attempt
    BY <1>0, <1>2, AppendHas
  <2>2. NextAttempt(g) \in Run /\ RunInv(NextAttempt(g), Append(s, x))
    BY <1>2, <2>1, NextAttemptInv
  <2>3. metrics' \in [success : Nat, error : Nat, retries : Nat]
    BY <1>0, <1>2 DEF Continue
  <2>4. QED
    BY <1>2, <2>1, <2>2, <2>3, OneAnalysis DEF Continue
<1>3. CASE CallTimesOut(a)
  <2> DEFINE g == [r EXCEPT !.timedOut = TRUE]
  <2>1. g \in Run /\ g.phase = "calling" /\ g.attempt = Len(s) + 1
    BY <1>0, <1>1 DEF Run
  <2>2. LoopInv(g, Append(s, "timeout"))
    BY <1>0, <1>1, AppendHas, AppendLatest DEF LoopInv, Replies, Run
  <2>3. replies' = [replies EXCEPT ![a] = Append(s, "timeout")] /\ Continue(a, g)
    BY <1>3 DEF CallTimesOut, Receive
  <2> HIDE DEF g
  <2>4. QED
    BY <1>2, <2>1, <2>2, <2>3 DEF Replies
<1>4. CASE CallFails(a)
  <2>1. LoopInv(r, Append(s, "error"))
    BY <1>0, <1>1, AppendHas, AppendLatest DEF LoopInv, Replies, Run
  <2>2. replies' = [replies EXCEPT ![a] = Append(s, "error")] /\ Continue(a, r)
    BY <1>4 DEF CallFails, Receive
  <2>3. QED
    BY <1>0, <1>1, <1>2, <2>1, <2>2 DEF Replies
<1>5. CASE ReplyInvalid(a)
  <2> DEFINE g == [r EXCEPT !.lastRaw = r.attempt]
  <2>1. g \in Run /\ g.phase = "calling" /\ g.attempt = Len(s) + 1
    BY <1>0, <1>1 DEF Run
  <2>2. LoopInv(g, Append(s, "invalid"))
    BY <1>0, <1>1, AppendHas, AppendLatest DEF LoopInv, Replies, Run
  <2>3. replies' = [replies EXCEPT ![a] = Append(s, "invalid")] /\ Continue(a, g)
    BY <1>5 DEF ReplyInvalid, Receive
  <2> HIDE DEF g
  <2>4. QED
    BY <1>2, <2>1, <2>2, <2>3 DEF Replies
<1>6. CASE ReplyAlien(a)
  <2> DEFINE g == Raise(r, "Exception")
             t == Append(s, "alien")
  <2>1. g \in Run /\ g.phase = "raised" /\ g.exception = "Exception"
    BY <1>0 DEF Raise, Run, Exceptions
  <2>2. t \in Seq(Replies) /\ Has(t, "alien") /\ ~Has(t, "valid")
    BY <1>0, <1>1, AppendHas DEF LoopInv, Replies
  <2>3. run' = [run EXCEPT ![a] = g] /\ replies' = [replies EXCEPT ![a] = t] /\ metrics' = metrics
    BY <1>6 DEF ReplyAlien, Receive
  <2> HIDE DEF g, t
  <2>4. RunInv(g, t)
    BY <2>1, <2>2 DEF RunInv, Cause
  <2>5. QED
    BY <1>0, <2>1, <2>2, <2>3, <2>4, OneAnalysis
<1>7. CASE ReplyValid(a)
  <2> DEFINE g == [r EXCEPT !.phase = "returned", !.report = r.attempt]
             t == Append(s, "valid")
  <2>1. g \in Run /\ g.phase = "returned" /\ g.report = Len(s) + 1
    BY <1>0, <1>1 DEF Run
  <2>2. /\ t \in Seq(Replies) /\ Len(t) = Len(s) + 1 /\ DOMAIN t = 1 .. Len(s) + 1
        /\ DOMAIN s = 1 .. Len(s) /\ Len(s) \in Nat
        /\ t[Len(s) + 1] = "valid"
        /\ \A i \in 1 .. Len(s) : t[i] = s[i]
    BY <1>0, AppendHas DEF Replies
  <2>3. \A i \in 1 .. Len(s) : t[i] # "valid"
    BY <1>1, <2>2 DEF LoopInv, Has
  <2>4. run' = [run EXCEPT ![a] = g] /\ replies' = [replies EXCEPT ![a] = t]
    BY <1>7 DEF ReplyValid, Receive
  <2>5. metrics' \in [success : Nat, error : Nat, retries : Nat]
    <3> DEFINE n == metrics.retries + (run[a].attempt - 1)
    <3>1. run[a].attempt - 1 \in Nat
      BY <1>1, <2>2
    <3>2. n \in Nat /\ metrics.success + 1 \in Nat
      BY <1>0, <3>1
    <3>3. metrics' = [metrics EXCEPT !.success = metrics.success + 1, !.retries = n]
      BY <1>7 DEF ReplyValid
    <3> HIDE DEF n
    <3>4. QED
      BY <1>0, <3>2, <3>3
  <2> HIDE DEF g, t
  <2>6. Reported(g, t)
    <3>1. t # <<>>
      BY <2>2
    <3>2. \A i \in DOMAIN t : t[i] = "valid" <=> i = Len(t)
      BY <2>2, <2>3
    <3>3. QED
      BY <2>1, <2>2, <3>1, <3>2 DEF Reported
  <2>7. RunInv(g, t)
    BY <2>1, <2>6 DEF RunInv
  <2>8. QED
    BY <2>1, <2>2, <2>4, <2>5, <2>7, OneAnalysis
<1>8. QED
  BY <1>3, <1>4, <1>5, <1>6, <1>7 DEF Called

-----------------------------------------------------------------------------
(* Theorems.                                                               *)

\* The invariant holds before the first request.
LEMMA InitialInv == Init => IInv
<1> SUFFICES ASSUME Init PROVE IInv
  OBVIOUS
<1>1. TypeOK
  BY RetriesAssumption DEF Init, TypeOK, Run, Attempts
<1>2. ASSUME NEW a \in Analyses PROVE RunInv(run[a], replies[a])
  BY DEF Init, RunInv, LoopInv, Latest, Has
<1>3. QED
  BY <1>1, <1>2 DEF IInv

\* Every step of any analysis keeps the invariant of all of them.
LEMMA InductiveStep == ASSUME IInv, [Next]_vars PROVE IInv'
<1>1. CASE UNCHANGED vars
  BY <1>1 DEF vars, IInv, TypeOK
<1>2. CASE Next
  BY <1>2, EndsInv, CalledInv DEF Next
<1>3. QED
  BY <1>1, <1>2

\* The invariant is inductive.
THEOREM Inductive == Spec => []IInv
<1>1. Init => IInv
  BY InitialInv
<1>2. IInv /\ [Next]_vars => IInv'
  BY InductiveStep
<1>3. QED
  BY <1>1, <1>2, PTL DEF Spec

\* The state keeps its shape: among others, no analysis makes more attempts
\* than LLM_MAX_RETRIES.
THEOREM TypeCorrect == Spec => []TypeOK
<1>1. IInv => TypeOK
  BY DEF IInv
<1>2. QED
  BY <1>1, Inductive, PTL

\* Whatever comes between, the LLM is asked to correct its latest invalid reply
\* to this analysis, and is asked from scratch if there was none.
THEOREM PromptCorrect == Spec => []PromptQuotesLatestInvalid
<1>1. IInv => PromptQuotesLatestInvalid
  BY DEF IInv, RunInv, LoopInv, Latest, Has, Got, PromptQuotesLatestInvalid
<1>2. QED
  BY <1>1, Inductive, PTL

\* Every answer, of either flow, follows from what the calls of its analysis
\* came to.
THEOREM AnswersJustified == Spec => []AnswerFollowsReplies
<1>1. IInv => AnswerFollowsReplies
  <2> SUFFICES ASSUME IInv, NEW a \in Analyses, run[a].phase = "done"
               PROVE  LET r == run[a] IN
                      /\ r.answer = "success" <=> Got(a, "valid")
                      /\ r.answer = "success" =>
                            /\ r.report = Len(replies[a])
                            /\ \A i \in 1 .. r.report : replies[a][i] = "valid" <=> i = r.report
                      /\ r.answer = "AI_TIMEOUT" => Exhausted(a) /\ Got(a, "timeout")
                      /\ r.answer = "AI_FAILURE" => Exhausted(a) /\ ~Got(a, "timeout")
                      /\ r.answer \in {"UNSUPPORTED_FORMAT", "INVALID_INPUT"} => replies[a] = <<>>
                      /\ r.answer = "INTERNAL_ERROR" => replies[a] = <<>> \/ Got(a, "alien")
    BY DEF AnswerFollowsReplies
  <2>1. /\ run[a] \in Run /\ replies[a] \in Seq(Replies)
        /\ AnswerInv(run[a], replies[a])
        /\ \A kind : Got(a, kind) <=> Has(replies[a], kind)
    BY DEF IInv, TypeOK, RunInv, Got, Has
  <2>2. CASE run[a].answer = "success" /\ Reported(run[a], replies[a])
    <3>1. Len(replies[a]) \in DOMAIN replies[a] /\ DOMAIN replies[a] = 1 .. Len(replies[a])
      BY <2>1, <2>2 DEF Reported
    <3>2. Got(a, "valid")
      BY <2>1, <2>2, <3>1 DEF Reported, Has
    <3>3. QED
      BY <2>2, <3>1, <3>2 DEF Reported
  <2>3. ASSUME NEW e \in Exceptions, Cause(e, replies[a]), run[a].answer = HttpCode(e)
        PROVE  /\ run[a].answer # "success" /\ ~Got(a, "valid")
               /\ run[a].answer = "AI_TIMEOUT" => e = "AITimeoutError"
               /\ run[a].answer = "AI_FAILURE" => e = "AIFailureError"
               /\ run[a].answer \in {"UNSUPPORTED_FORMAT", "INVALID_INPUT"} =>
                     e \in {"UnsupportedFormatError", "InvalidInputError"}
               /\ run[a].answer = "INTERNAL_ERROR" => e = "Exception"
    BY <2>1, <2>3 DEF Cause, HttpCode, Exceptions
  <2>4. CASE \E e \in Exceptions : Cause(e, replies[a]) /\ run[a].answer = HttpCode(e)
    BY <2>1, <2>3, <2>4 DEF Cause, Exhausted
  <2>5. QED
    BY <2>1, <2>2, <2>4 DEF AnswerInv
<1>2. QED
  BY <1>1, Inductive, PTL

-----------------------------------------------------------------------------
(* The number of calls.                                                    *)

\* No analysis calls the LLM more often than LLM_MAX_RETRIES, whatever becomes of
\* it: the type of its attempt does not say so of one that was cancelled.
RepliesCapped == \A a \in Analyses : Len(replies[a]) <= MaxRetries

\* A call is added to a history only by a loop that has attempts left.
LEMMA RepliesStep == ASSUME IInv, RepliesCapped, [Next]_vars PROVE RepliesCapped'
<1>0. replies \in [Analyses -> Seq(Replies)] /\ \A a \in Analyses : run[a] \in Run
  BY DEF IInv, TypeOK
<1>1. CASE UNCHANGED replies
  BY <1>1 DEF RepliesCapped
<1>2. ASSUME NEW a \in Analyses, NEW x \in Replies, Receive(a, x) PROVE RepliesCapped'
  <2>1. run[a].phase = "calling" /\ replies' = [replies EXCEPT ![a] = Append(replies[a], x)]
    BY <1>2 DEF Receive
  <2>2. Len(replies[a]) + 1 <= MaxRetries
    BY <1>0, <2>1, RetriesAssumption DEF IInv, RunInv, Run, Attempts
  <2>3. Len(Append(replies[a], x)) = Len(replies[a]) + 1
    BY <1>0
  <2>4. QED
    BY <1>0, <2>1, <2>2, <2>3 DEF RepliesCapped
<1>3. ASSUME NEW a \in Analyses, Called(a) PROVE RepliesCapped'
  BY <1>2, <1>3 DEF Called, CallTimesOut, CallFails, ReplyInvalid, ReplyAlien, ReplyValid, Replies
<1>4. ASSUME NEW a \in Analyses,
             \/ AdapterRaises(a) \/ \E file \in Files : Reject(a, file) \/ Start(a, file)
             \/ Cancel(a) \/ Answered(a)
      PROVE  UNCHANGED replies
  BY <1>4 DEF AdapterRaises, Reject, Start, Cancel, Answered, AnswerReport, HttpError, QueueError
<1>5. QED
  BY <1>1, <1>3, <1>4 DEF Next, vars

\* No analysis has called before it begins.
LEMMA NoCallYet == Init => RepliesCapped
BY RetriesAssumption DEF Init, RepliesCapped

\* The retries are bounded (spec.md PER-004): no analysis calls the LLM more than
\* LLM_MAX_RETRIES times, also one that times out, fails and is cancelled
\* (_step_retry_loop).
THEOREM CallsCapped == Spec => []RepliesCapped
<1>1. Init => RepliesCapped
  BY NoCallYet
<1>2. IInv /\ RepliesCapped /\ [Next]_vars => RepliesCapped'
  BY RepliesStep
<1>3. QED
  BY <1>1, <1>2, Inductive, PTL DEF Spec

-----------------------------------------------------------------------------
(* The counters of the analyses.                                           *)

\* The counters add up, over finite sets.
CountInv == IInv /\ SuccessesAddUp /\ IsFiniteSet(EarlierCalls)

\* The analyses that succeeded are finitely many, so their number is a number.
LEMMA SucceededFinite == IsFiniteSet(Succeeded)
<1>1. Succeeded \in SUBSET Analyses
  BY DEF Succeeded
<1>2. QED
  BY <1>1, AnalysesAssumption, FS_Subset

\* A step that adds no valid reply and no success.
LEMMA NoSuccess ==
    ASSUME CountInv, IInv',
           \A a \in Analyses : /\ Got(a, "valid")' <=> Got(a, "valid")
                               /\ Got(a, "valid") => replies'[a] = replies[a],
           metrics'.success = metrics.success, metrics'.retries = metrics.retries
    PROVE  CountInv'
<1>1. Succeeded' = Succeeded
  BY DEF Succeeded
<1>2. \A a \in Succeeded : replies'[a] = replies[a]
  BY DEF Succeeded
<1>3. EarlierCalls' = EarlierCalls
  BY <1>1, <1>2 DEF EarlierCalls
<1>4. QED
  BY <1>1, <1>3 DEF CountInv, SuccessesAddUp

\* As many as n calls of one analysis.
LEMMA CallsOfOne ==
    ASSUME NEW a, NEW n \in Nat
    PROVE  IsFiniteSet({a} \X (1 .. n)) /\ Cardinality({a} \X (1 .. n)) = n
<1>1. IsFiniteSet({a}) /\ Cardinality({a}) = 1
  BY FS_Singleton
<1>2. IsFiniteSet(1 .. n) /\ Cardinality(1 .. n) = n
  BY FS_Interval
<1>3. /\ IsFiniteSet({a} \X (1 .. n))
      /\ Cardinality({a} \X (1 .. n)) = Cardinality({a}) * Cardinality(1 .. n)
  BY <1>1, <1>2, FS_Product
<1>4. 1 * n = n
  OBVIOUS
<1>5. QED
  BY <1>1, <1>2, <1>3, <1>4

\* A valid reply adds one success, and the calls of its analysis before it.
LEMMA ValidCounts ==
    ASSUME CountInv, IInv', NEW a \in Analyses, ReplyValid(a)
    PROVE  CountInv'
<1> DEFINE s == replies[a]
           t == Append(s, "valid")
           calls == {a} \X (1 .. Len(s))
<1>0. /\ run[a] \in Run /\ s \in Seq(Replies) /\ RunInv(run[a], s)
      /\ metrics \in [success : Nat, error : Nat, retries : Nat]
      /\ replies \in [Analyses -> Seq(Replies)]
  BY DEF CountInv, IInv, TypeOK
<1>1. /\ run[a].phase = "calling" /\ replies' = [replies EXCEPT ![a] = t]
      /\ metrics' = [metrics EXCEPT !.success = metrics.success + 1,
                                    !.retries = metrics.retries + (run[a].attempt - 1)]
  BY DEF ReplyValid, Receive
<1>2. ~Has(s, "valid") /\ run[a].attempt = Len(s) + 1 /\ Len(s) \in Nat
  BY <1>0, <1>1 DEF RunInv, LoopInv
<1>3. t \in Seq(Replies) /\ Len(t) = Len(s) + 1 /\ Has(t, "valid")
  BY <1>0, AppendHas DEF Replies
<1>4. replies'[a] = t /\ \A b \in Analyses : b # a => replies'[b] = replies[b]
  BY <1>0, <1>1
<1> HIDE DEF t
<1>5. a \notin Succeeded /\ Succeeded' = Succeeded \cup {a}
  <2>1. \A b \in Analyses : Got(b, "valid") <=> Has(replies[b], "valid")
    BY DEF Got, Has
  <2>2. \A b \in Analyses : Got(b, "valid")' <=> Has(replies'[b], "valid")
    BY DEF Got, Has
  <2>3. QED
    BY <1>2, <1>3, <1>4, <2>1, <2>2 DEF Succeeded
<1>6. EarlierCalls' = EarlierCalls \cup calls
  <2>1. \A b \in Succeeded : b # a /\ replies'[b] = replies[b]
    BY <1>4, <1>5 DEF Succeeded
  <2> DEFINE before(b) == {b} \X (1 .. Len(replies[b]) - 1)
             after(b)  == {b} \X (1 .. Len(replies'[b]) - 1)
  <2>2. EarlierCalls = UNION {before(b) : b \in Succeeded}
    BY DEF EarlierCalls
  <2>3. EarlierCalls' = UNION {after(b) : b \in Succeeded \cup {a}}
    BY <1>5 DEF EarlierCalls
  <2>4. \A b \in Succeeded : after(b) = before(b)
    BY <2>1
  <2>5. after(a) = calls
    <3>1. Len(replies'[a]) - 1 = Len(s)
      BY <1>2, <1>3, <1>4
    <3>2. QED
      BY <3>1
  <2> HIDE DEF before, after, calls
  <2>6. QED
    BY <2>2, <2>3, <2>4, <2>5
<1>7. EarlierCalls \cap calls = {}
  <2>1. \A c \in EarlierCalls : c[1] \in Succeeded
    BY DEF EarlierCalls
  <2>2. \A c \in calls : c[1] = a
    OBVIOUS
  <2>3. QED
    BY <1>5, <2>1, <2>2
<1>8. IsFiniteSet(calls) /\ Cardinality(calls) = Len(s)
  BY <1>2, CallsOfOne
<1> HIDE DEF s, calls
<1>9. IsFiniteSet(EarlierCalls) /\ Cardinality(EarlierCalls) = metrics.retries
  BY DEF CountInv, SuccessesAddUp
<1>10. IsFiniteSet(EarlierCalls') /\ Cardinality(EarlierCalls') = metrics.retries + Len(s)
  <2>1. /\ IsFiniteSet(EarlierCalls \cup calls)
        /\ Cardinality(EarlierCalls \cup calls)
             = Cardinality(EarlierCalls) + Cardinality(calls) - Cardinality(EarlierCalls \cap calls)
    BY <1>8, <1>9, FS_Union
  <2>2. Cardinality(EarlierCalls \cap calls) = 0
    BY <1>7, FS_EmptySet
  <2>3. QED
    BY <1>0, <1>2, <1>6, <1>8, <1>9, <2>1, <2>2
<1>11. Cardinality(Succeeded') = metrics.success + 1
  <2>1. Cardinality(Succeeded \cup {a}) = Cardinality(Succeeded) + 1
    BY <1>5, SucceededFinite, FS_AddElement
  <2>2. Cardinality(Succeeded) = metrics.success
    BY DEF CountInv, SuccessesAddUp
  <2>3. QED
    BY <1>5, <2>1, <2>2
<1>12. metrics'.success = metrics.success + 1 /\ metrics'.retries = metrics.retries + Len(s)
  <2>1. run[a].attempt - 1 = Len(s)
    BY <1>2
  <2>2. QED
    BY <1>0, <1>1, <2>1
<1>13. QED
  BY <1>10, <1>11, <1>12 DEF CountInv, SuccessesAddUp

\* The steps that add no valid reply leave both counters alone.
LEMMA OthersCountNothing ==
    ASSUME CountInv, IInv', [Next]_vars, ~ \E a \in Analyses : ReplyValid(a)
    PROVE  CountInv'
<1>0. /\ metrics \in [success : Nat, error : Nat, retries : Nat]
      /\ replies \in [Analyses -> Seq(Replies)]
      /\ \A a \in Analyses : RunInv(run[a], replies[a])
  BY DEF CountInv, IInv, TypeOK
<1>1. ASSUME UNCHANGED replies,
             metrics'.success = metrics.success, metrics'.retries = metrics.retries
      PROVE  CountInv'
  <2>1. \A a \in Analyses : /\ Got(a, "valid")' <=> Got(a, "valid")
                            /\ Got(a, "valid") => replies'[a] = replies[a]
    BY <1>1 DEF Got
  <2>2. QED
    BY <1>1, <2>1, NoSuccess
<1>2. ASSUME NEW a \in Analyses, NEW x \in Replies \ {"valid"}, Receive(a, x),
             metrics'.success = metrics.success, metrics'.retries = metrics.retries
      PROVE  CountInv'
  <2>1. /\ run[a].phase = "calling" /\ replies' = [replies EXCEPT ![a] = Append(replies[a], x)]
    BY <1>2 DEF Receive
  <2>2. ~Has(replies[a], "valid") /\ replies[a] \in Seq(Replies)
    BY <1>0, <2>1 DEF RunInv, LoopInv
  <2>3. ~Has(Append(replies[a], x), "valid")
    BY <2>2, AppendHas
  <2>4. /\ replies'[a] = Append(replies[a], x)
        /\ \A b \in Analyses : b # a => replies'[b] = replies[b]
    BY <1>0, <2>1
  <2>5. ~Got(a, "valid") /\ ~Got(a, "valid")'
    BY <2>2, <2>3, <2>4 DEF Got, Has
  <2>6. \A b \in Analyses : /\ Got(b, "valid")' <=> Got(b, "valid")
                            /\ Got(b, "valid") => replies'[b] = replies[b]
    BY <2>4, <2>5 DEF Got
  <2>7. QED
    BY <1>2, <2>6, NoSuccess
<1>3. ASSUME NEW a \in Analyses, NEW r, Continue(a, r)
      PROVE  metrics'.success = metrics.success /\ metrics'.retries = metrics.retries
  BY <1>0, <1>3 DEF Continue
<1>4. CASE UNCHANGED vars
  BY <1>1, <1>4 DEF vars
<1>5. ASSUME NEW a \in Analyses,
             \/ AdapterRaises(a) \/ \E file \in Files : Reject(a, file)
             \/ Cancel(a) \/ Answered(a)
      PROVE  CountInv'
  <2>1. UNCHANGED replies /\ (metrics' = metrics \/ metrics' = [metrics EXCEPT !.error = @ + 1])
    BY <1>5 DEF AdapterRaises, Reject, Cancel, Answered, AnswerReport, HttpError, QueueError
  <2>2. QED
    BY <1>0, <1>1, <2>1
<1>6. ASSUME NEW a \in Analyses, NEW file \in Files, Start(a, file) PROVE CountInv'
  BY <1>1, <1>3, <1>6 DEF Start
<1>7. ASSUME NEW a \in Analyses, CallTimesOut(a) \/ CallFails(a) \/ ReplyInvalid(a)
      PROVE  CountInv'
  <2>1. \E x \in {"timeout", "error", "invalid"} : Receive(a, x)
    BY <1>7 DEF CallTimesOut, CallFails, ReplyInvalid
  <2>2. \E r : Continue(a, r)
    BY <1>7 DEF CallTimesOut, CallFails, ReplyInvalid
  <2>3. QED
    BY <1>2, <1>3, <2>1, <2>2 DEF Replies
<1>8. ASSUME NEW a \in Analyses, ReplyAlien(a) PROVE CountInv'
  BY <1>2, <1>8 DEF ReplyAlien, Replies
<1>9. QED
  BY <1>4, <1>5, <1>6, <1>7, <1>8 DEF Next, Called

\* The counters of the analyses add up, however the analyses interleave: one
\* success for each report, and as many retries as those analyses had calls
\* before their valid reply (run_pipeline, core/metrics.py).
THEOREM CountersAddUp == Spec => []SuccessesAddUp
<1>1. Init => IInv /\ CountInv
  <2> SUFFICES ASSUME Init PROVE IInv /\ CountInv
    OBVIOUS
  <2>1. Succeeded = {} /\ EarlierCalls = {}
    BY DEF Init, Succeeded, EarlierCalls, Got
  <2>2. IInv
    BY InitialInv
  <2>3. QED
    BY <2>1, <2>2, FS_EmptySet DEF Init, CountInv, SuccessesAddUp
<1>2. CountInv /\ IInv' /\ [Next]_vars => CountInv'
  BY ValidCounts, OthersCountNothing
<1>3. CountInv => SuccessesAddUp
  BY DEF CountInv
<1>4. QED
  BY <1>1, <1>2, <1>3, Inductive, PTL DEF Spec

-----------------------------------------------------------------------------
(* The analyses implement Analysis.                                        *)

\* There is no answer before the end.
NoAnswerYet == \A a \in Analyses : run[a].phase # "done" => run[a].answer = "none"

\* An analysis gets its answer with its last step and no earlier.
LEMMA NoAnswerStep == ASSUME IInv, IInv', NoAnswerYet, [Next]_vars PROVE NoAnswerYet'
<1>0. /\ run \in [Analyses -> Run]
      /\ \A a \in Analyses : RunInv(run[a], replies[a])
  BY DEF IInv, TypeOK
<1>1. ASSUME NEW a \in Analyses, NEW r,
             run' = [run EXCEPT ![a] = r], r.phase # "done" => r.answer = "none"
      PROVE  NoAnswerYet'
  BY <1>0, <1>1 DEF NoAnswerYet
<1>2. ASSUME NEW a \in Analyses, NEW r \in Run, Continue(a, r),
             r.answer = "none"
      PROVE  NoAnswerYet'
  <2>1. NextAttempt(r).answer = "none"
    BY <1>2 DEF NextAttempt, Raise, Run
  <2>2. run' = [run EXCEPT ![a] = NextAttempt(r)]
    BY <1>2 DEF Continue
  <2>3. QED
    BY <1>1, <2>1, <2>2
<1>3. CASE UNCHANGED vars
  BY <1>3 DEF vars, NoAnswerYet
<1>4. ASSUME NEW a \in Analyses, AdapterRaises(a) \/ ReplyAlien(a) PROVE NoAnswerYet'
  <2>1. run[a].phase # "done" /\ run' = [run EXCEPT ![a] = Raise(run[a], "Exception")]
    BY <1>4 DEF AdapterRaises, ReplyAlien, Receive
  <2>2. Raise(run[a], "Exception").answer = "none"
    BY <1>0, <2>1 DEF NoAnswerYet, Raise, Run
  <2>3. QED
    BY <1>1, <2>1, <2>2
<1>5. ASSUME NEW a \in Analyses, NEW file \in Files, Reject(a, file) PROVE NoAnswerYet'
  <2>1. run[a].phase # "done" /\ run' = [run EXCEPT ![a] = Raise(run[a], Preprocess(file))]
    BY <1>5 DEF Reject
  <2>2. Raise(run[a], Preprocess(file)).answer = "none"
    BY <1>0, <2>1 DEF NoAnswerYet, Raise, Run
  <2>3. QED
    BY <1>1, <2>1, <2>2
<1>6. ASSUME NEW a \in Analyses, NEW file \in Files, Start(a, file) PROVE NoAnswerYet'
  <2>1. run[a].answer = "none" /\ run[a] \in Run /\ Continue(a, run[a])
    BY <1>0, <1>6 DEF Start, NoAnswerYet
  <2>2. QED
    BY <1>2, <2>1
<1>7. ASSUME NEW a \in Analyses, CallTimesOut(a) \/ CallFails(a) \/ ReplyInvalid(a)
      PROVE  NoAnswerYet'
  <2>1. run[a].answer = "none" /\ run[a] \in Run
    BY <1>0, <1>7 DEF CallTimesOut, CallFails, ReplyInvalid, Receive, NoAnswerYet
  <2>2. CASE CallTimesOut(a)
    <3> DEFINE r == [run[a] EXCEPT !.timedOut = TRUE]
    <3>1. r \in Run /\ r.answer = "none"
      BY <2>1 DEF Run
    <3>2. Continue(a, r)
      BY <2>2 DEF CallTimesOut
    <3> HIDE DEF r
    <3>3. QED
      BY <1>2, <3>1, <3>2
  <2>3. CASE CallFails(a)
    BY <1>2, <2>1, <2>3 DEF CallFails
  <2>4. CASE ReplyInvalid(a)
    <3> DEFINE r == [run[a] EXCEPT !.lastRaw = run[a].attempt]
    <3>1. r \in Run /\ r.answer = "none"
      BY <2>1 DEF Run
    <3>2. Continue(a, r)
      BY <2>4 DEF ReplyInvalid
    <3> HIDE DEF r
    <3>3. QED
      BY <1>2, <3>1, <3>2
  <2>5. QED
    BY <1>7, <2>2, <2>3, <2>4
<1>8. ASSUME NEW a \in Analyses, ReplyValid(a) \/ Cancel(a) PROVE NoAnswerYet'
  <2>1. run[a].answer = "none"
    BY <1>8 DEF ReplyValid, Receive, Cancel, NoAnswerYet
  <2>2. PICK r : run' = [run EXCEPT ![a] = r] /\ r.answer = "none"
    <3>1. CASE ReplyValid(a)
      <4>1. run' = [run EXCEPT ![a] = [run[a] EXCEPT !.phase = "returned",
                                                     !.report = run[a].attempt]]
        BY <1>0, <3>1 DEF ReplyValid
      <4>2. [run[a] EXCEPT !.phase = "returned", !.report = run[a].attempt].answer = "none"
        BY <1>0, <2>1 DEF Run
      <4>3. QED
        BY <4>1, <4>2
    <3>2. CASE Cancel(a)
      <4>1. run' = [run EXCEPT ![a] = [run[a] EXCEPT !.phase = "cancelled"]]
        BY <3>2 DEF Cancel
      <4>2. [run[a] EXCEPT !.phase = "cancelled"].answer = "none"
        BY <1>0, <2>1 DEF Run
      <4>3. QED
        BY <4>1, <4>2
    <3>3. QED
      BY <1>8, <3>1, <3>2
  <2>3. QED
    BY <1>1, <2>2
<1>9. ASSUME NEW a \in Analyses, Answered(a) PROVE NoAnswerYet'
  <2>1. PICK x : Answer(a, x)
    BY <1>9 DEF Answered, AnswerReport, HttpError, QueueError
  <2>2. run' = [run EXCEPT ![a] = [run[a] EXCEPT !.phase = "done", !.answer = x]]
    BY <2>1 DEF Answer
  <2>3. [run[a] EXCEPT !.phase = "done", !.answer = x].phase = "done"
    BY <1>0 DEF Run
  <2>4. QED
    BY <1>1, <2>2, <2>3
<1>10. QED
  BY <1>3, <1>4, <1>5, <1>6, <1>7, <1>8, <1>9 DEF Next, Called

\* An answer, once given, is not changed.
LEMMA AnswerStays ==
    ASSUME IInv, NoAnswerYet, [Next]_vars
    PROVE  \A a \in Analyses : run[a].answer # "none" => run'[a] = run[a]
<1> SUFFICES ASSUME NEW a \in Analyses, run[a].answer # "none" PROVE run'[a] = run[a]
  OBVIOUS
<1>0. run \in [Analyses -> Run] /\ run[a].phase = "done"
  BY DEF IInv, TypeOK, NoAnswerYet
<1>1. ASSUME NEW b \in Analyses, run[b].phase # "done", NEW r, run' = [run EXCEPT ![b] = r]
      PROVE  run'[a] = run[a]
  BY <1>0, <1>1
<1>2. ASSUME NEW b \in Analyses, Called(b) PROVE run'[a] = run[a]
  <2>1. run[b].phase # "done"
    BY <1>2 DEF Called, CallTimesOut, CallFails, ReplyInvalid, ReplyAlien, ReplyValid, Receive
  <2>2. \E r : run' = [run EXCEPT ![b] = r]
    BY <1>0, <1>2 DEF Called, CallTimesOut, CallFails, ReplyInvalid, ReplyAlien, ReplyValid, Continue
  <2>3. QED
    BY <1>1, <2>1, <2>2
<1>3. ASSUME NEW b \in Analyses,
             \/ AdapterRaises(b) \/ \E file \in Files : Reject(b, file) \/ Start(b, file)
             \/ Cancel(b) \/ Answered(b)
      PROVE  run'[a] = run[a]
  <2>1. run[b].phase # "done"
    BY <1>3 DEF AdapterRaises, Reject, Start, Cancel, Answered, AnswerReport, HttpError, QueueError
  <2>2. \E r : run' = [run EXCEPT ![b] = r]
    BY <1>0, <1>3 DEF AdapterRaises, Reject, Start, Cancel, Answered, AnswerReport, HttpError,
       QueueError, Answer, Continue
  <2>3. QED
    BY <1>1, <2>1, <2>2
<1>4. QED
  BY <1>2, <1>3 DEF Next, vars

\* What a step of one analysis looks like from outside.
LEMMA Seen ==
    ASSUME IInv, NEW a \in Analyses, NEW r, NEW s,
           run' = [run EXCEPT ![a] = r], replies' = [replies EXCEPT ![a] = s]
    PROVE  /\ stateBar' = [stateBar EXCEPT ![a] = StateOf(r.phase)]
           /\ callsBar' = [callsBar EXCEPT ![a] = Len(s)]
           /\ outcomeBar' = [outcomeBar EXCEPT ![a] = OutcomeOf(r.answer)]
<1>1. run \in [Analyses -> Run] /\ replies \in [Analyses -> Seq(Replies)]
  BY DEF IInv, TypeOK
<1>2. \A b \in Analyses : /\ b # a => run'[b] = run[b] /\ replies'[b] = replies[b]
                          /\ b = a => run'[b] = r /\ replies'[b] = s
  BY <1>1
<1>3. stateBar' = [stateBar EXCEPT ![a] = StateOf(r.phase)]
  <2>1. stateBar' = [b \in Analyses |-> IF b = a THEN StateOf(r.phase) ELSE stateBar[b]]
    BY <1>2 DEF stateBar
  <2>2. QED
    BY <2>1 DEF stateBar
<1>4. callsBar' = [callsBar EXCEPT ![a] = Len(s)]
  <2>1. callsBar' = [b \in Analyses |-> IF b = a THEN Len(s) ELSE callsBar[b]]
    BY <1>2 DEF callsBar
  <2>2. QED
    BY <2>1 DEF callsBar
<1>5. outcomeBar' = [outcomeBar EXCEPT ![a] = OutcomeOf(r.answer)]
  <2>1. outcomeBar' = [b \in Analyses |-> IF b = a THEN OutcomeOf(r.answer) ELSE outcomeBar[b]]
    BY <1>2 DEF outcomeBar
  <2>2. QED
    BY <2>1 DEF outcomeBar
<1>6. QED
  BY <1>3, <1>4, <1>5

\* An analysis that arrives begins.
LEMMA Begins ==
    ASSUME IInv, NoAnswerYet, NEW a \in Analyses, NEW r, run[a].phase = "idle",
           r.phase \in {"calling", "raised"}, r.answer = "none",
           run' = [run EXCEPT ![a] = r], UNCHANGED replies
    PROVE  Abstract!Begin(a)
<1>1. replies \in [Analyses -> Seq(Replies)] /\ run[a].answer = "none"
  BY DEF IInv, TypeOK, NoAnswerYet
<1>2. replies' = [replies EXCEPT ![a] = replies[a]]
  BY <1>1
<1>3. /\ stateBar' = [stateBar EXCEPT ![a] = StateOf(r.phase)]
      /\ callsBar' = [callsBar EXCEPT ![a] = Len(replies[a])]
      /\ outcomeBar' = [outcomeBar EXCEPT ![a] = OutcomeOf(r.answer)]
  BY <1>2, Seen
<1>4. stateBar[a] = "new" /\ StateOf(r.phase) = "working"
  BY DEF stateBar, StateOf
<1>5. callsBar' = callsBar
  BY <1>3 DEF callsBar
<1>6. outcomeBar' = outcomeBar
  BY <1>1, <1>3 DEF outcomeBar
<1>7. QED
  BY <1>3, <1>4, <1>5, <1>6 DEF Abstract!Begin

\* A call of the LLM that comes to an end is one of at most MaxRetries.
LEMMA Calls ==
    ASSUME IInv, NoAnswerYet, NEW a \in Analyses, NEW r, NEW x \in Replies, Receive(a, x),
           r.phase \in {"calling", "raised", "returned"}, r.answer = "none",
           run' = [run EXCEPT ![a] = r]
    PROVE  Abstract!Call(a)
<1> DEFINE s == replies[a]
<1>1. /\ run[a].phase = "calling" /\ replies' = [replies EXCEPT ![a] = Append(s, x)]
      /\ run[a].answer = "none" /\ s \in Seq(Replies)
  BY DEF IInv, TypeOK, NoAnswerYet, Receive
<1>2. /\ stateBar' = [stateBar EXCEPT ![a] = StateOf(r.phase)]
      /\ callsBar' = [callsBar EXCEPT ![a] = Len(Append(s, x))]
      /\ outcomeBar' = [outcomeBar EXCEPT ![a] = OutcomeOf(r.answer)]
  BY <1>1, Seen
<1>3. Len(Append(s, x)) = Len(s) + 1 /\ Len(s) \in Nat
  BY <1>1, AppendHas
<1>4. Len(s) < MaxRetries
  <2>1. run[a].attempt = Len(s) + 1 /\ run[a].attempt \in 0 .. MaxRetries
    BY <1>1 DEF IInv, TypeOK, RunInv, Run, Attempts
  <2>2. QED
    BY <1>3, <2>1, RetriesAssumption
<1>5. stateBar[a] = "working" /\ stateBar' = stateBar
  BY <1>1, <1>2 DEF stateBar, StateOf
<1>6. outcomeBar' = outcomeBar
  BY <1>1, <1>2 DEF outcomeBar
<1>7. callsBar[a] = Len(s)
  BY DEF callsBar
<1>8. QED
  BY <1>2, <1>3, <1>4, <1>5, <1>6, <1>7 DEF Abstract!Call

\* An analysis that is cancelled was at work.
LEMMA Cancels ==
    ASSUME IInv, NEW a \in Analyses, Cancel(a) PROVE Abstract!Cancel(a)
<1> DEFINE r == [run[a] EXCEPT !.phase = "cancelled"]
<1>1. /\ replies \in [Analyses -> Seq(Replies)] /\ run[a].phase = "calling"
      /\ r.phase = "cancelled" /\ r.answer = run[a].answer
  BY DEF IInv, TypeOK, Run, Cancel
<1>2. run' = [run EXCEPT ![a] = r] /\ replies' = [replies EXCEPT ![a] = replies[a]]
  BY <1>1 DEF Cancel
<1> HIDE DEF r
<1>3. /\ stateBar' = [stateBar EXCEPT ![a] = StateOf(r.phase)]
      /\ callsBar' = [callsBar EXCEPT ![a] = Len(replies[a])]
      /\ outcomeBar' = [outcomeBar EXCEPT ![a] = OutcomeOf(r.answer)]
  BY <1>2, Seen
<1>4. stateBar[a] = "working" /\ StateOf(r.phase) = "cancelled"
  BY <1>1 DEF stateBar, StateOf
<1>5. callsBar' = callsBar /\ outcomeBar' = outcomeBar
  BY <1>1, <1>3 DEF callsBar, outcomeBar
<1>6. QED
  BY <1>3, <1>4, <1>5 DEF Abstract!Cancel

\* An answer that the calls justify, for each exception and for a report.
LEMMA JustifiedAnswer ==
    ASSUME IInv, NEW a \in Analyses, NEW r, AnswerInv(r, replies[a])
    PROVE  OutcomeOf(r.answer) \in Abstract!Outcomes /\ Abstract!Justified(a, OutcomeOf(r.answer))
<1> DEFINE s == replies[a]
<1>1. s \in Seq(Replies) /\ callsBar[a] = Len(s)
  BY DEF IInv, TypeOK, callsBar
<1>2. CASE r.answer = "success" /\ Reported(r, s)
  <2>1. OutcomeOf(r.answer) = "report"
    BY <1>2 DEF OutcomeOf
  <2>2. Len(s) > 0
    BY <1>1, <1>2 DEF Reported
  <2>3. QED
    BY <1>1, <2>1, <2>2 DEF Abstract!Outcomes, Abstract!Justified
<1>3. ASSUME NEW e \in Exceptions, Cause(e, s), r.answer = HttpCode(e)
      PROVE  /\ OutcomeOf(r.answer) \in Abstract!Outcomes
             /\ Abstract!Justified(a, OutcomeOf(r.answer))
  <2>1. CASE e \in {"UnsupportedFormatError", "InvalidInputError"}
    <3>1. r.answer \in {"UNSUPPORTED_FORMAT", "INVALID_INPUT"}
      BY <1>3, <2>1 DEF HttpCode
    <3>2. OutcomeOf(r.answer) = "inputRefused" /\ Len(s) = 0
      BY <1>3, <2>1, <3>1 DEF OutcomeOf, Cause
    <3>3. QED
      BY <1>1, <3>2 DEF Abstract!Outcomes, Abstract!Justified
  <2>2. CASE e \in {"AIFailureError", "AITimeoutError"}
    <3>1. r.answer \in {"AI_FAILURE", "AI_TIMEOUT"}
      BY <1>3, <2>2 DEF HttpCode
    <3>2. OutcomeOf(r.answer) = "llmBlamed" /\ Len(s) = MaxRetries
      BY <1>3, <2>2, <3>1 DEF OutcomeOf, Cause
    <3>3. QED
      BY <1>1, <3>2 DEF Abstract!Outcomes, Abstract!Justified
  <2>3. CASE e = "Exception"
    <3>1. r.answer = "INTERNAL_ERROR"
      BY <1>3, <2>3 DEF HttpCode
    <3>2. OutcomeOf(r.answer) = "internal"
      BY <3>1 DEF OutcomeOf
    <3>3. QED
      BY <3>2 DEF Abstract!Outcomes, Abstract!Justified
  <2>4. QED
    BY <1>3, <2>1, <2>2, <2>3 DEF Exceptions
<1>4. QED
  BY <1>2, <1>3 DEF AnswerInv

\* The answer is the only one, and the calls are its reason.
LEMMA Gives ==
    ASSUME IInv, IInv', NEW a \in Analyses, Answered(a) PROVE Abstract!Give(a)
<1> DEFINE s == replies[a]
<1>0. run \in [Analyses -> Run] /\ replies \in [Analyses -> Seq(Replies)]
  BY DEF IInv, TypeOK
<1>1. run[a].phase \in {"raised", "returned"} /\ replies' = replies
  BY DEF Answered, AnswerReport, HttpError, QueueError
<1>2. PICK x : Answer(a, x)
  BY DEF Answered, AnswerReport, HttpError, QueueError
<1> DEFINE r == [run[a] EXCEPT !.phase = "done", !.answer = x]
<1>3. run' = [run EXCEPT ![a] = r] /\ r.phase = "done"
  BY <1>0, <1>2 DEF Answer, Run
<1> HIDE DEF r
<1>4. run'[a] = r /\ replies'[a] = s
  BY <1>0, <1>1, <1>3
<1>5. AnswerInv(r, s)
  BY <1>3, <1>4 DEF IInv, RunInv
<1>6. OutcomeOf(r.answer) \in Abstract!Outcomes /\ Abstract!Justified(a, OutcomeOf(r.answer))
  BY <1>5, JustifiedAnswer
<1>7. replies' = [replies EXCEPT ![a] = s]
  BY <1>0, <1>1
<1>8. /\ stateBar' = [stateBar EXCEPT ![a] = StateOf(r.phase)]
      /\ callsBar' = [callsBar EXCEPT ![a] = Len(s)]
      /\ outcomeBar' = [outcomeBar EXCEPT ![a] = OutcomeOf(r.answer)]
  BY <1>3, <1>7, Seen
<1>9. stateBar[a] = "working" /\ StateOf(r.phase) = "answered"
  BY <1>1, <1>3 DEF stateBar, StateOf
<1>10. callsBar' = callsBar
  BY <1>8 DEF callsBar
<1>11. QED
  BY <1>6, <1>8, <1>9, <1>10 DEF Abstract!Give

\* Going round the loop, or out of it, is no answer.
LEMMA NoAnswerInLoop ==
    ASSUME NEW r \in Run, r.answer = "none"
    PROVE  /\ NextAttempt(r).phase \in {"calling", "raised"}
           /\ NextAttempt(r).answer = "none"
BY DEF NextAttempt, Raise, Run

\* A call that ends without a report.
LEMMA CallsAgain ==
    ASSUME IInv, NoAnswerYet, NEW a \in Analyses, CallTimesOut(a) \/ CallFails(a) \/ ReplyInvalid(a)
    PROVE  Abstract!Call(a)
<1>0. run[a] \in Run /\ run[a].answer = "none" /\ run[a].attempt \in Attempts
  BY DEF IInv, TypeOK, Run, NoAnswerYet, CallTimesOut, CallFails, ReplyInvalid, Receive
<1>1. ASSUME NEW g \in Run, g.answer = "none", Continue(a, g), NEW x \in Replies, Receive(a, x)
      PROVE  Abstract!Call(a)
  <2>1. run' = [run EXCEPT ![a] = NextAttempt(g)]
    BY <1>1 DEF Continue
  <2>2. QED
    BY <1>1, <2>1, NoAnswerInLoop, Calls
<1>2. CASE CallTimesOut(a)
  <2> DEFINE g == [run[a] EXCEPT !.timedOut = TRUE]
  <2>1. g \in Run /\ g.answer = "none"
    BY <1>0 DEF Run
  <2>2. Continue(a, g) /\ Receive(a, "timeout")
    BY <1>2 DEF CallTimesOut
  <2> HIDE DEF g
  <2>3. QED
    BY <1>1, <2>1, <2>2 DEF Replies
<1>3. CASE CallFails(a)
  BY <1>0, <1>1, <1>3 DEF CallFails, Replies
<1>4. CASE ReplyInvalid(a)
  <2> DEFINE g == [run[a] EXCEPT !.lastRaw = run[a].attempt]
  <2>1. g \in Run /\ g.answer = "none"
    BY <1>0 DEF Run
  <2>2. Continue(a, g) /\ Receive(a, "invalid")
    BY <1>4 DEF ReplyInvalid
  <2> HIDE DEF g
  <2>3. QED
    BY <1>1, <2>1, <2>2 DEF Replies
<1>5. QED
  BY <1>2, <1>3, <1>4

\* Every step of the analyses is a step of Analysis, or none of its business.
LEMMA StepImplements ==
    ASSUME IInv, IInv', NoAnswerYet, [Next]_vars
    PROVE  [Abstract!Next]_(Abstract!vars)
<1>0. run \in [Analyses -> Run]
  BY DEF IInv, TypeOK
<1>1. CASE UNCHANGED vars
  BY <1>1 DEF vars, stateBar, callsBar, outcomeBar, Abstract!vars
<1>2. ASSUME NEW a \in Analyses, NEW e \in Exceptions, run[a].phase = "idle",
             run' = [run EXCEPT ![a] = Raise(run[a], e)], UNCHANGED replies
      PROVE  Abstract!Begin(a)
  <2>1. Raise(run[a], e).phase = "raised" /\ Raise(run[a], e).answer = "none"
    BY <1>0, <1>2 DEF Raise, Run, NoAnswerYet
  <2>2. QED
    BY <1>2, <2>1, Begins
<1>3. ASSUME NEW a \in Analyses, AdapterRaises(a) PROVE Abstract!Begin(a)
  BY <1>2, <1>3 DEF AdapterRaises, Exceptions
<1>4. ASSUME NEW a \in Analyses, NEW file \in Files, Reject(a, file) PROVE Abstract!Begin(a)
  <2>1. Preprocess(file) \in Exceptions
    BY <1>4 DEF Reject, Preprocess, Exceptions
  <2>2. QED
    BY <1>2, <1>4, <2>1 DEF Reject
<1>5. ASSUME NEW a \in Analyses, NEW file \in Files, Start(a, file) PROVE Abstract!Begin(a)
  <2>1. run[a] \in Run /\ run[a].phase = "idle" /\ run[a].answer = "none"
    BY <1>0, <1>5 DEF Start, NoAnswerYet
  <2>2. run' = [run EXCEPT ![a] = NextAttempt(run[a])] /\ UNCHANGED replies
    BY <1>5 DEF Start, Continue
  <2>3. QED
    BY <2>1, <2>2, NoAnswerInLoop, Begins
<1>6. ASSUME NEW a \in Analyses, ReplyAlien(a) PROVE Abstract!Call(a)
  <2>1. Receive(a, "alien") /\ run' = [run EXCEPT ![a] = Raise(run[a], "Exception")]
    BY <1>6 DEF ReplyAlien
  <2>2. /\ Raise(run[a], "Exception").phase = "raised"
        /\ Raise(run[a], "Exception").answer = "none"
    BY <1>0, <2>1 DEF Receive, Raise, Run, NoAnswerYet
  <2>3. QED
    BY <2>1, <2>2, Calls DEF Replies
<1>7. ASSUME NEW a \in Analyses, ReplyValid(a) PROVE Abstract!Call(a)
  <2> DEFINE r == [run[a] EXCEPT !.phase = "returned", !.report = run[a].attempt]
  <2>1. Receive(a, "valid") /\ run' = [run EXCEPT ![a] = r]
    BY <1>0, <1>7 DEF ReplyValid
  <2>2. r.phase = "returned" /\ r.answer = "none"
    BY <1>0, <2>1 DEF Receive, Run, NoAnswerYet
  <2> HIDE DEF r
  <2>3. QED
    BY <2>1, <2>2, Calls DEF Replies
<1>8. ASSUME NEW a \in Analyses, Called(a) PROVE Abstract!Call(a)
  BY <1>6, <1>7, <1>8, CallsAgain DEF Called
<1>9. ASSUME NEW a \in Analyses,
             \/ AdapterRaises(a) \/ \E file \in Files : Reject(a, file) \/ Start(a, file)
             \/ Called(a) \/ Cancel(a) \/ Answered(a)
      PROVE  Abstract!Next
  BY <1>3, <1>4, <1>5, <1>8, <1>9, Cancels, Gives DEF Abstract!Next
<1>10. QED
  BY <1>1, <1>9 DEF Next

\* The analyses implement Analysis, for every number of them and every
\* LLM_MAX_RETRIES: whatever the LLM and the file do, each makes at most
\* MaxRetries calls and gives at most one answer, which its calls justify, and
\* nothing more happens to it then (core/pipeline.py, main.py,
\* worker/consumer.py).
THEOREM AnalysesKeepTheirPromise == Spec => ImplementsAnalysis
<1>1. Init => IInv /\ NoAnswerYet /\ Abstract!Init
  <2> SUFFICES ASSUME Init PROVE IInv /\ NoAnswerYet /\ Abstract!Init
    OBVIOUS
  <2>1. NoAnswerYet
    BY DEF Init, NoAnswerYet
  <2>2. \A a \in Analyses : /\ run[a].phase = "idle" /\ run[a].answer = "none"
                            /\ replies[a] = <<>>
    BY DEF Init
  <2>3. \A a \in Analyses : /\ StateOf(run[a].phase) = "new" /\ Len(replies[a]) = 0
                            /\ OutcomeOf(run[a].answer) = "none"
    BY <2>2 DEF StateOf, OutcomeOf
  <2>4. Abstract!Init
    BY <2>3 DEF Abstract!Init, stateBar, callsBar, outcomeBar
  <2>5. QED
    BY <2>1, <2>4, InitialInv
<1>2. IInv /\ IInv' /\ NoAnswerYet /\ [Next]_vars => NoAnswerYet'
  BY NoAnswerStep
<1>3. IInv /\ IInv' /\ NoAnswerYet /\ [Next]_vars => [Abstract!Next]_(Abstract!vars)
  BY StepImplements
<1>4. QED
  BY <1>1, <1>2, <1>3, Inductive, PTL DEF Spec, ImplementsAnalysis, Abstract!Spec

=============================================================================
