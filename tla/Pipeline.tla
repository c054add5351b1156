------------------------------ MODULE Pipeline ------------------------------
(***************************************************************************)
(* The analyses that run in one process of ai_module: each comes from the  *)
(* queue or from POST /analyze (api/routes/analyze.py), preprocesses its   *)
(* file, asks the model (LLM) for a report up to LLM_MAX_RETRIES times and *)
(* ends in an answer, a report or an error code (core/pipeline.py, main.py *)
(* and the except clauses of worker/consumer.py).                          *)
(*                                                                         *)
(* An analysis gives up control only where it awaits the LLM, and between  *)
(* an exception and its handler; all analyses share core/metrics.py.       *)
(*                                                                         *)
(* The texts are abstracted to what tells them apart: a reply of the LLM   *)
(* is named by the attempt that received it, and a prompt by the reply it  *)
(* quotes.                                                                 *)
(***************************************************************************)
EXTENDS Integers, Sequences, FiniteSets

CONSTANTS
    Analyses,   \* the analyses
    Queued,     \* those that come from the queue; the others come by HTTP
    MaxRetries, \* LLM_MAX_RETRIES: the number of attempts
    Files       \* the files that may be sent

\* What preprocess() tells apart: the size, the magic bytes, and whether the
\* content can be decoded, rendered and opened as one picture (which of its pages
\* and of their sizes that takes is told by FactsOf of Preprocessor).  An empty file
\* has no known magic.
File == [oversized : BOOLEAN, magic : {"png", "jpeg", "pdf", "other"}, readable : BOOLEAN]

ASSUME AnalysesAssumption == IsFiniteSet(Analyses) /\ Queued \subseteq Analyses
ASSUME RetriesAssumption == MaxRetries \in Nat
ASSUME FilesAssumption == Files \subseteq File

VARIABLES
    run,      \* the state of each analysis: its local variables
    replies,  \* what each call of the LLM came to, in order
    metrics   \* the request counters of core/metrics.py

vars == <<run, replies, metrics>>

-----------------------------------------------------------------------------
(* Data.                                                                   *)

\* What a call of the LLM may come to.  "invalid" is what validation rejects
\* with a ValueError; "alien" is JSON that normalisation cannot walk through,
\* such as a list, or an object whose risks are null.
Replies == {"valid", "invalid", "alien", "error", "timeout"}

Exceptions == { "UnsupportedFormatError", "InvalidInputError", "AIFailureError",
                "AITimeoutError", "Exception" }

ErrorCodes == { "UNSUPPORTED_FORMAT", "INVALID_INPUT", "AI_FAILURE", "AI_TIMEOUT",
                "INTERNAL_ERROR" }

Attempts == 0 .. MaxRetries

\* The variables of run_pipeline() and _step_retry_loop().  An attempt's number
\* stands for the text it received; 0 stands for "" or for the user prompt.
Run == [ phase     : {"idle", "calling", "raised", "returned", "cancelled", "done"},
         attempt   : Attempts,
         prompt    : Attempts,   \* current_prompt: the reply it corrects
         lastRaw   : Attempts,   \* last_raw, and last_error with it
         timedOut  : BOOLEAN,    \* last_was_timeout
         report    : Attempts,   \* the reply the report was made from
         exception : Exceptions \cup {"none"},
         answer    : ErrorCodes \cup {"none", "success"} ]

Init ==
    /\ run = [a \in Analyses |->
                [phase |-> "idle", attempt |-> 0, prompt |-> 0, lastRaw |-> 0,
                 timedOut |-> FALSE, report |-> 0, exception |-> "none", answer |-> "none"]]
    /\ replies = [a \in Analyses |-> <<>>]
    /\ metrics = [success |-> 0, error |-> 0, retries |-> 0]

-----------------------------------------------------------------------------
(* From the file to the first call of the LLM.                             *)

\* preprocess(): size, type, content, in this order.
Preprocess(file) ==
    IF file.oversized THEN "InvalidInputError"
    ELSE IF file.magic = "other" THEN "UnsupportedFormatError"
    ELSE IF ~file.readable THEN "InvalidInputError"
    ELSE "none"

Raise(r, exception) == [r EXCEPT !.phase = "raised", !.exception = exception]

\* Mutant of NextAttempt: one attempt too many.
NextAttemptOneMore(r) ==
    IF r.attempt <= MaxRetries
    THEN [r EXCEPT !.phase = "calling",
                   !.attempt = @ + 1,
                   !.prompt = IF r.lastRaw # 0 THEN r.lastRaw ELSE @]
    ELSE Raise(r, IF r.timedOut THEN "AITimeoutError" ELSE "AIFailureError")

\* _step_retry_loop(): round the loop, with a prompt that quotes the last
\* invalid reply if there was one, or out of it.
NextAttempt(r) ==
    IF r.attempt < MaxRetries
    THEN [r EXCEPT !.phase = "calling",
                   !.attempt = @ + 1,
                   !.prompt = IF r.lastRaw # 0 THEN r.lastRaw ELSE @]
    ELSE Raise(r, IF r.timedOut THEN "AITimeoutError" ELSE "AIFailureError")

\* Running out of attempts counts as an error.
Continue(a, r) ==
    /\ run' = [run EXCEPT ![a] = NextAttempt(r)]
    /\ metrics' = IF r.attempt < MaxRetries THEN metrics
                                            ELSE [metrics EXCEPT !.error = @ + 1]

\* get_llm_adapter() raises: the client of the provider refuses its settings.
AdapterRaises(a) ==
    /\ run[a].phase = "idle"
    /\ run' = [run EXCEPT ![a] = Raise(@, "Exception")]
    /\ UNCHANGED <<replies, metrics>>

Reject(a, file) ==
    /\ run[a].phase = "idle"
    /\ Preprocess(file) # "none"
    /\ run' = [run EXCEPT ![a] = Raise(@, Preprocess(file))]
    /\ UNCHANGED <<replies, metrics>>

\* No await comes between the arrival of the file and the first call.
Start(a, file) ==
    /\ run[a].phase = "idle"
    /\ Preprocess(file) = "none"
    /\ Continue(a, run[a])
    /\ UNCHANGED replies

-----------------------------------------------------------------------------
(* The replies of the LLM.                                                 *)

Receive(a, reply) ==
    /\ run[a].phase = "calling"
    /\ replies' = [replies EXCEPT ![a] = Append(@, reply)]

\* asyncio.wait_for() gives up.
CallTimesOut(a) ==
    /\ Receive(a, "timeout")
    /\ Continue(a, [run[a] EXCEPT !.timedOut = TRUE])

\* The provider fails, or returns nothing.
CallFails(a) ==
    /\ Receive(a, "error")
    /\ Continue(a, run[a])

\* Mutant of ReplyInvalid: last_raw keeps the first invalid reply.
ReplyInvalidKeepsFirst(a) ==
    /\ Receive(a, "invalid")
    /\ Continue(a, IF run[a].lastRaw = 0
                   THEN [run[a] EXCEPT !.lastRaw = run[a].attempt]
                   ELSE run[a])

\* The reply is not JSON or violates the schema.
ReplyInvalid(a) ==
    /\ Receive(a, "invalid")
    /\ Continue(a, [run[a] EXCEPT !.lastRaw = run[a].attempt])

\* Mutant of ReplyAlien: blames the LLM, with attempts left.
ReplyAlienBlamesLLM(a) ==
    /\ Receive(a, "alien")
    /\ run' = [run EXCEPT ![a] = Raise(@, "AIFailureError")]
    /\ UNCHANGED metrics

\* Normalisation raises an AttributeError or a TypeError, which the loop does
\* not catch.
ReplyAlien(a) ==
    /\ Receive(a, "alien")
    /\ run' = [run EXCEPT ![a] = Raise(@, "Exception")]
    /\ UNCHANGED metrics

\* Mutant of ReplyValid: counts the first attempt as a retry.
ReplyValidCountsFirst(a) ==
    /\ Receive(a, "valid")
    /\ run' = [run EXCEPT ![a].phase = "returned", ![a].report = run[a].attempt]
    /\ metrics' = [metrics EXCEPT !.success = @ + 1,
                                  !.retries = @ + run[a].attempt]

\* The report is made, and run_pipeline() returns.
ReplyValid(a) ==
    /\ Receive(a, "valid")
    /\ run' = [run EXCEPT ![a].phase = "returned", ![a].report = run[a].attempt]
    /\ metrics' = [metrics EXCEPT !.success = @ + 1,
                                  !.retries = @ + (run[a].attempt - 1)]

\* The task that awaits is cancelled: the channel of its delivery is gone, or
\* the server stops.  No clause catches a CancelledError.
Cancel(a) ==
    /\ run[a].phase = "calling"
    /\ run' = [run EXCEPT ![a].phase = "cancelled"]
    /\ UNCHANGED <<replies, metrics>>

-----------------------------------------------------------------------------
(* The answer.                                                             *)

Answer(a, answer) == run' = [run EXCEPT ![a].phase = "done", ![a].answer = answer]

AnswerReport(a) ==
    /\ run[a].phase = "returned"
    /\ Answer(a, "success")
    /\ UNCHANGED <<replies, metrics>>

\* The exception handlers of main.py.
HttpCode(exception) ==
    CASE exception = "UnsupportedFormatError" -> "UNSUPPORTED_FORMAT"
      [] exception = "InvalidInputError"      -> "INVALID_INPUT"
      [] exception = "AIFailureError"         -> "AI_FAILURE"
      [] exception = "AITimeoutError"         -> "AI_TIMEOUT"
      [] OTHER                                -> "INTERNAL_ERROR"

HttpError(a) ==
    /\ run[a].phase = "raised"
    /\ a \notin Queued
    /\ Answer(a, HttpCode(run[a].exception))
    /\ metrics' = [metrics EXCEPT !.error = @ + 1]
    /\ UNCHANGED replies

\* Mutant of QueueCode: no clause for AITimeoutError.
QueueCodeWithoutTimeout(exception) ==
    CASE exception = "InvalidInputError"      -> "INVALID_INPUT"
      [] exception = "UnsupportedFormatError" -> "UNSUPPORTED_FORMAT"
      [] exception = "AIFailureError"         -> "AI_FAILURE"
      [] OTHER                                -> "INTERNAL_ERROR"

\* The except clauses of MessageConsumer._handle_message.
QueueCode(exception) ==
    CASE exception = "InvalidInputError"      -> "INVALID_INPUT"
      [] exception = "UnsupportedFormatError" -> "UNSUPPORTED_FORMAT"
      [] exception = "AITimeoutError"         -> "AI_TIMEOUT"
      [] exception = "AIFailureError"         -> "AI_FAILURE"
      [] OTHER                                -> "INTERNAL_ERROR"

\* Mutant of QueueError: no clause catches the other exceptions.
QueueErrorWithoutCatchAll(a) ==
    /\ run[a].phase = "raised"
    /\ a \in Queued
    /\ run[a].exception # "Exception"
    /\ Answer(a, QueueCode(run[a].exception))
    /\ UNCHANGED <<replies, metrics>>

QueueError(a) ==
    /\ run[a].phase = "raised"
    /\ a \in Queued
    /\ Answer(a, QueueCode(run[a].exception))
    /\ UNCHANGED <<replies, metrics>>

-----------------------------------------------------------------------------
Called(a) == \/ CallTimesOut(a)
             \/ CallFails(a)
             \/ ReplyInvalid(a)
             \/ ReplyAlien(a)
             \/ ReplyValid(a)

Answered(a) == AnswerReport(a) \/ HttpError(a) \/ QueueError(a)

Next == \E a \in Analyses :
            \/ AdapterRaises(a)
            \/ \E file \in Files : Reject(a, file) \/ Start(a, file)
            \/ Called(a)
            \/ Cancel(a)
            \/ Answered(a)

Spec == Init /\ [][Next]_vars

\* A call comes to an end, since asyncio.wait_for() bounds it, and the event
\* loop runs what can run.  Nobody promises that analyses arrive.
Fairness == \A a \in Analyses : WF_vars(Called(a)) /\ WF_vars(Answered(a))

FairSpec == Spec /\ Fairness

-----------------------------------------------------------------------------
(* Properties.                                                             *)

\* The shape of the state.
TypeOK ==
    /\ run \in [Analyses -> Run]
    /\ replies \in [Analyses -> Seq(Replies)]
    /\ metrics \in [success : Nat, error : Nat, retries : Nat]

Got(a, kind) == \E i \in DOMAIN replies[a] : replies[a][i] = kind

\* While the LLM is called, its prompt asks to correct the latest invalid
\* reply of this analysis, also when timeouts and failed calls came between,
\* and is the user prompt as long as there was none (_step_retry_loop).
PromptQuotesLatestInvalid ==
    \A a \in Analyses : run[a].phase = "calling" =>
        IF Got(a, "invalid")
        THEN /\ run[a].prompt \in DOMAIN replies[a]
             /\ replies[a][run[a].prompt] = "invalid"
             /\ \A i \in DOMAIN replies[a] :
                   i > run[a].prompt => replies[a][i] # "invalid"
        ELSE run[a].prompt = 0

Exhausted(a) == /\ Len(replies[a]) = MaxRetries
                /\ ~Got(a, "valid")
                /\ ~Got(a, "alien")

\* The answer follows from what the calls came to, the same way for the queue
\* and for HTTP: a report is made from the first valid reply and from no
\* other, and a failure is blamed on the LLM only after every attempt was used
\* (run_pipeline, the handlers of main.py, the except clauses of consumer.py).
AnswerFollowsReplies ==
    \A a \in Analyses : run[a].phase = "done" =>
        LET r == run[a] IN
        /\ r.answer = "success" <=> Got(a, "valid")
        /\ r.answer = "success" =>
              /\ r.report = Len(replies[a])
              /\ \A i \in 1 .. r.report : replies[a][i] = "valid" <=> i = r.report
        /\ r.answer = "AI_TIMEOUT" => Exhausted(a) /\ Got(a, "timeout")
        /\ r.answer = "AI_FAILURE" => Exhausted(a) /\ ~Got(a, "timeout")
        /\ r.answer \in {"UNSUPPORTED_FORMAT", "INVALID_INPUT"} => replies[a] = <<>>
        /\ r.answer = "INTERNAL_ERROR" => replies[a] = <<>> \/ Got(a, "alien")

Succeeded == {a \in Analyses : Got(a, "valid")}

\* The calls that came before a valid reply.
EarlierCalls == UNION {{a} \X (1 .. Len(replies[a]) - 1) : a \in Succeeded}

\* The counters of the analyses that share the process add up: one success for
\* each report, and as many retries as those analyses had calls before their
\* valid reply; no interleaving of analyses loses or doubles a count
\* (run_pipeline).
SuccessesAddUp ==
    /\ metrics.success = Cardinality(Succeeded)
    /\ metrics.retries = Cardinality(EarlierCalls)

\* An analysis that began ends, in an answer or cancelled, whatever the LLM
\* does (spec.md PER-004: retry behaviour must be bounded).
AnalysisEnds ==
    \A a \in Analyses :
        run[a].phase \in {"calling", "raised", "returned"}
            ~> run[a].phase \in {"done", "cancelled"}

\* What _step_validate and spec.md ERR-003 say: a reply that violates the
\* schema leads to another attempt, as long as there is one.
InvalidRepliesAreRetried ==
    \A a \in Analyses :
        run[a].phase \in {"raised", "done"} /\ Got(a, "alien") =>
            Len(replies[a]) = MaxRetries

\* What api/routes/metrics.py:32 says of ai_requests_total: it is the total of the
\* analysis requests, so it cannot exceed them.
RequestsCountedOnce == metrics.success + metrics.error <= Cardinality(Analyses)

=============================================================================
