------------------------ MODULE PipelineAbstraction ------------------------
(***************************************************************************)
(* The analyses of Pipeline as implementations of Analysis: the prompts,   *)
(* the retries, the exceptions and the counters are invisible; the replies *)
(* are the calls, and the answers fall into four kinds.                    *)
(***************************************************************************)
EXTENDS Pipeline

StateOf(phase) == CASE phase = "idle"                              -> "new"
                    [] phase \in {"calling", "raised", "returned"} -> "working"
                    [] phase = "done"                              -> "answered"
                    [] phase = "cancelled"                         -> "cancelled"

OutcomeOf(answer) ==
    CASE answer = "none"                                   -> "none"
      [] answer = "success"                                -> "report"
      [] answer \in {"UNSUPPORTED_FORMAT", "INVALID_INPUT"} -> "inputRefused"
      [] answer \in {"AI_FAILURE", "AI_TIMEOUT"}            -> "llmBlamed"
      [] answer = "INTERNAL_ERROR"                         -> "internal"

stateBar == [a \in Analyses |-> StateOf(run[a].phase)]

callsBar == [a \in Analyses |-> Len(replies[a])]

outcomeBar == [a \in Analyses |-> OutcomeOf(run[a].answer)]

Abstract == INSTANCE Analysis
                WITH MaxCalls <- MaxRetries,
                     state <- stateBar, calls <- callsBar, outcome <- outcomeBar

\* Every analysis, of either flow, keeps the promise of Analysis: at most
\* MaxRetries calls, one answer that its calls justify and that never changes,
\* and no call after it (core/pipeline.py, main.py and the except clauses of
\* worker/consumer.py).
ImplementsAnalysis == Abstract!Spec

=============================================================================
