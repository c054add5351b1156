------------------------------ MODULE Analysis ------------------------------
(***************************************************************************)
(* What an analysis promises to whoever asked for it, and nothing of how:  *)
(* it makes a bounded number of calls of the LLM and then gives one        *)
(* answer, for which its calls are the reason, unless it is cancelled.     *)
(* The analyses of module Pipeline implement this specification; that one  *)
(* which begins also ends is the property AnalysisEnds of that module.     *)
(***************************************************************************)
EXTENDS Integers

CONSTANTS Analyses, \* the analyses
          MaxCalls  \* how many calls of the LLM one may cost

VARIABLES state,    \* "new", "working", "answered" or "cancelled"
          calls,    \* the calls that came to an end
          outcome   \* the kind of the answer, "none" until there is one

vars == <<state, calls, outcome>>

Outcomes == {"report", "inputRefused", "llmBlamed", "internal"}

Init == /\ state = [a \in Analyses |-> "new"]
        /\ calls = [a \in Analyses |-> 0]
        /\ outcome = [a \in Analyses |-> "none"]

Begin(a) == /\ state[a] = "new"
            /\ state' = [state EXCEPT ![a] = "working"]
            /\ UNCHANGED <<calls, outcome>>

Call(a) == /\ state[a] = "working"
           /\ calls[a] < MaxCalls
           /\ calls' = [calls EXCEPT ![a] = @ + 1]
           /\ UNCHANGED <<state, outcome>>

\* A report takes a call, a file is refused before the first one, and the LLM
\* is blamed after the last one.
Justified(a, o) == CASE o = "report"       -> calls[a] > 0
                     [] o = "inputRefused" -> calls[a] = 0
                     [] o = "llmBlamed"    -> calls[a] = MaxCalls
                     [] o = "internal"     -> TRUE

Give(a) == /\ state[a] = "working"
           /\ state' = [state EXCEPT ![a] = "answered"]
           /\ \E o \in Outcomes : /\ Justified(a, o)
                                  /\ outcome' = [outcome EXCEPT ![a] = o]
           /\ UNCHANGED calls

Cancel(a) == /\ state[a] = "working"
             /\ state' = [state EXCEPT ![a] = "cancelled"]
             /\ UNCHANGED <<calls, outcome>>

Next == \E a \in Analyses : Begin(a) \/ Call(a) \/ Give(a) \/ Cancel(a)

Spec == Init /\ [][Next]_vars

=============================================================================
