------------------------------ MODULE Contents ------------------------------
(***************************************************************************)
(* What becomes of the contents of one request on its way: the message or  *)
(* form is accepted (Intake), its file is made a picture (Preprocessor),   *)
(* the replies of the LLM are made a report or the next prompt (Report),   *)
(* and the report is completed.  Module Pipeline has the control of the    *)
(* same way, with its retries, failures and counters; the last property    *)
(* ties the decisions of the two together.                                 *)
(*                                                                         *)
(* Each step forgets what the step before it was given.                    *)
(***************************************************************************)
EXTENDS Intake, Preprocessor, Report

CONSTANTS
    Arrivals,   \* the messages, or forms, that may arrive
    Uploads,    \* the files
    LLMReplies, \* the replies of the LLM: their lines, and the JSON in them
    Contexts    \* the contexts of the requests

ASSUME ArrivalsAssumption == Arrivals \subseteq Message

\* What is no document has one picture at most.
ASSUME UploadsAssumption ==
    Uploads \subseteq {file \in FileType : file.magic # "pdf" => Len(file.leaves) <= 1}

ASSUME RepliesAssumption == LLMReplies \subseteq [text : Seq(Lines), doc : Document]

VARIABLES
    stage,  \* how far the request has come
    given,  \* what the last step was given
    made,   \* what it made of it
    prompt  \* the prompt of the call that is under way

vars == <<stage, given, made, prompt>>

Nothing == [kind |-> "nothing"]

Init == /\ stage = "waiting"
        /\ given = Nothing
        /\ made = Nothing
        /\ prompt = Nothing

Judge(m, verdict) ==
    /\ given' = m
    /\ made' = [kind |-> "verdict", of |-> verdict]
    /\ stage' = IF verdict = "accepted" THEN "accepted" ELSE "refused"
    /\ UNCHANGED prompt

\* A message of the queue: steps 1 to 3 of _handle_message.
ReceiveMessage == /\ stage = "waiting"
                  /\ \E m \in Arrivals : Judge(m, QueueVerdict(m))

\* A form of POST /analyze.
ReceiveForm == /\ stage = "waiting"
               /\ \E m \in Arrivals : IsForm(m) /\ Judge(m, FormVerdict(m))

\* _step_preprocess
Open ==
    /\ stage = "accepted"
    /\ \E file \in Uploads :
          /\ given' = file
          /\ made' = PreprocessFile(file)
    /\ stage' = IF made'.error = "none" THEN "opened" ELSE "unreadable"
    /\ UNCHANGED prompt

\* _step_build_prompts, or the prompt that asks to correct an invalid reply.
BuildPrompt ==
    /\ \/ stage = "opened" /\ prompt' = UserPrompt
       \/ stage = "invalid" /\ prompt' = CorrectionPrompt(made.words)
    /\ stage' = "calling"
    /\ given' = Nothing
    /\ made' = Nothing

\* _step_validate: the message of its ValueError has the words of the errors
\* and some of those that an error may quote.
Reply ==
    /\ stage = "calling"
    /\ \E reply \in LLMReplies :
          LET result == ValidateAndNormalize(reply.text, reply.doc)
          IN  /\ given' = reply
              /\ \/ /\ result.kind = "report"
                    /\ made' = result
                    /\ stage' = "reported"
                 \/ /\ result.kind = "alien"
                    /\ made' = result
                    /\ stage' = "failed"
                 \/ /\ result.kind = "invalid"
                    /\ \E quoted \in SUBSET Quotable(reply.text, reply.doc) :
                          made' = [kind |-> "invalid", words |-> result.errors \cup quoted]
                    /\ stage' = "invalid"
    /\ prompt' = Nothing

\* _apply_semantic_guardrails, _detect_conflict and _build_response.
Complete ==
    /\ stage = "reported"
    /\ \E context \in Contexts :
          /\ given' = [context |-> context, doc |-> given.doc]
          /\ made' = [ kind     |-> "answer",
                       report   |-> ApplySemanticGuardrails(made.report),
                       conflict |-> DetectConflict(context,
                                        ApplySemanticGuardrails(made.report)) ]
    /\ stage' = "answered"
    /\ UNCHANGED prompt

Next == ReceiveMessage \/ ReceiveForm \/ Open \/ BuildPrompt \/ Reply \/ Complete

Spec == Init /\ [][Next]_vars

-----------------------------------------------------------------------------
(* Properties.                                                             *)

IsVerdict == stage \in {"accepted", "refused"}

\* A message that was accepted can be decoded, and answered under its own
\* identifier (models/queue.py).
AcceptedRequestsAreUsable == IsVerdict => AcceptedIsUsable(given)

\* The two flows validate a request twice, in two places, with limits of their own
\* (models/queue.py, api/routes/analyze.py).  They differ in the whitespace around
\* fields, in unknown fields, in names and encodings of files, and in nothing else.
FlowsDifferAsKnown == IsVerdict => DifferAsKnown(given)

\* The LLM gets to see the first pages of the document, all of each, in order
\* (preprocessor.py _pdf_to_image; spec.md PER-003).
PagesAreShown == stage = "opened" => ShowsThePages(given, made)

\* It sees them as large as the limit allows and undistorted, and the answer
\* says if they were reduced (preprocessor.py _normalize_image; spec.md PER-002).
PicturesFit == stage = "opened" => FitsAndTells(made)

\* The abstraction of preprocess() on which module Pipeline rests: three facts
\* about a file decide which exception it raises.
P == INSTANCE Pipeline
        WITH Analyses <- {}, Queued <- {}, MaxRetries <- 0, Files <- {},
             run <- <<>>, replies <- <<>>, metrics <- <<>>

PipelineAbstractsFiles ==
    stage \in {"opened", "unreadable"} => made.error = P!Preprocess(FactsOf(given))

\* Whatever the order in which the reply is stripped, parsed, normalised, cut
\* and validated: it becomes a report exactly if nothing in it is beyond repair
\* (report_validator.py validate_and_normalize; spec.md DAT-003 to DAT-005).
RepairableIsAccepted ==
    stage \in {"reported", "invalid", "failed"} =>
        (stage = "reported" <=> Repairable(given.text, given.doc))

\* Every answer has a report that keeps the contract, references of its risks
\* included (models/report.py, pipeline.py _apply_semantic_guardrails).
ReportsMeetContract == stage = "answered" => MeetsContract(made.report)

\* Repair takes nothing away and changes nothing that was right, and a repaired
\* report needs no further repair (report_validator.py, pipeline.py).
RepairsAreFaithful == stage = "answered" => RepairIsFaithful(given.doc, made.report)

Corrects == stage = "invalid" /\ stage' = "calling"

\* Whatever else is wrong with a reply, and whatever its error message quotes: a reply
\* that is not JSON is told so, and no other is; one without components is told that;
\* and one that has any defect with an instruction of its own gets one of these, never
\* the general one (exceptions.py classify_validation_error, on the messages that
\* report_validator.py composes).
DefectsAreAddressed ==
    [][Corrects =>
          LET instruction == prompt'.instruction
              defects == {part \in Parts : Defective(part, given.text, given.doc)}
          IN  /\ instruction = "notJson" <=> "notJson" \in defects
              /\ "components" \in defects /\ "notJson" \notin defects
                    => instruction = "components"
              /\ defects # {} => instruction \in Parts
              /\ instruction # "fix"]_vars

\* What classify_validation_error says of its instructions: they let the LLM
\* correct the specific problem (exceptions.py:112), so the problem that an
\* instruction names is one of the reply.
InstructionFitsDefect ==
    [][Corrects => Defective(prompt'.instruction, given.text, given.doc)]_vars

=============================================================================
