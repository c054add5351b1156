------------------------------- MODULE Report -------------------------------
(***************************************************************************)
(* From a reply of the LLM to a report or to the next prompt: parsing,     *)
(* normalisation, truncation and validation (core/report_validator.py,     *)
(* models/report.py), the semantic guardrails and the conflict heuristic   *)
(* (core/pipeline.py), the classification of what was wrong                *)
(* (core/exceptions.py) and the prompts (core/prompt_builder.py).          *)
(*                                                                         *)
(* A text is abstracted to its length where only that matters, and JSON to *)
(* what normalisation and the schema tell apart.                           *)
(***************************************************************************)
EXTENDS Integers, Sequences, FiniteSets

CONSTANTS
    Names,          \* the names that components may have
    SummaryMax,     \* max_length of SummaryStr: 500
    ConflictWords,  \* a context of more words than this is expected to match: 5
    Guardrail       \* ENABLE_CONFLICT_GUARDRAIL

ASSUME LengthsAssumption == /\ SummaryMax \in Nat \ {0}
                            /\ ConflictWords \in Nat
                            /\ Guardrail \in BOOLEAN

-----------------------------------------------------------------------------
(* Replies.                                                                *)

\* The lines of a reply: a fence, a fence with a language, a line of prose, and
\* the JSON document, which counts as one line.
Lines == {"fence", "taggedFence", "prose", "json"}

Types == {"service", "database", "queue", "gateway", "cache", "external", "unknown"}
Levels == {"high", "medium", "low"}

\* What the field of an enumeration may hold instead of one of its values.
NotListed == {"absent", "unlisted", "nonText"}

\* An element of a section.  rest: whether its other fields are there, within
\* their lengths, and no more; in a risk, whether affected_components is a list
\* of texts.
Item == [ object : BOOLEAN,
          name   : Names,
          enum   : Types \cup Levels \cup NotListed,
          rest   : {"complete", "incomplete", "badRefs"},
          refs   : Seq(Names) ]

\* "null" stands for what cannot be iterated, "text" for what can and is no list.
Section == [kind : {"absent", "null", "text", "list"}, items : Seq(Item)]

Document == [ object : BOOLEAN, extra : BOOLEAN,
              summary : [kind : {"absent", "text", "other"}, length : Nat],
              components : Section, risks : Section, recommendations : Section ]

-----------------------------------------------------------------------------
(* Parsing.                                                                *)

StartsWithFence(text) == text # <<>> /\ Head(text) \in {"fence", "taggedFence"}

\* Mutant of StripMarkdownFences: takes the last line away unseen.
StripMarkdownFencesBoth(text) ==
    IF ~StartsWithFence(text) THEN text ELSE SubSeq(text, 2, Len(text) - 1)

\* The first line goes, and the last one if it is a closing fence.
StripMarkdownFences(text) ==
    IF ~StartsWithFence(text) THEN text
    ELSE IF text[Len(text)] = "fence" THEN SubSeq(text, 2, Len(text) - 1)
    ELSE Tail(text)

Parses(text) == StripMarkdownFences(text) = <<"json">>

-----------------------------------------------------------------------------
(* Normalisation and truncation.                                           *)

\* An absent field gets the fallback, as one with an unlisted text does.
NormalizeEnum(value, listed, fallback) ==
    IF value = "nonText" \/ value \in listed THEN value ELSE fallback

NormalizeSection(section, listed, fallback) ==
    LET Normalize(item) ==
            IF item.object THEN [item EXCEPT !.enum = NormalizeEnum(@, listed, fallback)]
                           ELSE item
    IN  IF section.kind = "list"
        THEN [section EXCEPT !.items = [i \in DOMAIN @ |-> Normalize(@[i])]]
        ELSE section

Sections(doc) == {doc.components, doc.risks, doc.recommendations}

\* .get() on what is no object, iteration over what is null: an AttributeError
\* or a TypeError.
NormalizationRaises(doc) == ~doc.object \/ \E s \in Sections(doc) : s.kind = "null"

NormalizeRaw(doc) ==
    [doc EXCEPT !.components = NormalizeSection(@, Types, "unknown"),
                !.risks = NormalizeSection(@, Levels, "medium"),
                !.recommendations = NormalizeSection(@, Levels, "medium")]

TooLong(doc) == doc.summary.kind = "text" /\ doc.summary.length > SummaryMax

TruncateSummary(doc) ==
    IF TooLong(doc) THEN [doc EXCEPT !.summary.length = SummaryMax] ELSE doc

-----------------------------------------------------------------------------
(* The schema: the words that the places of its errors consist of.         *)

ItemErrors(item, listed, section, field) ==
    IF ~item.object THEN {section}
    ELSE UNION { IF item.enum \in listed THEN {} ELSE {section, field},
                 IF item.rest = "incomplete" THEN {section} ELSE {},
                 IF item.rest = "badRefs" THEN {section, "affected_components"} ELSE {} }

SectionErrors(s, listed, section, field) ==
    CASE s.kind = "list"   -> UNION {ItemErrors(s.items[i], listed, section, field) :
                                        i \in DOMAIN s.items}
      [] s.kind = "absent" -> {}
      [] OTHER             -> {section}

SummaryErrors(summary) ==
    IF summary.kind = "text" /\ summary.length \in 1 .. SummaryMax THEN {} ELSE {"summary"}

\* Report.model_validate
SchemaErrors(doc) ==
    UNION { SummaryErrors(doc.summary),
            SectionErrors(doc.components, Types, "components", "type"),
            IF doc.components.kind = "absent" \/ doc.components.items = <<>>
                THEN {"components"} ELSE {},
            SectionErrors(doc.risks, Levels, "risks", "severity"),
            SectionErrors(doc.recommendations, Levels, "recommendations", "priority"),
            IF doc.extra THEN {"extra"} ELSE {} }

\* An error about a missing field quotes the object it is missing from, cut in
\* the middle: the message may show these words besides.
Quotable(text, doc) ==
    IF ~Parses(text) THEN {} ELSE
    (IF doc.summary.kind = "absent" THEN {"components", "risks", "recommendations"} ELSE {})
    \cup
    (IF \E i \in DOMAIN doc.risks.items : doc.risks.items[i].rest = "incomplete"
     THEN {"severity", "affected_components"} ELSE {})
    \cup
    (IF \E i \in DOMAIN doc.recommendations.items :
            doc.recommendations.items[i].rest = "incomplete"
     THEN {"priority"} ELSE {})

ItemsOf(section) == IF section.kind = "list" THEN section.items ELSE <<>>

MakeReport(doc) ==
    [ summary |-> doc.summary.length, components |-> ItemsOf(doc.components),
      risks |-> ItemsOf(doc.risks), recommendations |-> ItemsOf(doc.recommendations) ]

\* validate_and_normalize: a report with its flag, the words of the message of
\* a ValueError, or another exception.
ValidateAndNormalize(text, doc) ==
    IF ~Parses(text) THEN [kind |-> "invalid", errors |-> {"JSON_PARSE_ERROR"}]
    ELSE IF NormalizationRaises(doc) THEN [kind |-> "alien"]
    ELSE LET repaired == TruncateSummary(NormalizeRaw(doc))
             errors   == SchemaErrors(repaired)
         IN  IF errors # {} THEN [kind |-> "invalid", errors |-> errors \cup {"SCHEMA_ERROR"}]
             ELSE [ kind |-> "report", report |-> MakeReport(repaired),
                    truncated |-> TooLong(doc) ]

-----------------------------------------------------------------------------
(* After the report.                                                       *)

ComponentNames(report) == {report.components[i].name : i \in DOMAIN report.components}

\* The names of a list that belong to a set, in their order.
KeepOnly(list, names) ==
    LET kept[i \in 0 .. Len(list)] ==
            IF i = 0 THEN <<>>
            ELSE IF list[i] \in names THEN Append(kept[i - 1], list[i])
            ELSE kept[i - 1]
    IN kept[Len(list)]

\* A risk without its references to other names.
KeepKnown(risk, names) == [risk EXCEPT !.refs = KeepOnly(@, names)]

\* Mutant of ApplySemanticGuardrails: one known reference saves the unknown ones.
ApplySemanticGuardrailsLeniently(report) ==
    LET known(risk) == \E k \in DOMAIN risk.refs : risk.refs[k] \in ComponentNames(report)
    IN  [report EXCEPT !.risks =
            [i \in DOMAIN @ |-> IF known(@[i]) THEN @[i] ELSE KeepKnown(@[i], {})]]

\* Mutant of ApplySemanticGuardrails: a risk with one unknown reference loses all.
ApplySemanticGuardrailsRashly(report) ==
    LET known(risk) == \A k \in DOMAIN risk.refs : risk.refs[k] \in ComponentNames(report)
    IN  [report EXCEPT !.risks =
            [i \in DOMAIN @ |-> IF known(@[i]) THEN @[i] ELSE KeepKnown(@[i], {})]]

\* References to components that the report does not have are removed.
ApplySemanticGuardrails(report) ==
    [report EXCEPT !.risks =
        [i \in DOMAIN @ |-> KeepKnown(@[i], ComponentNames(report))]]

\* A context is the number of its words and the names that occur in it; one
\* without words was not given, or is blank.
Context == [words : Nat, mentions : SUBSET Names]

DetectConflict(context, report) ==
    /\ Guardrail
    /\ context.words > ConflictWords
    /\ ComponentNames(report) # {}
    /\ ComponentNames(report) \cap context.mentions = {}

-----------------------------------------------------------------------------
(* The next prompt.                                                        *)

\* Mutant of ClassifyValidationError: looks for the prefix first.
ClassifyValidationErrorPrefixFirst(words) ==
    IF "JSON_PARSE_ERROR" \in words THEN "notJson"
    ELSE IF "SCHEMA_ERROR" \in words THEN "schema"
    ELSE "fix"

\* The first word that the message contains; affected_components contains
\* components.
ClassifyValidationError(words) ==
    IF "JSON_PARSE_ERROR" \in words THEN "notJson"
    ELSE IF words \cap {"components", "affected_components"} # {} THEN "components"
    ELSE IF "summary" \in words THEN "summary"
    ELSE IF "severity" \in words THEN "severity"
    ELSE IF "priority" \in words THEN "priority"
    ELSE IF "SCHEMA_ERROR" \in words THEN "schema"
    ELSE "fix"

\* build_user_prompt isolates the context of the request in the prompt;
\* build_correction_prompt has the instruction and the beginning of the reply.
UserPrompt == [context |-> TRUE, instruction |-> "none"]

CorrectionPrompt(words) ==
    [context |-> FALSE, instruction |-> ClassifyValidationError(words)]

-----------------------------------------------------------------------------
(* What is expected of a reply and of what becomes of it.                  *)

\* An element that can be made part of a report: its field of an enumeration is
\* right, or absent, or a text that is not listed.
Usable(item) == item.object /\ item.enum # "nonText" /\ item.rest = "complete"

UsableSection(s) ==
    s.kind = "absent" \/ (s.kind = "list" /\ \A i \in DOMAIN s.items : Usable(s.items[i]))

\* One JSON document, bare or in one fence that may lack its end.
OneDocument == {<<"json">>} \cup
               {<<open, "json">> \o close : open \in {"fence", "taggedFence"},
                                           close \in {<<>>, <<"fence">>}}

\* One document, and in it all that a report needs (spec.md DAT-003 to DAT-005).
Repairable(text, doc) ==
    /\ text \in OneDocument
    /\ doc.object /\ ~doc.extra
    /\ doc.summary.kind = "text" /\ doc.summary.length > 0
    /\ \A s \in Sections(doc) : UsableSection(s)
    /\ doc.components.kind = "list" /\ doc.components.items # <<>>

\* The contract of a report (spec.md DAT-003 to DAT-005): its texts fit, there
\* is a component, every enumeration has a listed value, and the risks speak
\* of its components only.
MeetsContract(report) ==
    /\ report.summary \in 1 .. SummaryMax
    /\ report.components # <<>>
    /\ \A i \in DOMAIN report.components : report.components[i].enum \in Types
    /\ \A i \in DOMAIN report.recommendations : report.recommendations[i].enum \in Levels
    /\ \A i \in DOMAIN report.risks :
          /\ report.risks[i].enum \in Levels
          /\ \A k \in DOMAIN report.risks[i].refs :
                \E j \in DOMAIN report.components :
                    report.components[j].name = report.risks[i].refs[k]

\* The same element but for a field that was not allowed.
SameElement(before, after, listed) ==
    /\ before.enum \in listed => after.enum = before.enum
    /\ after = [before EXCEPT !.enum = after.enum]

SameElements(before, after, listed) ==
    /\ Len(before) = Len(after)
    /\ \A i \in DOMAIN after : SameElement(before[i], after[i], listed)

\* How many of the first n entries of a list belong to a set.
CountOf(list, names, n) == Cardinality({j \in 1 .. n : list[j] \in names})

\* What remains of a list is its entries of a set, each of them, in their order.
Remaining(after, before, names) ==
    /\ Len(after) = CountOf(before, names, Len(before))
    /\ \A j \in DOMAIN before :
          before[j] \in names => after[CountOf(before, names, j)] = before[j]

\* The same risks, with the same references to components of the report.
SameRisks(before, after, names) ==
    /\ SameElements(before, [i \in DOMAIN after |-> [after[i] EXCEPT !.refs = before[i].refs]],
                    Levels)
    /\ \A i \in DOMAIN after : Remaining(after[i].refs, before[i].refs, names)

\* The reply that says what the report says.
Restated(report) ==
    LET list(items) == [kind |-> "list", items |-> items]
    IN  [ object |-> TRUE, extra |-> FALSE,
          summary |-> [kind |-> "text", length |-> report.summary],
          components |-> list(report.components), risks |-> list(report.risks),
          recommendations |-> list(report.recommendations) ]

\* Repair drops no element and no right reference, changes nothing that was right,
\* and is done: the report, sent as a reply, comes back as it is.
RepairIsFaithful(doc, report) ==
    /\ SameElements(ItemsOf(doc.components), report.components, Types)
    /\ SameRisks(ItemsOf(doc.risks), report.risks, ComponentNames(report))
    /\ SameElements(ItemsOf(doc.recommendations), report.recommendations, Levels)
    /\ doc.summary.length <= SummaryMax => report.summary = doc.summary.length
    /\ LET again == ValidateAndNormalize(<<"json">>, Restated(report))
       IN  /\ again.kind = "report"
           /\ ~again.truncated
           /\ ApplySemanticGuardrails(again.report) = report

\* What has an instruction of its own.
Parts == {"notJson", "components", "summary", "severity", "priority"}

\* An element with a value that normalisation does not replace.
HasNonText(section) ==
    section.kind = "list" /\ \E i \in DOMAIN section.items :
        section.items[i].object /\ section.items[i].enum = "nonText"

\* The part of a reply that an instruction names is wrong indeed: too long a summary
\* is none, since it is cut.
Defective(part, text, doc) ==
    CASE part = "notJson"    -> ~Parses(text)
      [] part = "components" -> doc.components.kind = "absent" \/ doc.components.items = <<>>
      [] part = "summary"    -> doc.summary.kind # "text" \/ doc.summary.length = 0
      [] part = "severity"   -> HasNonText(doc.risks)
      [] part = "priority"   -> HasNonText(doc.recommendations)
      [] OTHER               -> TRUE

=============================================================================
