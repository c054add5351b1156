------------------------------- MODULE Intake -------------------------------
(***************************************************************************)
(* What the two flows accept as a request, and what their answers are      *)
(* addressed with: the message models of models/queue.py, the form of      *)
(* api/routes/analyze.py and the response models of models/report.py.      *)
(*                                                                         *)
(* A text is abstracted to the length of what remains when the whitespace  *)
(* around it is stripped, and the whitespace around it; a text of          *)
(* whitespace only has length 0.                                           *)
(***************************************************************************)
EXTENDS Integers

CONSTANTS
    QueueContextMax,  \* the limit written into models/queue.py: 1000
    FormContextMax    \* CONTEXT_TEXT_MAX_LENGTH

ASSUME LimitsAssumption == QueueContextMax \in Nat /\ FormContextMax \in Nat

-----------------------------------------------------------------------------
(* Texts and requests.                                                     *)

Text == [kind : {"text"}, core : Nat, padding : Nat]

\* A field that is not there (or null), and one of another JSON type.
Absent == [kind |-> "absent"]
Mistyped == [kind |-> "mistyped"]

LengthOf(text) == text.core + text.padding

\* str_strip_whitespace: before any constraint on the length.
Strip(text) == [text EXCEPT !.padding = 0]

NonEmpty(field) == field.kind = "text" /\ LengthOf(field) > 0

\* The characters of a field that is to be base64; an empty one is valid.
Encodings == {"valid", "padded", "broken", "notAString", "absent"}

\* The body of a message: whether it is UTF-8 and JSON, whether it is an
\* object, its fields, and whether it has fields of its own.
Message == [ json : BOOLEAN, object : BOOLEAN, extra : BOOLEAN,
             analysisId : {Absent, Mistyped} \cup Text,
             fileName   : {Absent, Mistyped} \cup Text,
             context    : {Absent, Mistyped} \cup Text,
             file       : Encodings ]

-----------------------------------------------------------------------------
(* The queue.                                                              *)

\* Mutant of StripField: str_strip_whitespace is off.
StripFieldNot(field) == field

StripField(field) == IF field.kind = "text" THEN Strip(field) ELSE field

\* base64.b64decode(v, validate=True), which knows no whitespace.
Decodes(encoding) == encoding = "valid"

StripEncoding(encoding) == IF encoding = "padded" THEN "valid" ELSE encoding

ContextAllowed(field, limit) ==
    field.kind = "absent" \/ (field.kind = "text" /\ LengthOf(field) <= limit)

\* The fields of QueueAnalysisRequest, as they are validated and kept.
Kept(m) == [ analysisId |-> StripField(m.analysisId),
             fileName   |-> StripField(m.fileName),
             context    |-> StripField(m.context),
             file       |-> StripEncoding(m.file) ]

\* Mutant of SchemaAccepts: a context must be shorter than the limit.
SchemaAcceptsShorter(m) ==
    /\ m.object
    /\ ~m.extra
    /\ NonEmpty(Kept(m).analysisId)
    /\ NonEmpty(Kept(m).fileName)
    /\ Decodes(Kept(m).file)
    /\ ContextAllowed(Kept(m).context, QueueContextMax - 1)

\* QueueAnalysisRequest.model_validate
SchemaAccepts(m) ==
    /\ m.object
    /\ ~m.extra
    /\ NonEmpty(Kept(m).analysisId)
    /\ NonEmpty(Kept(m).fileName)
    /\ Decodes(Kept(m).file)
    /\ ContextAllowed(Kept(m).context, QueueContextMax)

\* Steps 1 to 3 of _handle_message: the step that rejects the message, or the
\* request that goes to the pipeline.
QueueVerdict(m) ==
    IF ~m.json THEN "malformedJson"
    ELSE IF ~SchemaAccepts(m) THEN "schemaInvalid"
    ELSE IF ~Decodes(Kept(m).file) THEN "decodeError"
    ELSE "accepted"

-----------------------------------------------------------------------------
(* HTTP.                                                                   *)

\* What arrives as a form: no field has another type than a text unless it is sent
\* as a file, and the one part that has a file name, be it an empty one, is the file.
IsForm(m) ==
    /\ m.json /\ m.object
    /\ m.fileName.kind # "mistyped"
    /\ m.fileName.kind = "text" <=> m.file \notin {"absent", "notAString"}

\* A field as the framework hands it over: an empty one counts as absent.
FormField(field) == IF field.kind = "text" /\ LengthOf(field) = 0 THEN Absent ELSE field

\* The signature of the route.  Nothing is stripped, fields of the form's own are
\* ignored, and neither the name nor the bytes of the file are looked at.
FormAccepts(m) ==
    /\ FormField(m.analysisId).kind = "text"
    /\ m.file \notin {"absent", "notAString"}
    /\ ContextAllowed(FormField(m.context), FormContextMax)

FormVerdict(m) == IF FormAccepts(m) THEN "accepted" ELSE "formInvalid"

-----------------------------------------------------------------------------
(* The answers.                                                            *)

\* QueueAnalysisResponse and QueueErrorResponse strip the identifier again.
QueueAddress(id) == Strip(id)

\* ReportMetadata: context_text_length; context_text_provided is whether it is 0.
ContextLength(field) == IF field.kind = "text" THEN LengthOf(field) ELSE 0

-----------------------------------------------------------------------------
(* What is expected of a message and the verdict on it.                    *)

\* A message that passes validation can be worked with to the end: its file
\* decodes, although the field is stripped between validation and decoding
\* (models/queue.py:153-154 promises it), and the response models, which strip
\* and validate the identifier once more, accept it and do not change it.
AcceptedIsUsable(m) ==
    /\ QueueVerdict(m) # "decodeError"
    /\ QueueVerdict(m) = "accepted" =>
          LET id == Kept(m).analysisId
          IN  NonEmpty(QueueAddress(id)) /\ QueueAddress(id) = id

\* The same message without the whitespace around its fields.
Trimmed(m) == [m EXCEPT !.analysisId = StripField(@), !.fileName = StripField(@),
                        !.context = StripField(@)]

\* What only the queue looks at: fields of the message's own, a file name without
\* a character, and a broken encoding.
RefusedByQueueOnly(m) ==
    m.extra \/ ~NonEmpty(StripField(m.fileName)) \/ m.file = "broken"

\* Where the flows differ, and that they differ nowhere else: what can be sent to both
\* is accepted by the queue exactly if HTTP accepts it without the whitespace around
\* its fields (which HTTP itself does not strip) and it has nothing that only the
\* queue looks at.  Of the context they then tell the same length.
DifferAsKnown(m) ==
    IsForm(m) /\ QueueContextMax = FormContextMax
    => /\ QueueVerdict(m) = "accepted"
             <=> FormAccepts(Trimmed(m)) /\ ~RefusedByQueueOnly(m)
       /\ QueueVerdict(m) = "accepted" =>
             ContextLength(Kept(m).context) = ContextLength(FormField(Trimmed(m).context))

=============================================================================
