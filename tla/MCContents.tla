----------------------------- MODULE MCContents -----------------------------
(***************************************************************************)
(* Small instances of Contents for TLC: the values around each boundary.   *)
(***************************************************************************)
EXTENDS Contents
LOCAL INSTANCE SequencesExt

(* Messages and forms.                                                     *)

SomeText(cores, paddings) == [kind : {"text"}, core : cores, padding : paddings]

\* Identifiers: absent, mistyped, empty, blank, padded, plain.
Identifiers == {Absent, Mistyped} \cup SomeText({0, 1}, {0, 1})

\* Contexts: as long as the limits allow, and one character more.
ContextFields == {Absent, Mistyped} \cup
                    SomeText({0, QueueContextMax, QueueContextMax + 1}, {0, 1})

SmallMessages == [ json : {TRUE}, object : BOOLEAN, extra : BOOLEAN,
                   analysisId : Identifiers,
                   fileName : {Absent} \cup SomeText({0, 1}, {0, 1}),
                   context : ContextFields, file : Encodings ]

NotJson == [ json |-> FALSE, object |-> FALSE, extra |-> FALSE, analysisId |-> Absent,
             fileName |-> Absent, context |-> Absent, file |-> "absent" ]

SmallArrivals == SmallMessages \cup {NotJson}

(* Files.                                                                  *)

\* Images: every shape up to beyond the limit; other files; an empty file.
Images == [ size : {MaxFileSize, MaxFileSize + 1}, magic : {"png", "jpeg"},
            opens : BOOLEAN, leaves : {<<leaf>> : leaf \in Leaf} ]

Others == [ size : {0, MaxFileSize, MaxFileSize + 1}, magic : {"other"},
            opens : {FALSE}, leaves : {<<>>} ]

\* Documents of up to one page more than are rendered: some pages are too large for
\* Pillow one below the other, one is so by itself.
Pages == [width : {1, 3}, height : {1, 7}, sound : BOOLEAN] \cup
            {[width |-> 13, height |-> 7, sound |-> TRUE]}

Pdfs == [ size : {MaxFileSize}, magic : {"pdf"}, opens : BOOLEAN,
          leaves : SeqOf(Pages, MaxPages + 1) ]

SmallUploads == Images \cup Others \cup Pdfs

(* Replies of the LLM.                                                     *)

Component == [ object : {TRUE}, name : Names, enum : {"service", "unlisted"},
               rest : {"complete"}, refs : {<<>>} ]

\* One right element, and one of each way to be wrong.
Wrong(item) == { item, [item EXCEPT !.object = FALSE], [item EXCEPT !.enum = "nonText"],
                 [item EXCEPT !.enum = "absent"], [item EXCEPT !.rest = "incomplete"] }

AComponent == CHOOSE c \in Component : c.enum = "service"

ComponentLists == SeqOf(Component, 2) \cup
                    {<<AComponent, c>> : c \in Wrong(AComponent)}

Risk == [ object : {TRUE}, name : {AComponent.name}, enum : {"high", "unlisted"},
          rest : {"complete"}, refs : SeqOf(Names, 2) ]

ARisk == CHOOSE r \in Risk : r.enum = "high" /\ r.refs = <<>>

RiskLists == {<<>>} \cup {<<r>> : r \in Risk \cup Wrong(ARisk)
                                        \cup {[ARisk EXCEPT !.rest = "badRefs"]}}

AnAdvice == [ARisk EXCEPT !.enum = "low"]

AdviceLists == {<<>>} \cup {<<a>> : a \in Wrong(AnAdvice) \cup {[AnAdvice EXCEPT !.enum = "unlisted"]}}

Lists(lists) == [kind : {"list"}, items : lists] \cup
                  [kind : {"absent", "null", "text"}, items : {<<>>}]

Summaries == [kind : {"text"}, length : {0, 1, SummaryMax, SummaryMax + 1}] \cup
                [kind : {"absent", "other"}, length : {0}]

SmallDocuments == [ object : {TRUE}, extra : {FALSE}, summary : Summaries,
                    components : Lists(ComponentLists), risks : Lists(RiskLists),
                    recommendations : Lists(AdviceLists) ]

ADocument == CHOOSE d \in SmallDocuments :
                /\ d.summary = [kind |-> "text", length |-> 1]
                /\ d.components.items = <<AComponent>>
                /\ d.risks.items = <<ARisk>>
                /\ d.recommendations.items = <<>> /\ d.recommendations.kind = "list"

OddDocuments == {[ADocument EXCEPT !.object = FALSE], [ADocument EXCEPT !.extra = TRUE]}

SmallReplies ==
    [text : {<<"json">>}, doc : SmallDocuments \cup OddDocuments] \cup
    [text : SeqOf(Lines, 4), doc : {ADocument}]

SmallContexts == [words : {0, ConflictWords, ConflictWords + 1}, mentions : SUBSET Names]

=============================================================================
