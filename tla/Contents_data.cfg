SPECIFICATION Spec
CONSTANTS
    QueueContextMax = 2
    FormContextMax = 2
    MaxFileSize = 1
    MaxPages = 2
    MaxSide = 5
    MaxPixels = 144
    Sides = {1, 2, 3, 4, 5, 6, 7, 8, 9, 10, 11, 12, 13}
    Names = {"a", "b"}
    SummaryMax = 2
    ConflictWords = 1
    Guardrail = TRUE
    Arrivals <- SmallArrivals
    Uploads <- SmallUploads
    LLMReplies <- SmallReplies
    Contexts <- SmallContexts
INVARIANTS
    AcceptedRequestsAreUsable
    FlowsDifferAsKnown
    PagesAreShown
    PicturesFit
    PipelineAbstractsFiles
    RepairableIsAccepted
    ReportsMeetContract
    RepairsAreFaithful
PROPERTIES
    DefectsAreAddressed
\* A request ends refused, failed or answered.
CHECK_DEADLOCK FALSE
