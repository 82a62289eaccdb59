SPECIFICATION Spec
CONSTANTS
    a = a
    b = b
    c = c
    Files = {1, 2, 3}
    Contents = {a, b, c}
    Binary = {c}
    Similar <- SimilarTexts
    Absent = Absent
    Torn = Torn
    All = All
    Steps = 2
    Projects <- SmallProjects
    MaxActs = 3
CONSTRAINT Small
INVARIANTS
    IInv
    WorkArrives
PROPERTIES
    EditsSurvive
    OnlyAgentsChanges
    SkippedKept
    OnlyReviewedFiles
\* Commands may stop coming.
CHECK_DEADLOCK FALSE
