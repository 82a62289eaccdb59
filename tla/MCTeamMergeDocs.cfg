SPECIFICATION Spec
CONSTANTS
    a = a
    b = b
    c = c
    Files = {1, 2}
    Contents = {a, b, c}
    Binary = {c}
    Similar <- SimilarTexts
    Absent = Absent
    Torn = Torn
    All = All
    Steps = 1
    Projects <- TwoFiles
    MaxActs = 3
PROPERTY ChangesConflict
\* Commands may stop coming.
CHECK_DEADLOCK FALSE
