SPECIFICATION Spec
CONSTANTS
    Processes = {p, q}
    Files = {f, second}
    Texts <- TextSet
    OneLine <- OneLineTexts
    Empty = Empty
    Absent = Absent
    None = None
    lines = lines
    second = second
    MaxCalls = 3
    MaxEdits = 1
CONSTRAINT Small
SYMMETRY Symmetry
INVARIANTS IInv CalmHistory LatestReverts
PROPERTIES EditsAsShown RevertRestores
CHECK_DEADLOCK FALSE
