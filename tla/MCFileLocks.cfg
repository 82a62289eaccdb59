SPECIFICATION Spec
CONSTANTS
    Sessions = {s1, s2}
    Admins = {a1}
    Paths = {p1, p2}
    NoPath = NoPath
SYMMETRY Symmetry
INVARIANTS
    IInv
    UniqueLocks
    CalmExclusion
    CalmRelease
PROPERTIES
    ImplementsLockTable
\* Sessions end, and the commands may stop coming.
CHECK_DEADLOCK FALSE
