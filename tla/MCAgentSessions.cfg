SPECIFICATION Spec
CONSTANTS
    Parent = parent
    Runner = runner
    Commands = {c1, c2}
    MaxTools = 1
    Null = Null
SYMMETRY Symmetry
CONSTRAINT Undisturbed
INVARIANTS
    IInv
    CalmKeepsUpdates
    CalmDelete
    QuietReleases
\* Agents end, and the commands may stop coming.
CHECK_DEADLOCK FALSE
