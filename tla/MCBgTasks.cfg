SPECIFICATION Spec
CONSTANTS
    Creator = creator
    Commands = {c1, c2, c3}
    Null = Null
CONSTRAINT Undisturbed
INVARIANTS
    IInv
    CalmKeepsUpdates
    OneMoreRunPerStop
PROPERTY RunningEnds
\* Handlers end, and the commands may stop coming.
CHECK_DEADLOCK FALSE
