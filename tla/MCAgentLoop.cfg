SPECIFICATION Spec
CONSTANTS
    Budget = 5
    MaxErrors = 3
    MaxCalls = 2
INVARIANTS
    IInv
    SerialEffects
    OneEditUndone
    AsksWithinLimits
    DroppedEndsRun
    PhaseAgrees
    WritesAreAnswered
PROPERTY EndsUnlessOverwritten
\* A run ends.
CHECK_DEADLOCK FALSE
