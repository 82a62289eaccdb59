SPECIFICATION Spec
CONSTANTS
    Budget = 2
    MaxErrors = 2
    MaxCalls = 2
PROPERTY RepliesReturn
\* A run ends.
CHECK_DEADLOCK FALSE
