SPECIFICATION Spec
CONSTANTS
    Queries = {q1, q2}
INVARIANTS
    IInv
    ServersEnd
PROPERTIES
    QueriesReturn
\* Every query may have returned.
CHECK_DEADLOCK FALSE
