SPECIFICATION Spec
CONSTANTS
    Queries = {q1, q2}
PROPERTIES
    DocumentedReuse
CHECK_DEADLOCK FALSE
