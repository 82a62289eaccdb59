SPECIFICATION Spec
CONSTANTS
    Connections = {c1, c2}
    Sessions = {s1, s2}
    Runs = {r1, r2}
    None = None
SYMMETRY Symmetry
INVARIANTS
    DocumentedBusy
\* Clients may leave or have no more to ask.
CHECK_DEADLOCK FALSE
