CONSTANTS
    Ids = {r1, r2}
    Approvers = {p1}
    NoOne = noone
    ReviewGrades = {"LOW", "HIGH"}
    ClosureGrades = {"UNKNOWN", "MED"}
    Workers = {w1}
    Nobody = nobody
    Failures = {}
    MaxCalls = 4
    MaxFailures = 1
    MaxSeals = 0

SPECIFICATION Spec
INVARIANTS
    TypeOK
    GateReconciled
PROPERTIES
    ImplementsGate
    AttestNeverLowers

\* The system stops when the bounds are used up.
CHECK_DEADLOCK FALSE
