CONSTANTS
    Ids = {r1}
    Approvers = {p1}
    NoOne = noone
    ReviewGrades = {"LOW"}
    ClosureGrades = {"UNKNOWN", "MED"}
    Workers = {w1}
    Nobody = nobody
    Failures = {}
    MaxCalls = 2
    MaxFailures = 1
    MaxSeals = 1

SPECIFICATION Spec
PROPERTIES
    RefusedCallWritesNothing

\* The system stops when the bounds are used up.
CHECK_DEADLOCK FALSE
