CONSTANTS
    Ids = {r1, r2}
    Approvers = {p1}
    NoOne = noone
    ReviewGrades = {"LOW"}
    ClosureGrades = {"UNKNOWN", "MED"}
    Workers = {w1}
    Nobody = nobody
    Failures = {"read"}
    MaxCalls = 2
    MaxFailures = 1
    MaxSeals = 0

SPECIFICATION Spec
PROPERTIES
    SavesOneReview

\* The system stops when the bounds are used up.
CHECK_DEADLOCK FALSE
