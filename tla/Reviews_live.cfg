CONSTANTS
    Ids = {r1, r2}
    Approvers = {p1}
    NoOne = noone
    ReviewGrades = {"LOW"}
    ClosureGrades = {"MED"}
    Workers = {w1, w2}
    Nobody = nobody
    Failures = {"save", "append", "crash", "read", "power"}
    MaxCalls = 3
    MaxFailures = 1
    MaxSeals = 0

SPECIFICATION FairSpec
INVARIANTS
    SettledInLedger
PROPERTIES
    CallsReturn
    ReconcileTells

\* The system stops when the bounds are used up.
CHECK_DEADLOCK FALSE
