CONSTANTS
    Ids = {r1, r2}
    Approvers = {p1}
    NoOne = noone
    ReviewGrades = {"LOW"}
    ClosureGrades = {"MED"}
    Workers = {w1, w2}
    Nobody = nobody
    Failures = {"save", "append", "crash"}
    MaxCalls = 4
    MaxFailures = 1
    MaxSeals = 1

SPECIFICATION Spec
SYMMETRY Symmetry
INVARIANTS
    AgreesUnlessTroubled
    LedgerNeverAhead
    SettledDecision
PROPERTIES
    SavesOneReview
    AloneSavesCurrent

\* The system stops when the bounds are used up.
CHECK_DEADLOCK FALSE
