CONSTANTS
    ReviewIds = {r1, r2}
    Torn = torn
    MaxText = 4
    MaxLedger = 4
    MaxShelf = 3
    MaxCreated = 5
    MaxOffset = 2
    Change = 3

SPECIFICATION Spec
INVARIANTS
    DiffGradesTheDelta
    OneWayIsRisky
    GradeIsTheHighest
    LogIsTheTail
    RecentFirst

\* Every input is reached; then there is nothing left to add.
CHECK_DEADLOCK FALSE
