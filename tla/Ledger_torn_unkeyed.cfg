CONSTANTS
    Events = {e1}
    Keys = {k1}
    NoKey = nokey
    KeySettings = {nokey}
    Writers = {w1}
    Adopters = {}
    Verifiers = {}
    Nobody = nobody
    DiskFaults = {"short"}
    MaxLines = 3
    MaxFaults = 1
    MaxRestarts = 0

SPECIFICATION Spec
INVARIANTS
    AckedInLedger

\* The system stops when the bounds are used up.
CHECK_DEADLOCK FALSE
