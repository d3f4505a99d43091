CONSTANTS
    Events = {e1, e2}
    Keys = {k1}
    NoKey = nokey
    KeySettings = {nokey}
    Writers = {w1, w2}
    Adopters = {}
    Verifiers = {}
    Nobody = nobody
    DiskFaults = {"retried"}
    MaxLines = 2
    MaxFaults = 1
    MaxRestarts = 0

SPECIFICATION Spec
INVARIANTS
    ChainLinks

\* The system stops when the bounds are used up.
CHECK_DEADLOCK FALSE
