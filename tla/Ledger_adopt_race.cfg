CONSTANTS
    Events = {e1}
    Keys = {k1}
    NoKey = nokey
    KeySettings = {k1}
    Writers = {w1}
    Adopters = {a1}
    Verifiers = {}
    Nobody = nobody
    DiskFaults = {}
    MaxLines = 2
    MaxFaults = 0
    MaxRestarts = 0

SPECIFICATION Spec
PROPERTIES
    AdoptsOnlyUnsigned

\* The system stops when the bounds are used up.
CHECK_DEADLOCK FALSE
