CONSTANTS
    Events = {e1}
    Keys = {k1}
    NoKey = nokey
    KeySettings = {k1, nokey}
    Writers = {w1, w2}
    Adopters = {a1}
    Verifiers = {v1}
    Nobody = nobody
    DiskFaults = {"short", "retried", "unread"}
    MaxLines = 2
    MaxFaults = 2
    MaxRestarts = 1

SPECIFICATION FairSpec
INVARIANTS
    OkIsTrusted
PROPERTIES
    KeyedKeepsAcked
    NoFalseAlarm
    AppendReturns

\* The system stops when the bounds are used up.
CHECK_DEADLOCK FALSE
