CONSTANTS
    Events = {e1, e2}
    Keys = {k1, k2}
    NoKey = nokey
    KeySettings = {k1, k2, nokey}
    Writers = {w1, w2}
    Adopters = {}
    Verifiers = {}
    Nobody = nobody
    DiskFaults = {"power", "unread"}
    MaxLines = 3
    MaxFaults = 2
    MaxRestarts = 2

SPECIFICATION Spec
INVARIANTS
    TypeOK
    ChainLinks
    SignedHeadVouches
    VerdictExact
    ChangeBreaksChain
    AnchorTellsRewrite
PROPERTIES
    OnlyExtendsSignedHead
    ImplementsAuditLog

\* The system stops when the bounds are used up.
CHECK_DEADLOCK FALSE
