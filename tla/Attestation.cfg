CONSTANTS
    Cves = {c1, c2}
    Tasks = {t1, t2}
    Ttl = 1
    MaxTime = 3

SPECIFICATION Spec
SYMMETRY Symmetry
INVARIANTS
    TypeOK
    GradesAreEarned
    SilentMissIsRecent
