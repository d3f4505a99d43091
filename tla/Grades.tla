-------------------------------- MODULE Grades --------------------------------
(***************************************************************************)
(* grades.py: the one order that the writer of reviews.json and the replay *)
(* of the ledger rank grades by.  NoGrade is a missing grade (None).       *)
(***************************************************************************)
EXTENDS Naturals

NoGrade == "no grade"

GRADE_RANK ==
    [NONE |-> 0, UNKNOWN |-> 0, LOW |-> 1, MED |-> 2, MEDIUM |-> 2,
     HIGH |-> 3, CRITICAL |-> 4]

Grades == DOMAIN GRADE_RANK

\* Anything the table does not know ranks lowest.
grade_rank(grade) == IF grade \in Grades THEN GRADE_RANK[grade] ELSE 0

\* Mutant: the replay's own table, which did not know MED.
grade_outranks_without_med(candidate, current) ==
    LET rank(grade) == IF grade = "MED" THEN 0 ELSE grade_rank(grade)
    IN  rank(candidate) > rank(current)

grade_outranks(candidate, current) == grade_rank(candidate) > grade_rank(current)
=============================================================================
