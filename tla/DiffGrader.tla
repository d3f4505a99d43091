------------------------------ MODULE DiffGrader ------------------------------
(***************************************************************************)
(* The diff grader of review_diff (review/diff.py): it tells a unified     *)
(* diff from a configuration, gives every line a sign, runs five detectors *)
(* over each line that was added or removed, and grades what they find.    *)
(*                                                                         *)
(* A line of text is the mark it starts with and its body, and a body is   *)
(* what the detectors' patterns can see of it: the words they look for,    *)
(* the right-hand side of its first assignment, and the kinds of numbers   *)
(* in it.                                                                  *)
(***************************************************************************)
EXTENDS Grades, Lists, SequencesExt

Headers == {"diff --git ", "index ", "--- ", "+++ ", "@@ "}
Marks == Headers \cup {"+", "-", " ", ""}

\* "Ports": allowedTCPPorts or allowedUDPPorts, and "PortRanges" likewise.
\* "listen": address, host, bind, listen or interface, in any case.
Words == {"PortRanges", "Ports", "PermitRootLogin", "PasswordAuthentication",
          "extraGroups", "wheel", "wheelNeedsPassword", "fail2ban.enable",
          "0.0.0.0", "listen"}
Values == {"", "yes", "no", "prohibit-password", "without-password", "true",
           "false", "other"}
Numbers == {"sensitive", "ordinary", "no port"}
Bodies == [words : SUBSET Words, rhs : Values, numbers : SUBSET Numbers]
NoBody == [words |-> {}, rhs |-> "", numbers |-> {}]
Lines == [mark : Marks, body : Bodies]

Has(text, mark) == \E i \in DOMAIN text : text[i].mark = mark

is_unified_diff(text) ==
    \/ Has(text, "diff --git ") \/ Has(text, "@@ ")
    \/ Has(text, "+") /\ Has(text, "-") /\ (Has(text, "+++ ") \/ Has(text, "--- "))

\* Mutant: a line of a diff without a mark is an addition, as in a configuration.
sign_bare(line) == IF line.mark = "-" THEN "-" ELSE "+"

sign(line) == IF line.mark \in {"+", "-"} THEN line.mark ELSE " "

\* In a configuration, every line that is not blank counts as an addition.
tokenize(text) ==
    LET blank == [mark |-> "", body |-> NoBody]
        signed == Picked(text, {i \in DOMAIN text : text[i].mark \notin Headers})
        plain == Picked(text, {i \in DOMAIN text : text[i] # blank})
    IN  IF is_unified_diff(text)
        THEN [i \in DOMAIN signed |->
                 [sign |-> sign(signed[i]), body |-> signed[i].body]]
        ELSE [i \in DOMAIN plain |-> [sign |-> "+", body |-> plain[i].body]]

-----------------------------------------------------------------------------
(* The detectors.  Each is a list of rules; the first that applies returns, *)
(* with one finding or with none.                                          *)

Finding(ln, option, grade) ==
    [option |-> option, change |-> IF ln.sign = "+" THEN "added" ELSE "removed",
     snippet |-> ln.body, grade |-> grade]

Rule(when, found) == [when |-> when, found |-> found]

FirstOf(rules) ==
    LET first == SelectInSeq(rules, LAMBDA rule : rule.when)
    IN  IF first = 0 THEN <<>> ELSE rules[first].found

\* The line mentions the option, with this sign and one of these values.
Sets(ln, option, change, values) ==
    option \in ln.body.words /\ ln.sign = change /\ ln.body.rhs \in values

detect_firewall(ln) ==
    LET opens(option) == option \in ln.body.words /\ ln.sign = "+"
        found(grade) == <<Finding(ln, "firewall", grade)>>
    IN  FirstOf(<<
          Rule(opens("PortRanges") /\ ln.body.numbers # {}, found("HIGH")),
          Rule("PortRanges" \in ln.body.words, <<>>),
          Rule(opens("Ports") /\ "sensitive" \in ln.body.numbers, found("HIGH")),
          Rule(opens("Ports") /\ "ordinary" \in ln.body.numbers, found("MED"))>>)

detect_ssh(ln) ==
    LET rule(option, change, values, grade) ==
            Rule(Sets(ln, option, change, values), <<Finding(ln, option, grade)>>)
    IN  FirstOf(<<
          rule("PermitRootLogin", "+", {"yes"}, "HIGH"),
          rule("PermitRootLogin", "-", {"no", "prohibit-password"}, "MED"),
          rule("PermitRootLogin", "+",
               {"prohibit-password", "no", "without-password"}, "LOW"),
          rule("PasswordAuthentication", "+", {"true"}, "HIGH"),
          rule("PasswordAuthentication", "-", {"false"}, "HIGH"),
          rule("PasswordAuthentication", "+", {"false"}, "LOW")>>)

detect_sudo(ln) ==
    FirstOf(<<
      Rule({"extraGroups", "wheel"} \subseteq ln.body.words /\ ln.sign = "+",
           <<Finding(ln, "extraGroups", "MED")>>),
      Rule(Sets(ln, "wheelNeedsPassword", "+", {"false"}),
           <<Finding(ln, "wheelNeedsPassword", "HIGH")>>)>>)

\* Mutant: the detector does not look at the sign.
detect_fail2ban_unsigned(ln) ==
    FirstOf(<<Rule("fail2ban.enable" \in ln.body.words
                       /\ ln.body.rhs \in {"true", "false"},
                   <<Finding(ln, "fail2ban.enable", "MED")>>)>>)

detect_fail2ban(ln) ==
    FirstOf(<<
      Rule(\/ Sets(ln, "fail2ban.enable", "+", {"false"})
           \/ Sets(ln, "fail2ban.enable", "-", {"true"}),
           <<Finding(ln, "fail2ban.enable", "MED")>>)>>)

detect_bind_all(ln) ==
    FirstOf(<<
      Rule({"0.0.0.0", "listen"} \subseteq ln.body.words /\ ln.sign = "+",
           <<Finding(ln, "bind address", "MED")>>)>>)

-----------------------------------------------------------------------------

DetectIn(ln) ==
    IF ln.sign = " " THEN <<>>
    ELSE detect_firewall(ln) \o detect_ssh(ln) \o detect_sudo(ln)
             \o detect_fail2ban(ln) \o detect_bind_all(ln)

\* The findings of grade_diff.
grade_diff(text) ==
    FoldLeft(LAMBDA findings, ln : findings \o DetectIn(ln), <<>>, tokenize(text))

\* Its summary counts the findings of each grade.
summary(findings) ==
    [grade \in {"HIGH", "MED", "LOW"} |->
        Cardinality({i \in DOMAIN findings : findings[i].grade = grade})]

\* Mutant: the last finding gives the grade.
overall_last(findings) ==
    FoldLeft(LAMBDA grade, f : f.grade, "NONE", findings)

\* review_diff: the overall grade of the review.
overall(findings) ==
    FoldLeft(LAMBDA grade, f : IF grade_rank(f.grade) > grade_rank(grade)
                               THEN f.grade ELSE grade, "NONE", findings)
=============================================================================
