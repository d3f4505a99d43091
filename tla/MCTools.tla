------------------------------- MODULE MCTools -------------------------------
(***************************************************************************)
(* Model checking of the two modules without state of their own, over      *)
(* every input up to a bound: a text for DiffGrader, a ledger and a shelf  *)
(* of reviews for Queries, built up element by element.                    *)
(***************************************************************************)
EXTENDS DiffGrader, Queries

CONSTANTS
    MaxText,        \* bounds on the length of each input
    MaxLedger,
    MaxShelf,
    MaxCreated,     \* last time a review is created
    MaxOffset,      \* how far local time is from UTC at most, on either side
    Change          \* when it is changed

ASSUME MCToolsAssumption == MaxOffset \in Nat /\ Change \in Int

VARIABLES
    text,
    ledger,
    shelf,
    zone            \* of the store that keeps the shelf

vars == <<text, ledger, shelf, zone>>

Setting(words, values) == [words : {words}, rhs : values, numbers : {{}}]

\* Every option with every value its detector tells apart, and a line that is
\* read for two options at once.
SampleBodies ==
    {NoBody}
    \cup [words : {{"Ports"}, {"PortRanges"}}, rhs : {"other"},
          numbers : SUBSET Numbers]
    \cup Setting({"PermitRootLogin"}, Values)
    \cup Setting({"PasswordAuthentication"}, {"true", "false", "other"})
    \cup Setting({"extraGroups", "wheel"}, {"other"})
    \cup Setting({"wheelNeedsPassword", "wheel"}, {"true", "false"})
    \cup Setting({"fail2ban.enable"}, {"true", "false"})
    \cup [words : {{"0.0.0.0", "listen"}, {"0.0.0.0"}}, rhs : {"other"},
          numbers : {{"no port"}}]
    \cup Setting({"PermitRootLogin", "PasswordAuthentication"}, {"yes", "true"})

\* What a third line and later ones are taken from: a HIGH, a MED, a LOW.
FewBodies ==
    Setting({"PermitRootLogin"}, {"yes", "no"})
        \cup Setting({"fail2ban.enable"}, {"true"})

SampleLines(bodies) ==
    [mark : Headers, body : {NoBody}]
        \cup [mark : Marks \ Headers, body : bodies]

Statuses == {"reviewed", "approved"}
Limits == -1..(MaxLedger + 1)

\* East of UTC, west of it and across, forwards and back.
Zones == [before : -MaxOffset..MaxOffset, after : -MaxOffset..MaxOffset,
          change : {Change}]
UTC == [before |-> 0, after |-> 0, change |-> Change]

Init == text = <<>> /\ ledger = <<>> /\ shelf = <<>> /\ zone = UTC

WriteText ==
    /\ ledger = <<>> /\ shelf = <<>>
    /\ Len(text) < MaxText
    /\ \E line \in SampleLines(IF Len(text) = 0 THEN SampleBodies ELSE FewBodies) :
           text' = Append(text, line)
    /\ UNCHANGED <<ledger, shelf, zone>>

GrowLedger ==
    /\ text = <<>> /\ shelf = <<>>
    /\ Len(ledger) < MaxLedger
    /\ \E rec \in {Torn} \cup [review_id : ReviewIds, line : {Len(ledger)}] :
           ledger' = Append(ledger, rec)
    /\ UNCHANGED <<text, shelf, zone>>

GrowShelf ==
    /\ text = <<>> /\ ledger = <<>>
    /\ Len(shelf) < MaxShelf
    /\ \E review \in [status : Statuses, created : 0..MaxCreated] :
           shelf' = Append(shelf, review)
    /\ IF shelf = <<>> THEN zone' \in Zones ELSE zone' = zone
    /\ UNCHANGED <<text, ledger>>

Next == WriteText \/ GrowLedger \/ GrowShelf

Spec == Init /\ [][Next]_vars

-----------------------------------------------------------------------------
(* Properties *)

Risky(findings) == \E i \in DOMAIN findings : findings[i].grade \in {"MED", "HIGH"}

\* The text before and after the change, as plain configurations.
Side(marks) ==
    LET kept == Picked(text, {i \in DOMAIN text : text[i].mark \in marks})
    IN  [i \in DOMAIN kept |-> [mark |-> "", body |-> kept[i].body]]
Before == Side({"-", " ", ""})
After == Side({"+", " ", ""})

\* What a review of the configuration after the change finds and one of the
\* configuration before it does not, the review of the diff finds too; and it
\* finds nothing in a line that the change leaves alone (diff.py:60-64).
DiffGradesTheDelta ==
    LET found == ToSet(grade_diff(text)) IN
    is_unified_diff(text) =>
        /\ ToSet(grade_diff(After)) \ ToSet(grade_diff(Before)) \subseteq found
        /\ \A f \in found : \E i \in DOMAIN text :
               /\ text[i].body = f.snippet
               /\ text[i].mark = IF f.change = "added" THEN "+" ELSE "-"

\* A change of one option and its undoing are not both graded MED or HIGH: what
\* loosens in one direction tightens in the other (the policy of diff.py:97-216).
OneWayIsRisky ==
    \A i \in DOMAIN text :
        LET change(mark) == <<[mark |-> "@@ ", body |-> NoBody],
                              [mark |-> mark, body |-> text[i].body]>>
        IN  ~(Risky(grade_diff(change("+"))) /\ Risky(grade_diff(change("-"))))

\* The overall grade of a review is the highest of its summary, and NONE only
\* when nothing was found (server.py:222-225, diff.py:251-255).
GradeIsTheHighest ==
    LET findings == grade_diff(text)
        count == summary(findings)
    IN  overall(findings) =
            CASE count["HIGH"] > 0 -> "HIGH"
              [] count["HIGH"] = 0 /\ count["MED"] > 0 -> "MED"
              [] count["HIGH"] = 0 /\ count["MED"] = 0 /\ count["LOW"] > 0 -> "LOW"
              [] findings = <<>> -> "NONE"

\* get_audit_log gives the last entries of the review that was asked for, as many
\* as the limit allows, "most recent last" (server.py:561), and none for a limit
\* of zero or less (store.py:415-418).
LogIsTheTail ==
    \A id \in ReviewIds \cup {AnyReview}, limit \in Limits :
        LET reply == get_audit_log(ledger, id, limit)
            asked == {i \in DOMAIN ledger : /\ ledger[i] # Torn
                                            /\ id \in {AnyReview, ledger[i].review_id}}
            later(i) == {j \in asked : j > i}
        IN  /\ ToSet(reply.entries) =
                   {ledger[i] : i \in {k \in asked : Cardinality(later(k)) < limit}}
            /\ \A i, j \in DOMAIN reply.entries :
                   i < j => reply.entries[i].line < reply.entries[j].line
            /\ reply.count = Cardinality(ToSet(reply.entries))

\* The clock was turned back between the two so far that the earlier shows a later
\* local time, or the same with an offset that is the greater string.
Overtaken(earlier, later) ==
    LET back == zone.before - zone.after IN
    /\ earlier.created < Change /\ Change <= later.created
    /\ \/ later.created - earlier.created < back
       \/ later.created - earlier.created = back /\ zone.after >= 0

\* list_reviews lists the newest reviews first, and what the limit leaves out is older
\* still: of two reviews the one that was created later comes first, in every time
\* zone (config.py:83), but for the hour that the clock shows twice, where the one
\* that was created earlier does (store.py:174).
RecentFirst ==
    \A status \in Statuses \cup {AnyStatus}, limit \in Limits :
        LET listed == list_reviews(zone, shelf, status, limit)
            chosen == {i \in DOMAIN shelf : status \in {AnyStatus, shelf[i].status}}
            after(n) == chosen \ {listed[k] : k \in 1..n}
        IN  /\ ToSet(listed) \subseteq chosen
            /\ Len(listed) < limit => ToSet(listed) = chosen
            /\ limit <= 0 => listed = <<>>
            /\ \A n \in DOMAIN listed : \A j \in after(n) :
                   LET first == shelf[listed[n]]
                       next == shelf[j]
                   IN  /\ first.created < next.created => Overtaken(first, next)
                       /\ next.created < first.created => ~Overtaken(next, first)
=============================================================================
