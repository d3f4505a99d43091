------------------------------- MODULE AuditLog -------------------------------
(***************************************************************************)
(* What the ledger half of store.py promises the tools that call it: one   *)
(* log of events that only ever grows, one event at a time and only while  *)
(* the store accepts appends, and acknowledgements that each certify the   *)
(* whole log as it stood at that moment.                                   *)
(***************************************************************************)
EXTENDS Sequences

CONSTANT Events

VARIABLES
    log,        \* the events recorded so far
    acked,      \* the states of the log that an append has returned for
    sealed      \* the store refuses appends

vars == <<log, acked, sealed>>

Init ==
    /\ log = <<>>
    /\ acked = {}
    /\ sealed \in BOOLEAN

Extend(e) ==
    /\ ~sealed
    /\ log' = Append(log, e)
    /\ sealed' \in BOOLEAN
    /\ UNCHANGED acked

Acknowledge ==
    /\ acked' = acked \cup {log}
    /\ sealed' \in BOOLEAN
    /\ UNCHANGED log

SealOrUnseal ==
    /\ sealed' = ~sealed
    /\ UNCHANGED <<log, acked>>

Next == (\E e \in Events : Extend(e)) \/ Acknowledge \/ SealOrUnseal

Spec == Init /\ [][Next]_vars
=============================================================================
