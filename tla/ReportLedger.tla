---------------------------- MODULE ReportLedger ----------------------------
(***************************************************************************)
(* What the reporting cycle promises, as the books of a debtor.  A report   *)
(* that has been recorded is pending.  It leaves the pending reports either *)
(* because the centre confirmed it, or because it became a debt.  A debt is *)
(* kept across restarts and is struck off only when it has been paid, that  *)
(* is, when its replay was confirmed; the only other way to lose a debt is  *)
(* that the centre has erased the station's history.                        *)
(***************************************************************************)
CONSTANT Key    \* the reports with backfill, one per report object and period

VARIABLES
    pending,    \* recorded, not yet reported
    owed,       \* the debts
    settled,    \* confirmed by the centre
    erased      \* the history has been erased at least once

ledger == <<pending, owed, settled, erased>>

Init == pending = {} /\ owed = {} /\ settled = {} /\ erased = FALSE

Record(k) ==
    /\ pending' = pending \cup {k}
    /\ UNCHANGED <<owed, settled, erased>>

Deliver(k) ==
    /\ k \in pending
    /\ pending' = pending \ {k} /\ settled' = settled \cup {k}
    /\ UNCHANGED <<owed, erased>>

Owe(k) ==
    /\ k \in pending
    /\ pending' = pending \ {k} /\ owed' = owed \cup {k}
    /\ UNCHANGED <<settled, erased>>

\* A debt that was struck off while its replay was under way stays settled.
Replay(k) ==
    /\ owed' = owed \ {k} /\ settled' = settled \cup {k}
    /\ k \in owed \/ erased
    /\ UNCHANGED <<pending, erased>>

Void(k) ==
    /\ erased
    /\ owed' = owed \ {k}
    /\ UNCHANGED <<pending, settled, erased>>

Erase ==
    /\ owed' = {} /\ erased' = TRUE
    /\ UNCHANGED <<pending, settled>>

Restart ==
    /\ pending' = {}
    /\ owed' = owed \/ (erased /\ \E k \in Key : owed' = owed \ {k})
    /\ UNCHANGED <<settled, erased>>

Next ==
    \/ \E k \in Key : Record(k) \/ Deliver(k) \/ Owe(k) \/ Replay(k) \/ Void(k)
    \/ Erase
    \/ Restart

LedgerSpec == Init /\ [][Next]_ledger
=============================================================================
