----------------------------- MODULE PunchLedger -----------------------------
(***************************************************************************)
(* What the terminal and the gateway promise together about a punch the    *)
(* user saw green for: it stays recoverable on the terminal until the      *)
(* gateway's ledger holds it, and leaves unrecorded only as the oldest     *)
(* record of a full buffer, or once a power cut has put it at risk.        *)
(* Nothing leaves the ledger.                                              *)
(***************************************************************************)
EXTENDS Naturals

CONSTANT Punch       \* every punch that may be taken

VARIABLES
    kept,            \* punches shown green and recoverable on the terminal
    ledger,          \* rows of punch_event
    overflowed,      \* punches given up by a full buffer
    atRisk           \* punches a cut has left to be dropped unrecorded

ledgerVars == <<kept, ledger, overflowed, atRisk>>

LedgerInit == kept = {} /\ ledger = {} /\ overflowed = {} /\ atRisk = {}

\* The gateway records a batch; it may hold punches never shown green.
Record ==
    /\ \E b \in SUBSET Punch : ledger' = ledger \cup b
    /\ UNCHANGED <<kept, overflowed, atRisk>>

\* At most one punch is given up in a step.
GivesUpAtMostOne ==
    \/ overflowed' = overflowed
    \/ \E p \in Punch : overflowed' = overflowed \cup {p}

\* The terminal: at most one punch is newly shown green, one that is not yet
\* recorded; and whatever stops being recoverable is recorded, given up or at
\* risk.
Buffer ==
    /\ \/ kept' \subseteq kept
       \/ \E p \in Punch \ (ledger \cup overflowed) : kept' \subseteq kept \cup {p}
    /\ GivesUpAtMostOne
    /\ kept \ kept' \subseteq ledger \cup overflowed' \cup atRisk
    /\ UNCHANGED <<ledger, atRisk>>

\* A power cut drops nothing that was recoverable, unless it is given up, but
\* may put at risk what stays.
Cut ==
    /\ kept' \subseteq kept
    /\ GivesUpAtMostOne
    /\ kept \ kept' \subseteq ledger \cup overflowed' \cup atRisk
    /\ \E s \in SUBSET kept' : atRisk' = atRisk \cup s
    /\ UNCHANGED ledger

LedgerNext == Record \/ Buffer \/ Cut

LedgerSpec == LedgerInit /\ [][LedgerNext]_ledgerVars
=============================================================================
