-------------------------- MODULE PayoutLedger --------------------------
(***************************************************************************)
(* What every payment integration promises for a (registration, payment):  *)
(* money is paid out at most once, a payment is reported as failed only    *)
(* when nothing was and nothing more can be paid out, and a reported       *)
(* success is final.  A failed payment can be attempted again.             *)
(***************************************************************************)
CONSTANT Key  \* the (registration, payment) pairs

VARIABLES
    status,  \* what the user sees: the status of the latest transaction
    open,    \* an attempt is under way
    paid     \* the money has been paid out

ledger == <<status, open, paid>>

LedgerTypeOK ==
    /\ status \in [Key -> {"none", "waiting", "success", "error"}]
    /\ open \in [Key -> BOOLEAN]
    /\ paid \in [Key -> BOOLEAN]

Init ==
    /\ status = [k \in Key |-> "none"]
    /\ open = [k \in Key |-> FALSE]
    /\ paid = [k \in Key |-> FALSE]

\* The first attempt, or a retry of a failed one.
Attempt(k) ==
    /\ status[k] \in {"none", "error"}
    /\ ~open[k] /\ ~paid[k]
    /\ open' = [open EXCEPT ![k] = TRUE]
    /\ UNCHANGED <<status, paid>>

ReportWaiting(k) ==
    /\ open[k]
    /\ status[k] \in {"none", "error"}
    /\ status' = [status EXCEPT ![k] = "waiting"]
    /\ UNCHANGED <<open, paid>>

PayOut(k) ==
    /\ open[k] /\ ~paid[k]
    /\ paid' = [paid EXCEPT ![k] = TRUE]
    /\ UNCHANGED <<status, open>>

ReportSuccess(k) ==
    /\ open[k] /\ paid[k]
    /\ status' = [status EXCEPT ![k] = "success"]
    /\ open' = [open EXCEPT ![k] = FALSE]
    /\ UNCHANGED paid

ReportFailure(k) ==
    /\ open[k] /\ ~paid[k]
    /\ status' = [status EXCEPT ![k] = "error"]
    /\ open' = [open EXCEPT ![k] = FALSE]
    /\ UNCHANGED paid

Next ==
    \E k \in Key : \/ Attempt(k) \/ ReportWaiting(k) \/ PayOut(k)
                   \/ ReportSuccess(k) \/ ReportFailure(k)

Spec == Init /\ [][Next]_ledger
=============================================================================
