------------------------ MODULE TransactionStore ------------------------
(***************************************************************************)
(* The tables every payment integration of the 121-service writes to: the  *)
(* transactions, the latest transaction of each (registration, payment),   *)
(* and the payment count and status of each registration.  The operators   *)
(* are the single database statements of the code; a statement is atomic,  *)
(* a handler is a sequence of them and is not.                             *)
(*                                                                         *)
(* A transaction's id is its position in the sequence transactions, so     *)
(* ids grow in the order of creation as the serial column does.            *)
(***************************************************************************)
EXTENDS Integers, Sequences, FiniteSets

CONSTANTS
    Registrations,  \* the registrations of one program
    Payments,       \* the payment numbers
    MaxPayments     \* maxPayments of every registration; 0: not enabled

ASSUME PaymentsAssumption == IsFiniteSet(Payments)
ASSUME MaxPaymentsAssumption == MaxPayments \in Nat

VARIABLES
    transactions,        \* the transaction table, in order of creation
    latestTransactions,  \* the transaction id latest_transaction points at
    registrations        \* status and payment count of each registration

storeVars == <<transactions, latestTransactions, registrations>>

TransactionStatus == {"waiting", "success", "error"}
RegistrationStatus ==
    {"registered", "validated", "included", "paused", "completed", "declined",
     "deleted"}
NoTransaction == 0

Key == Registrations \X Payments

Transaction ==
    [registration : Registrations, payment : Payments, status : TransactionStatus]

StoreTypeOK ==
    /\ transactions \in Seq(Transaction)
    /\ latestTransactions \in [Key -> Nat]
    /\ \A k \in Key : latestTransactions[k] \in 0..Len(transactions)
    /\ registrations \in
         [Registrations -> [status : RegistrationStatus, paymentCount : Nat]]

StoreInit ==
    /\ transactions = << >>
    /\ latestTransactions = [k \in Key |-> NoTransaction]
    /\ registrations =
         [r \in Registrations |-> [status |-> "included", paymentCount |-> 0]]

\* The status a user sees of a payment to a registration.
StatusOf(k) ==
    IF latestTransactions[k] = NoTransaction
    THEN "none"
    ELSE transactions[latestTransactions[k]].status

KeyOf(i) == <<transactions[i].registration, transactions[i].payment>>

CreateTransaction(k, status) ==
    transactions' = Append(transactions,
        [registration |-> k[1], payment |-> k[2], status |-> status])

UpdateTransactionStatus(i, status) ==
    transactions' = [transactions EXCEPT ![i].status = status]

InsertOrUpdateFromTransaction(i) ==
    latestTransactions' = [latestTransactions EXCEPT ![KeyOf(i)] = i]

\* The number of payments the registration has a latest transaction for.
GetPaymentCount(r) ==
    Cardinality({p \in Payments : latestTransactions[<<r, p>>] # NoTransaction})

\* readCount is the payment count of the registration entity the job read
\* before it stored anything: the "completed" branch adds one to that value,
\* the other branch stores the count of the latest transactions.
UpdateWhen(r, readCount, maxReached) ==
    registrations' = [registrations EXCEPT ![r] =
        IF MaxPayments > 0 /\ maxReached
        THEN [status |-> "completed", paymentCount |-> readCount + 1]
        ELSE [@ EXCEPT !.paymentCount = GetPaymentCount(r)]]

CompleteTooLate_Wrong(r, readCount) ==
    UpdateWhen(r, readCount, GetPaymentCount(r) > MaxPayments)

UpdatePaymentCountAndStatusInRegistration(r, readCount) ==
    UpdateWhen(r, readCount, GetPaymentCount(r) >= MaxPayments)

\* Registrations postPayment selects: included, and without any latest
\* transaction for this payment.
PayableRegistrations(p) ==
    {r \in Registrations : /\ registrations[r].status = "included"
                           /\ latestTransactions[<<r, p>>] = NoTransaction}

\* The two ways retryPayment finds failed registrations: by the latest
\* transaction when the user names none, by the newest transaction row when
\* the user names the registrations.
FailedOrWaitingRegistrations_Wrong(p) ==
    {r \in Registrations : StatusOf(<<r, p>>) \in {"error", "waiting"}}

FailedRegistrations(p) ==
    {r \in Registrations : StatusOf(<<r, p>>) = "error"}

NewestTransactionFailed(k) ==
    \E i \in DOMAIN transactions :
        /\ KeyOf(i) = k
        /\ transactions[i].status = "error"
        /\ \A j \in DOMAIN transactions : KeyOf(j) = k => j <= i
=============================================================================
