----------------------- MODULE TransactionStoring -----------------------
(***************************************************************************)
(* storeTransactionUpdateStatus: how a job or a request of the service     *)
(* stores one transaction result, statement by statement.  Several of      *)
(* them may be doing so at the same time; each is a storer.                *)
(*                                                                         *)
(* A component begins with BeginStoring, takes StoringStep until the       *)
(* storer is "stored", and goes on from there with EndStoring.             *)
(***************************************************************************)
EXTENDS TransactionStore

CONSTANT Storers  \* the workers and requests that store transactions

\* There is something to store: NotStoring picks any key.
ASSUME SomeKeyAssumption == Key # {}

VARIABLES
    storing,       \* how far each storer is, and what it read
    linked,        \* transactions a Twilio message points at
    statusEvents   \* the event log of status changes, oldest first

storingVars == <<storeVars, storing, linked, statusEvents>>

Snapshot == [status : RegistrationStatus, paymentCount : Nat]

StoringPc == {"idle", "save", "link", "count", "complete", "log", "update",
              "latest", "stored"}

\* read is the registration entity; count what COUNT(DISTINCT payment) gave.
Storing == [pc : StoringPc, key : Key, status : TransactionStatus,
            message : BOOLEAN, transaction : Nat, read : Snapshot, count : Nat]

StatusEvent == [registration : Registrations,
                from : RegistrationStatus, to : RegistrationStatus]

StoringTypeOK ==
    /\ StoreTypeOK
    /\ storing \in [Storers -> Storing]
    /\ \A s \in Storers : storing[s].pc \in StoringPc \ {"idle", "save"} =>
         storing[s].transaction \in DOMAIN transactions
    /\ linked \subseteq DOMAIN transactions
    /\ statusEvents \in Seq(StatusEvent)

NotStoring ==
    [pc |-> "idle", key |-> CHOOSE k \in Key : TRUE, status |-> "waiting", message |-> FALSE,
     transaction |-> NoTransaction,
     read |-> [status |-> "included", paymentCount |-> 0], count |-> 0]

StoringInit ==
    /\ StoreInit
    /\ storing = [s \in Storers |-> NotStoring]
    /\ linked = {}
    /\ statusEvents = << >>

\* The distinct payments the registration has any transaction for.
CurrentPaymentCount(r) ==
    Cardinality({transactions[i].payment :
        i \in {j \in DOMAIN transactions : transactions[j].registration = r}})

-----------------------------------------------------------------------------
\* The registration is read before anything is stored.
BeginStoringAt(s, k, status, message, first) ==
    /\ storing[s].pc = "idle"
    /\ storing' = [storing EXCEPT ![s] =
         [pc |-> first, key |-> k, status |-> status, message |-> message,
          transaction |-> NoTransaction, read |-> registrations[k[1]],
          count |-> 0]]
    /\ UNCHANGED <<storeVars, linked, statusEvents>>

CountBeforeSaving_Wrong(s, k, status, message) ==
    BeginStoringAt(s, k, status, message, "count")

BeginStoring(s, k, status, message) ==
    BeginStoringAt(s, k, status, message, "save")

EndStoring(s) ==
    /\ storing[s].pc = "stored"
    /\ storing' = [storing EXCEPT ![s] = NotStoring]
    /\ UNCHANGED <<storeVars, linked, statusEvents>>

SaveTransaction(s) ==
    /\ storing[s].pc = "save"
    /\ CreateTransaction(storing[s].key, storing[s].status)
    /\ storing' = [storing EXCEPT
         ![s].pc = IF storing[s].message THEN "link" ELSE "count",
         ![s].transaction = Len(transactions) + 1]
    /\ UNCHANGED <<latestTransactions, registrations, linked, statusEvents>>

LinkTwilioMessage(s) ==
    /\ storing[s].pc = "link"
    /\ linked' = linked \cup {storing[s].transaction}
    /\ storing' = [storing EXCEPT ![s].pc = "count"]
    /\ UNCHANGED <<storeVars, statusEvents>>

\* Counted in the database, but compared with the entity read at the start.
CountPayments(s) ==
    LET count == CurrentPaymentCount(storing[s].key[1])
    IN  /\ storing[s].pc = "count"
        /\ storing' = [storing EXCEPT
             ![s].count = count,
             ![s].pc = IF /\ MaxPayments > 0
                          /\ count >= MaxPayments
                          /\ storing[s].read.status = "included"
                       THEN "complete" ELSE "update"]
        /\ UNCHANGED <<storeVars, linked, statusEvents>>

\* registrationUtilsService.save writes the whole entity: whatever has been
\* changed since it was read is overwritten with what was read.
CompleteRegistration(s) ==
    /\ storing[s].pc = "complete"
    /\ registrations' = [registrations EXCEPT ![storing[s].key[1]] =
         [storing[s].read EXCEPT !.status = "completed"]]
    /\ storing' = [storing EXCEPT ![s].pc = "log"]
    /\ UNCHANGED <<transactions, latestTransactions, linked, statusEvents>>

LogCompletion(s) ==
    /\ storing[s].pc = "log"
    /\ statusEvents' = Append(statusEvents,
         [registration |-> storing[s].key[1],
          from |-> storing[s].read.status, to |-> "completed"])
    /\ storing' = [storing EXCEPT ![s].pc = "update"]
    /\ UNCHANGED <<storeVars, linked>>

UpdatePaymentCount(s) ==
    /\ storing[s].pc = "update"
    /\ registrations' = [registrations EXCEPT
         ![storing[s].key[1]].paymentCount = storing[s].count]
    /\ storing' = [storing EXCEPT ![s].pc = "latest"]
    /\ UNCHANGED <<transactions, latestTransactions, linked, statusEvents>>

UpdateLatest(s) ==
    /\ storing[s].pc = "latest"
    /\ InsertOrUpdateFromTransaction(storing[s].transaction)
    /\ storing' = [storing EXCEPT ![s].pc = "stored"]
    /\ UNCHANGED <<transactions, registrations, linked, statusEvents>>

StoringStep(s) ==
    \/ SaveTransaction(s)
    \/ LinkTwilioMessage(s)
    \/ CountPayments(s)
    \/ CompleteRegistration(s)
    \/ LogCompletion(s)
    \/ UpdatePaymentCount(s)
    \/ UpdateLatest(s)

\* A crash of the service forgets what its storers were doing.
StopStoring == storing' = [s \in Storers |-> NotStoring]
=============================================================================
