--------------------- MODULE CommercialBankEthiopia ---------------------
(***************************************************************************)
(* Payments through the Commercial Bank of Ethiopia.                       *)
(*                                                                         *)
(*   user   --> a run adds one job per registration; the reference of the  *)
(*              transfer (debitTheirRef) is fixed then: a fresh one, or on *)
(*              a retry the one kept with the failed transaction           *)
(*   worker --> asks the bank for the transfer; the bank refuses a         *)
(*              reference it has seen, and then the worker asks what       *)
(*              became of it; stores the result; removes the job from the  *)
(*              Redis set                                                  *)
(*                                                                         *)
(* The bank and Bull are not in the repository.  The service may crash     *)
(* between any two statements; Bull hands out a stalled job once more.     *)
(* A job and its entry in the Redis set appear together here; module       *)
(* PaymentInProgress separates them.                                       *)
(***************************************************************************)
EXTENDS TransactionStoring

CONSTANTS
    Worker,     \* the only worker of the queue
    MaxJobs,    \* bound on the jobs
    MaxCrashes, \* bound on the crashes
    MaxStalls,  \* maxStalledCount of Bull, 1 by default
    LateCrash   \* whether the service may crash when a job is out of the Redis
                \* set and not yet completed: a user can then retry the payment
                \* while Bull hands the job out again

ASSUME WorkerAssumption == Storers = {Worker}
ASSUME RegistrationsAssumption == IsFiniteSet(Registrations)
ASSUME BankBoundsAssumption ==
    MaxJobs \in Nat /\ MaxCrashes \in Nat /\ MaxStalls \in Nat
    /\ LateCrash \in BOOLEAN

VARIABLES
    run,             \* the run of the user: which jobs are to be added
    jobs,            \* the jobs added so far
    jobsInProgress,  \* the Redis set program:<id>:jobs
    worker,          \* the processor
    references,      \* customData.requestResult of each transaction
    bank,            \* what the bank made of each reference
    crashes

vars == <<storingVars, run, jobs, jobsInProgress, worker, references, bank,
          crashes>>

\* The number of the job it was drawn for; none without credentials.
Reference == 1..MaxJobs
NoReference == 0

Job == [key : Key, reference : Reference,
        state : {"queued", "active", "stalled", "failed", "completed"},
        stalls : Nat]

\* transactionId: the failed transaction of a registration to retry.
Run == [pc : {"idle", "adding", "lost"}, payment : Payments \cup {0},
        transactionId : [Registrations -> Nat], todo : SUBSET Registrations]
IdleRun == [pc |-> "idle", payment |-> 0, todo |-> {},
            transactionId |-> [r \in Registrations |-> NoTransaction]]

\* sent: the reference that is stored with the result.
WorkerState ==
    [pc : {"idle", "transfer", "query", "store", "storing", "remove", "complete"},
     job : 0..MaxJobs, status : TransactionStatus,
     sent : Reference \cup {NoReference}]
IdleWorker == [pc |-> "idle", job |-> 0, status |-> "waiting", sent |-> NoReference]

TypeOK ==
    /\ StoringTypeOK
    /\ run \in Run
    /\ jobs \in Seq(Job) /\ Len(jobs) <= MaxJobs
    /\ jobsInProgress \subseteq DOMAIN jobs
    /\ worker \in WorkerState
    /\ worker.pc # "idle" => worker.job \in DOMAIN jobs
    /\ references \in Seq(Reference \cup {NoReference})
    /\ Len(references) = Len(transactions)
    /\ bank \in [Reference -> {"unknown", "rejected", "paid"}]
    /\ crashes \in 0..MaxCrashes

Init ==
    /\ StoringInit
    /\ run = IdleRun
    /\ jobs = << >> /\ jobsInProgress = {}
    /\ worker = IdleWorker
    /\ references = << >>
    /\ bank = [ref \in Reference |-> "unknown"]
    /\ crashes = 0

-----------------------------------------------------------------------------
(* The user.                                                               *)

IsPaymentInProgress == run.pc # "idle" \/ jobsInProgress # {}

StartRun(p, chosen, transactionId) ==
    /\ ~IsPaymentInProgress
    /\ chosen # {}
    /\ Len(jobs) + Cardinality(chosen) <= MaxJobs
    /\ run' = [pc |-> "adding", payment |-> p, todo |-> chosen,
               transactionId |-> transactionId]
    /\ UNCHANGED <<storingVars, jobs, jobsInProgress, worker, references, bank,
                   crashes>>

PostPayment(p) ==
    \E chosen \in SUBSET PayableRegistrations(p) :
        StartRun(p, chosen, IdleRun.transactionId)

NewestTransaction(k) ==
    CHOOSE i \in DOMAIN transactions :
        /\ KeyOf(i) = k
        /\ \A j \in DOMAIN transactions : KeyOf(j) = k => j <= i

FailedTransactions(p, chosen) ==
    [r \in Registrations |->
        IF r \in chosen /\ NewestTransactionFailed(<<r, p>>)
        THEN NewestTransaction(<<r, p>>) ELSE NoTransaction]

RetryPayment(p) ==
    \/ LET failed == FailedRegistrations(p)
       IN  StartRun(p, failed, FailedTransactions(p, failed))
    \/ \E chosen \in SUBSET Registrations :
         /\ \A r \in chosen : NewestTransactionFailed(<<r, p>>)
         /\ StartRun(p, chosen, FailedTransactions(p, chosen))

AddJob(k, reference) ==
    /\ jobs' = Append(jobs, [key |-> k, reference |-> reference,
                             state |-> "queued", stalls |-> 0])
    /\ jobsInProgress' = jobsInProgress \cup {Len(jobs) + 1}
    /\ run' = [run EXCEPT !.todo = @ \ {k[1]}]

unchangedByRun == <<storingVars, worker, references, bank, crashes>>

AddFirstAttempt(r) ==
    LET k == <<r, run.payment>>
    IN  /\ run.pc = "adding" /\ r \in run.todo
        /\ run.transactionId[r] = NoTransaction
        /\ AddJob(k, Len(jobs) + 1)
        /\ UNCHANGED unchangedByRun

KeptReference(r) == references[run.transactionId[r]]

\* A failed transaction without a reference makes the loop throw: the rest of
\* the registrations get no job, and paymentFinished is saved.
AddRetryWith(r, reference) ==
    /\ run.pc = "adding" /\ r \in run.todo
    /\ run.transactionId[r] # NoTransaction
    /\ \/ /\ KeptReference(r) # NoReference
          /\ AddJob(<<r, run.payment>>, reference)
       \/ /\ KeptReference(r) = NoReference
          /\ run' = IdleRun
          /\ UNCHANGED <<jobs, jobsInProgress>>
    /\ UNCHANGED unchangedByRun

\* Nobody keeps the request of a failed attempt.
FreshReference_Wrong(r) == AddRetryWith(r, Len(jobs) + 1)

AddRetry(r) == AddRetryWith(r, KeptReference(r))

FinishRun ==
    /\ run.pc = "adding" /\ run.todo = {}
    /\ run' = IdleRun
    /\ UNCHANGED <<jobs, jobsInProgress, unchangedByRun>>

-----------------------------------------------------------------------------
(* The worker: handleSendPayment and processQueuedPayment.                 *)

unchangedByWorker == <<run, references, crashes>>

TakeJob(j) ==
    /\ worker.pc = "idle"
    /\ j \in DOMAIN jobs /\ jobs[j].state = "queued"
    /\ \A i \in DOMAIN jobs : jobs[i].state = "queued" => j <= i
    /\ jobs' = [jobs EXCEPT ![j].state = "active"]
    /\ worker' = [IdleWorker EXCEPT !.pc = "transfer", !.job = j]
    /\ UNCHANGED <<storingVars, jobsInProgress, bank, unchangedByWorker>>

WorkerReference == jobs[worker.job].reference

Answered(status) ==
    worker' = [worker EXCEPT !.pc = "store", !.status = status,
                             !.sent = WorkerReference]

\* Without credentials the result is stored without customData.
MissCredentials ==
    /\ worker.pc = "transfer"
    /\ worker' = [worker EXCEPT !.pc = "store", !.status = "error"]
    /\ UNCHANGED <<storingVars, jobs, jobsInProgress, bank, unchangedByWorker>>

\* The bank executes or rejects a transfer it does not know, or never gets it;
\* a rejected one may be remembered or not.  The answer may be lost.
CreditTransfer ==
    /\ worker.pc = "transfer"
    /\ bank[WorkerReference] = "unknown"
    /\ \E outcome \in {"unknown", "rejected", "paid"}, heard \in BOOLEAN :
         /\ bank' = [bank EXCEPT ![WorkerReference] = outcome]
         /\ Answered(IF outcome = "paid" /\ heard THEN "success" ELSE "error")
    /\ UNCHANGED <<storingVars, jobs, jobsInProgress, unchangedByWorker>>

\* The answer is recognised by the first of a list of messages.  If it is lost,
\* or is a single message, it is an error like any other.
DuplicateIs(next) ==
    /\ worker.pc = "transfer"
    /\ bank[WorkerReference] # "unknown"
    /\ next \/ Answered("error")
    /\ UNCHANGED <<storingVars, jobs, jobsInProgress, bank, unchangedByWorker>>

DuplicateIsSuccess_Wrong == DuplicateIs(Answered("success"))

CreditTransferDuplicated == DuplicateIs(worker' = [worker EXCEPT !.pc = "query"])

FailJob(inProgress) ==
    /\ worker' = IdleWorker
    /\ jobs' = [jobs EXCEPT ![worker.job].state = "failed"]
    /\ jobsInProgress' = inProgress

\* An answer that is no transaction status is null, and reading its message
\* throws: the job fails and stays in the Redis set.
GetTransactionStatusWith(inProgress) ==
    /\ worker.pc = "query"
    /\ \/ /\ bank[WorkerReference] = "paid"
          /\ Answered("success")
          /\ UNCHANGED <<jobs, jobsInProgress>>
       \/ Answered("error") /\ UNCHANGED <<jobs, jobsInProgress>>
       \/ FailJob(inProgress)
    /\ UNCHANGED <<storingVars, bank, unchangedByWorker>>

\* Removing the job also when it throws, as the Safaricom processor does.
GetTransactionStatusFinally_Wrong ==
    GetTransactionStatusWith(jobsInProgress \ {worker.job})

GetTransactionStatus == GetTransactionStatusWith(jobsInProgress)

StoreTransactionResult ==
    /\ worker.pc = "store"
    /\ BeginStoring(Worker, jobs[worker.job].key, worker.status, FALSE)
    /\ worker' = [worker EXCEPT !.pc = "storing"]
    /\ UNCHANGED <<jobs, jobsInProgress, bank, unchangedByWorker>>

\* The request is saved with the transaction, as its customData.
StoreStep ==
    /\ StoringStep(Worker)
    /\ references' = IF Len(transactions') > Len(transactions)
                     THEN Append(references, worker.sent) ELSE references
    /\ UNCHANGED <<run, jobs, jobsInProgress, worker, bank, crashes>>

TransactionResultStored ==
    /\ worker.pc = "storing"
    /\ EndStoring(Worker)
    /\ worker' = [worker EXCEPT !.pc = "remove"]
    /\ UNCHANGED <<jobs, jobsInProgress, bank, unchangedByWorker>>

RemoveFromJobsInProgress ==
    /\ worker.pc = "remove"
    /\ jobsInProgress' = jobsInProgress \ {worker.job}
    /\ worker' = [worker EXCEPT !.pc = "complete"]
    /\ UNCHANGED <<storingVars, jobs, bank, unchangedByWorker>>

CompleteJob ==
    /\ worker.pc = "complete"
    /\ jobs' = [jobs EXCEPT ![worker.job].state = "completed"]
    /\ worker' = IdleWorker
    /\ UNCHANGED <<storingVars, jobsInProgress, bank, unchangedByWorker>>

WorkerStep ==
    \/ \E j \in Reference : TakeJob(j)
    \/ MissCredentials
    \/ CreditTransfer
    \/ CreditTransferDuplicated
    \/ GetTransactionStatus
    \/ StoreTransactionResult
    \/ StoreStep
    \/ TransactionResultStored
    \/ RemoveFromJobsInProgress
    \/ CompleteJob

-----------------------------------------------------------------------------
Crash ==
    /\ crashes < MaxCrashes
    /\ worker.pc = "complete" => LateCrash
    /\ crashes' = crashes + 1
    /\ run' = IF run.pc = "adding" THEN [IdleRun EXCEPT !.pc = "lost"] ELSE run
    /\ jobs' = [j \in DOMAIN jobs |->
         IF jobs[j].state = "active" THEN [jobs[j] EXCEPT !.state = "stalled"]
                                     ELSE jobs[j]]
    /\ worker' = IdleWorker
    /\ StopStoring
    /\ UNCHANGED <<storeVars, linked, statusEvents, jobsInProgress, references,
                   bank>>

RecoverStalledJob(j) ==
    /\ j \in DOMAIN jobs /\ jobs[j].state = "stalled"
    /\ jobs' = [jobs EXCEPT
         ![j].stalls = @ + 1,
         ![j].state = IF jobs[j].stalls < MaxStalls THEN "queued" ELSE "failed"]
    /\ UNCHANGED <<storingVars, run, jobsInProgress, worker, references, bank,
                   crashes>>

Next ==
    \/ \E p \in Payments : PostPayment(p) \/ RetryPayment(p)
    \/ \E r \in Registrations : AddFirstAttempt(r) \/ AddRetry(r)
    \/ FinishRun
    \/ WorkerStep
    \/ Crash
    \/ \E j \in Reference : RecoverStalledJob(j)

Spec == Init /\ [][Next]_vars

-----------------------------------------------------------------------------
(* Properties.                                                             *)

Paid(k) ==
    {jobs[j].reference :
        j \in {i \in DOMAIN jobs : /\ jobs[i].key = k
                                   /\ bank[jobs[i].reference] = "paid"}}

\* Whatever is lost, retried, done again after a crash, or fails: a
\* registration is paid once (commercial-bank-ethiopia.service.ts:146-171).
\* It does not hold with LateCrash: a retry of all failed payments finds the
\* failure by the latest transaction, and its reference by the newest.
AtMostOnePayout == \A k \in Key : Cardinality(Paid(k)) <= 1

\* A reported success was paid by the bank
\* (commercial-bank-ethiopia.service.ts:276-312).
SuccessMeansPaid ==
    \A k \in Key : StatusOf(k) = "success" => Paid(k) # {}

\* When nothing is in progress each payout is reported, and without a crash a
\* row keeps the reference with which a retry finds out that it was paid; else
\* the registration would be payable again, or the payout shown as failed for
\* ever (commercial-bank-ethiopia.service.ts:146-171,
\* commercial-bank-ethiopia.processor.ts:22-26).
PayoutIsTraceable ==
    ~IsPaymentInProgress => \A k \in Key : Paid(k) # {} =>
        /\ StatusOf(k) # "none"
        /\ crashes = 0 => \E i \in DOMAIN transactions :
             KeyOf(i) = k /\ references[i] \in Paid(k)
=============================================================================
