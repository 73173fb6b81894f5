----------------------- MODULE SafaricomTransfers -----------------------
(***************************************************************************)
(* Payments through Safaricom, from the payment or retry a user starts to  *)
(* the final status of the transaction.                                    *)
(*                                                                         *)
(*   user     --> a run adds one job per registration to the Bull queue,   *)
(*                each with a fresh originatorConversationId               *)
(*   worker   --> stores a "waiting" transaction and the transfer record,  *)
(*                then asks Safaricom for the transfer                     *)
(*   Safaricom -> settles the transfer and calls back                      *)
(*   callback worker -> writes "success" or "error" to the transaction     *)
(*                                                                         *)
(* The service process may crash between any two database statements.  A   *)
(* job that was being processed is then found stalled by Bull and is       *)
(* processed again from the start.                                         *)
(*                                                                         *)
(* A conversation id is the number of its job: ids are fresh, and a larger *)
(* number is a later job.  Bull, the Redis server and Safaricom are not in *)
(* the repository; their actions model how the code uses them.             *)
(*                                                                         *)
(* An operator whose name ends in _Wrong is an action with a plausible     *)
(* mistake in it.  No behaviour of the specification contains it; it shows *)
(* that a property notices the mistake (README, "Mutants").                *)
(***************************************************************************)
EXTENDS TransactionStore

CONSTANTS
    MaxJobs,          \* bound on the number of jobs ever added
    MaxCrashes,       \* bound on the number of crashes of the service
    MaxStalledCount,  \* how often Bull re-queues a stalled job (default 1)
    Faults            \* what may go wrong outside the service

\* lostRequest      the request does not reach Safaricom (also: no token)
\* lostResponse     Safaricom accepts, the service sees a failed request
\* transientRefusal a refused transfer may be accepted when asked again
\* lateTimeout      a timeout callback follows although the transfer is paid
\* duplicateCallback, lostCallback
FaultKinds == {"lostRequest", "lostResponse", "transientRefusal",
               "lateTimeout", "duplicateCallback", "lostCallback"}

ASSUME BoundsAssumption ==
    MaxJobs \in Nat /\ MaxCrashes \in Nat /\ MaxStalledCount \in Nat
ASSUME FaultsAssumption == Faults \subseteq FaultKinds

Conversations == 1..MaxJobs
NoConversation == 0

VARIABLES
    run,             \* the payment run of the user: which jobs are to be added
    jobs,            \* the jobs added so far
    jobsInProgress,  \* the Redis set program:<id>:jobs
    worker,          \* the processor of the transaction job queue
    transfers,       \* safaricom_transfer: transaction of a conversation
    mpesaRecorded,   \* conversations whose mpesaConversationId is stored
    fsp,             \* what Safaricom did with a conversation
    callbacks,       \* callbacks sent by Safaricom and not yet dealt with
    handling,        \* the callbacks the callback workers are processing
    crashes

vars == <<storeVars, run, jobs, jobsInProgress, worker, transfers,
          mpesaRecorded, fsp, callbacks, handling, crashes>>

platformVars == <<storeVars, transfers, mpesaRecorded>>

Kind == {"post", "retry"}
JobState == {"queued", "active", "stalled", "failed", "completed"}
Job == [registration : Registrations, payment : Payments, kind : Kind,
        state : JobState, stalls : Nat]

Run == [pc : {"idle", "adding", "lost"}, payment : Payments,
        kind : Kind, todo : SUBSET Registrations]

WorkerPc == {"idle", "create", "latest", "count", "save", "call", "reply",
             "finally", "complete"}
Reply == {"none", "ok", "duplicate", "error"}
Worker == [pc : WorkerPc, conversation : Nat, transaction : Nat,
           readCount : Nat, reply : Reply]

Outcome == {"paid", "declined", "expired"}
FspState == {"none", "refused", "accepted"} \cup Outcome
Callback == [conversation : Conversations, outcome : Outcome]

TypeOK ==
    /\ StoreTypeOK
    /\ run \in Run
    /\ jobs \in Seq(Job)
    /\ Len(jobs) <= MaxJobs
    /\ jobsInProgress \subseteq Conversations
    /\ worker \in Worker
    /\ worker.pc # "idle" => worker.conversation \in 1..Len(jobs)
    /\ worker.pc \in {"latest", "count", "save"} =>
         worker.transaction \in 1..Len(transactions)
    /\ transfers \in [Conversations -> Nat]
    /\ \A c \in Conversations : transfers[c] \in 0..Len(transactions)
    /\ mpesaRecorded \subseteq Conversations
    /\ fsp \in [Conversations -> FspState]
    /\ callbacks \subseteq Callback
    /\ handling \subseteq callbacks
    /\ \A m \in handling : transfers[m.conversation] # NoTransaction
    /\ crashes \in 0..MaxCrashes

IdleWorker == [pc |-> "idle", conversation |-> NoConversation,
               transaction |-> NoTransaction, readCount |-> 0, reply |-> "none"]

Init ==
    /\ StoreInit
    /\ run \in [pc : {"idle"}, payment : Payments, kind : {"post"}, todo : {{}}]
    /\ jobs = << >>
    /\ jobsInProgress = {}
    /\ worker = IdleWorker
    /\ transfers = [c \in Conversations |-> NoTransaction]
    /\ mpesaRecorded = {}
    /\ fsp = [c \in Conversations |-> "none"]
    /\ callbacks = {}
    /\ handling = {}
    /\ crashes = 0

JobKey(c) == <<jobs[c].registration, jobs[c].payment>>

-----------------------------------------------------------------------------
(* The user: postPayment, retryPayment and the run each of them starts.    *)

\* A run that has not saved its paymentFinished action, or a job in the set.
IsPaymentInProgress == run.pc # "idle" \/ jobsInProgress # {}

StartRun(p, kind, registrationsForPayment) ==
    /\ ~IsPaymentInProgress
    /\ registrationsForPayment # {}
    /\ Len(jobs) + Cardinality(registrationsForPayment) <= MaxJobs
    /\ run' = [pc |-> "adding", payment |-> p, kind |-> kind,
               todo |-> registrationsForPayment]
    /\ UNCHANGED <<platformVars, jobs, jobsInProgress, worker, fsp, callbacks,
                   handling, crashes>>

PostPayment(p) ==
    \E chosen \in SUBSET PayableRegistrations(p) : StartRun(p, "post", chosen)

RetryPayment(p) ==
    \/ StartRun(p, "retry", FailedRegistrations(p))
    \/ \E chosen \in SUBSET Registrations :
         /\ \A r \in chosen : NewestTransactionFailed(<<r, p>>)
         /\ StartRun(p, "retry", chosen)

\* One turn of the loop that adds the jobs.  The job and its entry in the
\* Redis set appear together here; module PaymentInProgress separates them.
AddSafaricomTransactionJob(r) ==
    /\ run.pc = "adding"
    /\ r \in run.todo
    /\ Len(jobs) < MaxJobs
    /\ jobs' = Append(jobs, [registration |-> r, payment |-> run.payment,
                             kind |-> run.kind, state |-> "queued",
                             stalls |-> 0])
    /\ jobsInProgress' = jobsInProgress \cup {Len(jobs) + 1}
    /\ run' = [run EXCEPT !.todo = @ \ {r}]
    /\ UNCHANGED <<platformVars, worker, fsp, callbacks, handling, crashes>>

FinishRun ==
    /\ run.pc = "adding"
    /\ run.todo = {}
    /\ run' = [run EXCEPT !.pc = "idle"]
    /\ UNCHANGED <<platformVars, jobs, jobsInProgress, worker, fsp, callbacks,
                   handling, crashes>>

-----------------------------------------------------------------------------
(* The worker: processSafaricomTransactionJob, one statement at a time.    *)

unchangedByWorker == <<run, callbacks, handling, crashes>>

\* Bull hands out the oldest job; a job that stalled is older than any other.
\* The registration and the transfer of the job are read.  Only this worker
\* writes a transfer record, so nothing can come between the two reads.
TakeJobAnd(c, inProgress) ==
    /\ worker.pc = "idle"
    /\ c \in DOMAIN jobs
    /\ jobs[c].state = "queued"
    /\ \A d \in DOMAIN jobs : jobs[d].state = "queued" => c <= d
    /\ jobs' = [jobs EXCEPT ![c].state = "active"]
    /\ worker' = [IdleWorker EXCEPT
         !.pc = IF transfers[c] = NoTransaction THEN "create" ELSE "call",
         !.conversation = c,
         !.readCount = registrations[jobs[c].registration].paymentCount]
    /\ jobsInProgress' = inProgress
    /\ UNCHANGED <<platformVars, fsp, unchangedByWorker>>

TakeJobRemovingIt_Wrong(c) == TakeJobAnd(c, jobsInProgress \ {c})

TakeJob(c) == TakeJobAnd(c, jobsInProgress)

\* A retry that reuses the failed transaction instead of adding one.
CreateWaitingTransactionReusing_Wrong ==
    LET k == JobKey(worker.conversation)
        i == latestTransactions[k]
    IN  /\ worker.pc = "create"
        /\ IF i = NoTransaction
           THEN CreateTransaction(k, "waiting")
           ELSE UpdateTransactionStatus(i, "waiting")
        /\ worker' = [worker EXCEPT !.pc = "latest",
             !.transaction = IF i = NoTransaction THEN Len(transactions) + 1 ELSE i]
        /\ UNCHANGED <<latestTransactions, registrations, jobs, jobsInProgress,
                       transfers, mpesaRecorded, fsp, unchangedByWorker>>

CreateWaitingTransaction ==
    /\ worker.pc = "create"
    /\ CreateTransaction(JobKey(worker.conversation), "waiting")
    /\ worker' = [worker EXCEPT !.pc = "latest",
                                !.transaction = Len(transactions) + 1]
    /\ UNCHANGED <<latestTransactions, registrations, jobs, jobsInProgress,
                   transfers, mpesaRecorded, fsp, unchangedByWorker>>

UpdateLatestTransactionThen(next) ==
    /\ worker.pc = "latest"
    /\ InsertOrUpdateFromTransaction(worker.transaction)
    /\ worker' = [worker EXCEPT !.pc = next]
    /\ UNCHANGED <<transactions, registrations, jobs, jobsInProgress,
                   transfers, mpesaRecorded, fsp, unchangedByWorker>>

ThenCount_Wrong == UpdateLatestTransactionThen("count")

ThenSkipSave_Wrong ==
    UpdateLatestTransactionThen(
        IF jobs[worker.conversation].kind = "retry" THEN "call" ELSE "count")

\* Only a first attempt counts as a payment to the registration.
UpdateLatestTransaction ==
    UpdateLatestTransactionThen(
        IF jobs[worker.conversation].kind = "retry" THEN "save" ELSE "count")

UpdateRegistration ==
    /\ worker.pc = "count"
    /\ UpdatePaymentCountAndStatusInRegistration(
         jobs[worker.conversation].registration, worker.readCount)
    /\ worker' = [worker EXCEPT !.pc = "save"]
    /\ UNCHANGED <<transactions, latestTransactions, jobs, jobsInProgress,
                   transfers, mpesaRecorded, fsp, unchangedByWorker>>

SaveTransfer ==
    /\ worker.pc = "save"
    /\ transfers' = [transfers EXCEPT ![worker.conversation] = worker.transaction]
    /\ worker' = [worker EXCEPT !.pc = "call"]
    /\ UNCHANGED <<storeVars, jobs, jobsInProgress, mpesaRecorded, fsp,
                   unchangedByWorker>>

\* The request and what Safaricom makes of it.  A conversation id Safaricom
\* accepted before gets the "duplicate" error code.
CallSafaricom ==
    LET c == worker.conversation
        replied(reply) == worker' = [worker EXCEPT !.pc = "reply", !.reply = reply]
    IN  /\ worker.pc = "call"
        /\ \/ /\ fsp[c] \in {"accepted"} \cup Outcome
              /\ replied("duplicate")
              /\ UNCHANGED fsp
           \/ /\ fsp[c] \in {"none", "refused"}
              /\ fsp[c] = "refused" => "transientRefusal" \in Faults
              /\ fsp' = [fsp EXCEPT ![c] = "accepted"]
              /\ \/ replied("ok")
                 \/ "lostResponse" \in Faults /\ replied("error")
           \/ /\ fsp[c] \in {"none", "refused"}
              /\ fsp' = [fsp EXCEPT ![c] = "refused"]
              /\ replied("error")
           \/ /\ "lostRequest" \in Faults
              /\ replied("error")
              /\ UNCHANGED fsp
        /\ UNCHANGED <<platformVars, jobs, jobsInProgress, unchangedByWorker>>

\* What doTransfer and its caller do with the reply.
HandleReplyWith(errors) ==
    LET c == worker.conversation
    IN  /\ worker.pc = "reply"
        /\ \/ /\ worker.reply = "ok"
              /\ mpesaRecorded' = mpesaRecorded \cup {c}
              /\ UNCHANGED transactions
           \/ /\ worker.reply \in {"duplicate"} \ errors
              /\ UNCHANGED <<transactions, mpesaRecorded>>
           \/ /\ worker.reply \in errors
              /\ UpdateTransactionStatus(transfers[c], "error")
              /\ UNCHANGED mpesaRecorded
        /\ worker' = [worker EXCEPT !.pc = "finally"]
        /\ UNCHANGED <<latestTransactions, registrations, jobs, jobsInProgress,
                       transfers, fsp, unchangedByWorker>>

HandleReplyDuplicateIsError_Wrong == HandleReplyWith({"error", "duplicate"})

HandleReply == HandleReplyWith({"error"})

\* The finally block of the processor takes the job out of the Redis set ...
RemoveFromJobsInProgress ==
    /\ worker.pc = "finally"
    /\ jobsInProgress' = jobsInProgress \ {worker.conversation}
    /\ worker' = [worker EXCEPT !.pc = "complete"]
    /\ UNCHANGED <<platformVars, jobs, fsp, unchangedByWorker>>

\* ... and only then does Bull move the job to completed.
CompleteJob ==
    /\ worker.pc = "complete"
    /\ jobs' = [jobs EXCEPT ![worker.conversation].state = "completed"]
    /\ worker' = IdleWorker
    /\ UNCHANGED <<platformVars, jobsInProgress, fsp, unchangedByWorker>>

WorkerStep ==
    \/ \E c \in Conversations : TakeJob(c)
    \/ CreateWaitingTransaction
    \/ UpdateLatestTransaction
    \/ UpdateRegistration
    \/ SaveTransfer
    \/ CallSafaricom
    \/ HandleReply
    \/ RemoveFromJobsInProgress
    \/ CompleteJob

-----------------------------------------------------------------------------
(* Safaricom and its callbacks.                                            *)

unchangedBySafaricom ==
    <<platformVars, run, jobs, jobsInProgress, worker, handling, crashes>>

\* Paid and declined transfers are reported to the result URL, expired ones
\* to the queue timeout URL.
SettleTransfer(c) ==
    /\ fsp[c] = "accepted"
    /\ \E outcome \in Outcome :
         /\ fsp' = [fsp EXCEPT ![c] = outcome]
         /\ callbacks' =
              callbacks \cup {[conversation |-> c, outcome |-> outcome]}
    /\ UNCHANGED unchangedBySafaricom

SendLateTimeout(c) ==
    /\ "lateTimeout" \in Faults
    /\ fsp[c] = "paid"
    /\ callbacks' = callbacks \cup {[conversation |-> c, outcome |-> "expired"]}
    /\ UNCHANGED <<fsp, unchangedBySafaricom>>

LoseCallback(m) ==
    /\ "lostCallback" \in Faults
    /\ m \in callbacks \ handling
    /\ callbacks' = callbacks \ {m}
    /\ UNCHANGED <<fsp, unchangedBySafaricom>>

\* The transfer and the timeout callbacks have a queue and a worker each.
IsTimeout(m) == m.outcome = "expired"

unchangedByCallback ==
    <<latestTransactions, registrations, run, jobs, jobsInProgress, worker,
      transfers, fsp, crashes>>

\* The transfer is looked up and, for a transfer callback, its Safaricom ids
\* are stored.  A callback without a transfer fails its job.
ReceiveCallback(m) ==
    /\ m \in callbacks \ handling
    /\ \A n \in handling : IsTimeout(n) # IsTimeout(m)
    /\ \/ /\ transfers[m.conversation] # NoTransaction
          /\ handling' = handling \cup {m}
          /\ mpesaRecorded' = IF IsTimeout(m) THEN mpesaRecorded
               ELSE mpesaRecorded \cup {m.conversation}
          /\ UNCHANGED callbacks
       \/ /\ transfers[m.conversation] = NoTransaction
          /\ callbacks' = callbacks \ {m}
          /\ UNCHANGED <<handling, mpesaRecorded>>
    /\ UNCHANGED <<transactions, unchangedByCallback>>

ApplyCallbackAnd(m, i, successes, stillHandling) ==
    /\ m \in handling
    /\ UpdateTransactionStatus(i,
         IF m.outcome \in successes THEN "success" ELSE "error")
    /\ handling' = stillHandling
    /\ \/ callbacks' = callbacks \ {m}
       \/ "duplicateCallback" \in Faults /\ UNCHANGED callbacks
    /\ UNCHANGED <<mpesaRecorded, unchangedByCallback>>

ApplyCallbackTo(m, i, successes) ==
    ApplyCallbackAnd(m, i, successes, handling \ {m})

\* A callback job that stays active although its callback is removed.
ApplyCallbackStuck_Wrong(m) ==
    ApplyCallbackAnd(m, transfers[m.conversation], {"paid"}, handling)

ApplyCallbackIgnoringResultCode_Wrong(m) ==
    ApplyCallbackTo(m, transfers[m.conversation], {"paid", "declined"})

ApplyCallback(m) ==
    ApplyCallbackTo(m, transfers[m.conversation], {"paid"})

CallbackStep ==
    \E m \in callbacks : ReceiveCallback(m) \/ ApplyCallback(m)

SafaricomStep ==
    \/ \E c \in Conversations : SettleTransfer(c) \/ SendLateTimeout(c)
    \/ \E m \in callbacks : LoseCallback(m)

-----------------------------------------------------------------------------
(* Crash of the service, and what Bull does with the jobs it was doing.    *)

\* A run dies with its process: its paymentFinished action is never saved.
\* The jobs of the callback queues are processed again.
Crash ==
    /\ crashes < MaxCrashes
    /\ crashes' = crashes + 1
    /\ jobs' = [c \in DOMAIN jobs |->
         IF jobs[c].state = "active" THEN [jobs[c] EXCEPT !.state = "stalled"]
                                     ELSE jobs[c]]
    /\ worker' = IdleWorker
    /\ handling' = {}
    /\ run' = IF run.pc = "adding" THEN [run EXCEPT !.pc = "lost", !.todo = {}]
                                   ELSE run
    /\ UNCHANGED <<platformVars, jobsInProgress, fsp, callbacks>>

RecoverStalledJobUpTo(c, limit) ==
    LET job == jobs[c]
    IN  /\ c \in DOMAIN jobs
        /\ job.state = "stalled"
        /\ jobs' = [jobs EXCEPT ![c] = [job EXCEPT
             !.stalls = job.stalls + 1,
             !.state = IF job.stalls < limit THEN "queued" ELSE "failed"]]
        /\ UNCHANGED <<platformVars, run, jobsInProgress, worker, fsp, callbacks,
                       handling, crashes>>

RecoverStalledJobNever_Wrong(c) == RecoverStalledJobUpTo(c, 0)

RecoverStalledJob(c) == RecoverStalledJobUpTo(c, MaxStalledCount)

-----------------------------------------------------------------------------
RunStep == (\E r \in Registrations : AddSafaricomTransactionJob(r)) \/ FinishRun

Next ==
    \/ \E p \in Payments : PostPayment(p) \/ RetryPayment(p)
    \/ RunStep
    \/ WorkerStep
    \/ SafaricomStep
    \/ CallbackStep
    \/ Crash
    \/ \E c \in Conversations : RecoverStalledJob(c)

Spec == Init /\ [][Next]_vars

\* The Node process keeps running its loops, Bull keeps looking for stalled
\* jobs, and Safaricom settles what it accepted.  Nobody has to start a
\* payment or a retry, and nothing has to go wrong.
Fairness ==
    /\ WF_vars(RunStep)
    /\ WF_vars(WorkerStep)
    /\ \A c \in Conversations :
         WF_vars(SettleTransfer(c)) /\ WF_vars(RecoverStalledJob(c))
    /\ \A c \in Conversations : \A o \in Outcome :
         LET m == [conversation |-> c, outcome |-> o]
         IN  WF_vars(ReceiveCallback(m)) /\ WF_vars(ApplyCallback(m))

FairSpec == Spec /\ Fairness

-----------------------------------------------------------------------------
(* Properties.                                                             *)

Issued(c) == c \in DOMAIN jobs
Unfinished(c) == Issued(c) /\ jobs[c].state # "completed"

\* The processor of callbacks reports "This should never happen" when it does
\* not find the transfer of a callback.  It never happens: the transfer is
\* saved before Safaricom hears of the conversation, also when a crash makes
\* the job start again.
CallbackFindsTransfer ==
    \A m \in callbacks : transfers[m.conversation] # NoTransaction

\* A transaction is reported successful only if Safaricom paid exactly that
\* registration for that payment under the conversation the transaction is
\* linked to, and the Safaricom id needed for reconciliation is stored.
SuccessMeansPaid ==
    \A i \in DOMAIN transactions : transactions[i].status = "success" =>
        \E c \in DOMAIN jobs : /\ transfers[c] = i
                               /\ fsp[c] = "paid"
                               /\ JobKey(c) = KeyOf(i)
                               /\ c \in mpesaRecorded

\* Two jobs never share a transaction (safaricom_transfer is one-to-one), so
\* a callback cannot change the transaction of another registration.
TransferOfOwnJob ==
    \A c \in Conversations : transfers[c] # NoTransaction =>
        /\ Issued(c)
        /\ JobKey(c) = KeyOf(transfers[c])
        /\ \A d \in Conversations : transfers[d] = transfers[c] => d = c

\* A transaction that latest_transaction does not show yet, because the job
\* that stores it is between the two statements or crashed there, keeps the
\* payment in progress: otherwise postPayment would select the registration
\* again.
HiddenTransactionMeansInProgress ==
    \A i \in DOMAIN transactions :
        latestTransactions[KeyOf(i)] < i => IsPaymentInProgress

\* Once its jobs are done, a registration is completed exactly when it has
\* had the maximum number of payments, however often a job was repeated.
CompletionMatchesPayments ==
    \A r \in Registrations :
        (\A c \in DOMAIN jobs : Unfinished(c) => jobs[c].registration # r) =>
            (registrations[r].status = "completed" <=>
                MaxPayments > 0 /\ GetPaymentCount(r) >= MaxPayments)

\* Until a crash, the stored payment count is the number of payments made,
\* except while a job is about to write it.  After one it may be too high for
\* good.
PaymentCountIsPaymentsMade ==
    crashes = 0 => \A r \in Registrations :
        \/ registrations[r].paymentCount = GetPaymentCount(r)
        \/ worker.pc = "count" /\ jobs[worker.conversation].registration = r

\* The service can tell from the replies and callbacks it gets whether a
\* transfer failed.  It cannot when a response is lost or a timeout is
\* reported for a transfer that is paid; nor when a job is processed again
\* after a crash and this time the request is lost or judged differently.
ReliableReports ==
    /\ {"lostResponse", "lateTimeout"} \cap Faults = {}
    /\ crashes > 0 => {"lostRequest", "transientRefusal"} \cap Faults = {}

\* With reliable reports a registration is not paid twice for one payment,
\* through all retries, crashes and repeated callbacks.
AtMostOnePayout ==
    ReliableReports => \A c, d \in DOMAIN jobs :
        JobKey(c) = JobKey(d) /\ fsp[c] = "paid" /\ fsp[d] = "paid" => c = d

\* Every job is completed and the payment it belongs to leaves "waiting",
\* also when the service crashes: a crashed job is done again.
EveryJobResolves ==
    \A c \in Conversations :
        Issued(c) ~> /\ Issued(c)
                     /\ jobs[c].state = "completed"
                     /\ StatusOf(JobKey(c)) # "waiting"

-----------------------------------------------------------------------------
(* With reliable reports this is a payout ledger.                          *)

\* The conversation has not reached Safaricom and may still do so.
CanStillPay(c) ==
    /\ Unfinished(c)
    /\ fsp[c] = "none"
    /\ ~(worker.conversation = c /\ worker.pc \in {"reply", "finally", "complete"})

Ledger == INSTANCE PayoutLedger WITH
    status <- [k \in Key |-> StatusOf(k)],
    open   <- [k \in Key |->
                 \/ StatusOf(k) = "waiting"
                 \/ /\ StatusOf(k) # "success"
                    /\ \E c \in DOMAIN jobs : JobKey(c) = k /\ CanStillPay(c)],
    paid   <- [k \in Key |->
                 \E c \in DOMAIN jobs : JobKey(c) = k /\ fsp[c] = "paid"]

LedgerSpec == Ledger!Spec
=============================================================================
