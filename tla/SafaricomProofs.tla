------------------------- MODULE SafaricomProofs ------------------------
(***************************************************************************)
(* Proofs about SafaricomTransfers, for every set of registrations and     *)
(* payments, all bounds and all kinds of faults.                           *)
(***************************************************************************)
EXTENDS SafaricomTransfers, SequenceTheorems, FiniteSetTheorems, TLAPS

(* The statements on the tables.                                           *)

LEMMA KeyOfTransaction ==
    ASSUME StoreTypeOK, NEW i \in 1..Len(transactions)
    PROVE  KeyOf(i) \in Key
<1>1. transactions[i] \in Transaction
  BY DEF StoreTypeOK
<1> QED
  BY <1>1 DEF KeyOf, Key, Transaction

\* A new transaction goes behind the others and leaves them alone.
LEMMA CreateTransactionAppends ==
    ASSUME StoreTypeOK, NEW k \in Key, NEW status \in TransactionStatus,
           CreateTransaction(k, status)
    PROVE  /\ transactions' \in Seq(Transaction)
           /\ Len(transactions') = Len(transactions) + 1
           /\ \A i \in 1..Len(transactions) : transactions'[i] = transactions[i]
           /\ LET new == transactions'[Len(transactions) + 1]
              IN  <<new.registration, new.payment>> = k /\ new.status = status
<1> DEFINE new == [registration |-> k[1], payment |-> k[2], status |-> status]
<1>1. new \in Transaction
  BY DEF Key, Transaction
<1>2. <<new.registration, new.payment>> = k /\ new.status = status
  BY DEF Key
<1>3. transactions' = Append(transactions, new) /\ transactions \in Seq(Transaction)
  BY DEF CreateTransaction, StoreTypeOK
<1> HIDE DEF new
<1> QED
  BY <1>1, <1>2, <1>3, AppendProperties

\* A status update changes the status of that transaction and nothing else.
LEMMA UpdateStatusKeepsRest ==
    ASSUME StoreTypeOK, NEW i \in 1..Len(transactions),
           NEW status \in TransactionStatus, UpdateTransactionStatus(i, status)
    PROVE  /\ transactions' \in Seq(Transaction)
           /\ Len(transactions') = Len(transactions)
           /\ \A j \in 1..Len(transactions) :
                /\ transactions'[j].registration = transactions[j].registration
                /\ transactions'[j].payment = transactions[j].payment
                /\ transactions'[j].status =
                     IF j = i THEN status ELSE transactions[j].status
<1> DEFINE new == [transactions[i] EXCEPT !.status = status]
<1>1. transactions \in Seq(Transaction) /\ transactions[i] \in Transaction
  BY DEF StoreTypeOK
<1>2. /\ new \in Transaction
      /\ new.registration = transactions[i].registration
      /\ new.payment = transactions[i].payment
      /\ new.status = status
  BY <1>1 DEF Transaction
<1>3. transactions' = [transactions EXCEPT ![i] = new]
  BY DEF UpdateTransactionStatus
<1> HIDE DEF new
<1> QED
  BY <1>1, <1>2, <1>3, ExceptSeq

LEMMA LatestKeepsType ==
    ASSUME StoreTypeOK, NEW i \in 1..Len(transactions),
           InsertOrUpdateFromTransaction(i)
    PROVE  /\ latestTransactions' \in [Key -> Nat]
           /\ \A k \in Key : latestTransactions'[k] \in 0..Len(transactions)
BY KeyOfTransaction DEF InsertOrUpdateFromTransaction, StoreTypeOK

LEMMA PaymentCountIsNat ==
    ASSUME NEW r PROVE GetPaymentCount(r) \in Nat
BY PaymentsAssumption, FS_Subset, FS_CardinalityType DEF GetPaymentCount

LEMMA UpdateRegistrationKeepsType ==
    ASSUME StoreTypeOK, NEW r \in Registrations, NEW readCount \in Nat,
           UpdatePaymentCountAndStatusInRegistration(r, readCount)
    PROVE  registrations' \in
             [Registrations -> [status : RegistrationStatus, paymentCount : Nat]]
<1>1. GetPaymentCount(r) \in Nat
  BY PaymentCountIsNat
<1>2. "completed" \in RegistrationStatus
  BY DEF RegistrationStatus
<1> QED
  BY <1>1, <1>2 DEF UpdatePaymentCountAndStatusInRegistration, UpdateWhen,
                    StoreTypeOK

-----------------------------------------------------------------------------
(* The parts of the system.                                                *)

\* The transfer record of a job is missing until the worker saves it, and
\* there from then on.
TransferWhenCalling ==
    /\ worker.pc \in {"create", "latest", "count", "save"} =>
         transfers[worker.conversation] = NoTransaction
    /\ worker.pc \in {"call", "reply"} =>
         transfers[worker.conversation] # NoTransaction

-----------------------------------------------------------------------------
(* Types.                                                                  *)

LEMMA StoreUnchanged == StoreTypeOK /\ UNCHANGED storeVars => StoreTypeOK'
BY DEF StoreTypeOK, storeVars

LEMMA JobUpdateType ==
    ASSUME jobs \in Seq(Job), NEW c \in DOMAIN jobs, NEW job \in Job,
           jobs' = [jobs EXCEPT ![c] = job]
    PROVE  /\ jobs' \in Seq(Job)
           /\ Len(jobs') = Len(jobs)
           /\ \A d \in 1..Len(jobs) : d # c => jobs'[d] = jobs[d]
           /\ jobs'[c] = job
<1>1. c \in 1..Len(jobs)
  OBVIOUS
<1> QED
  BY <1>1, ExceptSeq

LEMMA TypeInit == Init => TypeOK
<1> SUFFICES ASSUME Init PROVE TypeOK
  OBVIOUS
<1>1. StoreTypeOK /\ transactions = << >>
  BY DEF Init, StoreInit, StoreTypeOK, RegistrationStatus, NoTransaction
<1>2. jobs \in Seq(Job) /\ Len(jobs) <= MaxJobs
  BY BoundsAssumption DEF Init
<1>3. run \in Run
  BY DEF Init, Run, Kind
<1>4. worker \in Worker /\ worker.pc = "idle"
  BY DEF Init, IdleWorker, Worker, WorkerPc, Reply, NoConversation, NoTransaction
<1>5. fsp \in [Conversations -> FspState]
  BY DEF Init, FspState
<1>6. /\ transfers \in [Conversations -> Nat]
      /\ \A c \in Conversations : transfers[c] \in 0..Len(transactions)
  BY <1>1 DEF Init, NoTransaction
<1>7. crashes \in 0..MaxCrashes
  BY BoundsAssumption DEF Init
<1> QED
  BY <1>1, <1>2, <1>3, <1>4, <1>5, <1>6, <1>7 DEF Init, TypeOK

\* What the proofs below use of a job.
LEMMA JobFacts ==
    ASSUME TypeOK, NEW c \in 1..Len(jobs)
    PROVE  /\ c \in Conversations
           /\ c \in DOMAIN jobs
           /\ jobs[c] \in Job
           /\ JobKey(c) \in Key
<1>1. Len(jobs) \in Nat /\ MaxJobs \in Nat /\ Len(jobs) <= MaxJobs
  BY BoundsAssumption DEF TypeOK
<1>2. jobs[c] \in Job
  BY DEF TypeOK
<1> QED
  BY <1>1, <1>2 DEF TypeOK, Conversations, JobKey, Job, Key

\* Jobs are added and change their state; what they pay stays.
JobsKept ==
    /\ jobs' \in Seq(Job) /\ Len(jobs') <= MaxJobs
    /\ Len(jobs) <= Len(jobs')
    /\ \A c \in 1..Len(jobs) : /\ jobs'[c].registration = jobs[c].registration
                               /\ jobs'[c].payment = jobs[c].payment

LEMMA JobsKeptStep == TypeOK /\ [Next]_vars => JobsKept
<1> SUFFICES ASSUME TypeOK, [Next]_vars
             PROVE  JobsKept
  OBVIOUS
<1>1. jobs \in Seq(Job) /\ Len(jobs) \in Nat /\ Len(jobs) <= MaxJobs
  BY DEF TypeOK
<1>2. CASE UNCHANGED jobs
  BY <1>1, <1>2 DEF JobsKept
<1>3. ASSUME NEW c \in DOMAIN jobs, NEW job \in Job,
             jobs' = [jobs EXCEPT ![c] = job],
             job.registration = jobs[c].registration,
             job.payment = jobs[c].payment
      PROVE  JobsKept
  BY <1>1, <1>3, JobUpdateType DEF JobsKept
<1>4. ASSUME NEW r \in Registrations, AddSafaricomTransactionJob(r)
      PROVE  JobsKept
  <2> DEFINE job == [registration |-> r, payment |-> run.payment,
                     kind |-> run.kind, state |-> "queued", stalls |-> 0]
  <2>1. job \in Job
    BY DEF Job, JobState, Run, TypeOK
  <2>2. jobs' = Append(jobs, job) /\ Len(jobs) < MaxJobs
    BY <1>4 DEF AddSafaricomTransactionJob
  <2> HIDE DEF job
  <2> QED
    BY <1>1, <2>1, <2>2, AppendProperties, BoundsAssumption DEF JobsKept
<1>5. ASSUME NEW c \in Conversations, TakeJob(c)
      PROVE  JobsKept
  <2> DEFINE job == [jobs[c] EXCEPT !.state = "active"]
  <2>1. c \in DOMAIN jobs /\ jobs[c] \in Job
    BY <1>5, JobFacts DEF TakeJob, TakeJobAnd, TypeOK
  <2>2. /\ job \in Job
        /\ job.registration = jobs[c].registration
        /\ job.payment = jobs[c].payment
    BY <2>1 DEF Job, JobState
  <2>3. jobs' = [jobs EXCEPT ![c] = job]
    BY <1>5 DEF TakeJob, TakeJobAnd
  <2> HIDE DEF job
  <2> QED
    BY <1>3, <2>1, <2>2, <2>3
<1>6. ASSUME CompleteJob
      PROVE  JobsKept
  <2> DEFINE c == worker.conversation
             job == [jobs[c] EXCEPT !.state = "completed"]
  <2>1. c \in DOMAIN jobs /\ jobs[c] \in Job
    BY <1>6, JobFacts DEF CompleteJob, TypeOK
  <2>2. /\ job \in Job
        /\ job.registration = jobs[c].registration
        /\ job.payment = jobs[c].payment
    BY <2>1 DEF Job, JobState
  <2>3. jobs' = [jobs EXCEPT ![c] = job]
    BY <1>6 DEF CompleteJob
  <2> HIDE DEF job, c
  <2> QED
    BY <1>3, <2>1, <2>2, <2>3
<1>7. ASSUME Crash
      PROVE  JobsKept
  <2>1. /\ DOMAIN jobs' = 1..Len(jobs)
        /\ \A c \in 1..Len(jobs) : jobs'[c] =
             IF jobs[c].state = "active" THEN [jobs[c] EXCEPT !.state = "stalled"]
                                         ELSE jobs[c]
    BY <1>1, <1>7 DEF Crash
  <2>2. \A c \in 1..Len(jobs) : jobs'[c] \in Job
    BY <1>1, <2>1, JobFacts DEF Job, JobState
  <2>3. Len(jobs') = Len(jobs)
    BY <1>1, <1>7, <2>1, <2>2 DEF Crash
  <2>4. \A c \in 1..Len(jobs) : jobs[c] \in Job
    BY <1>1
  <2>5. \A c \in 1..Len(jobs) : /\ jobs'[c].registration = jobs[c].registration
                                /\ jobs'[c].payment = jobs[c].payment
    BY <2>1, <2>4 DEF Job
  <2>6. jobs' \in Seq(Job)
    BY <1>7, <2>1, <2>2 DEF Crash
  <2> QED
    BY <1>1, <2>3, <2>5, <2>6 DEF JobsKept
<1>8. ASSUME NEW c \in Conversations, RecoverStalledJob(c)
      PROVE  JobsKept
  <2> DEFINE state == IF jobs[c].stalls < MaxStalledCount THEN "queued" ELSE "failed"
             stalls == jobs[c].stalls + 1
             mid == [jobs[c] EXCEPT !.stalls = stalls]
             job == [mid EXCEPT !.state = state]
  <2>1. c \in DOMAIN jobs /\ jobs[c] \in Job
    BY <1>8, JobFacts DEF RecoverStalledJob, RecoverStalledJobUpTo, TypeOK
  <2>2. jobs' = [jobs EXCEPT ![c] = job]
    BY <1>8, <2>1 DEF RecoverStalledJob, RecoverStalledJobUpTo, Job
  <2>3. stalls \in Nat /\ state \in JobState
    BY <2>1 DEF Job, JobState
  <2> HIDE DEF stalls, state
  <2>4. /\ mid \in Job
        /\ mid.registration = jobs[c].registration
        /\ mid.payment = jobs[c].payment
    BY <2>1, <2>3 DEF Job
  <2> HIDE DEF mid
  <2>5. /\ job \in Job
        /\ job.registration = jobs[c].registration
        /\ job.payment = jobs[c].payment
    BY <2>3, <2>4 DEF Job
  <2> HIDE DEF job
  <2> QED
    BY <1>3, <2>1, <2>2, <2>5
<1>9. ASSUME NEW p \in Payments, PostPayment(p) \/ RetryPayment(p)
      PROVE  UNCHANGED jobs
  BY <1>9 DEF PostPayment, RetryPayment, StartRun
<1>10. ASSUME \/ FinishRun \/ CreateWaitingTransaction \/ UpdateLatestTransaction
              \/ UpdateRegistration \/ SaveTransfer \/ CallSafaricom \/ HandleReply
              \/ RemoveFromJobsInProgress \/ SafaricomStep \/ CallbackStep
       PROVE  UNCHANGED jobs
  BY <1>10
  DEF FinishRun, CreateWaitingTransaction, UpdateLatestTransaction,
      UpdateLatestTransactionThen, UpdateRegistration, SaveTransfer, CallSafaricom,
      HandleReply, HandleReplyWith, RemoveFromJobsInProgress, SafaricomStep,
      SettleTransfer, SendLateTimeout, LoseCallback, unchangedBySafaricom,
      CallbackStep, ReceiveCallback, ApplyCallback, ApplyCallbackTo,
      ApplyCallbackAnd, unchangedByCallback
<1>11. CASE UNCHANGED vars
  BY <1>2, <1>11 DEF vars
<1> QED
  BY <1>2, <1>4, <1>5, <1>6, <1>7, <1>8, <1>9, <1>10, <1>11
  DEF Next, RunStep, WorkerStep

LEMMA TypeStep == TypeOK /\ TransferWhenCalling /\ [Next]_vars => TypeOK'
<1> SUFFICES ASSUME TypeOK, TransferWhenCalling, [Next]_vars
             PROVE  TypeOK'
  OBVIOUS
<1>20. JobsKept
  BY JobsKeptStep
<1>21. Len(jobs) \in Nat /\ Len(jobs') \in Nat /\ MaxJobs \in Nat
  BY <1>20, BoundsAssumption DEF JobsKept, TypeOK
<1> USE <1>20, <1>21 DEF TypeOK, platformVars, storeVars, JobsKept
<1>1. ASSUME NEW p \in Payments, PostPayment(p) \/ RetryPayment(p)
      PROVE  TypeOK'
  <2>1. PICK kind \in Kind, chosen \in SUBSET Registrations : StartRun(p, kind, chosen)
    BY <1>1 DEF PostPayment, RetryPayment, PayableRegistrations,
                FailedRegistrations, Kind
  <2> QED
    BY <2>1, StoreUnchanged DEF StartRun, Run
<1>2. ASSUME NEW r \in Registrations, AddSafaricomTransactionJob(r)
      PROVE  TypeOK'
  <2>1. Len(jobs) + 1 \in Conversations
    BY <1>2 DEF AddSafaricomTransactionJob, Conversations
  <2>2. /\ jobsInProgress' \subseteq Conversations
        /\ run' \in Run
        /\ UNCHANGED <<platformVars, worker, fsp, callbacks, handling, crashes>>
    BY <1>2, <2>1 DEF AddSafaricomTransactionJob, Run
  <2> QED
    BY <2>2, StoreUnchanged
<1>3. ASSUME FinishRun
      PROVE  TypeOK'
  BY <1>3, StoreUnchanged DEF FinishRun, Run
<1>4. ASSUME NEW c \in Conversations, TakeJob(c)
      PROVE  TypeOK'
  <2>1. c \in 1..Len(jobs) /\ c \in Nat /\ jobs[c] \in Job
    BY <1>4, JobFacts DEF TakeJob, TakeJobAnd
  <2>2. registrations[jobs[c].registration].paymentCount \in Nat
    BY <2>1 DEF Job, StoreTypeOK
  <2>3. PICK pc \in {"create", "call"} :
          worker' = [IdleWorker EXCEPT !.pc = pc, !.conversation = c,
            !.readCount = registrations[jobs[c].registration].paymentCount]
    BY <1>4 DEF TakeJob, TakeJobAnd
  <2>4. worker' \in Worker /\ worker'.conversation = c /\ worker'.pc = pc
    BY <2>1, <2>2, <2>3 DEF Worker, WorkerPc, Reply, IdleWorker, NoConversation,
                            NoTransaction
  <2>5. UNCHANGED <<platformVars, jobsInProgress, fsp, unchangedByWorker>>
    BY <1>4 DEF TakeJob, TakeJobAnd
  <2> QED
    BY <2>1, <2>4, <2>5, StoreUnchanged DEF unchangedByWorker
<1>5. ASSUME CreateWaitingTransaction
      PROVE  TypeOK'
  <2>1. JobKey(worker.conversation) \in Key
    BY <1>5, JobFacts DEF CreateWaitingTransaction
  <2>2. transactions' \in Seq(Transaction) /\ Len(transactions') = Len(transactions) + 1
    BY <1>5, <2>1, CreateTransactionAppends
    DEF CreateWaitingTransaction, TransactionStatus
  <2>3. Len(transactions) \in Nat
    BY DEF StoreTypeOK
  <2>4. /\ worker' \in Worker
        /\ worker'.transaction = Len(transactions) + 1
        /\ worker'.conversation = worker.conversation
    <3> DEFINE mid == [worker EXCEPT !.pc = "latest"]
    <3>1. /\ mid \in Worker
          /\ mid.conversation = worker.conversation
          /\ worker' = [mid EXCEPT !.transaction = Len(transactions) + 1]
      BY <1>5 DEF CreateWaitingTransaction, Worker, WorkerPc
    <3>2. Len(transactions) + 1 \in Nat
      BY <2>3
    <3> HIDE DEF mid
    <3> QED
      BY <3>1, <3>2 DEF Worker
  <2>5. UNCHANGED <<latestTransactions, registrations, jobs, jobsInProgress,
                    transfers, mpesaRecorded, fsp, unchangedByWorker>>
    BY <1>5 DEF CreateWaitingTransaction
  <2>6. StoreTypeOK'
    BY <2>2, <2>3, <2>5 DEF StoreTypeOK
  <2> QED
    BY <1>5, <2>2, <2>3, <2>4, <2>5, <2>6
    DEF unchangedByWorker, CreateWaitingTransaction
<1>6. ASSUME UpdateLatestTransaction
      PROVE  TypeOK'
  <2>1. /\ latestTransactions' \in [Key -> Nat]
        /\ \A k \in Key : latestTransactions'[k] \in 0..Len(transactions)
    BY <1>6, LatestKeepsType DEF UpdateLatestTransaction, UpdateLatestTransactionThen
  <2>2. PICK pc \in {"save", "count"} : worker' = [worker EXCEPT !.pc = pc]
    BY <1>6 DEF UpdateLatestTransaction, UpdateLatestTransactionThen
  <2>3. /\ worker.pc = "latest"
        /\ UNCHANGED <<transactions, registrations, jobs, jobsInProgress,
                       transfers, mpesaRecorded, fsp, unchangedByWorker>>
    BY <1>6 DEF UpdateLatestTransaction, UpdateLatestTransactionThen
  <2>4. StoreTypeOK'
    BY <2>1, <2>3 DEF StoreTypeOK
  <2> QED
    BY <2>2, <2>3, <2>4 DEF Worker, WorkerPc, unchangedByWorker
<1>7. ASSUME UpdateRegistration
      PROVE  TypeOK'
  <2>1. jobs[worker.conversation].registration \in Registrations
    BY <1>7, JobFacts DEF UpdateRegistration, Job
  <2>2. worker.readCount \in Nat
    BY DEF Worker
  <2>3. StoreTypeOK'
    BY <1>7, <2>1, <2>2, UpdateRegistrationKeepsType
    DEF UpdateRegistration, StoreTypeOK
  <2> QED
    BY <1>7, <2>3 DEF UpdateRegistration, Worker, WorkerPc, unchangedByWorker
<1>8. ASSUME SaveTransfer
      PROVE  TypeOK'
  <2>1. worker.conversation \in Conversations
    BY <1>8, JobFacts DEF SaveTransfer
  <2>2. worker.transaction \in 1..Len(transactions) /\ Len(transactions) \in Nat
    BY <1>8 DEF SaveTransfer, StoreTypeOK
  <2>3. /\ worker' = [worker EXCEPT !.pc = "call"]
        /\ transfers' = [transfers EXCEPT ![worker.conversation] = worker.transaction]
        /\ UNCHANGED <<storeVars, jobs, jobsInProgress, mpesaRecorded, fsp,
                       unchangedByWorker>>
    BY <1>8 DEF SaveTransfer
  <2>4. StoreTypeOK'
    BY <2>3, StoreUnchanged
  <2>5. worker' \in Worker /\ worker'.conversation = worker.conversation
          /\ worker'.pc = "call"
    BY <2>3 DEF Worker, WorkerPc
  <2>6. /\ transfers' \in [Conversations -> Nat]
        /\ \A c \in Conversations : transfers'[c] \in 0..Len(transactions)
        /\ \A c \in Conversations :
             transfers[c] # NoTransaction => transfers'[c] # NoTransaction
    BY <2>1, <2>2, <2>3 DEF NoTransaction
  <2>7. \A m \in handling : m.conversation \in Conversations
    BY DEF Callback
  <2> QED
    BY <1>8, <2>3, <2>4, <2>5, <2>6, <2>7 DEF unchangedByWorker, SaveTransfer
<1>9. ASSUME CallSafaricom
      PROVE  TypeOK'
  <2>1. PICK reply \in Reply :
          worker' = [worker EXCEPT !.pc = "reply", !.reply = reply]
    BY <1>9 DEF CallSafaricom, Reply
  <2>2. worker' \in Worker /\ worker'.pc = "reply"
          /\ worker'.conversation = worker.conversation
    BY <2>1 DEF Worker, WorkerPc
  <2>3. fsp' \in [Conversations -> FspState]
    BY <1>9 DEF CallSafaricom, FspState
  <2> QED
    BY <1>9, <2>2, <2>3, StoreUnchanged DEF CallSafaricom, unchangedByWorker
<1>10. ASSUME HandleReply
       PROVE  TypeOK'
  <2>1. worker.conversation \in Conversations /\ worker.pc = "reply"
    BY <1>10, JobFacts DEF HandleReply, HandleReplyWith
  <2>2. transfers[worker.conversation] \in 1..Len(transactions)
    BY <2>1 DEF TransferWhenCalling, NoTransaction, StoreTypeOK
  <2>3. transactions' \in Seq(Transaction) /\ Len(transactions') = Len(transactions)
    BY <1>10, <2>2, UpdateStatusKeepsRest
    DEF HandleReply, HandleReplyWith, TransactionStatus, StoreTypeOK
  <2>4. mpesaRecorded' \subseteq Conversations
    BY <1>10, <2>1 DEF HandleReply, HandleReplyWith
  <2>5. /\ worker' = [worker EXCEPT !.pc = "finally"]
        /\ UNCHANGED <<latestTransactions, registrations, jobs, jobsInProgress,
                       transfers, fsp, unchangedByWorker>>
    BY <1>10 DEF HandleReply, HandleReplyWith
  <2>6. StoreTypeOK'
    BY <2>3, <2>5 DEF StoreTypeOK
  <2> QED
    BY <2>1, <2>3, <2>4, <2>5, <2>6 DEF Worker, WorkerPc, unchangedByWorker
<1>11. ASSUME RemoveFromJobsInProgress
       PROVE  TypeOK'
  BY <1>11, StoreUnchanged
  DEF RemoveFromJobsInProgress, Worker, WorkerPc, unchangedByWorker
<1>12. ASSUME CompleteJob
       PROVE  TypeOK'
  <2>1. worker' = IdleWorker /\ IdleWorker \in Worker /\ IdleWorker.pc = "idle"
    BY <1>12 DEF CompleteJob, IdleWorker, Worker, WorkerPc, Reply, NoConversation,
                 NoTransaction
  <2>2. UNCHANGED <<platformVars, jobsInProgress, fsp, unchangedByWorker>>
    BY <1>12 DEF CompleteJob
  <2> QED
    BY <2>1, <2>2, StoreUnchanged DEF unchangedByWorker
<1>13. ASSUME NEW c \in Conversations, SettleTransfer(c) \/ SendLateTimeout(c)
       PROVE  TypeOK'
  <2>1. /\ fsp' \in [Conversations -> FspState]
        /\ \E outcome \in Outcome : callbacks' =
             callbacks \cup {[conversation |-> c, outcome |-> outcome]}
    BY <1>13 DEF SettleTransfer, SendLateTimeout, FspState, Outcome
  <2>3. callbacks' \subseteq Callback
    BY <2>1 DEF Callback
  <2>2. UNCHANGED unchangedBySafaricom /\ callbacks \subseteq callbacks'
    BY <1>13 DEF SettleTransfer, SendLateTimeout
  <2> QED
    BY <2>1, <2>2, <2>3, StoreUnchanged DEF unchangedBySafaricom
<1>14. ASSUME NEW m \in callbacks, LoseCallback(m)
       PROVE  TypeOK'
  BY <1>14, StoreUnchanged DEF LoseCallback, unchangedBySafaricom
<1>15. ASSUME NEW m \in callbacks, ReceiveCallback(m)
       PROVE  TypeOK'
  <2>1. m.conversation \in Conversations
    BY DEF Callback
  <2>2. UNCHANGED storeVars /\ UNCHANGED <<transfers, fsp, crashes, run, jobs, worker,
                                          jobsInProgress>>
    BY <1>15 DEF ReceiveCallback, unchangedByCallback, storeVars
  <2>3. /\ mpesaRecorded' \subseteq Conversations
        /\ callbacks' \subseteq Callback
        /\ handling' \subseteq callbacks'
        /\ \A n \in handling' : transfers[n.conversation] # NoTransaction
    BY <1>15, <2>1 DEF ReceiveCallback
  <2> QED
    BY <2>2, <2>3, StoreUnchanged
<1>16. ASSUME NEW m \in callbacks, ApplyCallback(m)
       PROVE  TypeOK'
  <2>1. transfers[m.conversation] \in 1..Len(transactions)
    BY <1>16 DEF ApplyCallback, ApplyCallbackTo, ApplyCallbackAnd, Callback,
                 NoTransaction, StoreTypeOK
  <2>2. transactions' \in Seq(Transaction) /\ Len(transactions') = Len(transactions)
    BY <1>16, <2>1, UpdateStatusKeepsRest
    DEF ApplyCallback, ApplyCallbackTo, ApplyCallbackAnd, TransactionStatus
  <2>3. UNCHANGED <<mpesaRecorded, unchangedByCallback>>
    BY <1>16 DEF ApplyCallback, ApplyCallbackTo, ApplyCallbackAnd
  <2>4. callbacks' \subseteq Callback /\ handling' \subseteq callbacks'
          /\ handling' \subseteq handling
    BY <1>16 DEF ApplyCallback, ApplyCallbackTo, ApplyCallbackAnd
  <2>5. StoreTypeOK'
    BY <2>2, <2>3 DEF StoreTypeOK, unchangedByCallback
  <2> QED
    BY <2>2, <2>3, <2>4, <2>5 DEF unchangedByCallback
<1>17. ASSUME Crash
       PROVE  TypeOK'
  <2>1. worker' = IdleWorker /\ IdleWorker \in Worker /\ IdleWorker.pc = "idle"
    BY <1>17 DEF Crash, IdleWorker, Worker, WorkerPc, Reply, NoConversation,
                 NoTransaction
  <2>2. run' \in Run
    <3> DEFINE lost == [run EXCEPT !.pc = "lost"]
    <3>1. lost \in Run /\ (run' = [lost EXCEPT !.todo = {}] \/ run' = run)
      BY <1>17 DEF Crash, Run
    <3> HIDE DEF lost
    <3> QED
      BY <3>1 DEF Run
  <2>3. handling' = {} /\ crashes' \in 0..MaxCrashes
    BY <1>17, BoundsAssumption DEF Crash
  <2> QED
    BY <1>17, <2>1, <2>2, <2>3, StoreUnchanged DEF Crash
<1>18. ASSUME NEW c \in Conversations, RecoverStalledJob(c)
       PROVE  TypeOK'
  BY <1>18, StoreUnchanged DEF RecoverStalledJob, RecoverStalledJobUpTo
<1>19. CASE UNCHANGED vars
  BY <1>19, StoreUnchanged DEF vars
<1> QED
  BY <1>1, <1>2, <1>3, <1>4, <1>5, <1>6, <1>7, <1>8, <1>9, <1>10, <1>11, <1>12,
     <1>13, <1>14, <1>15, <1>16, <1>17, <1>18, <1>19
  DEF Next, RunStep, WorkerStep, SafaricomStep, CallbackStep
-----------------------------------------------------------------------------
(* What else no step undoes.                                               *)

TransactionsKept ==
    /\ Len(transactions) <= Len(transactions')
    /\ \A i \in 1..Len(transactions) :
         /\ transactions'[i].registration = transactions[i].registration
         /\ transactions'[i].payment = transactions[i].payment

FspKept ==
    \A c \in Conversations : /\ fsp[c] = "paid" => fsp'[c] = "paid"
                             /\ fsp[c] # "none" => fsp'[c] # "none"

LEMMA TransactionsKeptStep ==
    TypeOK /\ TransferWhenCalling /\ [Next]_vars => TransactionsKept
<1> SUFFICES ASSUME TypeOK, TransferWhenCalling, [Next]_vars
             PROVE  TransactionsKept
  OBVIOUS
<1>1. StoreTypeOK /\ Len(transactions) \in Nat
  BY DEF TypeOK, StoreTypeOK
<1>2. CASE UNCHANGED transactions
  BY <1>1, <1>2 DEF TransactionsKept
<1>3. ASSUME CreateWaitingTransaction
      PROVE  TransactionsKept
  <2>1. JobKey(worker.conversation) \in Key
    BY <1>3, JobFacts DEF CreateWaitingTransaction, TypeOK
  <2> QED
    BY <1>1, <1>3, <2>1, CreateTransactionAppends
    DEF CreateWaitingTransaction, TransactionStatus, TransactionsKept
<1>4. ASSUME NEW i \in 1..Len(transactions), NEW status \in TransactionStatus,
             UpdateTransactionStatus(i, status)
      PROVE  TransactionsKept
  BY <1>1, <1>4, UpdateStatusKeepsRest DEF TransactionsKept
<1>5. ASSUME HandleReply
      PROVE  TransactionsKept
  <2>1. worker.conversation \in Conversations
    BY <1>5, JobFacts DEF HandleReply, HandleReplyWith, TypeOK
  <2>2. transfers[worker.conversation] \in 1..Len(transactions)
    BY <1>1, <1>5, <2>1
    DEF HandleReply, HandleReplyWith, TransferWhenCalling, TypeOK, NoTransaction
  <2>3. \/ UpdateTransactionStatus(transfers[worker.conversation], "error")
        \/ UNCHANGED transactions
    BY <1>5 DEF HandleReply, HandleReplyWith
  <2> QED
    BY <1>2, <1>4, <2>2, <2>3 DEF TransactionStatus
<1>6. ASSUME NEW m \in callbacks, ApplyCallback(m)
      PROVE  TransactionsKept
  <2>1. transfers[m.conversation] \in 1..Len(transactions)
    BY <1>1, <1>6 DEF ApplyCallback, ApplyCallbackTo, ApplyCallbackAnd, Callback,
                      NoTransaction, TypeOK
  <2>2. PICK status \in TransactionStatus :
          UpdateTransactionStatus(transfers[m.conversation], status)
    BY <1>6 DEF ApplyCallback, ApplyCallbackTo, ApplyCallbackAnd, TransactionStatus
  <2> QED
    BY <1>4, <2>1, <2>2
<1>7. ASSUME NEW p \in Payments, PostPayment(p) \/ RetryPayment(p)
      PROVE  UNCHANGED transactions
  BY <1>7 DEF PostPayment, RetryPayment, StartRun, platformVars, storeVars
<1>8. ASSUME NEW m \in callbacks, ReceiveCallback(m)
      PROVE  UNCHANGED transactions
  BY <1>8 DEF ReceiveCallback
<1>9. ASSUME \/ RunStep \/ UpdateLatestTransaction \/ UpdateRegistration
             \/ SaveTransfer \/ CallSafaricom \/ RemoveFromJobsInProgress
             \/ CompleteJob \/ SafaricomStep \/ Crash
             \/ \E c \in Conversations : TakeJob(c) \/ RecoverStalledJob(c)
      PROVE  UNCHANGED transactions
  BY <1>9
  DEF RunStep, AddSafaricomTransactionJob, FinishRun, TakeJob, TakeJobAnd,
      UpdateLatestTransaction, UpdateLatestTransactionThen, UpdateRegistration,
      SaveTransfer, CallSafaricom, RemoveFromJobsInProgress, CompleteJob,
      SafaricomStep, SettleTransfer, SendLateTimeout, LoseCallback,
      unchangedBySafaricom, Crash, RecoverStalledJob, RecoverStalledJobUpTo,
      platformVars, storeVars
<1> QED
  BY <1>2, <1>3, <1>5, <1>6, <1>7, <1>8, <1>9
  DEF Next, WorkerStep, CallbackStep, vars, storeVars

LEMMA FspKeptStep == TypeOK /\ [Next]_vars => FspKept
<1> SUFFICES ASSUME TypeOK, [Next]_vars
             PROVE  FspKept
  OBVIOUS
<1>1. CASE UNCHANGED fsp
  BY <1>1 DEF FspKept
<1>2. ASSUME CallSafaricom
      PROVE  FspKept
  BY <1>2 DEF CallSafaricom, FspKept, TypeOK, Outcome
<1>3. ASSUME NEW c \in Conversations, SettleTransfer(c)
      PROVE  FspKept
  BY <1>3 DEF SettleTransfer, FspKept, TypeOK, Outcome
<1>4. ASSUME NEW p \in Payments, PostPayment(p) \/ RetryPayment(p)
      PROVE  UNCHANGED fsp
  BY <1>4 DEF PostPayment, RetryPayment, StartRun
<1>5. ASSUME \/ RunStep \/ CreateWaitingTransaction \/ UpdateLatestTransaction
             \/ UpdateRegistration \/ SaveTransfer \/ HandleReply
             \/ RemoveFromJobsInProgress \/ CompleteJob \/ Crash
             \/ \E c \in Conversations : \/ TakeJob(c) \/ SendLateTimeout(c)
                                         \/ RecoverStalledJob(c)
      PROVE  UNCHANGED fsp
  BY <1>5
  DEF RunStep, AddSafaricomTransactionJob, FinishRun, TakeJob, TakeJobAnd,
      CreateWaitingTransaction, UpdateLatestTransaction, HandleReply,
      HandleReplyWith, UpdateLatestTransactionThen, UpdateRegistration,
      SaveTransfer, RemoveFromJobsInProgress, CompleteJob, SendLateTimeout,
      Crash, RecoverStalledJob, RecoverStalledJobUpTo
<1>6. ASSUME NEW m \in callbacks,
             LoseCallback(m) \/ ReceiveCallback(m) \/ ApplyCallback(m)
      PROVE  UNCHANGED fsp
  BY <1>6 DEF LoseCallback, ReceiveCallback, ApplyCallback, ApplyCallbackTo,
              ApplyCallbackAnd, unchangedByCallback
<1> QED
  BY <1>1, <1>2, <1>3, <1>4, <1>5, <1>6
  DEF Next, WorkerStep, CallbackStep, SafaricomStep, vars
-----------------------------------------------------------------------------
(* The invariant.                                                          *)

\* Until its transfer is saved, the transaction of a job belongs to no transfer.
TransactionOfJob ==
    worker.pc \in {"latest", "count", "save"} =>
        /\ KeyOf(worker.transaction) = JobKey(worker.conversation)
        /\ \A d \in Conversations : transfers[d] # worker.transaction

KnownHasTransfer ==
    \A c \in Conversations : fsp[c] # "none" => transfers[c] # NoTransaction

CallbackIsTrue ==
    /\ \A m \in callbacks : /\ fsp[m.conversation] # "none"
                            /\ m.outcome = "paid" => fsp[m.conversation] = "paid"
    /\ \A m \in handling : m.outcome = "paid" => m.conversation \in mpesaRecorded

TransferInv ==
    /\ TypeOK
    /\ TransferWhenCalling
    /\ TransactionOfJob
    /\ TransferOfOwnJob

Inv ==
    /\ TransferInv
    /\ KnownHasTransfer
    /\ CallbackIsTrue
    /\ SuccessMeansPaid
LEMMA KeysKept ==
    ASSUME TypeOK, JobsKept, TransactionsKept
    PROVE  /\ \A c \in 1..Len(jobs) : c \in 1..Len(jobs') /\ JobKey(c)' = JobKey(c)
           /\ \A i \in 1..Len(transactions) : KeyOf(i)' = KeyOf(i)
<1>1. Len(jobs) \in Nat /\ Len(jobs') \in Nat
  BY DEF TypeOK, JobsKept
<1> QED
  BY <1>1 DEF JobsKept, TransactionsKept, JobKey, KeyOf

LEMMA OwnJobKept ==
    ASSUME TransferInv, JobsKept, TransactionsKept, UNCHANGED transfers
    PROVE  TransferOfOwnJob'
<1>1. /\ jobs \in Seq(Job) /\ jobs' \in Seq(Job)
      /\ Len(transactions) \in Nat
      /\ \A c \in Conversations : transfers[c] \in 0..Len(transactions)
  BY DEF TransferInv, TypeOK, StoreTypeOK, JobsKept
<1>2. ASSUME NEW c \in Conversations, transfers[c] # NoTransaction
      PROVE  /\ c \in 1..Len(jobs)
             /\ transfers[c] \in 1..Len(transactions)
             /\ JobKey(c) = KeyOf(transfers[c])
  BY <1>1, <1>2 DEF TransferInv, TransferOfOwnJob, Issued, NoTransaction
<1>3. ASSUME NEW c \in Conversations, transfers[c] # NoTransaction,
             NEW i, i = transfers[c]
      PROVE  c \in DOMAIN jobs' /\ JobKey(c)' = KeyOf(i)'
  BY <1>1, <1>2, <1>3, KeysKept DEF TransferInv
<1>4. ASSUME NEW c \in Conversations, transfers[c] # NoTransaction
      PROVE  Issued(c)' /\ JobKey(c)' = KeyOf(transfers[c])'
  BY <1>3, <1>4 DEF Issued
<1> QED
  BY <1>4 DEF TransferInv, TransferOfOwnJob

LEMMA TransferStep ==
    ASSUME TransferInv, [Next]_vars
    PROVE  TransferInv'
<1>1. TypeOK' /\ JobsKept /\ TransactionsKept
  BY TypeStep, JobsKeptStep, TransactionsKeptStep DEF TransferInv
<1>2. /\ jobs \in Seq(Job) /\ jobs' \in Seq(Job)
      /\ worker \in Worker
      /\ transfers \in [Conversations -> Nat]
      /\ Len(transactions) \in Nat
      /\ \A c \in Conversations : transfers[c] \in 0..Len(transactions)
  BY <1>1 DEF TransferInv, TypeOK, StoreTypeOK, JobsKept
<1>3. CASE UNCHANGED <<worker, transfers>>
  <2>1. TransferWhenCalling'
    BY <1>3 DEF TransferInv, TransferWhenCalling
  <2>2. ASSUME worker.pc \in {"latest", "count", "save"},
               NEW i, i = worker.transaction, NEW c, c = worker.conversation
        PROVE  KeyOf(i)' = JobKey(c)'
    BY <1>1, <2>2, KeysKept DEF TransferInv, TransactionOfJob, TypeOK
  <2>3. TransactionOfJob'
    BY <1>3, <2>2 DEF TransferInv, TransactionOfJob
  <2> QED
    BY <1>1, <1>3, <2>1, <2>3, OwnJobKept DEF TransferInv
<1>4. CASE UNCHANGED transfers
           /\ worker'.pc \notin {"latest", "count", "save"} /\ TransferWhenCalling'
  BY <1>1, <1>4, OwnJobKept DEF TransferInv, TransactionOfJob
<1>5. ASSUME NEW c \in Conversations, TakeJob(c)
      PROVE  TransferInv'
  <2>1. /\ UNCHANGED transfers
        /\ worker'.conversation = c
        /\ worker'.pc = IF transfers[c] = NoTransaction THEN "create" ELSE "call"
    BY <1>5 DEF TakeJob, TakeJobAnd, platformVars, IdleWorker
  <2> QED
    BY <1>4, <2>1 DEF TransferWhenCalling
<1>6. ASSUME CreateWaitingTransaction
      PROVE  TransferInv'
  <2> DEFINE c == worker.conversation
             i == Len(transactions) + 1
  <2>1. /\ worker.pc = "create"
        /\ worker'.pc = "latest"
        /\ worker'.conversation = c
        /\ worker'.transaction = i
        /\ UNCHANGED <<jobs, transfers>>
    BY <1>2, <1>6 DEF CreateWaitingTransaction, Worker
  <2>2. c \in 1..Len(jobs)
    BY <2>1 DEF TransferInv, TypeOK
  <2>3. c \in Conversations /\ JobKey(c) \in Key
    BY <2>2, JobFacts DEF TransferInv
  <2>4. <<transactions'[i].registration, transactions'[i].payment>> = JobKey(c)
    BY <1>6, <2>3, CreateTransactionAppends
    DEF CreateWaitingTransaction, TransactionStatus, TransferInv, TypeOK
  <2>5. TransferWhenCalling'
    BY <2>1, <2>3 DEF TransferInv, TransferWhenCalling
  <2>6. \A d \in Conversations : transfers'[d] # i
    BY <1>2, <2>1
  <2>7. KeyOf(worker.transaction)' = JobKey(worker.conversation)'
    BY <2>1, <2>4 DEF KeyOf, JobKey
  <2>8. TransactionOfJob'
    BY <2>1, <2>6, <2>7 DEF TransactionOfJob
  <2> QED
    BY <1>1, <2>1, <2>5, <2>8, OwnJobKept DEF TransferInv
<1>7. ASSUME UpdateLatestTransaction \/ UpdateRegistration
      PROVE  TransferInv'
  <2>1. /\ worker.pc \in {"latest", "count"}
        /\ worker'.pc \in {"count", "save"}
        /\ worker'.conversation = worker.conversation
        /\ worker'.transaction = worker.transaction
        /\ UNCHANGED <<transactions, jobs, transfers>>
    BY <1>2, <1>7 DEF UpdateLatestTransaction, UpdateLatestTransactionThen,
                      UpdateRegistration, Worker
  <2>2. TransferWhenCalling' /\ TransactionOfJob'
    BY <2>1 DEF TransferInv, TransferWhenCalling, TransactionOfJob, KeyOf, JobKey
  <2> QED
    BY <1>1, <2>1, <2>2, OwnJobKept DEF TransferInv
<1>8. ASSUME SaveTransfer
      PROVE  TransferInv'
  <2> DEFINE c == worker.conversation
             i == worker.transaction
  <2>1. /\ worker.pc = "save"
        /\ worker'.pc = "call"
        /\ worker'.conversation = c
        /\ UNCHANGED <<transactions, jobs>>
        /\ transfers' = [transfers EXCEPT ![c] = i]
    BY <1>2, <1>8 DEF SaveTransfer, Worker, storeVars
  <2>2. /\ c \in 1..Len(jobs) /\ i \in 1..Len(transactions)
        /\ KeyOf(i) = JobKey(c)
        /\ \A d \in Conversations : transfers[d] # i
    BY <2>1 DEF TransferInv, TypeOK, TransactionOfJob
  <2>3. c \in Conversations /\ c \in DOMAIN jobs /\ i # NoTransaction
    BY <1>2, <2>2, JobFacts DEF TransferInv, NoTransaction
  <2>4. TransferWhenCalling' /\ TransactionOfJob'
    BY <1>2, <2>1, <2>3 DEF TransferWhenCalling, TransactionOfJob
  <2>5. TransferOfOwnJob'
    <3>1. /\ transfers'[c] = i
          /\ \A d \in Conversations : d # c => transfers'[d] = transfers[d]
      BY <1>2, <2>1, <2>3
    <3> HIDE DEF c, i
    <3> QED
      BY <2>1, <2>2, <2>3, <3>1
      DEF TransferInv, TransferOfOwnJob, Issued, JobKey, KeyOf
  <2> QED
    BY <1>1, <2>4, <2>5 DEF TransferInv
<1>9. ASSUME CallSafaricom
      PROVE  TransferInv'
  <2>1. PICK reply \in Reply :
          worker' = [worker EXCEPT !.pc = "reply", !.reply = reply]
    BY <1>9 DEF CallSafaricom, Reply
  <2>2. /\ worker.pc = "call"
        /\ worker'.pc = "reply"
        /\ worker'.conversation = worker.conversation
        /\ UNCHANGED transfers
    BY <1>2, <1>9, <2>1 DEF CallSafaricom, Worker, platformVars
  <2> QED
    BY <1>4, <2>2 DEF TransferInv, TransferWhenCalling
<1>14. ASSUME HandleReply \/ RemoveFromJobsInProgress \/ CompleteJob \/ Crash
       PROVE  TransferInv'
  <2>1. UNCHANGED transfers /\ worker'.pc \in {"finally", "complete", "idle"}
    BY <1>2, <1>14
    DEF HandleReply, HandleReplyWith, RemoveFromJobsInProgress, CompleteJob,
        Crash, Worker, IdleWorker, platformVars
  <2> QED
    BY <1>4, <2>1 DEF TransferInv, TransferWhenCalling
<1>10. ASSUME NEW p \in Payments, PostPayment(p) \/ RetryPayment(p)
       PROVE  TransferInv'
  BY <1>3, <1>10 DEF PostPayment, RetryPayment, StartRun, platformVars
<1>11. ASSUME \/ RunStep \/ SafaricomStep
              \/ \E c \in Conversations : RecoverStalledJob(c)
       PROVE  TransferInv'
  BY <1>3, <1>11
  DEF RunStep, AddSafaricomTransactionJob, FinishRun, SafaricomStep,
      SettleTransfer, SendLateTimeout, LoseCallback, unchangedBySafaricom,
      RecoverStalledJob, RecoverStalledJobUpTo, platformVars
<1>12. ASSUME CallbackStep
       PROVE  TransferInv'
  BY <1>3, <1>12 DEF CallbackStep, ReceiveCallback, ApplyCallback, ApplyCallbackTo,
                     ApplyCallbackAnd, unchangedByCallback
<1>13. CASE UNCHANGED vars
  BY <1>3, <1>13 DEF vars
<1> QED
  BY <1>5, <1>6, <1>7, <1>8, <1>9, <1>10, <1>11, <1>12, <1>13, <1>14
  DEF Next, WorkerStep, vars
\* Safaricom hears of a conversation only after its transfer is saved, and the
\* callbacks say what Safaricom did.
LEMMA KnownStep ==
    ASSUME TransferInv, KnownHasTransfer, [Next]_vars
    PROVE  KnownHasTransfer'
<1>1. /\ worker \in Worker
      /\ transfers \in [Conversations -> Nat]
      /\ fsp \in [Conversations -> FspState]
  BY DEF TransferInv, TypeOK
<1>2. CASE UNCHANGED <<transfers, fsp>>
  BY <1>2 DEF KnownHasTransfer
<1>3. ASSUME SaveTransfer
      PROVE  KnownHasTransfer'
  <2>1. worker.transaction # NoTransaction
    BY <1>3 DEF SaveTransfer, TransferInv, TypeOK, NoTransaction, StoreTypeOK
  <2>2. /\ transfers' = [transfers EXCEPT ![worker.conversation] = worker.transaction]
        /\ UNCHANGED fsp
    BY <1>3 DEF SaveTransfer
  <2> QED
    BY <1>1, <2>1, <2>2 DEF KnownHasTransfer
<1>4. ASSUME CallSafaricom
      PROVE  KnownHasTransfer'
  <2>1. /\ UNCHANGED transfers
        /\ transfers[worker.conversation] # NoTransaction
        /\ \A c \in Conversations : c # worker.conversation => fsp'[c] = fsp[c]
    BY <1>1, <1>4 DEF CallSafaricom, platformVars, TransferInv, TransferWhenCalling
  <2> QED
    BY <2>1 DEF KnownHasTransfer
<1>5. ASSUME NEW c \in Conversations, SettleTransfer(c)
      PROVE  KnownHasTransfer'
  <2>1. /\ UNCHANGED transfers
        /\ fsp[c] = "accepted"
        /\ \A d \in Conversations : d # c => fsp'[d] = fsp[d]
    BY <1>1, <1>5 DEF SettleTransfer, unchangedBySafaricom, platformVars
  <2> QED
    BY <2>1 DEF KnownHasTransfer
<1>6. ASSUME NEW p \in Payments, PostPayment(p) \/ RetryPayment(p)
      PROVE  KnownHasTransfer'
  BY <1>2, <1>6 DEF PostPayment, RetryPayment, StartRun, platformVars
<1>7. ASSUME \/ RunStep \/ CreateWaitingTransaction \/ UpdateLatestTransaction
             \/ UpdateRegistration \/ HandleReply
             \/ RemoveFromJobsInProgress \/ CompleteJob \/ Crash
             \/ \E c \in Conversations : TakeJob(c) \/ RecoverStalledJob(c)
      PROVE  KnownHasTransfer'
  BY <1>2, <1>7
  DEF RunStep, AddSafaricomTransactionJob, FinishRun, TakeJob, TakeJobAnd,
      CreateWaitingTransaction, UpdateLatestTransaction,
      UpdateLatestTransactionThen, UpdateRegistration, HandleReply,
      HandleReplyWith, RemoveFromJobsInProgress, CompleteJob, Crash,
      RecoverStalledJob, RecoverStalledJobUpTo, platformVars
<1>8. ASSUME CallbackStep \/ \E m \in callbacks : LoseCallback(m)
      PROVE  KnownHasTransfer'
  BY <1>2, <1>8 DEF CallbackStep, ReceiveCallback, ApplyCallback, ApplyCallbackTo,
                    ApplyCallbackAnd, unchangedByCallback, LoseCallback,
                    unchangedBySafaricom, platformVars
<1>9. ASSUME NEW c \in Conversations, SendLateTimeout(c)
      PROVE  KnownHasTransfer'
  BY <1>2, <1>9 DEF SendLateTimeout, unchangedBySafaricom, platformVars
<1>10. CASE UNCHANGED vars
  BY <1>2, <1>10 DEF vars
<1> QED
  BY <1>3, <1>4, <1>5, <1>6, <1>7, <1>8, <1>9, <1>10
  DEF Next, WorkerStep, SafaricomStep, vars
LEMMA CallbackStepIsTrue ==
    ASSUME TransferInv, CallbackIsTrue, [Next]_vars
    PROVE  CallbackIsTrue'
<1>1. /\ callbacks \subseteq Callback /\ handling \subseteq callbacks
      /\ fsp \in [Conversations -> FspState]
      /\ FspKept
  BY FspKeptStep DEF TransferInv, TypeOK
<1>2. \A m \in callbacks : m.conversation \in Conversations
  BY <1>1 DEF Callback
<1>3. CASE callbacks' \subseteq callbacks /\ handling' \subseteq handling
             /\ mpesaRecorded \subseteq mpesaRecorded'
  BY <1>1, <1>2, <1>3 DEF CallbackIsTrue, FspKept
<1>4. ASSUME NEW c \in Conversations, SettleTransfer(c) \/ SendLateTimeout(c)
      PROVE  CallbackIsTrue'
  <2>1. PICK outcome \in Outcome :
          /\ callbacks' = callbacks \cup {[conversation |-> c, outcome |-> outcome]}
          /\ fsp'[c] # "none" /\ (outcome = "paid" => fsp'[c] = "paid")
    BY <1>1, <1>4 DEF SettleTransfer, SendLateTimeout, Outcome
  <2>2. UNCHANGED <<handling, mpesaRecorded>>
    BY <1>4 DEF SettleTransfer, SendLateTimeout, unchangedBySafaricom, platformVars
  <2> QED
    BY <1>1, <1>2, <2>1, <2>2 DEF CallbackIsTrue, FspKept
<1>5. ASSUME NEW m \in callbacks, ReceiveCallback(m)
      PROVE  CallbackIsTrue'
  <2>1. /\ callbacks' \subseteq callbacks
        /\ handling' \subseteq handling \cup {m}
        /\ mpesaRecorded \subseteq mpesaRecorded'
        /\ m \in handling' /\ m.outcome = "paid" /\ m \notin handling =>
             m.conversation \in mpesaRecorded'
    BY <1>5 DEF ReceiveCallback, IsTimeout
  <2> QED
    BY <1>1, <1>2, <2>1 DEF CallbackIsTrue, FspKept
<1>6. ASSUME NEW m \in callbacks, LoseCallback(m) \/ ApplyCallback(m)
      PROVE  CallbackIsTrue'
  BY <1>3, <1>6 DEF LoseCallback, unchangedBySafaricom, platformVars, ApplyCallback,
                    ApplyCallbackTo, ApplyCallbackAnd
<1>7. ASSUME HandleReply
      PROVE  CallbackIsTrue'
  BY <1>3, <1>7 DEF HandleReply, HandleReplyWith, unchangedByWorker
<1>8. ASSUME NEW p \in Payments, PostPayment(p) \/ RetryPayment(p)
      PROVE  CallbackIsTrue'
  BY <1>3, <1>8 DEF PostPayment, RetryPayment, StartRun, platformVars
<1>9. ASSUME \/ RunStep \/ CreateWaitingTransaction \/ UpdateLatestTransaction
             \/ UpdateRegistration \/ SaveTransfer \/ CallSafaricom
             \/ RemoveFromJobsInProgress \/ CompleteJob \/ Crash
             \/ \E c \in Conversations : TakeJob(c) \/ RecoverStalledJob(c)
      PROVE  CallbackIsTrue'
  BY <1>3, <1>9
  DEF RunStep, AddSafaricomTransactionJob, FinishRun, TakeJob, TakeJobAnd,
      CreateWaitingTransaction, UpdateLatestTransaction,
      UpdateLatestTransactionThen, UpdateRegistration, SaveTransfer,
      CallSafaricom, RemoveFromJobsInProgress, CompleteJob, Crash,
      RecoverStalledJob, RecoverStalledJobUpTo, platformVars, unchangedByWorker
<1>10. CASE UNCHANGED vars
  BY <1>3, <1>10 DEF vars
<1> QED
  BY <1>4, <1>5, <1>6, <1>7, <1>8, <1>9, <1>10
  DEF Next, WorkerStep, SafaricomStep, CallbackStep, vars

\* The job that paid for transaction i.
PaidBy(c, i) ==
    /\ c \in DOMAIN jobs
    /\ transfers[c] = i
    /\ fsp[c] = "paid"
    /\ JobKey(c) = KeyOf(i)
    /\ c \in mpesaRecorded

LEMMA SuccessKept ==
    ASSUME Inv, [Next]_vars,
           \A c \in Conversations :
             transfers[c] # NoTransaction => transfers'[c] = transfers[c],
           mpesaRecorded \subseteq mpesaRecorded',
           \A i \in DOMAIN transactions' : transactions'[i].status = "success" =>
             \/ i \in DOMAIN transactions /\ transactions[i].status = "success"
             \/ i \in DOMAIN transactions /\ \E c \in Conversations : PaidBy(c, i)
    PROVE  SuccessMeansPaid'
<1>1. /\ jobs \in Seq(Job) /\ jobs' \in Seq(Job)
      /\ transactions \in Seq(Transaction)
      /\ JobsKept /\ TransactionsKept /\ FspKept
  BY JobsKeptStep, TransactionsKeptStep, FspKeptStep
  DEF Inv, TransferInv, TypeOK, StoreTypeOK, JobsKept
<1>2. ASSUME NEW i \in DOMAIN transactions, NEW c, PaidBy(c, i)
      PROVE  PaidBy(c, i)'
  <2>1. c \in 1..Len(jobs) /\ i \in 1..Len(transactions) /\ i # NoTransaction
    BY <1>1, <1>2 DEF PaidBy, NoTransaction
  <2>2. c \in Conversations
    BY <2>1, JobFacts DEF Inv, TransferInv
  <2>3. c \in 1..Len(jobs') /\ JobKey(c)' = JobKey(c) /\ KeyOf(i)' = KeyOf(i)
    BY <1>1, <2>1, KeysKept DEF Inv, TransferInv
  <2> QED
    BY <1>1, <1>2, <2>1, <2>2, <2>3 DEF PaidBy, FspKept
<1>3. ASSUME NEW i \in DOMAIN transactions'
      PROVE  transactions'[i].status = "success" => \E c : PaidBy(c, i)'
  BY <1>2 DEF Inv, SuccessMeansPaid, PaidBy
<1> QED
  BY <1>3 DEF SuccessMeansPaid, PaidBy

LEMMA SuccessStep ==
    ASSUME Inv, [Next]_vars
    PROVE  SuccessMeansPaid'
<1>1. /\ transactions \in Seq(Transaction)
      /\ Len(transactions) \in Nat
      /\ transfers \in [Conversations -> Nat]
      /\ StoreTypeOK /\ TypeOK
  BY DEF Inv, TransferInv, TypeOK, StoreTypeOK
<1>2. CASE UNCHANGED <<transactions, transfers>>
             /\ mpesaRecorded \subseteq mpesaRecorded'
  BY <1>2, SuccessKept
<1>3. ASSUME CreateWaitingTransaction
      PROVE  SuccessMeansPaid'
  <2>1. worker.conversation \in 1..Len(jobs)
    BY <1>1, <1>3 DEF CreateWaitingTransaction, TypeOK
  <2>2. JobKey(worker.conversation) \in Key
    BY <1>1, <2>1, JobFacts
  <2>3. /\ transactions' \in Seq(Transaction)
        /\ Len(transactions') = Len(transactions) + 1
        /\ \A i \in 1..Len(transactions) : transactions'[i] = transactions[i]
        /\ transactions'[Len(transactions) + 1].status = "waiting"
    BY <1>1, <1>3, <2>2, CreateTransactionAppends
    DEF CreateWaitingTransaction, TransactionStatus
  <2>4. \A i \in DOMAIN transactions' :
          i \in 1..Len(transactions) \/ i = Len(transactions) + 1
    BY <1>1, <2>3
  <2>5. \A i \in DOMAIN transactions' : transactions'[i].status = "success" =>
          i \in DOMAIN transactions /\ transactions[i].status = "success"
    BY <1>1, <2>3, <2>4
  <2>6. UNCHANGED <<transfers, mpesaRecorded>>
    BY <1>3 DEF CreateWaitingTransaction
  <2> QED
    BY <2>5, <2>6, SuccessKept
<1>4. ASSUME SaveTransfer
      PROVE  SuccessMeansPaid'
  <2>1. /\ transfers' = [transfers EXCEPT ![worker.conversation] = worker.transaction]
        /\ transfers[worker.conversation] = NoTransaction
        /\ UNCHANGED <<transactions, mpesaRecorded>>
    BY <1>4 DEF SaveTransfer, storeVars, Inv, TransferInv, TransferWhenCalling
  <2>2. \A c \in Conversations :
          transfers[c] # NoTransaction => transfers'[c] = transfers[c]
    BY <1>1, <2>1
  <2> QED
    BY <2>1, <2>2, SuccessKept
<1>5. ASSUME NEW i \in 1..Len(transactions), NEW status \in TransactionStatus,
             UpdateTransactionStatus(i, status),
             status = "success" => \E c \in Conversations : PaidBy(c, i),
             UNCHANGED transfers, mpesaRecorded \subseteq mpesaRecorded'
      PROVE  SuccessMeansPaid'
  <2>1. /\ transactions' \in Seq(Transaction)
        /\ Len(transactions') = Len(transactions)
        /\ \A j \in 1..Len(transactions) : transactions'[j].status =
             IF j = i THEN status ELSE transactions[j].status
    BY <1>1, <1>5, UpdateStatusKeepsRest
  <2>2. DOMAIN transactions' = 1..Len(transactions)
          /\ DOMAIN transactions = 1..Len(transactions)
    BY <1>1, <2>1
  <2>3. \A j \in DOMAIN transactions' : transactions'[j].status = "success" =>
          \/ j \in DOMAIN transactions /\ transactions[j].status = "success"
          \/ j \in DOMAIN transactions /\ \E c \in Conversations : PaidBy(c, j)
    BY <1>5, <2>1, <2>2
  <2> QED
    BY <1>5, <2>3, SuccessKept
<1>6. ASSUME HandleReply
      PROVE  SuccessMeansPaid'
  <2>1. worker.conversation \in Conversations
    BY <1>1, <1>6, JobFacts DEF HandleReply, HandleReplyWith, TypeOK
  <2>2. transfers[worker.conversation] \in 1..Len(transactions)
    BY <1>1, <1>6, <2>1 DEF HandleReply, HandleReplyWith, Inv, TransferInv,
                            TransferWhenCalling, TypeOK, NoTransaction
  <2>3. /\ UNCHANGED transfers
        /\ mpesaRecorded \subseteq mpesaRecorded'
        /\ \/ UpdateTransactionStatus(transfers[worker.conversation], "error")
           \/ UNCHANGED transactions
    BY <1>6 DEF HandleReply, HandleReplyWith
  <2> QED
    BY <1>2, <1>5, <2>2, <2>3 DEF TransactionStatus
<1>7. ASSUME NEW m \in callbacks, ApplyCallback(m)
      PROVE  SuccessMeansPaid'
  <2> DEFINE c == m.conversation
             i == transfers[c]
  <2>1. m \in handling /\ c \in Conversations /\ i # NoTransaction
    BY <1>1, <1>7
    DEF ApplyCallback, ApplyCallbackTo, ApplyCallbackAnd, TypeOK, Callback
  <2>2. i \in 1..Len(transactions)
    BY <1>1, <2>1 DEF TypeOK, NoTransaction
  <2>3. Issued(c) /\ JobKey(c) = KeyOf(i)
    BY <2>1 DEF Inv, TransferInv, TransferOfOwnJob
  <2>4. m.outcome = "paid" => PaidBy(c, i)
    BY <2>1, <2>3 DEF Inv, CallbackIsTrue, PaidBy, Issued
  <2>5. PICK status \in TransactionStatus :
          /\ UpdateTransactionStatus(i, status)
          /\ status = "success" => m.outcome = "paid"
    BY <1>7 DEF ApplyCallback, ApplyCallbackTo, ApplyCallbackAnd, TransactionStatus
  <2>6. UNCHANGED <<transfers, mpesaRecorded>>
    BY <1>7 DEF ApplyCallback, ApplyCallbackTo, ApplyCallbackAnd, unchangedByCallback
  <2> HIDE DEF c, i
  <2> QED
    BY <1>5, <2>1, <2>2, <2>4, <2>5, <2>6 DEF i
<1>8. ASSUME NEW p \in Payments, PostPayment(p) \/ RetryPayment(p)
      PROVE  SuccessMeansPaid'
  BY <1>2, <1>8 DEF PostPayment, RetryPayment, StartRun, platformVars, storeVars
<1>9. ASSUME NEW m \in callbacks, ReceiveCallback(m)
      PROVE  SuccessMeansPaid'
  BY <1>2, <1>9 DEF ReceiveCallback, unchangedByCallback
<1>10. ASSUME \/ RunStep \/ UpdateLatestTransaction \/ UpdateRegistration
              \/ CallSafaricom \/ RemoveFromJobsInProgress \/ CompleteJob
              \/ SafaricomStep \/ Crash
              \/ \E c \in Conversations : TakeJob(c) \/ RecoverStalledJob(c)
       PROVE  SuccessMeansPaid'
  BY <1>2, <1>10
  DEF RunStep, AddSafaricomTransactionJob, FinishRun, TakeJob, TakeJobAnd,
      UpdateLatestTransaction, UpdateLatestTransactionThen, UpdateRegistration,
      CallSafaricom, RemoveFromJobsInProgress, CompleteJob, SafaricomStep,
      SettleTransfer, SendLateTimeout, LoseCallback, unchangedBySafaricom, Crash,
      RecoverStalledJob, RecoverStalledJobUpTo, platformVars, storeVars
<1>11. CASE UNCHANGED vars
  BY <1>2, <1>11 DEF vars, storeVars
<1> QED
  BY <1>3, <1>4, <1>6, <1>7, <1>8, <1>9, <1>10, <1>11
  DEF Next, WorkerStep, CallbackStep, vars

-----------------------------------------------------------------------------
(* The theorems.                                                           *)

LEMMA InvInit == Init => Inv
<1> SUFFICES ASSUME Init PROVE Inv
  OBVIOUS
<1>1. TypeOK
  BY TypeInit
<1>2. TransferWhenCalling /\ TransactionOfJob
  BY DEF Init, TransferWhenCalling, TransactionOfJob, IdleWorker
<1>3. TransferOfOwnJob /\ KnownHasTransfer /\ CallbackIsTrue
  BY DEF Init, TransferOfOwnJob, KnownHasTransfer, CallbackIsTrue
<1>4. SuccessMeansPaid
  BY DEF Init, StoreInit, SuccessMeansPaid
<1> QED
  BY <1>1, <1>2, <1>3, <1>4 DEF Inv, TransferInv

LEMMA InvStep == Inv /\ [Next]_vars => Inv'
BY TransferStep, KnownStep, CallbackStepIsTrue, SuccessStep DEF Inv

\* The inductive invariant holds in every reachable state: between any two
\* statements of the worker, whatever crashed or was lost before.
THEOREM InvCorrect == Spec => []Inv
BY InvInit, InvStep, PTL DEF Spec

\* Every variable keeps its type, whatever fails.
THEOREM TypeCorrect == Spec => []TypeOK
<1>1. Inv => TypeOK
  BY DEF Inv, TransferInv
<1> QED
  BY <1>1, InvCorrect, PTL

\* Two jobs never share a transaction, and a job's transaction is for the
\* registration and payment of the job, however often the job is repeated.
THEOREM TransfersAreOwn == Spec => []TransferOfOwnJob
<1>1. Inv => TransferOfOwnJob
  BY DEF Inv, TransferInv
<1> QED
  BY <1>1, InvCorrect, PTL

\* The error "This should never happen" of the callback processors is never
\* raised, through crashes, repeated jobs and repeated callbacks.
THEOREM CallbacksFindTransfers == Spec => []CallbackFindsTransfer
<1>1. Inv => CallbackFindsTransfer
  BY DEF Inv, TransferInv, TypeOK, Callback, KnownHasTransfer, CallbackIsTrue,
         CallbackFindsTransfer
<1> QED
  BY <1>1, InvCorrect, PTL

\* No registration is reported as paid unless Safaricom paid it, under every
\* kind of fault and any number of crashes.
THEOREM SuccessIsPaid == Spec => []SuccessMeansPaid
<1>1. Inv => SuccessMeansPaid
  BY DEF Inv
<1> QED
  BY <1>1, InvCorrect, PTL
-----------------------------------------------------------------------------
(* What each action does, one field at a time.                             *)

LEMMA Bases ==
    ASSUME TypeOK
    PROVE  /\ jobs \in Seq(Job) /\ Len(jobs) \in Nat /\ DOMAIN jobs = 1..Len(jobs)
           /\ transactions \in Seq(Transaction) /\ Len(transactions) \in Nat
           /\ DOMAIN transactions = 1..Len(transactions)
           /\ \A c \in DOMAIN jobs : c \in Conversations /\ c \in Nat /\ JobKey(c) \in Key
           /\ \A i \in DOMAIN transactions : KeyOf(i) \in Key
           /\ transfers \in [Conversations -> Nat]
           /\ \A c \in Conversations : transfers[c] \in 0..Len(transactions)
           /\ fsp \in [Conversations -> FspState]
           /\ worker \in Worker
           /\ worker.pc # "idle" => worker.conversation \in DOMAIN jobs
<1>1. /\ jobs \in Seq(Job) /\ Len(jobs) \in Nat /\ DOMAIN jobs = 1..Len(jobs)
      /\ transactions \in Seq(Transaction) /\ Len(transactions) \in Nat
      /\ DOMAIN transactions = 1..Len(transactions)
      /\ StoreTypeOK
  BY DEF TypeOK, StoreTypeOK
<1>2. \A c \in DOMAIN jobs : c \in Conversations /\ c \in Nat /\ JobKey(c) \in Key
  BY <1>1, JobFacts
<1>3. \A i \in DOMAIN transactions : KeyOf(i) \in Key
  BY <1>1, KeyOfTransaction
<1> QED
  BY <1>1, <1>2, <1>3 DEF TypeOK

LEMMA StartEffect ==
    ASSUME NEW p \in Payments, PostPayment(p) \/ RetryPayment(p)
    PROVE  /\ ~IsPaymentInProgress
           /\ run'.pc = "adding" /\ run'.payment = p
           /\ \A r \in run'.todo : r \in Registrations
           /\ \/ run'.kind = "post" /\ run'.todo \subseteq PayableRegistrations(p)
              \/ /\ run'.kind = "retry"
                 /\ \/ run'.todo = FailedRegistrations(p)
                    \/ \A r \in run'.todo : NewestTransactionFailed(<<r, p>>)
           /\ UNCHANGED <<transactions, latestTransactions, registrations, transfers,
                mpesaRecorded, jobs, jobsInProgress, worker, fsp, callbacks,
                handling, crashes>>
<1>1. PICK kind \in Kind, chosen \in SUBSET Registrations :
        /\ StartRun(p, kind, chosen)
        /\ \/ kind = "post" /\ chosen \subseteq PayableRegistrations(p)
           \/ kind = "retry" /\ chosen = FailedRegistrations(p)
           \/ kind = "retry" /\ \A r \in chosen : NewestTransactionFailed(<<r, p>>)
  BY DEF PostPayment, RetryPayment, PayableRegistrations, FailedRegistrations, Kind
<1> QED
  BY <1>1 DEF StartRun, platformVars, storeVars

LEMMA AddEffect ==
    ASSUME TypeOK, NEW r \in Registrations, AddSafaricomTransactionJob(r)
    PROVE  LET c == Len(jobs) + 1
           IN  /\ run.pc = "adding" /\ run'.pc = "adding" /\ r \in run.todo
               /\ run'.payment = run.payment /\ run'.kind = run.kind
               /\ run'.todo = run.todo \ {r}
               /\ DOMAIN jobs' = DOMAIN jobs \cup {c} /\ c \notin DOMAIN jobs
               /\ \A d \in DOMAIN jobs : jobs'[d] = jobs[d]
               /\ jobs'[c].registration = r /\ jobs'[c].payment = run.payment
               /\ jobs'[c].kind = run.kind /\ jobs'[c].state = "queued"
               /\ jobsInProgress' = jobsInProgress \cup {c}
               /\ UNCHANGED <<transactions, latestTransactions, registrations,
                    transfers, mpesaRecorded, worker, fsp, callbacks, handling,
                    crashes>>
<1> DEFINE job == [registration |-> r, payment |-> run.payment,
                   kind |-> run.kind, state |-> "queued", stalls |-> 0]
<1>1. /\ job \in Job
      /\ job.registration = r /\ job.payment = run.payment
      /\ job.kind = run.kind /\ job.state = "queued"
  BY DEF Job, JobState, Run, TypeOK
<1>2. jobs' = Append(jobs, job)
  BY DEF AddSafaricomTransactionJob
<1>3. /\ run.pc = "adding" /\ run'.pc = "adding" /\ r \in run.todo
      /\ run'.payment = run.payment /\ run'.kind = run.kind
      /\ run'.todo = run.todo \ {r}
  BY DEF AddSafaricomTransactionJob, TypeOK, Run
<1>4. /\ jobsInProgress' = jobsInProgress \cup {Len(jobs) + 1}
      /\ UNCHANGED <<transactions, latestTransactions, registrations,
           transfers, mpesaRecorded, worker, fsp, callbacks, handling, crashes>>
  BY DEF AddSafaricomTransactionJob, platformVars, storeVars
<1> HIDE DEF job
<1>6. Len(jobs) \in Nat /\ DOMAIN jobs = 1..Len(jobs)
  BY Bases
<1>5. /\ Len(jobs') = Len(jobs) + 1 /\ jobs' \in Seq(Job)
      /\ \A d \in 1..Len(jobs) : jobs'[d] = jobs[d]
      /\ jobs'[Len(jobs) + 1] = job
  BY <1>1, <1>2, Bases, AppendProperties
<1>7. DOMAIN jobs' = 1..(Len(jobs) + 1)
  BY <1>5
<1>8. 1..(Len(jobs) + 1) = 1..Len(jobs) \cup {Len(jobs) + 1}
        /\ Len(jobs) + 1 \notin 1..Len(jobs)
  BY <1>6
<1> QED
  BY <1>1, <1>3, <1>4, <1>5, <1>6, <1>7, <1>8

LEMMA FinishEffect ==
    ASSUME TypeOK, FinishRun
    PROVE  /\ run'.pc = "idle"
           /\ UNCHANGED <<transactions, latestTransactions, registrations, transfers,
                mpesaRecorded, jobs, jobsInProgress, worker, fsp, callbacks,
                handling, crashes>>
BY DEF FinishRun, TypeOK, Run, platformVars, storeVars

LEMMA TakeEffect ==
    ASSUME TypeOK, NEW c \in Conversations, TakeJob(c)
    PROVE  /\ worker.pc = "idle" /\ c \in DOMAIN jobs /\ jobs[c].state = "queued"
           /\ DOMAIN jobs' = DOMAIN jobs
           /\ \A d \in DOMAIN jobs : d # c => jobs'[d] = jobs[d]
           /\ jobs'[c].state = "active" /\ jobs'[c].kind = jobs[c].kind
           /\ worker'.pc = IF transfers[c] = NoTransaction THEN "create" ELSE "call"
           /\ worker'.conversation = c
           /\ worker'.readCount = registrations[jobs[c].registration].paymentCount
           /\ UNCHANGED <<transactions, latestTransactions, registrations, transfers,
                mpesaRecorded, run, jobsInProgress, fsp, callbacks, handling, crashes>>
<1>1. c \in DOMAIN jobs /\ jobs[c] \in Job
  BY Bases DEF TakeJob, TakeJobAnd
<1> QED
  BY <1>1, Bases DEF TakeJob, TakeJobAnd, Job, IdleWorker, platformVars, storeVars,
                     unchangedByWorker

\* The worker goes from one statement to the next with the same job.
Advance(pc, next) ==
    /\ worker.pc = pc
    /\ worker'.pc = next
    /\ worker'.conversation = worker.conversation
    /\ UNCHANGED <<jobs, run, callbacks, handling, crashes>>

LEMMA CreateEffect ==
    ASSUME TypeOK, CreateWaitingTransaction
    PROVE  LET i == Len(transactions) + 1
           IN  /\ Advance("create", "latest")
               /\ worker'.transaction = i /\ worker'.readCount = worker.readCount
               /\ DOMAIN transactions' = 1..i /\ Len(transactions') = i
               /\ \A j \in DOMAIN transactions : transactions'[j] = transactions[j]
               /\ <<transactions'[i].registration, transactions'[i].payment>> =
                    JobKey(worker.conversation)
               /\ transactions'[i].status = "waiting"
               /\ UNCHANGED <<latestTransactions, registrations, jobsInProgress,
                              transfers, mpesaRecorded, fsp>>
<1>1. JobKey(worker.conversation) \in Key /\ StoreTypeOK
  BY Bases DEF CreateWaitingTransaction, TypeOK
<1>2. /\ transactions' \in Seq(Transaction)
      /\ Len(transactions') = Len(transactions) + 1
      /\ \A j \in 1..Len(transactions) : transactions'[j] = transactions[j]
      /\ LET new == transactions'[Len(transactions) + 1]
         IN  /\ <<new.registration, new.payment>> = JobKey(worker.conversation)
             /\ new.status = "waiting"
  BY <1>1, CreateTransactionAppends DEF CreateWaitingTransaction, TransactionStatus
<1>3. Advance("create", "latest") /\ worker'.transaction = Len(transactions) + 1
        /\ worker'.readCount = worker.readCount
  BY DEF CreateWaitingTransaction, Advance, TypeOK, Worker, unchangedByWorker
<1>4. UNCHANGED <<latestTransactions, registrations, jobsInProgress, transfers,
                  mpesaRecorded, fsp>>
  BY DEF CreateWaitingTransaction
<1> QED
  BY <1>2, <1>3, <1>4, Bases

LEMMA LatestEffect ==
    ASSUME TypeOK, TransactionOfJob, UpdateLatestTransaction
    PROVE  LET c == worker.conversation
               k == JobKey(c)
           IN  /\ Advance("latest", IF jobs[c].kind = "retry" THEN "save" ELSE "count")
               /\ worker'.transaction = worker.transaction
               /\ worker'.readCount = worker.readCount
               /\ latestTransactions'[k] = worker.transaction
               /\ \A l \in Key : l # k => latestTransactions'[l] = latestTransactions[l]
               /\ UNCHANGED <<transactions, registrations, jobsInProgress,
                              transfers, mpesaRecorded, fsp>>
<1>1. /\ JobKey(worker.conversation) \in Key
      /\ KeyOf(worker.transaction) = JobKey(worker.conversation)
      /\ latestTransactions \in [Key -> Nat]
  BY Bases DEF UpdateLatestTransaction, UpdateLatestTransactionThen,
               TransactionOfJob, TypeOK, StoreTypeOK
<1>2. Advance("latest",
        IF jobs[worker.conversation].kind = "retry" THEN "save" ELSE "count")
        /\ worker'.transaction = worker.transaction
        /\ worker'.readCount = worker.readCount
  BY DEF UpdateLatestTransaction, UpdateLatestTransactionThen, Advance, TypeOK,
         Worker, unchangedByWorker
<1> QED
  BY <1>1, <1>2 DEF UpdateLatestTransaction, UpdateLatestTransactionThen,
                    InsertOrUpdateFromTransaction

LEMMA CountEffect ==
    ASSUME TypeOK, UpdateRegistration
    PROVE  /\ Advance("count", "save")
           /\ worker'.transaction = worker.transaction
           /\ UpdatePaymentCountAndStatusInRegistration(
                jobs[worker.conversation].registration, worker.readCount)
           /\ UNCHANGED <<transactions, latestTransactions, jobsInProgress,
                          transfers, mpesaRecorded, fsp>>
BY DEF UpdateRegistration, Advance, TypeOK, Worker, unchangedByWorker

LEMMA SaveEffect ==
    ASSUME TypeOK, SaveTransfer
    PROVE  LET c == worker.conversation
           IN  /\ Advance("save", "call")
               /\ c \in DOMAIN jobs /\ worker.transaction \in DOMAIN transactions
               /\ worker.transaction # NoTransaction
               /\ transfers'[c] = worker.transaction
               /\ \A d \in Conversations : d # c => transfers'[d] = transfers[d]
               /\ UNCHANGED <<transactions, latestTransactions, registrations,
                              jobsInProgress, mpesaRecorded, fsp>>
<1>1. Advance("save", "call")
  BY DEF SaveTransfer, Advance, TypeOK, Worker, unchangedByWorker
<1>2. /\ worker.conversation \in DOMAIN jobs
      /\ worker.conversation \in Conversations
      /\ worker.transaction \in DOMAIN transactions
      /\ worker.transaction # NoTransaction
  BY <1>1, Bases DEF Advance, TypeOK, NoTransaction
<1> QED
  BY <1>1, <1>2, Bases DEF SaveTransfer, storeVars

LEMMA CallEffect ==
    ASSUME TypeOK, CallSafaricom
    PROVE  LET c == worker.conversation
           IN  /\ Advance("call", "reply")
               /\ \A d \in Conversations : d # c => fsp'[d] = fsp[d]
               /\ \/ /\ fsp[c] \in {"accepted"} \cup Outcome /\ fsp'[c] = fsp[c]
                     /\ worker'.reply = "duplicate"
                  \/ /\ fsp[c] \in {"none", "refused"} /\ fsp'[c] = "accepted"
                     /\ fsp[c] = "refused" => "transientRefusal" \in Faults
                     /\ worker'.reply = "error" => "lostResponse" \in Faults
                  \/ /\ fsp[c] \in {"none", "refused"} /\ fsp'[c] = "refused"
                  \/ /\ fsp'[c] = fsp[c] /\ "lostRequest" \in Faults
               /\ UNCHANGED <<transactions, latestTransactions, registrations,
                              transfers, mpesaRecorded, jobsInProgress>>
<1>1. PICK reply \in Reply :
        worker' = [worker EXCEPT !.pc = "reply", !.reply = reply]
  BY DEF CallSafaricom, Reply
<1>2. Advance("call", "reply") /\ worker'.reply = reply
  BY <1>1 DEF CallSafaricom, Advance, TypeOK, Worker, unchangedByWorker
<1>3. worker.conversation \in Conversations
  BY <1>2, Bases DEF Advance
<1>4. /\ \A d \in Conversations : d # worker.conversation => fsp'[d] = fsp[d]
      /\ UNCHANGED <<transactions, latestTransactions, registrations,
                     transfers, mpesaRecorded, jobsInProgress>>
  BY <1>3, Bases DEF CallSafaricom, platformVars, storeVars
<1>5. LET c == worker.conversation
      IN  \/ /\ fsp[c] \in {"accepted"} \cup Outcome /\ fsp'[c] = fsp[c]
             /\ worker'.reply = "duplicate"
          \/ /\ fsp[c] \in {"none", "refused"} /\ fsp'[c] = "accepted"
             /\ fsp[c] = "refused" => "transientRefusal" \in Faults
             /\ worker'.reply = "error" => "lostResponse" \in Faults
          \/ /\ fsp[c] \in {"none", "refused"} /\ fsp'[c] = "refused"
          \/ /\ fsp'[c] = fsp[c] /\ "lostRequest" \in Faults
  BY <1>3, Bases DEF CallSafaricom, TypeOK, Worker
<1> QED
  BY <1>2, <1>4, <1>5

\* A status update, by the worker or a callback.
StatusSet(i, status) ==
    /\ DOMAIN transactions' = DOMAIN transactions
    /\ Len(transactions') = Len(transactions)
    /\ \A j \in DOMAIN transactions :
         /\ KeyOf(j)' = KeyOf(j)
         /\ transactions'[j].status = IF j = i THEN status ELSE transactions[j].status

LEMMA StatusEffect ==
    ASSUME TypeOK, NEW i \in DOMAIN transactions, NEW status \in TransactionStatus,
           UpdateTransactionStatus(i, status)
    PROVE  StatusSet(i, status)
<1>1. StoreTypeOK /\ i \in 1..Len(transactions)
  BY Bases DEF TypeOK
<1>2. /\ transactions' \in Seq(Transaction)
      /\ Len(transactions') = Len(transactions)
      /\ \A j \in 1..Len(transactions) :
           /\ transactions'[j].registration = transactions[j].registration
           /\ transactions'[j].payment = transactions[j].payment
           /\ transactions'[j].status = IF j = i THEN status ELSE transactions[j].status
  BY <1>1, UpdateStatusKeepsRest
<1> QED
  BY <1>2, Bases DEF StatusSet, KeyOf

LEMMA ReplyEffect ==
    ASSUME TypeOK, TransferWhenCalling, HandleReply
    PROVE  LET c == worker.conversation
           IN  /\ Advance("reply", "finally")
               /\ \/ worker.reply = "error" /\ StatusSet(transfers[c], "error")
                  \/ worker.reply \in {"ok", "duplicate"} /\ UNCHANGED transactions
               /\ UNCHANGED <<latestTransactions, registrations, jobsInProgress,
                              transfers, fsp>>
<1>1. Advance("reply", "finally")
  BY DEF HandleReply, HandleReplyWith, Advance, TypeOK, Worker, unchangedByWorker
<1>2. transfers[worker.conversation] \in DOMAIN transactions
  BY <1>1, Bases DEF Advance, TransferWhenCalling, NoTransaction
<1>3. \/ worker.reply = "error" /\ StatusSet(transfers[worker.conversation], "error")
      \/ worker.reply \in {"ok", "duplicate"} /\ UNCHANGED transactions
  BY <1>2, StatusEffect DEF HandleReply, HandleReplyWith, TransactionStatus
<1> QED
  BY <1>1, <1>3 DEF HandleReply, HandleReplyWith

LEMMA RemoveEffect ==
    ASSUME TypeOK, RemoveFromJobsInProgress
    PROVE  /\ Advance("finally", "complete")
           /\ jobsInProgress' = jobsInProgress \ {worker.conversation}
           /\ UNCHANGED <<transactions, latestTransactions, registrations, transfers,
                          mpesaRecorded, fsp>>
BY DEF RemoveFromJobsInProgress, Advance, TypeOK, Worker, unchangedByWorker,
       platformVars, storeVars

LEMMA CompleteEffect ==
    ASSUME TypeOK, CompleteJob
    PROVE  /\ worker.pc = "complete" /\ worker'.pc = "idle"
           /\ DOMAIN jobs' = DOMAIN jobs
           /\ \A d \in DOMAIN jobs : d # worker.conversation => jobs'[d] = jobs[d]
           /\ worker.conversation \in DOMAIN jobs
           /\ jobs'[worker.conversation].state = "completed"
           /\ jobs'[worker.conversation].kind = jobs[worker.conversation].kind
           /\ UNCHANGED <<transactions, latestTransactions, registrations, transfers,
                mpesaRecorded, run, jobsInProgress, fsp, callbacks, handling, crashes>>
<1>1. worker.conversation \in DOMAIN jobs /\ jobs[worker.conversation] \in Job
  BY Bases DEF CompleteJob
<1> QED
  BY <1>1, Bases DEF CompleteJob, IdleWorker, Job, unchangedByWorker, platformVars,
                     storeVars

LEMMA CrashEffect ==
    ASSUME TypeOK, Crash
    PROVE  /\ worker'.pc = "idle" /\ handling' = {} /\ run'.pc # "adding"
           /\ crashes' \in Nat /\ crashes' > 0
           /\ run.pc # "idle" => run'.pc # "idle"
           /\ DOMAIN jobs' = DOMAIN jobs
           /\ \A d \in DOMAIN jobs :
                /\ jobs'[d].kind = jobs[d].kind
                /\ jobs'[d].state =
                     IF jobs[d].state = "active" THEN "stalled" ELSE jobs[d].state
           /\ UNCHANGED <<transactions, latestTransactions, registrations, transfers,
                mpesaRecorded, jobsInProgress, fsp, callbacks>>
<1>1. \A d \in DOMAIN jobs : jobs[d] \in Job
  BY Bases
<1>2. /\ DOMAIN jobs' = DOMAIN jobs
      /\ \A d \in DOMAIN jobs : jobs'[d] =
           IF jobs[d].state = "active" THEN [jobs[d] EXCEPT !.state = "stalled"]
                                       ELSE jobs[d]
  BY DEF Crash
<1>3. \A d \in DOMAIN jobs :
        /\ jobs'[d].kind = jobs[d].kind
        /\ jobs'[d].state =
             IF jobs[d].state = "active" THEN "stalled" ELSE jobs[d].state
  BY <1>1, <1>2 DEF Job
<1>4. crashes' \in Nat /\ crashes' > 0
  BY BoundsAssumption DEF Crash, TypeOK
<1>5. run'.pc # "adding" /\ (run.pc # "idle" => run'.pc # "idle")
  <2> DEFINE lost == [run EXCEPT !.pc = "lost"]
  <2>1. lost \in Run /\ lost.pc = "lost"
    BY DEF TypeOK, Run
  <2>2. (run.pc # "adding" /\ run' = run) \/ run' = [lost EXCEPT !.todo = {}]
    BY DEF Crash
  <2> HIDE DEF lost
  <2> QED
    BY <2>1, <2>2 DEF Run
<1> QED
  BY <1>2, <1>3, <1>4, <1>5 DEF Crash, IdleWorker, platformVars, storeVars

LEMMA RecoverEffect ==
    ASSUME TypeOK, NEW c \in Conversations, RecoverStalledJob(c)
    PROVE  /\ c \in DOMAIN jobs /\ jobs[c].state = "stalled"
           /\ DOMAIN jobs' = DOMAIN jobs
           /\ \A d \in DOMAIN jobs : d # c => jobs'[d] = jobs[d]
           /\ jobs'[c].state \in {"queued", "failed"} /\ jobs'[c].kind = jobs[c].kind
           /\ UNCHANGED <<transactions, latestTransactions, registrations, transfers,
                mpesaRecorded, run, jobsInProgress, worker, fsp, callbacks, handling,
                crashes>>
<1> DEFINE state == IF jobs[c].stalls < MaxStalledCount THEN "queued" ELSE "failed"
           stalls == jobs[c].stalls + 1
           mid == [jobs[c] EXCEPT !.stalls = stalls]
<1>1. c \in DOMAIN jobs /\ jobs[c] \in Job /\ jobs[c].state = "stalled"
  BY Bases DEF RecoverStalledJob, RecoverStalledJobUpTo
<1>2. jobs' = [jobs EXCEPT ![c] = [mid EXCEPT !.state = state]]
  BY <1>1 DEF RecoverStalledJob, RecoverStalledJobUpTo, Job
<1>3. stalls \in Nat /\ state \in {"queued", "failed"}
  BY <1>1 DEF Job
<1> HIDE DEF stalls, state
<1>4. mid \in Job /\ mid.kind = jobs[c].kind
  BY <1>1, <1>3 DEF Job
<1> HIDE DEF mid
<1>5. [mid EXCEPT !.state = state].state = state
        /\ [mid EXCEPT !.state = state].kind = jobs[c].kind
  BY <1>4 DEF Job
<1>6. UNCHANGED <<transactions, latestTransactions, registrations, transfers,
                mpesaRecorded, run, jobsInProgress, worker, fsp, callbacks, handling,
                crashes>>
  BY DEF RecoverStalledJob, RecoverStalledJobUpTo, platformVars, storeVars
<1> QED
  BY <1>1, <1>2, <1>3, <1>5, <1>6, Bases

\* Callbacks and Safaricom never touch the jobs, the worker or the run.
Aside ==
    UNCHANGED <<latestTransactions, registrations, run, jobs, jobsInProgress, worker,
                transfers, crashes>>

LEMMA SettleEffect ==
    ASSUME TypeOK, NEW c \in Conversations, SettleTransfer(c)
    PROVE  /\ Aside /\ UNCHANGED <<transactions, mpesaRecorded, handling>>
           /\ fsp[c] = "accepted" /\ fsp'[c] \in Outcome
           /\ \A d \in Conversations : d # c => fsp'[d] = fsp[d]
           /\ callbacks' = callbacks \cup {[conversation |-> c, outcome |-> fsp'[c]]}
BY Bases DEF SettleTransfer, Aside, unchangedBySafaricom, platformVars, storeVars

LEMMA LateEffect ==
    ASSUME TypeOK, NEW c \in Conversations, SendLateTimeout(c)
    PROVE  /\ Aside /\ UNCHANGED <<transactions, mpesaRecorded, handling, fsp>>
           /\ "lateTimeout" \in Faults
BY DEF SendLateTimeout, Aside, unchangedBySafaricom, platformVars, storeVars

LEMMA LoseEffect ==
    ASSUME NEW m \in callbacks, LoseCallback(m) \/ ReceiveCallback(m)
    PROVE  /\ Aside /\ UNCHANGED <<transactions, fsp>>
           /\ callbacks' \subseteq callbacks
BY DEF LoseCallback, ReceiveCallback, Aside, unchangedBySafaricom, platformVars,
       storeVars, unchangedByCallback

LEMMA ApplyEffect ==
    ASSUME TypeOK, NEW m \in callbacks, ApplyCallback(m)
    PROVE  /\ Aside /\ UNCHANGED <<fsp, mpesaRecorded>>
           /\ callbacks' \subseteq callbacks
           /\ m.conversation \in Conversations
           /\ transfers[m.conversation] \in DOMAIN transactions
           /\ StatusSet(transfers[m.conversation],
                        IF m.outcome = "paid" THEN "success" ELSE "error")
<1>1. /\ m \in handling /\ m.conversation \in Conversations
      /\ transfers[m.conversation] # NoTransaction
  BY DEF ApplyCallback, ApplyCallbackTo, ApplyCallbackAnd, TypeOK, Callback
<1>2. transfers[m.conversation] \in DOMAIN transactions
  BY <1>1, Bases DEF NoTransaction
<1>3. StatusSet(transfers[m.conversation],
                IF m.outcome = "paid" THEN "success" ELSE "error")
  BY <1>2, StatusEffect
  DEF ApplyCallback, ApplyCallbackTo, ApplyCallbackAnd, TransactionStatus
<1> QED
  BY <1>1, <1>2, <1>3 DEF ApplyCallback, ApplyCallbackTo, ApplyCallbackAnd, Aside,
                          unchangedByCallback

LEMMA CrashesCounted ==
    ASSUME TypeOK, [Next]_vars
    PROVE  crashes \in Nat /\ (UNCHANGED crashes \/ crashes' = crashes + 1)
<1>1. UNCHANGED crashes \/ crashes' = crashes + 1
  BY DEF Next, RunStep, WorkerStep, SafaricomStep, CallbackStep, vars, Crash,
         PostPayment, RetryPayment, StartRun,
         AddSafaricomTransactionJob, FinishRun, TakeJob, TakeJobAnd,
         CreateWaitingTransaction, UpdateLatestTransaction, HandleReply,
         HandleReplyWith, UpdateLatestTransactionThen, UpdateRegistration,
         SaveTransfer, CallSafaricom, RemoveFromJobsInProgress, CompleteJob,
         SettleTransfer, SendLateTimeout, LoseCallback, unchangedBySafaricom,
         ReceiveCallback, ApplyCallback, ApplyCallbackTo, ApplyCallbackAnd,
         unchangedByCallback, unchangedByWorker, RecoverStalledJob,
         RecoverStalledJobUpTo
<1>2. crashes \in Nat
  BY BoundsAssumption DEF TypeOK
<1> QED
  BY <1>1, <1>2

-----------------------------------------------------------------------------
(* The worker and the set of jobs in progress.                             *)

WorkerFacts ==
    /\ worker.pc # "idle" => jobs[worker.conversation].state = "active"
    /\ worker.pc \in {"finally", "complete"} =>
         transfers[worker.conversation] # NoTransaction
    /\ worker.pc \in {"latest", "count", "save"} =>
         /\ worker.transaction = Len(transactions)
         /\ transactions[worker.transaction].status = "waiting"
    /\ worker.pc \in {"count", "save"} =>
         latestTransactions[JobKey(worker.conversation)] = worker.transaction
    /\ worker.pc \in {"reply", "finally", "complete"} =>
         (fsp[worker.conversation] = "none" => "lostRequest" \in Faults)

SetFacts ==
    /\ jobsInProgress \subseteq DOMAIN jobs
    /\ \A c \in DOMAIN jobs : c \notin jobsInProgress =>
         /\ transfers[c] # NoTransaction
         /\ fsp[c] = "none" => "lostRequest" \in Faults

FreshFacts ==
    crashes = 0 =>
        /\ \A c \in DOMAIN jobs :
             /\ jobs[c].state # "stalled"
             /\ jobs[c].state = "queued" =>
                  c \in jobsInProgress /\ transfers[c] = NoTransaction
        /\ worker.pc = "call" =>
             /\ fsp[worker.conversation] = "none"
             /\ transactions[transfers[worker.conversation]].status = "waiting"
        /\ worker.pc \notin {"idle", "complete"} =>
             worker.conversation \in jobsInProgress

LEMMA WorkerFactsStep ==
    ASSUME Inv, WorkerFacts, [Next]_vars
    PROVE  WorkerFacts'
<1>1. TypeOK /\ TransferWhenCalling /\ TransactionOfJob
  BY DEF Inv, TransferInv
<1>2. /\ \A c \in DOMAIN jobs : JobKey(c)' = JobKey(c)
      /\ \A c \in Conversations : fsp[c] # "none" => fsp'[c] # "none"
  BY <1>1, Bases, JobsKeptStep, FspKeptStep DEF JobsKept, FspKept, JobKey
<1>3. ASSUME UNCHANGED <<worker, latestTransactions, transfers>>,
             worker.pc # "idle" =>
               jobs'[worker.conversation].state = jobs[worker.conversation].state,
             Len(transactions') = Len(transactions),
             worker.pc \in {"latest", "count", "save"} =>
               transactions'[worker.transaction].status =
                 transactions[worker.transaction].status
      PROVE  WorkerFacts'
  <2>1. worker.pc # "idle" => worker.conversation \in DOMAIN jobs
                           /\ worker.conversation \in Conversations
    BY <1>1, Bases
  <2>2. ASSUME worker.pc # "idle", NEW c, c = worker.conversation
        PROVE  JobKey(c)' = JobKey(c) /\ (fsp'[c] = "none" => fsp[c] = "none")
    BY <1>2, <2>1, <2>2
  <2>3. worker.pc # "idle" =>
          /\ JobKey(worker.conversation)' = JobKey(worker.conversation)
          /\ fsp'[worker.conversation] = "none" => fsp[worker.conversation] = "none"
    BY <1>3, <2>2 DEF JobKey
  <2> QED
    BY <1>3, <2>3 DEF WorkerFacts
<1>4. ASSUME worker'.pc = "idle"
      PROVE  WorkerFacts'
  BY <1>4 DEF WorkerFacts
<1>5. ASSUME NEW p \in Payments, PostPayment(p) \/ RetryPayment(p)
      PROVE  WorkerFacts'
  BY <1>3, <1>5, StartEffect
<1>6. ASSUME NEW r \in Registrations, AddSafaricomTransactionJob(r)
      PROVE  WorkerFacts'
  BY <1>1, <1>3, <1>6, AddEffect, Bases
<1>7. ASSUME FinishRun
      PROVE  WorkerFacts'
  BY <1>1, <1>3, <1>7, FinishEffect
<1>8. ASSUME NEW c \in Conversations, TakeJob(c)
      PROVE  WorkerFacts'
  <2>1. worker'.pc \in {"create", "call"} /\ worker'.conversation = c
          /\ jobs'[c].state = "active"
    BY <1>1, <1>8, TakeEffect
  <2> QED
    BY <2>1 DEF WorkerFacts
<1>9. ASSUME NEW c \in Conversations, RecoverStalledJob(c)
      PROVE  WorkerFacts'
  <2>1. worker.pc # "idle" => worker.conversation # c
          /\ worker.conversation \in DOMAIN jobs
    BY <1>1, <1>9, RecoverEffect, Bases DEF WorkerFacts
  <2> QED
    BY <1>1, <1>3, <1>9, <2>1, RecoverEffect
<1>10. ASSUME CreateWaitingTransaction
       PROVE  WorkerFacts'
  BY <1>1, <1>10, CreateEffect DEF WorkerFacts, Advance
<1>11. ASSUME UpdateLatestTransaction
       PROVE  WorkerFacts'
  <2> DEFINE c == worker.conversation
  <2>1. /\ worker.pc = "latest" /\ worker'.pc \in {"count", "save"}
        /\ worker'.conversation = c
        /\ worker'.transaction = worker.transaction
        /\ latestTransactions'[JobKey(c)] = worker.transaction
        /\ UNCHANGED <<jobs, transactions>>
    BY <1>1, <1>11, LatestEffect DEF Advance
  <2>2. JobKey(worker.conversation)' = JobKey(c)
    BY <2>1 DEF JobKey
  <2> QED
    BY <2>1, <2>2 DEF WorkerFacts
<1>12. ASSUME UpdateRegistration
       PROVE  WorkerFacts'
  <2> DEFINE c == worker.conversation
  <2>1. /\ worker.pc = "count" /\ worker'.pc = "save"
        /\ worker'.conversation = c
        /\ worker'.transaction = worker.transaction
        /\ UNCHANGED <<jobs, transactions, latestTransactions>>
    BY <1>1, <1>12, CountEffect DEF Advance
  <2>2. JobKey(worker.conversation)' = JobKey(c)
    BY <2>1 DEF JobKey
  <2> QED
    BY <2>1, <2>2 DEF WorkerFacts
<1>13. ASSUME SaveTransfer
       PROVE  WorkerFacts'
  BY <1>1, <1>13, SaveEffect DEF WorkerFacts, Advance
<1>14. ASSUME CallSafaricom
       PROVE  WorkerFacts'
  BY <1>1, <1>14, CallEffect DEF WorkerFacts, Advance, Outcome
<1>15. ASSUME HandleReply
       PROVE  WorkerFacts'
  BY <1>1, <1>15, ReplyEffect DEF WorkerFacts, Advance, TransferWhenCalling
<1>16. ASSUME RemoveFromJobsInProgress
       PROVE  WorkerFacts'
  BY <1>1, <1>16, RemoveEffect DEF WorkerFacts, Advance
<1>17. ASSUME CompleteJob \/ Crash
       PROVE  WorkerFacts'
  BY <1>1, <1>4, <1>17, CompleteEffect, CrashEffect
<1>18. ASSUME NEW c \in Conversations, SettleTransfer(c) \/ SendLateTimeout(c)
       PROVE  WorkerFacts'
  BY <1>1, <1>3, <1>18, SettleEffect, LateEffect DEF Aside
<1>19. ASSUME NEW m \in callbacks, LoseCallback(m) \/ ReceiveCallback(m)
       PROVE  WorkerFacts'
  BY <1>3, <1>19, LoseEffect DEF Aside
<1>20. ASSUME NEW m \in callbacks, ApplyCallback(m)
       PROVE  WorkerFacts'
  <2>1. /\ Aside /\ m.conversation \in Conversations
        /\ Len(transactions') = Len(transactions)
        /\ \A j \in DOMAIN transactions : j # transfers[m.conversation] =>
             transactions'[j].status = transactions[j].status
    BY <1>1, <1>20, ApplyEffect DEF StatusSet
  <2>2. worker.pc \in {"latest", "count", "save"} =>
          /\ worker.transaction \in DOMAIN transactions
          /\ worker.transaction # transfers[m.conversation]
    BY <1>1, <2>1, Bases DEF TransactionOfJob, TypeOK
  <2> QED
    BY <1>3, <2>1, <2>2 DEF Aside
<1>21. CASE UNCHANGED vars
  BY <1>3, <1>21 DEF vars, storeVars
<1> QED
  BY <1>5, <1>6, <1>7, <1>8, <1>9, <1>10, <1>11, <1>12, <1>13, <1>14, <1>15,
     <1>16, <1>17, <1>18, <1>19, <1>20, <1>21
  DEF Next, RunStep, WorkerStep, SafaricomStep, CallbackStep

LEMMA SetFactsStep ==
    ASSUME Inv, WorkerFacts, SetFacts, [Next]_vars
    PROVE  SetFacts'
<1>1. TypeOK /\ TransferWhenCalling /\ TransactionOfJob
  BY DEF Inv, TransferInv
<1>2. /\ \A c \in DOMAIN jobs : c \in Conversations
      /\ \A c \in Conversations : fsp[c] # "none" => fsp'[c] # "none"
  BY <1>1, Bases, FspKeptStep DEF FspKept
<1>3. ASSUME DOMAIN jobs' = DOMAIN jobs,
             UNCHANGED <<jobsInProgress, transfers>>
      PROVE  SetFacts'
  BY <1>2, <1>3 DEF SetFacts
<1>4. ASSUME NEW p \in Payments, PostPayment(p) \/ RetryPayment(p)
      PROVE  SetFacts'
  BY <1>3, <1>4, StartEffect
<1>5. ASSUME NEW r \in Registrations, AddSafaricomTransactionJob(r)
      PROVE  SetFacts'
  <2>1. /\ DOMAIN jobs' = DOMAIN jobs \cup {Len(jobs) + 1}
        /\ jobsInProgress' = jobsInProgress \cup {Len(jobs) + 1}
        /\ UNCHANGED <<transfers, fsp>>
    BY <1>1, <1>5, AddEffect, Bases
  <2> QED
    BY <2>1 DEF SetFacts
<1>6. ASSUME FinishRun \/ CompleteJob \/ Crash
      PROVE  SetFacts'
  BY <1>1, <1>3, <1>6, FinishEffect, CompleteEffect, CrashEffect
<1>7. ASSUME NEW c \in Conversations, TakeJob(c) \/ RecoverStalledJob(c)
      PROVE  SetFacts'
  BY <1>1, <1>3, <1>7, TakeEffect, RecoverEffect
<1>8. ASSUME \/ CreateWaitingTransaction \/ UpdateLatestTransaction
             \/ UpdateRegistration \/ CallSafaricom \/ HandleReply
      PROVE  SetFacts'
  BY <1>1, <1>3, <1>8, CreateEffect, LatestEffect, CountEffect, CallEffect,
     ReplyEffect DEF Advance
<1>9. ASSUME SaveTransfer
      PROVE  SetFacts'
  BY <1>1, <1>2, <1>9, SaveEffect DEF SetFacts, Advance
<1>10. ASSUME RemoveFromJobsInProgress
       PROVE  SetFacts'
  BY <1>1, <1>10, RemoveEffect DEF SetFacts, WorkerFacts, Advance
<1>11. ASSUME NEW c \in Conversations, SettleTransfer(c) \/ SendLateTimeout(c)
       PROVE  SetFacts'
  BY <1>1, <1>3, <1>11, SettleEffect, LateEffect DEF Aside
<1>12. ASSUME NEW m \in callbacks,
              LoseCallback(m) \/ ReceiveCallback(m) \/ ApplyCallback(m)
       PROVE  SetFacts'
  BY <1>1, <1>3, <1>12, LoseEffect, ApplyEffect DEF Aside
<1>13. CASE UNCHANGED vars
  BY <1>3, <1>13 DEF vars
<1> QED
  BY <1>4, <1>5, <1>6, <1>7, <1>8, <1>9, <1>10, <1>11, <1>12, <1>13
  DEF Next, RunStep, WorkerStep, SafaricomStep, CallbackStep

LEMMA FreshFactsStep ==
    ASSUME Inv, WorkerFacts, FreshFacts, [Next]_vars
    PROVE  FreshFacts'
<1>1. TypeOK /\ TransferWhenCalling /\ TransactionOfJob /\ crashes \in Nat
  BY BoundsAssumption DEF Inv, TransferInv, TypeOK
<1>2. ASSUME Crash PROVE FreshFacts'
  BY <1>1, <1>2, CrashEffect DEF FreshFacts
<1>3. \A c \in DOMAIN jobs : c \in Conversations
  BY <1>1, Bases
<1> SUFFICES ASSUME ~Crash, crashes' = 0
             PROVE  FreshFacts'
  BY <1>2 DEF FreshFacts
<1>4. crashes = 0
  BY <1>1, CrashesCounted
<1>5. /\ \A c \in DOMAIN jobs :
           /\ jobs[c].state # "stalled"
           /\ jobs[c].state = "queued" =>
                c \in jobsInProgress /\ transfers[c] = NoTransaction
      /\ worker.pc = "call" =>
           /\ fsp[worker.conversation] = "none"
           /\ transactions[transfers[worker.conversation]].status = "waiting"
      /\ worker.pc \notin {"idle", "complete"} =>
           worker.conversation \in jobsInProgress
  BY <1>4 DEF FreshFacts
<1>6. ASSUME UNCHANGED <<worker, jobs, jobsInProgress, transfers, fsp, transactions>>
      PROVE  FreshFacts'
  BY <1>5, <1>6 DEF FreshFacts
<1>7. ASSUME NEW p \in Payments, PostPayment(p) \/ RetryPayment(p)
      PROVE  FreshFacts'
  BY <1>6, <1>7, StartEffect
<1>8. ASSUME NEW r \in Registrations, AddSafaricomTransactionJob(r)
      PROVE  FreshFacts'
  <2> DEFINE c == Len(jobs) + 1
  <2>1. /\ DOMAIN jobs' = DOMAIN jobs \cup {c}
        /\ \A d \in DOMAIN jobs : jobs'[d] = jobs[d]
        /\ jobs'[c].state = "queued"
        /\ jobsInProgress' = jobsInProgress \cup {c}
        /\ UNCHANGED <<transactions, transfers, worker, fsp>>
    BY <1>1, <1>8, AddEffect, Bases
  <2>2. c \in Conversations /\ c \notin DOMAIN jobs
    BY <1>1, <1>8, Bases, BoundsAssumption DEF AddSafaricomTransactionJob, Conversations
  <2>3. transfers[c] = NoTransaction
    BY <2>2 DEF Inv, TransferInv, TransferOfOwnJob, Issued
  <2> HIDE DEF c
  <2> QED
    BY <1>5, <2>1, <2>3 DEF FreshFacts
<1>9. ASSUME FinishRun
      PROVE  FreshFacts'
  BY <1>1, <1>6, <1>9, FinishEffect
<1>10. ASSUME NEW c \in Conversations, TakeJob(c)
       PROVE  FreshFacts'
  BY <1>1, <1>5, <1>10, TakeEffect DEF FreshFacts
<1>11. ASSUME NEW c \in Conversations, RecoverStalledJob(c)
       PROVE  FreshFacts'
  BY <1>1, <1>5, <1>11, RecoverEffect
<1>12. ASSUME CreateWaitingTransaction \/ UpdateLatestTransaction \/ UpdateRegistration
       PROVE  FreshFacts'
  <2>1. /\ worker.pc \notin {"idle", "complete"} /\ worker'.pc \notin {"call"}
        /\ worker'.conversation = worker.conversation
        /\ UNCHANGED <<jobs, jobsInProgress, transfers>>
    BY <1>1, <1>12, CreateEffect, LatestEffect, CountEffect DEF Advance
  <2> QED
    BY <1>5, <2>1 DEF FreshFacts
<1>13. ASSUME SaveTransfer
       PROVE  FreshFacts'
  <2> DEFINE c == worker.conversation
  <2>1. /\ worker.pc = "save" /\ worker'.pc = "call" /\ worker'.conversation = c
        /\ c \in DOMAIN jobs /\ jobs[c].state = "active"
        /\ transfers'[c] = worker.transaction
        /\ \A d \in Conversations : d # c => transfers'[d] = transfers[d]
        /\ UNCHANGED <<jobs, transactions, jobsInProgress, fsp>>
    BY <1>1, <1>13, SaveEffect DEF Advance, WorkerFacts
  <2>2. transactions[worker.transaction].status = "waiting"
    BY <2>1 DEF WorkerFacts
  <2>3. fsp[c] = "none"
    BY <1>3, <2>1 DEF Inv, TransferInv, TransferWhenCalling, KnownHasTransfer
  <2> HIDE DEF c
  <2> QED
    BY <1>3, <1>5, <2>1, <2>2, <2>3 DEF FreshFacts, c
<1>14. ASSUME CallSafaricom \/ HandleReply
       PROVE  FreshFacts'
  <2>1. /\ worker.pc \notin {"idle", "complete"}
        /\ worker'.pc \notin {"call"}
        /\ worker'.conversation = worker.conversation
        /\ UNCHANGED <<jobs, jobsInProgress, transfers>>
    BY <1>1, <1>14, CallEffect, ReplyEffect DEF Advance
  <2> QED
    BY <1>5, <2>1 DEF FreshFacts
<1>15. ASSUME RemoveFromJobsInProgress
       PROVE  FreshFacts'
  <2>1. /\ worker.pc = "finally" /\ worker'.pc = "complete"
        /\ jobsInProgress' = jobsInProgress \ {worker.conversation}
        /\ UNCHANGED <<jobs, transfers>>
    BY <1>1, <1>15, RemoveEffect DEF Advance
  <2>2. jobs[worker.conversation].state = "active"
    BY <2>1 DEF WorkerFacts
  <2> QED
    BY <1>5, <2>1, <2>2 DEF FreshFacts
<1>16. ASSUME CompleteJob
       PROVE  FreshFacts'
  BY <1>1, <1>5, <1>16, CompleteEffect DEF FreshFacts
<1>17. ASSUME NEW c \in Conversations, SettleTransfer(c)
       PROVE  FreshFacts'
  <2>1. /\ Aside /\ UNCHANGED transactions /\ fsp[c] = "accepted"
        /\ \A d \in Conversations : d # c => fsp'[d] = fsp[d]
    BY <1>1, <1>17, SettleEffect
  <2>2. worker.pc = "call" => worker.conversation \in Conversations \ {c}
    BY <1>1, <1>3, <1>5, <2>1, Bases
  <2> QED
    BY <1>5, <2>1, <2>2 DEF FreshFacts, Aside
<1>18. ASSUME NEW c \in Conversations, SendLateTimeout(c)
       PROVE  FreshFacts'
  BY <1>1, <1>6, <1>18, LateEffect DEF Aside
<1>19. ASSUME NEW m \in callbacks, LoseCallback(m) \/ ReceiveCallback(m)
       PROVE  FreshFacts'
  BY <1>6, <1>19, LoseEffect DEF Aside
<1>20. ASSUME NEW m \in callbacks, ApplyCallback(m)
       PROVE  FreshFacts'
  <2> DEFINE d == m.conversation
  <2>1. /\ Aside /\ UNCHANGED fsp
        /\ d \in Conversations
        /\ \A j \in DOMAIN transactions : j # transfers[d] =>
             transactions'[j].status = transactions[j].status
    BY <1>1, <1>20, ApplyEffect DEF StatusSet
  <2>2. fsp[d] # "none" /\ transfers[d] # NoTransaction
    BY <2>1 DEF Inv, CallbackIsTrue, KnownHasTransfer
  <2>3. worker.pc = "call" =>
          /\ worker.conversation \in Conversations
          /\ transfers[worker.conversation] \in DOMAIN transactions
          /\ transfers[worker.conversation] # transfers[d]
    BY <1>1, <1>3, <1>5, <2>1, <2>2, Bases
    DEF Inv, TransferInv, TransferOfOwnJob, TransferWhenCalling, NoTransaction
  <2> HIDE DEF d
  <2> QED
    BY <1>5, <2>1, <2>3 DEF FreshFacts, Aside
<1>21. CASE UNCHANGED vars
  BY <1>6, <1>21 DEF vars, storeVars
<1> QED
  BY <1>7, <1>8, <1>9, <1>10, <1>11, <1>12, <1>13, <1>14, <1>15, <1>16, <1>17,
     <1>18, <1>19, <1>20, <1>21
  DEF Next, RunStep, WorkerStep, SafaricomStep, CallbackStep

-----------------------------------------------------------------------------
(* Transactions that latest_transaction does not show yet.                 *)

HiddenFacts ==
    /\ \A k \in Key : latestTransactions[k] # NoTransaction =>
         KeyOf(latestTransactions[k]) = k
    /\ \A i \in DOMAIN transactions : latestTransactions[KeyOf(i)] < i =>
         \E d \in jobsInProgress : /\ transfers[d] = NoTransaction
                                   /\ JobKey(d) = KeyOf(i)

UnknownNotFailed ==
    \A c \in DOMAIN jobs :
        transfers[c] # NoTransaction
        /\ transactions[transfers[c]].status = "error" =>
            (fsp[c] = "none" => "lostRequest" \in Faults)

LEMMA HiddenFactsStep ==
    ASSUME Inv, WorkerFacts, SetFacts, HiddenFacts, [Next]_vars
    PROVE  HiddenFacts'
<1>1. TypeOK /\ TransferWhenCalling /\ TransactionOfJob
  BY DEF Inv, TransferInv
<1>2. /\ \A c \in DOMAIN jobs : JobKey(c)' = JobKey(c)
      /\ \A i \in DOMAIN transactions : KeyOf(i)' = KeyOf(i)
  BY <1>1, Bases, JobsKeptStep, TransactionsKeptStep
  DEF JobsKept, TransactionsKept, JobKey, KeyOf
<1>3. /\ \A d \in jobsInProgress : d \in DOMAIN jobs /\ d \in Conversations
      /\ \A k \in Key : latestTransactions[k] \in 0..Len(transactions)
      /\ \A k \in Key : latestTransactions[k] # NoTransaction =>
           latestTransactions[k] \in DOMAIN transactions
  BY <1>1, Bases DEF SetFacts, TypeOK, StoreTypeOK, NoTransaction
\* What is left to show when no latest transaction changes.
<1>4. ASSUME UNCHANGED latestTransactions,
             \A i \in DOMAIN transactions : i \in DOMAIN transactions',
             \A i \in DOMAIN transactions' :
               \/ /\ i \in DOMAIN transactions
                  /\ \A d \in jobsInProgress : transfers[d] = NoTransaction =>
                       \/ d \in jobsInProgress' /\ transfers'[d] = NoTransaction
                       \/ latestTransactions[JobKey(d)] >= i
               \/ \E d \in jobsInProgress' :
                    transfers'[d] = NoTransaction /\ JobKey(d)' = KeyOf(i)'
      PROVE  HiddenFacts'
  <2>1. ASSUME NEW k \in Key, latestTransactions'[k] # NoTransaction,
               NEW i, i = latestTransactions[k]
        PROVE  KeyOf(i)' = k
    BY <1>2, <1>3, <1>4, <2>1 DEF HiddenFacts
  <2>2. ASSUME NEW i \in DOMAIN transactions', latestTransactions'[KeyOf(i)'] < i
        PROVE  \E d \in jobsInProgress' : /\ transfers'[d] = NoTransaction
                                          /\ JobKey(d)' = KeyOf(i)'
    <3>1. ASSUME i \in DOMAIN transactions
          PROVE  KeyOf(i)' = KeyOf(i) /\ latestTransactions[KeyOf(i)] < i
      BY <1>2, <1>4, <2>2, <3>1
    <3>2. ASSUME i \in DOMAIN transactions
          PROVE  /\ ~(latestTransactions[KeyOf(i)] >= i)
                 /\ \E d \in jobsInProgress : /\ transfers[d] = NoTransaction
                                              /\ JobKey(d) = KeyOf(i)
      <4>1. /\ latestTransactions[KeyOf(i)] \in Nat /\ i \in Nat
        BY <1>1, <1>3, <3>2, Bases
      <4> QED
        BY <3>1, <3>2, <4>1 DEF HiddenFacts
    <3> QED
      BY <1>2, <1>3, <1>4, <3>1, <3>2
  <2> QED
    BY <1>4, <2>1, <2>2 DEF HiddenFacts
<1>5. ASSUME UNCHANGED <<latestTransactions, transfers>>,
             jobsInProgress \subseteq jobsInProgress',
             DOMAIN transactions' = DOMAIN transactions
      PROVE  HiddenFacts'
  BY <1>4, <1>5
<1>6. ASSUME NEW p \in Payments, PostPayment(p) \/ RetryPayment(p)
      PROVE  HiddenFacts'
  BY <1>5, <1>6, StartEffect
<1>7. ASSUME NEW r \in Registrations, AddSafaricomTransactionJob(r)
      PROVE  HiddenFacts'
  BY <1>1, <1>5, <1>7, AddEffect
<1>8. ASSUME FinishRun \/ CompleteJob \/ Crash
      PROVE  HiddenFacts'
  BY <1>1, <1>5, <1>8, FinishEffect, CompleteEffect, CrashEffect
<1>9. ASSUME NEW c \in Conversations, TakeJob(c) \/ RecoverStalledJob(c)
      PROVE  HiddenFacts'
  BY <1>1, <1>5, <1>9, TakeEffect, RecoverEffect
\* The job that adds the transaction has no transfer yet.
<1>10. ASSUME CreateWaitingTransaction
       PROVE  HiddenFacts'
  <2>1. PICK c, n : c = worker.conversation /\ n = Len(transactions) + 1
    OBVIOUS
  <2>2. /\ worker.pc = "create"
        /\ DOMAIN transactions' = 1..n
        /\ <<transactions'[n].registration, transactions'[n].payment>> = JobKey(c)
        /\ UNCHANGED <<jobs, latestTransactions, jobsInProgress, transfers>>
    BY <1>1, <1>10, <2>1, CreateEffect DEF Advance
  <2>3. c \in DOMAIN jobs /\ transfers[c] = NoTransaction
    BY <1>1, <2>1, <2>2, Bases DEF TransferWhenCalling
  <2>4. c \in jobsInProgress
    BY <2>3 DEF SetFacts
  <2>5. \A i : i \in DOMAIN transactions' <=> i \in DOMAIN transactions \/ i = n
    BY <1>1, <2>1, <2>2, Bases
  <2>6. KeyOf(n)' = JobKey(c)'
    BY <2>2 DEF KeyOf, JobKey
  <2> QED
    BY <1>4, <2>2, <2>3, <2>4, <2>5, <2>6
\* The newest transaction of all becomes the latest of its key.
<1>11. ASSUME UpdateLatestTransaction
       PROVE  HiddenFacts'
  <2>1. PICK c, n, k : c = worker.conversation /\ n = worker.transaction /\ k = JobKey(c)
    OBVIOUS
  <2>2. /\ worker.pc = "latest"
        /\ latestTransactions'[k] = n
        /\ \A l \in Key : l # k => latestTransactions'[l] = latestTransactions[l]
        /\ UNCHANGED <<jobs, transactions, jobsInProgress, transfers>>
    BY <1>1, <1>11, <2>1, LatestEffect DEF Advance
  <2>3. n = Len(transactions) /\ KeyOf(n) = k
    BY <1>1, <2>1, <2>2 DEF WorkerFacts, TransactionOfJob
  <2>4. ASSUME NEW i \in DOMAIN transactions
        PROVE  KeyOf(i) \in Key /\ i <= n
    BY <1>1, <2>3, <2>4, Bases
  <2>5. ASSUME NEW l \in Key, latestTransactions'[l] # NoTransaction,
               NEW i, i = latestTransactions'[l]
        PROVE  KeyOf(i)' = l
    BY <2>2, <2>3, <2>5 DEF HiddenFacts, KeyOf
  <2>6. ASSUME NEW i \in DOMAIN transactions, latestTransactions'[KeyOf(i)] < i
        PROVE  \E d \in jobsInProgress : /\ transfers[d] = NoTransaction
                                         /\ JobKey(d) = KeyOf(i)
    <3>1. i \in Nat /\ n \in Nat /\ i <= n
      BY <1>1, <2>3, <2>4, Bases
    <3>2. KeyOf(i) # k
      BY <2>2, <2>6, <3>1
    <3> QED
      BY <2>2, <2>4, <2>6, <3>2 DEF HiddenFacts
  <2>7. \A d \in jobsInProgress : JobKey(d)' = JobKey(d)
    BY <1>2, <1>3
  <2> QED
    BY <1>2, <2>2, <2>5, <2>6, <2>7 DEF HiddenFacts
<1>12. ASSUME UpdateRegistration \/ CallSafaricom
       PROVE  HiddenFacts'
  BY <1>1, <1>5, <1>12, CountEffect, CallEffect
\* Now that the job has a transfer, nothing of its key is hidden any more.
<1>13. ASSUME SaveTransfer
       PROVE  HiddenFacts'
  <2>1. PICK c : c = worker.conversation
    OBVIOUS
  <2>2. /\ worker.pc = "save"
        /\ \A d \in Conversations : d # c => transfers'[d] = transfers[d]
        /\ UNCHANGED <<transactions, latestTransactions, jobsInProgress>>
    BY <1>1, <1>13, <2>1, SaveEffect DEF Advance
  <2>3. latestTransactions[JobKey(c)] = Len(transactions)
    BY <2>1, <2>2 DEF WorkerFacts
  <2>4. \A i \in DOMAIN transactions : latestTransactions[JobKey(c)] >= i
    BY <1>1, <2>3, Bases
  <2> QED
    BY <1>3, <1>4, <2>2, <2>4
<1>14. ASSUME HandleReply
       PROVE  HiddenFacts'
  BY <1>1, <1>5, <1>14, ReplyEffect DEF StatusSet
<1>15. ASSUME RemoveFromJobsInProgress
       PROVE  HiddenFacts'
  <2>1. /\ transfers[worker.conversation] # NoTransaction
        /\ jobsInProgress' = jobsInProgress \ {worker.conversation}
        /\ UNCHANGED <<transactions, latestTransactions, transfers>>
    BY <1>1, <1>15, RemoveEffect DEF WorkerFacts, Advance
  <2> QED
    BY <1>4, <2>1
<1>16. ASSUME NEW c \in Conversations, SettleTransfer(c) \/ SendLateTimeout(c)
       PROVE  HiddenFacts'
  BY <1>1, <1>5, <1>16, SettleEffect, LateEffect DEF Aside
<1>17. ASSUME NEW m \in callbacks,
              LoseCallback(m) \/ ReceiveCallback(m) \/ ApplyCallback(m)
       PROVE  HiddenFacts'
  BY <1>1, <1>5, <1>17, LoseEffect, ApplyEffect DEF Aside, StatusSet
<1>18. CASE UNCHANGED vars
  BY <1>5, <1>18 DEF vars, storeVars
<1> QED
  BY <1>6, <1>7, <1>8, <1>9, <1>10, <1>11, <1>12, <1>13, <1>14, <1>15, <1>16,
     <1>17, <1>18
  DEF Next, RunStep, WorkerStep, SafaricomStep, CallbackStep

LEMMA UnknownNotFailedStep ==
    ASSUME Inv, WorkerFacts, UnknownNotFailed, [Next]_vars
    PROVE  UnknownNotFailed'
<1>1. TypeOK /\ TransferWhenCalling /\ TransactionOfJob
  BY DEF Inv, TransferInv
<1>2. /\ \A c \in DOMAIN jobs : c \in Conversations
      /\ \A c \in Conversations : fsp[c] # "none" => fsp'[c] # "none"
      /\ \A c \in Conversations : transfers[c] # NoTransaction =>
           c \in DOMAIN jobs /\ transfers[c] \in DOMAIN transactions
  BY <1>1, Bases, FspKeptStep
  DEF FspKept, Inv, TransferInv, TransferOfOwnJob, Issued, NoTransaction
<1>3. \A c \in DOMAIN jobs' : c \in Conversations
  BY <1>1, JobsKeptStep, BoundsAssumption DEF JobsKept, Conversations
<1>4. ASSUME UNCHANGED transfers,
             \A c \in DOMAIN jobs : fsp[c] = "none" /\ transfers[c] # NoTransaction =>
               \/ transactions'[transfers[c]].status = transactions[transfers[c]].status
               \/ "lostRequest" \in Faults
      PROVE  UnknownNotFailed'
  BY <1>2, <1>3, <1>4 DEF UnknownNotFailed
<1>5. ASSUME UNCHANGED <<transfers, transactions>>
      PROVE  UnknownNotFailed'
  BY <1>4, <1>5
<1>6. ASSUME NEW p \in Payments, PostPayment(p) \/ RetryPayment(p)
      PROVE  UnknownNotFailed'
  BY <1>5, <1>6, StartEffect
<1>7. ASSUME NEW r \in Registrations, AddSafaricomTransactionJob(r)
      PROVE  UnknownNotFailed'
  BY <1>1, <1>5, <1>7, AddEffect
<1>8. ASSUME NEW c \in Conversations, TakeJob(c) \/ RecoverStalledJob(c)
      PROVE  UnknownNotFailed'
  BY <1>1, <1>5, <1>8, TakeEffect, RecoverEffect
<1>9. ASSUME FinishRun \/ CompleteJob \/ Crash
      PROVE  UnknownNotFailed'
  BY <1>1, <1>5, <1>9, FinishEffect, CompleteEffect, CrashEffect
<1>10. ASSUME CreateWaitingTransaction
       PROVE  UnknownNotFailed'
  <2>1. /\ UNCHANGED transfers
        /\ \A j \in DOMAIN transactions : transactions'[j] = transactions[j]
    BY <1>1, <1>10, CreateEffect
  <2> QED
    BY <1>2, <1>4, <2>1
<1>11. ASSUME \/ UpdateLatestTransaction \/ UpdateRegistration \/ CallSafaricom
              \/ RemoveFromJobsInProgress
       PROVE  UnknownNotFailed'
  BY <1>1, <1>5, <1>11, LatestEffect, CountEffect, CallEffect, RemoveEffect
<1>12. ASSUME SaveTransfer
       PROVE  UnknownNotFailed'
  <2>1. PICK c : c = worker.conversation
    OBVIOUS
  <2>2. /\ worker.pc = "save"
        /\ transfers'[c] = worker.transaction
        /\ \A d \in Conversations : d # c => transfers'[d] = transfers[d]
        /\ UNCHANGED <<transactions, jobs, fsp>>
    BY <1>1, <1>12, <2>1, SaveEffect DEF Advance
  <2>3. transactions[worker.transaction].status = "waiting"
    BY <2>2 DEF WorkerFacts
  <2> QED
    BY <1>2, <2>2, <2>3 DEF UnknownNotFailed
<1>13. ASSUME HandleReply
       PROVE  UnknownNotFailed'
  <2>1. PICK c : c = worker.conversation
    OBVIOUS
  <2>2. /\ worker.pc = "reply" /\ c \in Conversations /\ UNCHANGED transfers
        /\ \A j \in DOMAIN transactions : j # transfers[c] =>
             transactions'[j].status = transactions[j].status
    BY <1>1, <1>2, <1>13, <2>1, ReplyEffect, Bases DEF StatusSet, Advance
  <2>3. /\ transfers[c] # NoTransaction
        /\ fsp[c] = "none" => "lostRequest" \in Faults
    BY <1>1, <2>1, <2>2 DEF TransferWhenCalling, WorkerFacts
  <2>4. \A d \in Conversations : transfers[d] = transfers[c] => d = c
    BY <2>2, <2>3 DEF Inv, TransferInv, TransferOfOwnJob
  <2> QED
    BY <1>2, <1>4, <2>2, <2>3, <2>4
<1>14. ASSUME NEW c \in Conversations, SettleTransfer(c) \/ SendLateTimeout(c)
       PROVE  UnknownNotFailed'
  BY <1>1, <1>5, <1>14, SettleEffect, LateEffect DEF Aside
<1>15. ASSUME NEW m \in callbacks, LoseCallback(m) \/ ReceiveCallback(m)
       PROVE  UnknownNotFailed'
  BY <1>1, <1>5, <1>15, LoseEffect DEF Aside
<1>16. ASSUME NEW m \in callbacks, ApplyCallback(m)
       PROVE  UnknownNotFailed'
  <2>1. PICK c : c = m.conversation
    OBVIOUS
  <2>2. /\ UNCHANGED transfers /\ c \in Conversations
        /\ \A j \in DOMAIN transactions : j # transfers[c] =>
             transactions'[j].status = transactions[j].status
    BY <1>1, <1>16, <2>1, ApplyEffect DEF StatusSet, Aside
  <2>3. fsp[c] # "none" /\ transfers[c] # NoTransaction
    BY <2>1, <2>2 DEF Inv, CallbackIsTrue, KnownHasTransfer
  <2>4. \A d \in Conversations : transfers[d] = transfers[c] => d = c
    BY <2>2, <2>3 DEF Inv, TransferInv, TransferOfOwnJob
  <2> QED
    BY <1>2, <1>4, <2>2, <2>3, <2>4
<1>17. CASE UNCHANGED vars
  BY <1>5, <1>17 DEF vars, storeVars
<1> QED
  BY <1>6, <1>7, <1>8, <1>9, <1>10, <1>11, <1>12, <1>13, <1>14, <1>15, <1>16, <1>17
  DEF Next, RunStep, WorkerStep, SafaricomStep, CallbackStep

-----------------------------------------------------------------------------
(* Who may still be paid, when the reports of Safaricom are reliable.      *)

JobInv ==
    /\ Inv
    /\ WorkerFacts
    /\ SetFacts
    /\ FreshFacts
    /\ HiddenFacts
    /\ UnknownNotFailed

LEMMA JobInvInit == Init => WorkerFacts /\ SetFacts /\ FreshFacts /\ HiddenFacts
                              /\ UnknownNotFailed
BY DEF Init, StoreInit, IdleWorker, WorkerFacts, SetFacts, FreshFacts, HiddenFacts,
       UnknownNotFailed

LEMMA JobInvStep == JobInv /\ [Next]_vars => JobInv'
BY InvStep, WorkerFactsStep, SetFactsStep, FreshFactsStep, HiddenFactsStep,
   UnknownNotFailedStep DEF JobInv

LEMMA InvTypes ==
    ASSUME Inv
    PROVE  TypeOK /\ TransferWhenCalling /\ TransactionOfJob /\ TransferOfOwnJob
BY DEF Inv, TransferInv

\* Job c has been paid or can still be: Safaricom has its transfer, or a worker
\* can still make the request.
MayPay(c) ==
    \/ fsp[c] \in {"accepted", "paid"}
    \/ fsp[c] \in {"none", "refused"} /\ c \in jobsInProgress

OneMayPay ==
    \A c, d \in DOMAIN jobs :
        JobKey(c) = JobKey(d) /\ MayPay(c) /\ MayPay(d) => c = d

TodoCannotPay ==
    run.pc = "adding" => \A r \in run.todo : \A c \in DOMAIN jobs :
        JobKey(c) = <<r, run.payment>> => ~MayPay(c)

NewestMayPay ==
    \A c \in DOMAIN jobs : MayPay(c) /\ transfers[c] # NoTransaction =>
        \A i \in DOMAIN transactions : KeyOf(i) = JobKey(c) => i <= transfers[c]

NotFailed ==
    \A c \in DOMAIN jobs : fsp[c] \in {"accepted", "paid"} =>
        transactions[transfers[c]].status # "error"

ReplyTrue ==
    worker.pc = "reply" /\ worker.reply = "error" =>
        fsp[worker.conversation] \in {"none", "refused"}

CallbackTrue ==
    \A m \in callbacks : fsp[m.conversation] = m.outcome

PayoutFacts ==
    ReliableReports => /\ OneMayPay
                       /\ TodoCannotPay
                       /\ NewestMayPay
                       /\ NotFailed
                       /\ ReplyTrue
                       /\ CallbackTrue

\* Only a crash is counted, so that reports were reliable before a step after
\* which they are.
LEMMA ReliableBefore ==
    ASSUME TypeOK, [Next]_vars, ReliableReports'
    PROVE  ReliableReports
<1>1. crashes \in Nat /\ (UNCHANGED crashes \/ crashes' = crashes + 1)
  BY CrashesCounted
<1> QED
  BY <1>1 DEF ReliableReports

\* Jobs are added one at a time, and only a start fills a run.
LEMMA RunAndJobs ==
    ASSUME Inv, [Next]_vars,
           ~\E p \in Payments : PostPayment(p) \/ RetryPayment(p),
           ~\E r \in Registrations : AddSafaricomTransactionJob(r)
    PROVE  /\ DOMAIN jobs' = DOMAIN jobs
           /\ jobsInProgress' \subseteq jobsInProgress
           /\ run'.pc = "adding" => run' = run
<1>1. TypeOK /\ TransferWhenCalling /\ TransactionOfJob
  BY InvTypes
<1> DEFINE Goal == /\ DOMAIN jobs' = DOMAIN jobs
                   /\ jobsInProgress' \subseteq jobsInProgress
                   /\ run'.pc = "adding" => run' = run
<1>2. ASSUME FinishRun \/ CompleteJob \/ Crash PROVE Goal
  BY <1>1, <1>2, FinishEffect, CompleteEffect, CrashEffect
<1>3. ASSUME NEW c \in Conversations, TakeJob(c) \/ RecoverStalledJob(c) PROVE Goal
  BY <1>1, <1>3, TakeEffect, RecoverEffect
<1>4. ASSUME \/ CreateWaitingTransaction \/ UpdateLatestTransaction
             \/ UpdateRegistration \/ SaveTransfer
      PROVE  Goal
  BY <1>1, <1>4, CreateEffect, LatestEffect, CountEffect, SaveEffect DEF Advance
<1>5. ASSUME CallSafaricom \/ HandleReply \/ RemoveFromJobsInProgress PROVE Goal
  BY <1>1, <1>5, CallEffect, ReplyEffect, RemoveEffect DEF Advance
<1>6. ASSUME NEW c \in Conversations, SettleTransfer(c) \/ SendLateTimeout(c)
      PROVE  Goal
  BY <1>1, <1>6, SettleEffect, LateEffect DEF Aside
<1>7. ASSUME NEW m \in callbacks,
             LoseCallback(m) \/ ReceiveCallback(m) \/ ApplyCallback(m)
      PROVE  Goal
  BY <1>1, <1>7, LoseEffect, ApplyEffect DEF Aside
<1>8. CASE UNCHANGED vars
  BY <1>8 DEF vars
<1> QED
  BY <1>2, <1>3, <1>4, <1>5, <1>6, <1>7, <1>8
  DEF Next, RunStep, WorkerStep, SafaricomStep, CallbackStep

\* A job that cannot be paid stays so.
LEMMA MayPayShrinks ==
    ASSUME JobInv, ReliableReports, [Next]_vars, NEW c \in DOMAIN jobs, MayPay(c)'
    PROVE  MayPay(c)
<1>1. TypeOK /\ TransferWhenCalling /\ TransactionOfJob /\ c \in Conversations
  BY InvTypes, Bases DEF JobInv
<1>2. c \in jobsInProgress' => c \in jobsInProgress
  <2>1. ASSUME NEW r \in Registrations, AddSafaricomTransactionJob(r)
        PROVE  c \in jobsInProgress' => c \in jobsInProgress
    BY <1>1, <2>1, AddEffect
  <2>2. ASSUME NEW p \in Payments, PostPayment(p) \/ RetryPayment(p)
        PROVE  c \in jobsInProgress' => c \in jobsInProgress
    BY <2>2, StartEffect
  <2> QED
    BY <2>1, <2>2, RunAndJobs DEF JobInv
<1>3. CASE fsp'[c] = fsp[c]
  BY <1>2, <1>3 DEF MayPay
<1>4. ASSUME CallSafaricom
      PROVE  MayPay(c)
  <2>1. CASE c # worker.conversation
    BY <1>1, <1>3, <1>4, <2>1, CallEffect
  <2>2. ASSUME c = worker.conversation, fsp[c] \in {"none", "refused"},
               fsp[c] = "refused" => "transientRefusal" \in Faults,
               c \notin jobsInProgress
        PROVE  FALSE
    <3>1. worker.pc = "call"
      BY <1>1, <1>4, CallEffect DEF Advance
    <3>2. crashes # 0 /\ crashes \in Nat
      BY <1>1, <2>2, <3>1, BoundsAssumption DEF JobInv, FreshFacts, TypeOK
    <3>3. {"lostRequest", "transientRefusal"} \cap Faults = {}
      BY <3>2 DEF ReliableReports
    <3> QED
      BY <2>2, <3>3 DEF JobInv, SetFacts
  <2>3. CASE c = worker.conversation
    BY <1>1, <1>2, <1>4, <2>2, <2>3, CallEffect DEF MayPay, Outcome
  <2> QED
    BY <2>1, <2>3
<1>5. ASSUME NEW d \in Conversations, SettleTransfer(d)
      PROVE  MayPay(c)
  BY <1>1, <1>3, <1>5, SettleEffect DEF MayPay
<1>6. ASSUME NEW p \in Payments, PostPayment(p) \/ RetryPayment(p)
      PROVE  MayPay(c)
  BY <1>3, <1>6, StartEffect
<1>7. ASSUME NEW r \in Registrations, AddSafaricomTransactionJob(r)
      PROVE  MayPay(c)
  BY <1>1, <1>3, <1>7, AddEffect
<1>8. ASSUME FinishRun \/ CompleteJob \/ Crash
      PROVE  MayPay(c)
  BY <1>1, <1>3, <1>8, FinishEffect, CompleteEffect, CrashEffect
<1>9. ASSUME NEW d \in Conversations,
             TakeJob(d) \/ RecoverStalledJob(d) \/ SendLateTimeout(d)
      PROVE  MayPay(c)
  BY <1>1, <1>3, <1>9, TakeEffect, RecoverEffect, LateEffect
<1>10. ASSUME \/ CreateWaitingTransaction \/ UpdateLatestTransaction
              \/ UpdateRegistration \/ SaveTransfer
       PROVE  MayPay(c)
  BY <1>1, <1>3, <1>10, CreateEffect, LatestEffect, CountEffect, SaveEffect
<1>11. ASSUME HandleReply \/ RemoveFromJobsInProgress
       PROVE  MayPay(c)
  BY <1>1, <1>3, <1>11, ReplyEffect, RemoveEffect
<1>12. ASSUME NEW m \in callbacks,
              LoseCallback(m) \/ ReceiveCallback(m) \/ ApplyCallback(m)
       PROVE  MayPay(c)
  BY <1>1, <1>3, <1>12, LoseEffect, ApplyEffect
<1>13. CASE UNCHANGED vars
  BY <1>3, <1>13 DEF vars
<1> QED
  BY <1>4, <1>5, <1>6, <1>7, <1>8, <1>9, <1>10, <1>11, <1>12, <1>13
  DEF Next, RunStep, WorkerStep, SafaricomStep, CallbackStep

\* A payment or a retry never selects a registration that may be paid.
LEMMA StartCannotPay ==
    ASSUME JobInv, NewestMayPay, NotFailed, ~IsPaymentInProgress,
           NEW c \in DOMAIN jobs, NEW k, k = JobKey(c), MayPay(c)
    PROVE  /\ latestTransactions[k] # NoTransaction
           /\ StatusOf(k) # "error"
           /\ ~NewestTransactionFailed(k)
<1>1. /\ TypeOK /\ TransferOfOwnJob /\ c \in Conversations /\ k \in Key
      /\ jobsInProgress = {}
  BY InvTypes, Bases DEF JobInv, IsPaymentInProgress
<1>2. fsp[c] \in {"accepted", "paid"}
  BY <1>1 DEF MayPay
<1>3. PICK i : i = transfers[c]
  OBVIOUS
<1>4. i # NoTransaction /\ KeyOf(i) = k
  BY <1>1, <1>2, <1>3 DEF JobInv, Inv, KnownHasTransfer, TransferOfOwnJob
<1>5. i \in DOMAIN transactions /\ i \in Nat /\ i > 0
  BY <1>1, <1>3, <1>4, Bases DEF NoTransaction
<1>6. transactions[i].status # "error"
  BY <1>2, <1>3 DEF NotFailed
<1>7. \A j \in DOMAIN transactions : KeyOf(j) = k => j <= i
  BY <1>3, <1>4 DEF NewestMayPay
<1>8. latestTransactions[k] \in 0..Len(transactions) /\ Len(transactions) \in Nat
  BY <1>1, Bases DEF TypeOK, StoreTypeOK
<1>9. ~(latestTransactions[k] < i)
  BY <1>1, <1>4, <1>5 DEF JobInv, HiddenFacts
<1>10. latestTransactions[k] \in DOMAIN transactions
         /\ latestTransactions[k] # NoTransaction
  BY <1>1, <1>5, <1>8, <1>9, Bases DEF NoTransaction
<1>11. latestTransactions[k] = i
  BY <1>1, <1>5, <1>7, <1>8, <1>9, <1>10 DEF JobInv, HiddenFacts
<1>12. ~NewestTransactionFailed(k)
  <2> SUFFICES ASSUME NEW j \in DOMAIN transactions, KeyOf(j) = k,
                      transactions[j].status = "error", i <= j
               PROVE  FALSE
    BY <1>4, <1>5 DEF NewestTransactionFailed
  <2>1. j <= i /\ j \in Nat
    BY <1>1, <1>7, Bases
  <2> QED
    BY <1>5, <1>6, <2>1
<1> QED
  BY <1>6, <1>10, <1>11, <1>12 DEF StatusOf

LEMMA OneMayPayStep ==
    ASSUME JobInv, ReliableReports, OneMayPay, TodoCannotPay, NewestMayPay,
           NotFailed, [Next]_vars
    PROVE  OneMayPay' /\ TodoCannotPay'
<1>1. TypeOK
  BY InvTypes DEF JobInv
<1>2. \A c \in DOMAIN jobs : JobKey(c)' = JobKey(c) /\ (MayPay(c)' => MayPay(c))
  BY <1>1, Bases, JobsKeptStep, MayPayShrinks DEF JobsKept, JobKey
<1>3. ASSUME DOMAIN jobs' = DOMAIN jobs
      PROVE  OneMayPay'
  BY <1>2, <1>3 DEF OneMayPay
<1>4. ASSUME NEW p \in Payments, PostPayment(p) \/ RetryPayment(p)
      PROVE  OneMayPay' /\ TodoCannotPay'
  <2>1. /\ DOMAIN jobs' = DOMAIN jobs /\ run'.payment = p
        /\ ~IsPaymentInProgress
    BY <1>4, StartEffect
  <2>2. ASSUME NEW r \in run'.todo, NEW c \in DOMAIN jobs, JobKey(c) = <<r, p>>,
               MayPay(c)
        PROVE  FALSE
    <3>1. /\ latestTransactions[<<r, p>>] # NoTransaction
          /\ StatusOf(<<r, p>>) # "error"
          /\ ~NewestTransactionFailed(<<r, p>>)
      BY <2>1, <2>2, StartCannotPay
    <3>2. \/ run'.todo \subseteq PayableRegistrations(p)
          \/ run'.todo = FailedRegistrations(p)
          \/ \A s \in run'.todo : NewestTransactionFailed(<<s, p>>)
      BY <1>4, StartEffect
    <3> QED
      BY <2>2, <3>1, <3>2 DEF PayableRegistrations, FailedRegistrations
  <2>3. TodoCannotPay'
    BY <1>2, <2>1, <2>2 DEF TodoCannotPay
  <2> QED
    BY <1>3, <2>1, <2>3
<1>5. ASSUME NEW r \in Registrations, AddSafaricomTransactionJob(r)
      PROVE  OneMayPay' /\ TodoCannotPay'
  <2>1. PICK n : n = Len(jobs) + 1
    OBVIOUS
  <2>2. /\ run.pc = "adding" /\ r \in run.todo /\ run'.payment = run.payment
        /\ run'.todo = run.todo \ {r}
        /\ DOMAIN jobs' = DOMAIN jobs \cup {n} /\ n \notin DOMAIN jobs
        /\ jobs'[n].registration = r /\ jobs'[n].payment = run.payment
    BY <1>1, <1>5, <2>1, AddEffect
  <2>3. JobKey(n)' = <<r, run.payment>>
    BY <2>2 DEF JobKey
  <2>4. \A c \in DOMAIN jobs : JobKey(c) = <<r, run.payment>> => ~MayPay(c)
    BY <2>2 DEF TodoCannotPay
  <2>5. OneMayPay'
    BY <1>2, <2>2, <2>3, <2>4 DEF OneMayPay
  <2>6. ASSUME NEW s \in run'.todo, NEW c \in DOMAIN jobs',
               JobKey(c)' = <<s, run'.payment>>
        PROVE  ~MayPay(c)'
    <3>1. s \in run.todo /\ s # r
      BY <2>2
    <3>2. c \in DOMAIN jobs
      BY <2>2, <2>3, <2>6, <3>1
    <3> QED
      BY <1>2, <2>2, <2>6, <3>1, <3>2 DEF TodoCannotPay
  <2> QED
    BY <2>5, <2>6 DEF TodoCannotPay
<1>6. ASSUME DOMAIN jobs' = DOMAIN jobs, run'.pc = "adding" => run' = run
      PROVE  OneMayPay' /\ TodoCannotPay'
  BY <1>2, <1>3, <1>6 DEF TodoCannotPay
<1> QED
  BY <1>4, <1>5, <1>6, RunAndJobs DEF JobInv

\* Transactions and transfers are added by the worker alone.
LEMMA RowsAdded ==
    ASSUME Inv, [Next]_vars, ~CreateWaitingTransaction, ~SaveTransfer
    PROVE  UNCHANGED transfers /\ DOMAIN transactions' = DOMAIN transactions
<1>1. TypeOK /\ TransferWhenCalling /\ TransactionOfJob
  BY InvTypes
<1> DEFINE Goal == UNCHANGED transfers /\ DOMAIN transactions' = DOMAIN transactions
<1>2. ASSUME FinishRun \/ CompleteJob \/ Crash PROVE Goal
  BY <1>1, <1>2, FinishEffect, CompleteEffect, CrashEffect
<1>3. ASSUME NEW c \in Conversations, TakeJob(c) \/ RecoverStalledJob(c) PROVE Goal
  BY <1>1, <1>3, TakeEffect, RecoverEffect
<1>4. ASSUME \/ UpdateLatestTransaction \/ UpdateRegistration \/ CallSafaricom
             \/ HandleReply \/ RemoveFromJobsInProgress
      PROVE  Goal
  BY <1>1, <1>4, LatestEffect, CountEffect, CallEffect, ReplyEffect, RemoveEffect
  DEF StatusSet
<1>5. ASSUME NEW c \in Conversations, SettleTransfer(c) \/ SendLateTimeout(c)
      PROVE  Goal
  BY <1>1, <1>5, SettleEffect, LateEffect DEF Aside
<1>6. ASSUME NEW m \in callbacks,
             LoseCallback(m) \/ ReceiveCallback(m) \/ ApplyCallback(m)
      PROVE  Goal
  BY <1>1, <1>6, LoseEffect, ApplyEffect DEF Aside, StatusSet
<1>7. ASSUME NEW p \in Payments, PostPayment(p) \/ RetryPayment(p)
      PROVE  Goal
  BY <1>7, StartEffect
<1>8. ASSUME NEW r \in Registrations, AddSafaricomTransactionJob(r)
      PROVE  Goal
  BY <1>1, <1>8, AddEffect
<1>9. CASE UNCHANGED vars
  BY <1>9 DEF vars, storeVars
<1> QED
  BY <1>2, <1>3, <1>4, <1>5, <1>6, <1>7, <1>8, <1>9
  DEF Next, RunStep, WorkerStep, SafaricomStep, CallbackStep

LEMMA NewestMayPayStep ==
    ASSUME JobInv, ReliableReports, OneMayPay, NewestMayPay, [Next]_vars
    PROVE  NewestMayPay'
<1>1. TypeOK /\ TransferWhenCalling /\ TransactionOfJob
  BY InvTypes DEF JobInv
<1>8. \A c \in DOMAIN jobs : c \in Conversations /\ (MayPay(c)' => MayPay(c))
  BY <1>1, Bases, MayPayShrinks
<1>9. /\ \A c \in DOMAIN jobs : JobKey(c)' = JobKey(c)
      /\ \A i \in DOMAIN transactions : KeyOf(i)' = KeyOf(i) /\ i \in Nat
  BY <1>1, Bases, JobsKeptStep, TransactionsKeptStep
  DEF JobsKept, JobKey, TransactionsKept, KeyOf
<1>2. /\ \A c \in DOMAIN jobs : /\ c \in Conversations
                                /\ JobKey(c)' = JobKey(c)
                                /\ MayPay(c)' => MayPay(c)
      /\ \A i \in DOMAIN transactions : KeyOf(i)' = KeyOf(i) /\ i \in Nat
  BY <1>8, <1>9
<1>3. \A c \in DOMAIN jobs' : c \in Conversations
  BY <1>1, JobsKeptStep, BoundsAssumption DEF JobsKept, Conversations
<1>4. \A c \in Conversations : transfers[c] # NoTransaction => c \in DOMAIN jobs
  BY InvTypes DEF JobInv, TransferOfOwnJob, Issued
<1>5. CASE UNCHANGED transfers /\ DOMAIN transactions' = DOMAIN transactions
  BY <1>2, <1>3, <1>4, <1>5 DEF NewestMayPay
\* Only the job that adds the transaction may be paid for its key.
<1>6. ASSUME CreateWaitingTransaction
      PROVE  NewestMayPay'
  <2>1. PICK w, n : w = worker.conversation /\ n = Len(transactions) + 1
    OBVIOUS
  <2>2. /\ worker.pc = "create"
        /\ DOMAIN transactions' = 1..n
        /\ <<transactions'[n].registration, transactions'[n].payment>> = JobKey(w)
        /\ UNCHANGED <<jobs, transfers, fsp, jobsInProgress>>
    BY <1>1, <1>6, <2>1, CreateEffect DEF Advance
  <2>3. w \in DOMAIN jobs /\ transfers[w] = NoTransaction
    BY <1>1, <2>1, <2>2, Bases DEF TransferWhenCalling
  <2>4. fsp[w] = "none" /\ w \in jobsInProgress
    BY <1>2, <2>3 DEF JobInv, SetFacts, Inv, KnownHasTransfer
  <2>5. MayPay(w)
    BY <2>4 DEF MayPay
  <2>6. \A i : i \in DOMAIN transactions' <=> i \in DOMAIN transactions \/ i = n
    BY <1>1, <2>1, <2>2, Bases
  <2>7. KeyOf(n)' = JobKey(w)
    BY <2>2 DEF KeyOf
  <2>8. ASSUME NEW c \in DOMAIN jobs, MayPay(c), transfers[c] # NoTransaction
        PROVE  JobKey(c) # JobKey(w)
    BY <2>3, <2>5, <2>8 DEF OneMayPay
  <2> QED
    BY <1>2, <2>2, <2>6, <2>7, <2>8 DEF NewestMayPay
\* The transaction it links to is the newest of all.
<1>7. ASSUME SaveTransfer
      PROVE  NewestMayPay'
  <2>1. PICK w : w = worker.conversation
    OBVIOUS
  <2>2. /\ worker.pc = "save"
        /\ transfers'[w] = worker.transaction
        /\ \A d \in Conversations : d # w => transfers'[d] = transfers[d]
        /\ UNCHANGED <<transactions, jobs>>
    BY <1>1, <1>7, <2>1, SaveEffect DEF Advance
  <2>3. worker.transaction = Len(transactions)
    BY <2>2 DEF JobInv, WorkerFacts
  <2>4. \A i \in DOMAIN transactions : i <= transfers'[w]
    BY <1>1, <2>2, <2>3, Bases
  <2> QED
    BY <1>2, <2>2, <2>4 DEF NewestMayPay
<1> QED
  BY <1>5, <1>6, <1>7, RowsAdded DEF JobInv

\* A reported error is true: what the worker and the callbacks are told.
LEMMA ReplyTrueStep ==
    ASSUME JobInv, ReliableReports, ReplyTrue, [Next]_vars
    PROVE  ReplyTrue'
<1>1. TypeOK /\ TransferWhenCalling /\ TransactionOfJob
  BY InvTypes DEF JobInv
<1>2. CASE worker'.pc # "reply"
  BY <1>2 DEF ReplyTrue
<1>3. CASE UNCHANGED <<worker, fsp>>
  BY <1>3 DEF ReplyTrue
<1>4. ASSUME CallSafaricom
      PROVE  ReplyTrue'
  <2>1. PICK w : w = worker.conversation
    OBVIOUS
  <2>2. /\ worker.pc = "call" /\ worker'.conversation = w
        /\ \/ worker'.reply = "duplicate"
           \/ worker'.reply = "error" => "lostResponse" \in Faults
           \/ fsp'[w] = "refused"
           \/ fsp'[w] = fsp[w] /\ "lostRequest" \in Faults
    BY <1>1, <1>4, <2>1, CallEffect DEF Advance
  <2>3. ASSUME "lostRequest" \in Faults
        PROVE  fsp[w] = "none"
    <3>1. crashes = 0
      BY <1>1, <2>3, BoundsAssumption DEF ReliableReports, TypeOK
    <3> QED
      BY <2>1, <2>2, <3>1 DEF JobInv, FreshFacts
  <2> QED
    BY <2>2, <2>3 DEF ReplyTrue, ReliableReports
<1>5. ASSUME NEW c \in Conversations, SettleTransfer(c)
      PROVE  ReplyTrue'
  <2>1. /\ UNCHANGED worker /\ fsp[c] = "accepted"
        /\ \A d \in Conversations : d # c => fsp'[d] = fsp[d]
    BY <1>1, <1>5, SettleEffect DEF Aside
  <2>2. worker.pc = "reply" => worker.conversation \in Conversations
    BY <1>1, Bases
  <2> QED
    BY <2>1, <2>2 DEF ReplyTrue
<1>6. ASSUME NEW p \in Payments, PostPayment(p) \/ RetryPayment(p)
      PROVE  ReplyTrue'
  BY <1>3, <1>6, StartEffect
<1>7. ASSUME NEW r \in Registrations, AddSafaricomTransactionJob(r)
      PROVE  ReplyTrue'
  BY <1>1, <1>3, <1>7, AddEffect
<1>8. ASSUME FinishRun \/ CompleteJob \/ Crash
      PROVE  ReplyTrue'
  BY <1>1, <1>2, <1>3, <1>8, FinishEffect, CompleteEffect, CrashEffect
<1>9. ASSUME NEW c \in Conversations,
             TakeJob(c) \/ RecoverStalledJob(c) \/ SendLateTimeout(c)
      PROVE  ReplyTrue'
  BY <1>1, <1>2, <1>3, <1>9, TakeEffect, RecoverEffect, LateEffect DEF Aside
<1>10. ASSUME \/ CreateWaitingTransaction \/ UpdateLatestTransaction
              \/ UpdateRegistration \/ SaveTransfer \/ HandleReply
              \/ RemoveFromJobsInProgress
       PROVE  ReplyTrue'
  BY <1>1, <1>2, <1>10, CreateEffect, LatestEffect, CountEffect, SaveEffect,
     ReplyEffect, RemoveEffect DEF Advance
<1>11. ASSUME NEW m \in callbacks,
              LoseCallback(m) \/ ReceiveCallback(m) \/ ApplyCallback(m)
       PROVE  ReplyTrue'
  BY <1>1, <1>3, <1>11, LoseEffect, ApplyEffect DEF Aside
<1>12. CASE UNCHANGED vars
  BY <1>3, <1>12 DEF vars
<1> QED
  BY <1>4, <1>5, <1>6, <1>7, <1>8, <1>9, <1>10, <1>11, <1>12
  DEF Next, RunStep, WorkerStep, SafaricomStep, CallbackStep

LEMMA CallbackTrueStep ==
    ASSUME JobInv, ReliableReports, CallbackTrue, [Next]_vars
    PROVE  CallbackTrue'
<1>1. TypeOK /\ TransferWhenCalling /\ TransactionOfJob
  BY InvTypes DEF JobInv
<1>2. \A m \in callbacks : m.conversation \in Conversations /\ m.outcome \in Outcome
  BY <1>1 DEF TypeOK, Callback
<1>3. ASSUME callbacks' \subseteq callbacks, UNCHANGED fsp
      PROVE  CallbackTrue'
  BY <1>3 DEF CallbackTrue
<1>4. ASSUME CallSafaricom
      PROVE  CallbackTrue'
  <2>1. PICK w : w = worker.conversation
    OBVIOUS
  <2>2. /\ worker.pc = "call" /\ UNCHANGED callbacks
        /\ \A d \in Conversations : d # w => fsp'[d] = fsp[d]
        /\ fsp[w] \in {"none", "refused"} \/ fsp'[w] = fsp[w]
    BY <1>1, <1>4, <2>1, CallEffect DEF Advance
  <2> QED
    BY <1>2, <2>2 DEF CallbackTrue, Outcome
<1>5. ASSUME NEW c \in Conversations, SettleTransfer(c)
      PROVE  CallbackTrue'
  BY <1>1, <1>2, <1>5, SettleEffect DEF CallbackTrue, Outcome
<1>6. ASSUME NEW c \in Conversations, SendLateTimeout(c)
      PROVE  CallbackTrue'
  BY <1>1, <1>6, LateEffect DEF ReliableReports
<1>7. ASSUME NEW p \in Payments, PostPayment(p) \/ RetryPayment(p)
      PROVE  CallbackTrue'
  BY <1>3, <1>7, StartEffect
<1>8. ASSUME NEW r \in Registrations, AddSafaricomTransactionJob(r)
      PROVE  CallbackTrue'
  BY <1>1, <1>3, <1>8, AddEffect
<1>9. ASSUME FinishRun \/ CompleteJob \/ Crash
      PROVE  CallbackTrue'
  BY <1>1, <1>3, <1>9, FinishEffect, CompleteEffect, CrashEffect
<1>10. ASSUME NEW c \in Conversations, TakeJob(c) \/ RecoverStalledJob(c)
       PROVE  CallbackTrue'
  BY <1>1, <1>3, <1>10, TakeEffect, RecoverEffect
<1>11. ASSUME \/ CreateWaitingTransaction \/ UpdateLatestTransaction
              \/ UpdateRegistration \/ SaveTransfer \/ HandleReply
              \/ RemoveFromJobsInProgress
       PROVE  CallbackTrue'
  BY <1>1, <1>3, <1>11, CreateEffect, LatestEffect, CountEffect, SaveEffect,
     ReplyEffect, RemoveEffect DEF Advance
<1>12. ASSUME NEW m \in callbacks,
              LoseCallback(m) \/ ReceiveCallback(m) \/ ApplyCallback(m)
       PROVE  CallbackTrue'
  BY <1>1, <1>3, <1>12, LoseEffect, ApplyEffect
<1>13. CASE UNCHANGED vars
  BY <1>3, <1>13 DEF vars
<1> QED
  BY <1>4, <1>5, <1>6, <1>7, <1>8, <1>9, <1>10, <1>11, <1>12, <1>13
  DEF Next, RunStep, WorkerStep, SafaricomStep, CallbackStep

\* A transaction is not marked as failed while its transfer may be paid.
LEMMA NotFailedStep ==
    ASSUME JobInv, ReliableReports, NotFailed, ReplyTrue, CallbackTrue, [Next]_vars
    PROVE  NotFailed'
<1>1. /\ TypeOK /\ TransferWhenCalling /\ TransactionOfJob /\ TransferOfOwnJob
      /\ KnownHasTransfer
  BY InvTypes DEF JobInv, Inv
<1>2. \A c \in DOMAIN jobs' : c \in Conversations
  BY <1>1, JobsKeptStep, BoundsAssumption DEF JobsKept, Conversations
<1>3. \A c \in Conversations : fsp[c] \in {"accepted", "paid"} =>
        /\ transfers[c] # NoTransaction
        /\ c \in DOMAIN jobs
        /\ transfers[c] \in DOMAIN transactions
        /\ transactions[transfers[c]].status # "error"
  BY <1>1, Bases
  DEF KnownHasTransfer, TransferOfOwnJob, Issued, NoTransaction, NotFailed
\* What is left to show when no transfer is saved.
<1>4. ASSUME UNCHANGED transfers,
             \A c \in Conversations : fsp'[c] \in {"accepted", "paid"} =>
               \/ /\ fsp[c] \in {"accepted", "paid"}
                  /\ transactions'[transfers[c]].status =
                       transactions[transfers[c]].status
               \/ transactions'[transfers[c]].status # "error"
      PROVE  NotFailed'
  BY <1>2, <1>3, <1>4 DEF NotFailed
<1>5. CASE UNCHANGED <<transfers, fsp, transactions>>
  BY <1>4, <1>5
\* One transaction changes its status.
<1>6. ASSUME NEW d \in Conversations, NEW status, transfers[d] # NoTransaction,
             StatusSet(transfers[d], status), UNCHANGED <<transfers, fsp>>,
             status = "error" => fsp[d] \notin {"accepted", "paid"}
      PROVE  NotFailed'
  <2>1. \A c \in Conversations : transfers[c] = transfers[d] => c = d
    BY <1>1, <1>6 DEF TransferOfOwnJob
  <2> QED
    BY <1>3, <1>4, <1>6, <2>1 DEF StatusSet
<1>7. ASSUME CreateWaitingTransaction
      PROVE  NotFailed'
  <2>1. /\ UNCHANGED <<transfers, fsp>>
        /\ \A j \in DOMAIN transactions : transactions'[j] = transactions[j]
    BY <1>1, <1>7, CreateEffect
  <2> QED
    BY <1>3, <1>4, <2>1
<1>8. ASSUME SaveTransfer
      PROVE  NotFailed'
  <2>1. PICK w : w = worker.conversation
    OBVIOUS
  <2>2. /\ worker.pc = "save"
        /\ \A d \in Conversations : d # w => transfers'[d] = transfers[d]
        /\ UNCHANGED <<transactions, fsp>>
    BY <1>1, <1>8, <2>1, SaveEffect DEF Advance
  <2>3. transfers[w] = NoTransaction
    BY <1>1, <2>1, <2>2 DEF TransferWhenCalling
  <2> QED
    BY <1>2, <1>3, <2>2, <2>3 DEF NotFailed
\* A transfer that fails is not asked for again.
<1>9. ASSUME CallSafaricom
      PROVE  NotFailed'
  <2>1. PICK w : w = worker.conversation
    OBVIOUS
  <2>2. /\ worker.pc = "call" /\ w \in DOMAIN jobs /\ w \in Conversations
        /\ \A d \in Conversations : d # w => fsp'[d] = fsp[d]
        /\ UNCHANGED <<transfers, transactions>>
    BY <1>1, <1>9, <2>1, CallEffect, Bases DEF Advance
  <2>3. \/ fsp'[w] = fsp[w]
        \/ fsp'[w] = "refused"
        \/ /\ fsp[w] \in {"none", "refused"}
           /\ fsp[w] = "refused" => "transientRefusal" \in Faults
    BY <1>1, <1>9, <2>1, CallEffect
  <2>4. ASSUME fsp[w] \in {"none", "refused"},
               fsp[w] = "refused" => "transientRefusal" \in Faults
        PROVE  transactions[transfers[w]].status # "error"
    <3>1. CASE crashes = 0
      BY <2>1, <2>2, <3>1 DEF JobInv, FreshFacts
    <3>2. CASE crashes # 0
      <4>1. {"lostRequest", "transientRefusal"} \cap Faults = {}
        BY <1>1, <3>2, BoundsAssumption DEF ReliableReports, TypeOK
      <4>2. fsp[w] = "none" /\ transfers[w] # NoTransaction
        BY <1>1, <2>1, <2>2, <2>4, <4>1 DEF TransferWhenCalling
      <4> QED
        BY <2>2, <4>1, <4>2 DEF JobInv, UnknownNotFailed
    <3> QED
      BY <3>1, <3>2
  <2> QED
    BY <1>4, <2>2, <2>3, <2>4
<1>10. ASSUME HandleReply
       PROVE  NotFailed'
  <2>1. PICK w : w = worker.conversation
    OBVIOUS
  <2>2. /\ worker.pc = "reply" /\ w \in Conversations /\ UNCHANGED <<transfers, fsp>>
        /\ \/ worker.reply = "error" /\ StatusSet(transfers[w], "error")
           \/ UNCHANGED transactions
    BY <1>1, <1>10, <2>1, ReplyEffect, Bases DEF Advance
  <2>3. /\ transfers[w] # NoTransaction
        /\ worker.reply = "error" => fsp[w] \notin {"accepted", "paid"}
    BY <1>1, <2>1, <2>2 DEF TransferWhenCalling, ReplyTrue
  <2> QED
    BY <1>5, <1>6, <2>2, <2>3
<1>11. ASSUME NEW m \in callbacks, ApplyCallback(m)
       PROVE  NotFailed'
  <2>1. PICK d, status : d = m.conversation
          /\ status = IF m.outcome = "paid" THEN "success" ELSE "error"
    OBVIOUS
  <2>2. /\ UNCHANGED <<transfers, fsp>> /\ d \in Conversations
        /\ StatusSet(transfers[d], status)
    BY <1>1, <1>11, <2>1, ApplyEffect DEF Aside
  <2>3. transfers[d] # NoTransaction
    BY <2>1, <2>2 DEF JobInv, Inv, CallbackIsTrue, KnownHasTransfer
  <2>4. status = "error" => fsp[d] \notin {"accepted", "paid"}
    BY <1>1, <2>1 DEF CallbackTrue, TypeOK, Callback, Outcome
  <2> QED
    BY <1>6, <2>2, <2>3, <2>4
<1>12. ASSUME NEW c \in Conversations, SettleTransfer(c)
       PROVE  NotFailed'
  <2>1. /\ UNCHANGED <<transfers, transactions>> /\ fsp[c] = "accepted"
        /\ \A d \in Conversations : d # c => fsp'[d] = fsp[d]
    BY <1>1, <1>12, SettleEffect DEF Aside
  <2> QED
    BY <1>4, <2>1
<1>13. ASSUME NEW p \in Payments, PostPayment(p) \/ RetryPayment(p)
       PROVE  NotFailed'
  BY <1>5, <1>13, StartEffect
<1>14. ASSUME NEW r \in Registrations, AddSafaricomTransactionJob(r)
       PROVE  NotFailed'
  BY <1>1, <1>5, <1>14, AddEffect
<1>15. ASSUME FinishRun \/ CompleteJob \/ Crash
       PROVE  NotFailed'
  BY <1>1, <1>5, <1>15, FinishEffect, CompleteEffect, CrashEffect
<1>16. ASSUME NEW c \in Conversations,
              TakeJob(c) \/ RecoverStalledJob(c) \/ SendLateTimeout(c)
       PROVE  NotFailed'
  BY <1>1, <1>5, <1>16, TakeEffect, RecoverEffect, LateEffect DEF Aside
<1>17. ASSUME \/ UpdateLatestTransaction \/ UpdateRegistration
              \/ RemoveFromJobsInProgress
       PROVE  NotFailed'
  BY <1>1, <1>5, <1>17, LatestEffect, CountEffect, RemoveEffect
<1>18. ASSUME NEW m \in callbacks, LoseCallback(m) \/ ReceiveCallback(m)
       PROVE  NotFailed'
  BY <1>5, <1>18, LoseEffect DEF Aside
<1>19. CASE UNCHANGED vars
  BY <1>5, <1>19 DEF vars, storeVars
<1> QED
  BY <1>7, <1>8, <1>9, <1>10, <1>11, <1>12, <1>13, <1>14, <1>15, <1>16, <1>17,
     <1>18, <1>19
  DEF Next, RunStep, WorkerStep, SafaricomStep, CallbackStep

PayoutInv == JobInv /\ PayoutFacts

LEMMA PayoutInvInit == Init => PayoutInv
<1> SUFFICES ASSUME Init PROVE PayoutInv
  OBVIOUS
<1>1. JobInv
  BY InvInit, JobInvInit DEF JobInv
<1>2. OneMayPay /\ TodoCannotPay /\ NewestMayPay /\ NotFailed
  BY DEF Init, StoreInit, OneMayPay, TodoCannotPay, NewestMayPay, NotFailed
<1>3. ReplyTrue /\ CallbackTrue
  BY DEF Init, IdleWorker, ReplyTrue, CallbackTrue
<1> QED
  BY <1>1, <1>2, <1>3 DEF PayoutInv, PayoutFacts

LEMMA PayoutInvStep == PayoutInv /\ [Next]_vars => PayoutInv'
<1> SUFFICES ASSUME PayoutInv, [Next]_vars PROVE PayoutInv'
  OBVIOUS
<1>1. JobInv /\ JobInv' /\ TypeOK
  BY JobInvStep, InvTypes DEF PayoutInv, JobInv
<1>2. ASSUME ReliableReports'
      PROVE  ReliableReports /\ OneMayPay /\ TodoCannotPay /\ NewestMayPay
               /\ NotFailed /\ ReplyTrue /\ CallbackTrue
  BY <1>1, <1>2, ReliableBefore DEF PayoutInv, PayoutFacts
<1>3. ASSUME ReliableReports'
      PROVE  OneMayPay' /\ TodoCannotPay' /\ NewestMayPay' /\ NotFailed'
               /\ ReplyTrue' /\ CallbackTrue'
  BY <1>1, <1>2, <1>3, OneMayPayStep, NewestMayPayStep, NotFailedStep,
     ReplyTrueStep, CallbackTrueStep
<1> QED
  BY <1>1, <1>3 DEF PayoutInv, PayoutFacts

\* The strengthening of AtMostOnePayout holds in every state: while a job of the
\* queue can still lead to a payout no other job of its registration and payment
\* can.
THEOREM PayoutInvCorrect == Spec => []PayoutInv
BY PayoutInvInit, PayoutInvStep, PTL DEF Spec

\* A transaction that latest_transaction does not show yet keeps the payment in
\* progress, whatever fails and wherever the service crashes.
THEOREM HiddenIsInProgress == Spec => []HiddenTransactionMeansInProgress
<1>1. PayoutInv => HiddenTransactionMeansInProgress
  BY DEF PayoutInv, JobInv, HiddenFacts, HiddenTransactionMeansInProgress,
         IsPaymentInProgress
<1> QED
  BY <1>1, PayoutInvCorrect, PTL

\* With reliable reports no registration is paid twice for one payment, for any
\* number of jobs, retries, crashes and repeated callbacks.
THEOREM PaidAtMostOnce == Spec => []AtMostOnePayout
<1>1. PayoutInv => AtMostOnePayout
  BY DEF PayoutInv, PayoutFacts, OneMayPay, MayPay, AtMostOnePayout
<1> QED
  BY <1>1, PayoutInvCorrect, PTL

-----------------------------------------------------------------------------
(* Payment counts and completion.                                          *)

CanBePaid(r) == MaxPayments > 0 /\ GetPaymentCount(r) >= MaxPayments

RetryFacts ==
    /\ \A c \in DOMAIN jobs : jobs[c].kind = "retry" =>
         latestTransactions[JobKey(c)] # NoTransaction
    /\ run.pc = "adding" /\ run.kind = "retry" =>
         \A r \in run.todo : latestTransactions[<<r, run.payment>>] # NoTransaction

\* Job c has yet to write the payment count and the status of its registration.
WillCount(c) ==
    /\ jobs[c].kind = "post"
    /\ jobs[c].state # "completed"
    /\ transfers[c] = NoTransaction
    /\ ~(worker.pc = "save" /\ worker.conversation = c)

CompletionFacts ==
    \A r \in Registrations :
        /\ registrations[r].status = "completed" => CanBePaid(r)
        /\ CanBePaid(r) /\ registrations[r].status # "completed" =>
             \E c \in DOMAIN jobs : jobs[c].registration = r /\ WillCount(c)

Distinct ==
    /\ \A c, d \in jobsInProgress : JobKey(c) = JobKey(d) => c = d
    /\ run.pc = "adding" => \A r \in run.todo : \A c \in jobsInProgress :
         JobKey(c) # <<r, run.payment>>

CountFacts ==
    crashes = 0 =>
        /\ run.pc = "adding" /\ run.kind = "post" =>
             \A r \in run.todo : latestTransactions[<<r, run.payment>>] = NoTransaction
        /\ \A c \in jobsInProgress :
             jobs[c].kind = "post" /\ transfers[c] = NoTransaction
               /\ ~(worker.pc \in {"count", "save"} /\ worker.conversation = c) =>
               latestTransactions[JobKey(c)] = NoTransaction
        /\ worker.pc \in {"create", "latest"} /\ jobs[worker.conversation].kind = "post" =>
             worker.readCount =
               GetPaymentCount(jobs[worker.conversation].registration)
        /\ worker.pc = "count" => worker.readCount + 1 =
               GetPaymentCount(jobs[worker.conversation].registration)

CountInv ==
    /\ JobInv
    /\ RetryFacts
    /\ CompletionFacts
    /\ Distinct
    /\ CountFacts
    /\ PaymentCountIsPaymentsMade

\* What a step leaves of a job.
LEMMA JobsStay ==
    ASSUME Inv, [Next]_vars, NEW c \in DOMAIN jobs
    PROVE  /\ c \in DOMAIN jobs'
           /\ JobKey(c)' = JobKey(c)
           /\ jobs'[c].registration = jobs[c].registration
           /\ jobs'[c].kind = jobs[c].kind
           /\ jobs'[c].state = "completed" =>
                jobs[c].state = "completed" \/ (CompleteJob /\ c = worker.conversation)
<1>1. TypeOK /\ TransferWhenCalling /\ TransactionOfJob
  BY InvTypes
<1>2. /\ JobKey(c)' = JobKey(c) /\ jobs'[c].registration = jobs[c].registration
      /\ c \in DOMAIN jobs'
  BY <1>1, Bases, JobsKeptStep DEF JobsKept, JobKey
<1> DEFINE Goal ==
      /\ jobs'[c].kind = jobs[c].kind
      /\ jobs'[c].state = "completed" =>
           jobs[c].state = "completed" \/ (CompleteJob /\ c = worker.conversation)
<1>3. ASSUME NEW p \in Payments, PostPayment(p) \/ RetryPayment(p) PROVE Goal
  BY <1>3, StartEffect
<1>4. ASSUME NEW r \in Registrations, AddSafaricomTransactionJob(r) PROVE Goal
  BY <1>1, <1>4, AddEffect
<1>5. ASSUME FinishRun \/ CompleteJob \/ Crash PROVE Goal
  BY <1>1, <1>5, FinishEffect, CompleteEffect, CrashEffect
<1>6. ASSUME NEW d \in Conversations, TakeJob(d) \/ RecoverStalledJob(d) PROVE Goal
  BY <1>1, <1>6, TakeEffect, RecoverEffect
<1>7. ASSUME \/ CreateWaitingTransaction \/ UpdateLatestTransaction
             \/ UpdateRegistration \/ SaveTransfer
      PROVE  Goal
  BY <1>1, <1>7, CreateEffect, LatestEffect, CountEffect, SaveEffect DEF Advance
<1>8. ASSUME CallSafaricom \/ HandleReply \/ RemoveFromJobsInProgress PROVE Goal
  BY <1>1, <1>8, CallEffect, ReplyEffect, RemoveEffect DEF Advance
<1>9. ASSUME NEW d \in Conversations, SettleTransfer(d) \/ SendLateTimeout(d)
      PROVE  Goal
  BY <1>1, <1>9, SettleEffect, LateEffect DEF Aside
<1>10. ASSUME NEW m \in callbacks,
              LoseCallback(m) \/ ReceiveCallback(m) \/ ApplyCallback(m)
       PROVE  Goal
  BY <1>1, <1>10, LoseEffect, ApplyEffect DEF Aside
<1>11. ASSUME UNCHANGED vars PROVE Goal
  BY <1>11 DEF vars
<1> QED
  BY <1>2, <1>3, <1>4, <1>5, <1>6, <1>7, <1>8, <1>9, <1>10, <1>11
  DEF Next, RunStep, WorkerStep, SafaricomStep, CallbackStep

LEMMA TablesStay ==
    ASSUME Inv, [Next]_vars
    PROVE  /\ UpdateLatestTransaction \/ UNCHANGED latestTransactions
           /\ UpdateRegistration \/ UNCHANGED registrations
<1>1. TypeOK /\ TransferWhenCalling /\ TransactionOfJob
  BY InvTypes
<1> DEFINE Goal == /\ UpdateLatestTransaction \/ UNCHANGED latestTransactions
                   /\ UpdateRegistration \/ UNCHANGED registrations
<1>3. ASSUME NEW p \in Payments, PostPayment(p) \/ RetryPayment(p) PROVE Goal
  BY <1>3, StartEffect
<1>4. ASSUME NEW r \in Registrations, AddSafaricomTransactionJob(r) PROVE Goal
  BY <1>1, <1>4, AddEffect
<1>5. ASSUME FinishRun \/ CompleteJob \/ Crash PROVE Goal
  BY <1>1, <1>5, FinishEffect, CompleteEffect, CrashEffect
<1>6. ASSUME NEW d \in Conversations, TakeJob(d) \/ RecoverStalledJob(d) PROVE Goal
  BY <1>1, <1>6, TakeEffect, RecoverEffect
<1>7. ASSUME \/ CreateWaitingTransaction \/ UpdateLatestTransaction
             \/ UpdateRegistration \/ SaveTransfer
      PROVE  Goal
  BY <1>1, <1>7, CreateEffect, LatestEffect, CountEffect, SaveEffect
<1>8. ASSUME CallSafaricom \/ HandleReply \/ RemoveFromJobsInProgress PROVE Goal
  BY <1>1, <1>8, CallEffect, ReplyEffect, RemoveEffect
<1>9. ASSUME NEW d \in Conversations, SettleTransfer(d) \/ SendLateTimeout(d)
      PROVE  Goal
  BY <1>1, <1>9, SettleEffect, LateEffect DEF Aside
<1>10. ASSUME NEW m \in callbacks,
              LoseCallback(m) \/ ReceiveCallback(m) \/ ApplyCallback(m)
       PROVE  Goal
  BY <1>1, <1>10, LoseEffect, ApplyEffect DEF Aside
<1>11. CASE UNCHANGED vars
  BY <1>11 DEF vars, storeVars
<1> QED
  BY <1>3, <1>4, <1>5, <1>6, <1>7, <1>8, <1>9, <1>10, <1>11
  DEF Next, RunStep, WorkerStep, SafaricomStep, CallbackStep

\* A latest transaction for a payment without one counts once.
LEMMA CountAfterLatest ==
    ASSUME TypeOK, TransactionOfJob, UpdateLatestTransaction, NEW r \in Registrations,
           NEW k, k = JobKey(worker.conversation)
    PROVE  GetPaymentCount(r)' =
             IF r = k[1] /\ latestTransactions[k] = NoTransaction
             THEN GetPaymentCount(r) + 1 ELSE GetPaymentCount(r)
<1> DEFINE Paid == {p \in Payments : latestTransactions[<<r, p>>] # NoTransaction}
           Paid1 == {p \in Payments : latestTransactions'[<<r, p>>] # NoTransaction}
<1>1. /\ worker.pc = "latest"
      /\ latestTransactions'[k] = worker.transaction
      /\ \A l \in Key : l # k => latestTransactions'[l] = latestTransactions[l]
  BY LatestEffect DEF Advance
<1>2. k \in Key /\ worker.transaction # NoTransaction
  BY <1>1, Bases DEF TypeOK, NoTransaction
<1>3. /\ k[1] \in Registrations /\ k[2] \in Payments /\ k = <<k[1], k[2]>>
      /\ \A p \in Payments : <<r, p>> \in Key
  BY <1>2 DEF Key
<1>4. IsFiniteSet(Paid)
  BY PaymentsAssumption, FS_Subset
<1>5. \A p \in Payments : <<r, p>> = k <=> r = k[1] /\ p = k[2]
  BY <1>3
<1>6. CASE r # k[1]
  <2>1. Paid1 = Paid
    BY <1>1, <1>3, <1>5, <1>6
  <2> QED
    BY <1>6, <2>1 DEF GetPaymentCount
<1>7. CASE r = k[1]
  <2>1. Paid1 = Paid \cup {k[2]}
    BY <1>1, <1>2, <1>3, <1>5, <1>7
  <2>2. k[2] \in Paid <=> latestTransactions[k] # NoTransaction
    BY <1>3, <1>7
  <2>3. Cardinality(Paid1) =
          IF k[2] \in Paid THEN Cardinality(Paid) ELSE Cardinality(Paid) + 1
    BY <1>4, <2>1, FS_AddElement
  <2> QED
    BY <1>7, <2>2, <2>3 DEF GetPaymentCount
<1> QED
  BY <1>6, <1>7

LEMMA RetryFactsStep ==
    ASSUME JobInv, RetryFacts, [Next]_vars
    PROVE  RetryFacts'
<1>1. TypeOK /\ TransactionOfJob /\ Inv
  BY InvTypes DEF JobInv
<1>2. ASSUME NEW k \in Key, latestTransactions[k] # NoTransaction
      PROVE  latestTransactions'[k] # NoTransaction
  <2>1. CASE UpdateLatestTransaction
    <3>1. worker.transaction # NoTransaction
      BY <1>1, <2>1, LatestEffect, Bases DEF Advance, TypeOK, NoTransaction
    <3> QED
      BY <1>1, <1>2, <2>1, <3>1, LatestEffect
  <2> QED
    BY <1>1, <1>2, <2>1, TablesStay
<1>3. \A c \in DOMAIN jobs :
        /\ JobKey(c) \in Key /\ JobKey(c)' = JobKey(c)
        /\ jobs'[c].kind = jobs[c].kind
  BY <1>1, Bases, JobsStay
<1>4. \A r \in Registrations : <<r, run.payment>> \in Key
  BY <1>1 DEF TypeOK, Run, Key
<1>5. run.todo \subseteq Registrations
  BY <1>1 DEF TypeOK, Run
<1>6. ASSUME NEW p \in Payments, PostPayment(p) \/ RetryPayment(p)
      PROVE  RetryFacts'
  <2>1. /\ ~IsPaymentInProgress /\ run'.payment = p
        /\ \A r \in run'.todo : r \in Registrations
        /\ run'.kind = "retry" =>
             \/ run'.todo = FailedRegistrations(p)
             \/ \A r \in run'.todo : NewestTransactionFailed(<<r, p>>)
        /\ UNCHANGED <<latestTransactions, jobs>>
    BY <1>6, StartEffect
  <2>2. ASSUME NEW r \in Registrations, StatusOf(<<r, p>>) = "error"
        PROVE  latestTransactions[<<r, p>>] # NoTransaction
    BY <2>2 DEF StatusOf
  <2>3. ASSUME NEW r \in Registrations, NewestTransactionFailed(<<r, p>>)
        PROVE  latestTransactions[<<r, p>>] # NoTransaction
    <3>1. PICK i \in DOMAIN transactions : KeyOf(i) = <<r, p>>
      BY <2>3 DEF NewestTransactionFailed
    <3>2. ~(latestTransactions[<<r, p>>] < i) /\ i \in Nat /\ i > 0
      BY <1>1, <2>1, <3>1, Bases DEF JobInv, HiddenFacts, IsPaymentInProgress
    <3> QED
      BY <3>2 DEF NoTransaction
  <2> QED
    BY <2>1, <2>2, <2>3 DEF RetryFacts, FailedRegistrations, JobKey
<1>7. ASSUME NEW r \in Registrations, AddSafaricomTransactionJob(r)
      PROVE  RetryFacts'
  <2>1. PICK n : n = Len(jobs) + 1
    OBVIOUS
  <2>2. /\ run.pc = "adding" /\ r \in run.todo /\ run'.payment = run.payment
        /\ run'.kind = run.kind /\ run'.todo = run.todo \ {r}
        /\ DOMAIN jobs' = DOMAIN jobs \cup {n}
        /\ jobs'[n].registration = r /\ jobs'[n].payment = run.payment
        /\ jobs'[n].kind = run.kind
        /\ UNCHANGED latestTransactions
    BY <1>1, <1>7, <2>1, AddEffect
  <2>3. JobKey(n)' = <<r, run.payment>>
    BY <2>2 DEF JobKey
  <2> QED
    BY <1>3, <2>2, <2>3 DEF RetryFacts
<1>8. ASSUME DOMAIN jobs' = DOMAIN jobs, run'.pc = "adding" => run' = run
      PROVE  RetryFacts'
  BY <1>2, <1>3, <1>4, <1>5, <1>8 DEF RetryFacts
<1> QED
  BY <1>1, <1>6, <1>7, <1>8, RunAndJobs

LEMMA DistinctStep ==
    ASSUME JobInv, Distinct, [Next]_vars
    PROVE  Distinct'
<1>1. TypeOK /\ Inv
  BY InvTypes DEF JobInv
<1>2. \A c \in jobsInProgress : c \in DOMAIN jobs /\ JobKey(c)' = JobKey(c)
  BY <1>1, JobsStay DEF JobInv, SetFacts
<1>3. ASSUME NEW p \in Payments, PostPayment(p) \/ RetryPayment(p)
      PROVE  Distinct'
  BY <1>3, StartEffect DEF Distinct, IsPaymentInProgress
<1>4. ASSUME NEW r \in Registrations, AddSafaricomTransactionJob(r)
      PROVE  Distinct'
  <2>1. PICK n : n = Len(jobs) + 1
    OBVIOUS
  <2>2. /\ run.pc = "adding" /\ r \in run.todo /\ run'.payment = run.payment
        /\ run'.todo = run.todo \ {r}
        /\ jobsInProgress' = jobsInProgress \cup {n}
        /\ jobs'[n].registration = r /\ jobs'[n].payment = run.payment
    BY <1>1, <1>4, <2>1, AddEffect
  <2>3. JobKey(n)' = <<r, run.payment>>
    BY <2>2 DEF JobKey
  <2> QED
    BY <1>2, <2>2, <2>3 DEF Distinct
<1>5. ASSUME jobsInProgress' \subseteq jobsInProgress,
             run'.pc = "adding" => run' = run
      PROVE  Distinct'
  BY <1>2, <1>5 DEF Distinct
<1> QED
  BY <1>1, <1>3, <1>4, <1>5, RunAndJobs

\* What is still to be counted stays so, until the registration is updated.
LEMMA WillCountStays ==
    ASSUME JobInv, [Next]_vars, NEW c \in DOMAIN jobs, WillCount(c)
    PROVE  WillCount(c)' \/ (UpdateRegistration /\ c = worker.conversation)
<1>1. TypeOK /\ TransferWhenCalling /\ TransactionOfJob /\ Inv /\ c \in Conversations
  BY InvTypes, Bases DEF JobInv
<1>2. /\ jobs'[c].kind = "post" /\ transfers[c] = NoTransaction
      /\ ~(worker.pc = "save" /\ worker.conversation = c)
      /\ jobs[c].state # "completed"
  BY <1>1, JobsStay DEF WillCount
<1>3. jobs'[c].state # "completed"
  <2>1. CompleteJob => transfers[worker.conversation] # NoTransaction
    BY <1>1, CompleteEffect DEF JobInv, WorkerFacts
  <2> QED
    BY <1>1, <1>2, <2>1, JobsStay
<1>4. transfers'[c] = NoTransaction
  <2>1. SaveTransfer => transfers'[c] = transfers[c]
    BY <1>1, <1>2, SaveEffect DEF Advance
  <2>2. CreateWaitingTransaction => UNCHANGED transfers
    BY <1>1, CreateEffect
  <2> QED
    BY <1>1, <1>2, <2>1, <2>2, RowsAdded
<1>5. ASSUME worker'.pc # "save" \/ UNCHANGED worker
      PROVE  WillCount(c)'
  BY <1>2, <1>3, <1>4, <1>5 DEF WillCount
<1>6. ASSUME UpdateLatestTransaction
      PROVE  WillCount(c)'
  <2>1. PICK w : w = worker.conversation
    OBVIOUS
  <2>2. /\ worker'.conversation = w /\ UNCHANGED jobs
        /\ worker'.pc = IF jobs[w].kind = "retry" THEN "save" ELSE "count"
    BY <1>1, <1>6, <2>1, LatestEffect DEF Advance
  <2> QED
    BY <1>2, <1>3, <1>4, <2>2 DEF WillCount
<1>7. ASSUME UpdateRegistration
      PROVE  WillCount(c)' \/ c = worker.conversation
  BY <1>1, <1>2, <1>3, <1>4, <1>7, CountEffect DEF WillCount, Advance
<1>8. ASSUME NEW p \in Payments, PostPayment(p) \/ RetryPayment(p)
      PROVE  WillCount(c)'
  BY <1>5, <1>8, StartEffect
<1>9. ASSUME NEW r \in Registrations, AddSafaricomTransactionJob(r)
      PROVE  WillCount(c)'
  BY <1>1, <1>5, <1>9, AddEffect
<1>10. ASSUME FinishRun \/ CompleteJob \/ Crash
       PROVE  WillCount(c)'
  BY <1>1, <1>5, <1>10, FinishEffect, CompleteEffect, CrashEffect
<1>11. ASSUME NEW d \in Conversations, TakeJob(d) \/ RecoverStalledJob(d)
       PROVE  WillCount(c)'
  BY <1>1, <1>5, <1>11, TakeEffect, RecoverEffect
<1>12. ASSUME CreateWaitingTransaction \/ SaveTransfer \/ CallSafaricom
       PROVE  WillCount(c)'
  BY <1>1, <1>5, <1>12, CreateEffect, SaveEffect, CallEffect DEF Advance
<1>13. ASSUME HandleReply \/ RemoveFromJobsInProgress
       PROVE  WillCount(c)'
  BY <1>1, <1>5, <1>13, ReplyEffect, RemoveEffect DEF Advance
<1>14. ASSUME NEW d \in Conversations, SettleTransfer(d) \/ SendLateTimeout(d)
       PROVE  WillCount(c)'
  BY <1>1, <1>5, <1>14, SettleEffect, LateEffect DEF Aside
<1>15. ASSUME NEW m \in callbacks,
              LoseCallback(m) \/ ReceiveCallback(m) \/ ApplyCallback(m)
       PROVE  WillCount(c)'
  BY <1>1, <1>5, <1>15, LoseEffect, ApplyEffect DEF Aside
<1>16. ASSUME UNCHANGED vars
       PROVE  WillCount(c)'
  BY <1>5, <1>16 DEF vars
<1> QED
  BY <1>6, <1>7, <1>8, <1>9, <1>10, <1>11, <1>12, <1>13, <1>14, <1>15, <1>16
  DEF Next, RunStep, WorkerStep, SafaricomStep, CallbackStep

LEMMA RegistrationAfterCount ==
    ASSUME TypeOK, UpdateRegistration, NEW r \in Registrations
    PROVE  /\ registrations'[r].status =
                IF r = jobs[worker.conversation].registration /\ CanBePaid(r)
                THEN "completed" ELSE registrations[r].status
           /\ registrations'[r].paymentCount =
                IF r # jobs[worker.conversation].registration
                THEN registrations[r].paymentCount
                ELSE IF CanBePaid(r) THEN worker.readCount + 1
                                     ELSE GetPaymentCount(r)
<1>1. PICK s : s = jobs[worker.conversation].registration
  OBVIOUS
<1>2. UpdatePaymentCountAndStatusInRegistration(s, worker.readCount)
  BY <1>1, CountEffect
<1>3. registrations \in
        [Registrations -> [status : RegistrationStatus, paymentCount : Nat]]
  BY DEF TypeOK, StoreTypeOK
<1>4. CASE r # s
  BY <1>1, <1>2, <1>3, <1>4
  DEF UpdatePaymentCountAndStatusInRegistration, UpdateWhen
<1>5. CASE r = s /\ CanBePaid(r)
  BY <1>1, <1>2, <1>3, <1>5
  DEF UpdatePaymentCountAndStatusInRegistration, UpdateWhen, CanBePaid
<1>6. CASE r = s /\ ~CanBePaid(r)
  BY <1>1, <1>2, <1>3, <1>6
  DEF UpdatePaymentCountAndStatusInRegistration, UpdateWhen, CanBePaid
<1> QED
  BY <1>4, <1>5, <1>6

LEMMA CompletionFactsStep ==
    ASSUME JobInv, RetryFacts, CompletionFacts, [Next]_vars
    PROVE  CompletionFacts'
<1>1. TypeOK /\ TransferWhenCalling /\ TransactionOfJob /\ Inv
  BY InvTypes DEF JobInv
<1>2. \A c \in DOMAIN jobs :
        c \in DOMAIN jobs' /\ jobs'[c].registration = jobs[c].registration
  BY <1>1, JobsStay
<1>3. \A r \in Registrations : GetPaymentCount(r) \in Nat
  BY PaymentCountIsNat
<1>4. ASSUME UpdateRegistration
      PROVE  CompletionFacts'
  <2>1. PICK w : w = worker.conversation
    OBVIOUS
  <2>2. \A r \in Registrations : CanBePaid(r)' = CanBePaid(r)
    BY <1>1, <1>4, CountEffect DEF CanBePaid, GetPaymentCount
  <2>3. \A r \in Registrations : registrations'[r].status =
          IF r = jobs[w].registration /\ CanBePaid(r)
          THEN "completed" ELSE registrations[r].status
    BY <1>1, <1>4, <2>1, RegistrationAfterCount
  <2>4. \A c \in DOMAIN jobs : WillCount(c) /\ c # w => WillCount(c)'
    BY <2>1, WillCountStays
  <2>5. ASSUME NEW r \in Registrations
        PROVE  /\ registrations'[r].status = "completed" => CanBePaid(r)'
               /\ CanBePaid(r)' /\ registrations'[r].status # "completed" =>
                    \E c \in DOMAIN jobs' :
                      jobs'[c].registration = r /\ WillCount(c)'
    <3>1. CASE r = jobs[w].registration
      BY <2>2, <2>3, <3>1 DEF CompletionFacts
    <3>2. CASE r # jobs[w].registration
      BY <1>2, <2>2, <2>3, <2>4, <3>2 DEF CompletionFacts
    <3> QED
      BY <3>1, <3>2
  <2> QED
    BY <2>5 DEF CompletionFacts
<1>5. ASSUME UpdateLatestTransaction
      PROVE  CompletionFacts'
  <2>1. PICK w, k : w = worker.conversation /\ k = JobKey(w)
    OBVIOUS
  <2>2. /\ worker.pc = "latest"
        /\ worker'.pc = IF jobs[w].kind = "retry" THEN "save" ELSE "count"
        /\ worker'.conversation = w
        /\ UNCHANGED <<jobs, registrations, transfers>>
    BY <1>1, <1>5, <2>1, LatestEffect DEF Advance
  <2>8. w \in DOMAIN jobs /\ jobs[w] \in Job
    BY <1>1, <2>1, <2>2, Bases
  <2>9. transfers[w] = NoTransaction /\ jobs[w].state = "active"
    BY <1>1, <2>1, <2>2 DEF TransferWhenCalling, JobInv, WorkerFacts
  <2>3. /\ w \in DOMAIN jobs /\ jobs[w].kind \in {"post", "retry"}
        /\ jobs[w].registration \in Registrations
        /\ transfers[w] = NoTransaction /\ jobs[w].state = "active"
    BY <2>8, <2>9 DEF Job, Kind
  <2>4. k[1] = jobs[w].registration
    BY <2>1 DEF JobKey
  <2>5. jobs[w].kind = "post" => WillCount(w)'
    BY <2>2, <2>3 DEF WillCount
  <2>6. jobs[w].kind = "retry" => latestTransactions[k] # NoTransaction
    BY <2>1, <2>3 DEF RetryFacts
  <2>7. ASSUME NEW r \in Registrations
        PROVE  /\ registrations'[r].status = "completed" => CanBePaid(r)'
               /\ CanBePaid(r)' /\ registrations'[r].status # "completed" =>
                    \E c \in DOMAIN jobs' :
                      jobs'[c].registration = r /\ WillCount(c)'
    <3>1. GetPaymentCount(r)' =
            IF r = k[1] /\ latestTransactions[k] = NoTransaction
            THEN GetPaymentCount(r) + 1 ELSE GetPaymentCount(r)
      BY <1>1, <1>5, <2>1, CountAfterLatest
    <3>2. CanBePaid(r) => CanBePaid(r)'
      BY <1>3, <3>1, MaxPaymentsAssumption DEF CanBePaid
    <3>3. CASE r = k[1] /\ jobs[w].kind = "post"
      BY <2>2, <2>3, <2>4, <2>5, <3>2, <3>3 DEF CompletionFacts
    <3>4. CASE ~(r = k[1] /\ jobs[w].kind = "post")
      <4>1. GetPaymentCount(r)' = GetPaymentCount(r)
        BY <2>3, <2>6, <3>1, <3>4
      <4>2. CanBePaid(r)' => CanBePaid(r)
        BY <4>1 DEF CanBePaid
      <4>3. \A c \in DOMAIN jobs : WillCount(c) => WillCount(c)'
        BY <1>1, <1>5, <2>2, WillCountStays, CountEffect DEF Advance
      <4> QED
        BY <1>2, <2>2, <3>2, <4>2, <4>3 DEF CompletionFacts
    <3> QED
      BY <3>3, <3>4
  <2> QED
    BY <2>7 DEF CompletionFacts
<1>6. CASE ~UpdateLatestTransaction /\ ~UpdateRegistration
  <2>1. UNCHANGED <<latestTransactions, registrations>>
    BY <1>1, <1>6, TablesStay
  <2>2. \A r \in Registrations : CanBePaid(r)' = CanBePaid(r)
    BY <2>1 DEF CanBePaid, GetPaymentCount
  <2>3. \A c \in DOMAIN jobs : WillCount(c) => WillCount(c)'
    BY <1>6, WillCountStays
  <2> QED
    BY <1>2, <2>1, <2>2, <2>3 DEF CompletionFacts
<1> QED
  BY <1>4, <1>5, <1>6

\* The transfer of the job the worker counts is not saved before it is counted.
Uncounted(c) ==
    /\ transfers[c] = NoTransaction
    /\ ~(worker.pc \in {"count", "save"} /\ worker.conversation = c)

\* What the other actions leave to the worker and the run.
LEMMA CountStay ==
    ASSUME JobInv, [Next]_vars, crashes' = 0,
           ~UpdateLatestTransaction, ~UpdateRegistration, ~CreateWaitingTransaction,
           ~\E c \in Conversations : TakeJob(c)
    PROVE  /\ \/ UNCHANGED worker
              \/ worker'.pc \notin {"create", "latest", "count"} /\ worker.pc # "count"
           /\ \A c \in DOMAIN jobs : Uncounted(c)' => Uncounted(c)
<1>1. TypeOK /\ TransferWhenCalling /\ TransactionOfJob
  BY InvTypes DEF JobInv
<1>2. ~Crash
  BY <1>1, CrashEffect
<1> DEFINE Goal ==
      /\ \/ UNCHANGED worker
         \/ worker'.pc \notin {"create", "latest", "count"} /\ worker.pc # "count"
      /\ \A c \in DOMAIN jobs : Uncounted(c)' => Uncounted(c)
<1>3. ASSUME UNCHANGED <<worker, transfers>> PROVE Goal
  BY <1>3 DEF Uncounted
<1>4. ASSUME SaveTransfer PROVE Goal
  <2>1. PICK w : w = worker.conversation
    OBVIOUS
  <2>2. /\ worker.pc = "save" /\ worker'.pc = "call"
        /\ transfers'[w] # NoTransaction
        /\ \A d \in Conversations : d # w => transfers'[d] = transfers[d]
    BY <1>1, <1>4, <2>1, SaveEffect DEF Advance
  <2>3. \A c \in DOMAIN jobs : c \in Conversations
    BY <1>1, Bases
  <2> QED
    BY <2>1, <2>2, <2>3 DEF Uncounted
<1>5. ASSUME CallSafaricom \/ HandleReply \/ RemoveFromJobsInProgress PROVE Goal
  BY <1>1, <1>5, CallEffect, ReplyEffect, RemoveEffect DEF Advance, Uncounted
<1>6. ASSUME CompleteJob PROVE Goal
  BY <1>1, <1>6, CompleteEffect DEF Uncounted
<1>7. ASSUME NEW p \in Payments, PostPayment(p) \/ RetryPayment(p) PROVE Goal
  BY <1>3, <1>7, StartEffect
<1>8. ASSUME NEW r \in Registrations, AddSafaricomTransactionJob(r) PROVE Goal
  BY <1>1, <1>3, <1>8, AddEffect
<1>9. ASSUME FinishRun PROVE Goal
  BY <1>1, <1>3, <1>9, FinishEffect
<1>10. ASSUME NEW d \in Conversations, RecoverStalledJob(d) PROVE Goal
  BY <1>1, <1>3, <1>10, RecoverEffect
<1>11. ASSUME NEW d \in Conversations, SettleTransfer(d) \/ SendLateTimeout(d)
       PROVE  Goal
  BY <1>1, <1>3, <1>11, SettleEffect, LateEffect DEF Aside
<1>12. ASSUME NEW m \in callbacks,
              LoseCallback(m) \/ ReceiveCallback(m) \/ ApplyCallback(m)
       PROVE  Goal
  BY <1>1, <1>3, <1>12, LoseEffect, ApplyEffect DEF Aside
<1>13. ASSUME UNCHANGED vars PROVE Goal
  BY <1>3, <1>13 DEF vars
<1> QED
  BY <1>2, <1>4, <1>5, <1>6, <1>7, <1>8, <1>9, <1>10, <1>11, <1>12, <1>13
  DEF Next, RunStep, WorkerStep, SafaricomStep, CallbackStep

LEMMA CountFactsStep ==
    ASSUME CountInv, [Next]_vars
    PROVE  CountFacts' /\ PaymentCountIsPaymentsMade'
<1> SUFFICES ASSUME crashes' = 0
             PROVE  CountFacts' /\ PaymentCountIsPaymentsMade'
  BY DEF CountFacts, PaymentCountIsPaymentsMade
<1>1. /\ TypeOK /\ TransferWhenCalling /\ TransactionOfJob /\ Inv /\ JobInv
      /\ RetryFacts /\ Distinct /\ CountFacts /\ PaymentCountIsPaymentsMade
  BY InvTypes DEF CountInv, JobInv
<1>2. crashes = 0
  BY <1>1, CrashesCounted
<1>3. /\ run.pc = "adding" /\ run.kind = "post" =>
           \A r \in run.todo : latestTransactions[<<r, run.payment>>] = NoTransaction
      /\ \A c \in jobsInProgress : jobs[c].kind = "post" /\ Uncounted(c) =>
           latestTransactions[JobKey(c)] = NoTransaction
      /\ worker.pc \in {"create", "latest"} /\ jobs[worker.conversation].kind = "post" =>
           worker.readCount = GetPaymentCount(jobs[worker.conversation].registration)
      /\ worker.pc = "count" => worker.readCount + 1 =
           GetPaymentCount(jobs[worker.conversation].registration)
      /\ \A r \in Registrations :
           \/ registrations[r].paymentCount = GetPaymentCount(r)
           \/ worker.pc = "count" /\ jobs[worker.conversation].registration = r
  BY <1>1, <1>2 DEF CountFacts, PaymentCountIsPaymentsMade, Uncounted
\* The two parts of the goal about runs and waiting jobs ...
<1> DEFINE
      Todo == run.pc = "adding" /\ run.kind = "post" =>
           \A r \in run.todo : latestTransactions[<<r, run.payment>>] = NoTransaction
      Waiting == \A c \in jobsInProgress : jobs[c].kind = "post" /\ Uncounted(c) =>
           latestTransactions[JobKey(c)] = NoTransaction
\* ... and the three about the worker and the counts.
      Read == worker.pc \in {"create", "latest"}
                /\ jobs[worker.conversation].kind = "post" =>
           worker.readCount = GetPaymentCount(jobs[worker.conversation].registration)
      Counting == worker.pc = "count" => worker.readCount + 1 =
           GetPaymentCount(jobs[worker.conversation].registration)
      Counted == \A r \in Registrations :
           \/ registrations[r].paymentCount = GetPaymentCount(r)
           \/ worker.pc = "count" /\ jobs[worker.conversation].registration = r
<1>4. Todo' /\ Waiting' /\ Read' /\ Counting' /\ Counted' =>
        CountFacts' /\ PaymentCountIsPaymentsMade'
  BY DEF CountFacts, PaymentCountIsPaymentsMade, Uncounted
<1>5. \A c \in jobsInProgress :
        /\ c \in DOMAIN jobs /\ JobKey(c) \in Key
        /\ JobKey(c)' = JobKey(c) /\ jobs'[c].kind = jobs[c].kind
  BY <1>1, Bases, JobsStay DEF JobInv, SetFacts
<1>6. worker.pc # "idle" =>
        /\ worker.conversation \in DOMAIN jobs
        /\ jobs'[worker.conversation].kind = jobs[worker.conversation].kind
        /\ jobs'[worker.conversation].registration =
             jobs[worker.conversation].registration
  BY <1>1, Bases, JobsStay
<1>7. ASSUME UNCHANGED latestTransactions
      PROVE  \A r \in Registrations : GetPaymentCount(r)' = GetPaymentCount(r)
  BY <1>7 DEF GetPaymentCount
<1>8. ASSUME UNCHANGED latestTransactions, jobsInProgress' \subseteq jobsInProgress,
             run'.pc = "adding" => run' = run,
             \A c \in DOMAIN jobs : Uncounted(c)' => Uncounted(c)
      PROVE  Todo' /\ Waiting'
  BY <1>3, <1>5, <1>8
<1>9. \A c \in DOMAIN jobs : jobs[c].registration \in Registrations
        /\ jobs[c].kind \in {"post", "retry"}
  <2>1. \A c \in DOMAIN jobs : jobs[c] \in Job
    BY <1>1, Bases
  <2> QED
    BY <2>1 DEF Job, Kind
<1>10. ASSUME UNCHANGED <<latestTransactions, registrations>>,
              \/ UNCHANGED worker
              \/ worker'.pc \notin {"create", "latest", "count"} /\ worker.pc # "count"
       PROVE  Read' /\ Counting' /\ Counted'
  <2>1. CASE UNCHANGED worker
    <3>1. worker.pc # "idle" =>
            GetPaymentCount(jobs[worker.conversation].registration)' =
            GetPaymentCount(jobs[worker.conversation].registration)
      BY <1>6, <1>10, <2>1 DEF GetPaymentCount
    <3> QED
      BY <1>3, <1>6, <1>7, <1>10, <2>1, <3>1
  <2>2. CASE worker'.pc \notin {"create", "latest", "count"} /\ worker.pc # "count"
    BY <1>3, <1>7, <1>10, <2>2
  <2> QED
    BY <1>10, <2>1, <2>2
<1>11. ASSUME NEW p \in Payments, PostPayment(p) \/ RetryPayment(p)
       PROVE  CountFacts' /\ PaymentCountIsPaymentsMade'
  <2>1. /\ jobsInProgress = {} /\ run'.payment = p
        /\ run'.kind = "post" => run'.todo \subseteq PayableRegistrations(p)
        /\ UNCHANGED <<latestTransactions, registrations, worker, jobsInProgress>>
    BY <1>11, StartEffect DEF IsPaymentInProgress
  <2>2. \A r \in PayableRegistrations(p) :
          latestTransactions[<<r, p>>] = NoTransaction
    BY DEF PayableRegistrations
  <2>3. run'.kind = "retry" \/ run'.kind = "post"
    BY <1>11, StartEffect
  <2>4. Todo' /\ Waiting'
    BY <2>1, <2>2
  <2> QED
    BY <1>4, <1>10, <2>1, <2>4
<1>12. ASSUME NEW r \in Registrations, AddSafaricomTransactionJob(r)
       PROVE  CountFacts' /\ PaymentCountIsPaymentsMade'
  <2>1. PICK n : n = Len(jobs) + 1
    OBVIOUS
  <2>2. /\ run.pc = "adding" /\ r \in run.todo /\ run'.payment = run.payment
        /\ run'.kind = run.kind /\ run'.todo = run.todo \ {r}
        /\ jobsInProgress' = jobsInProgress \cup {n}
        /\ jobs'[n].registration = r /\ jobs'[n].payment = run.payment
        /\ jobs'[n].kind = run.kind
        /\ UNCHANGED <<latestTransactions, registrations, worker, transfers>>
    BY <1>1, <1>12, <2>1, AddEffect
  <2>3. JobKey(n)' = <<r, run.payment>>
    BY <2>2 DEF JobKey
  <2>4. Todo' /\ Waiting'
    BY <1>3, <1>5, <2>2, <2>3 DEF Uncounted
  <2> QED
    BY <1>4, <1>10, <2>2, <2>4
<1>13. ASSUME NEW c \in Conversations, TakeJob(c)
       PROVE  CountFacts' /\ PaymentCountIsPaymentsMade'
  <2>1. /\ worker.pc = "idle" /\ c \in DOMAIN jobs
        /\ worker'.pc \in {"create", "call"} /\ worker'.conversation = c
        /\ worker'.readCount = registrations[jobs[c].registration].paymentCount
        /\ UNCHANGED <<latestTransactions, registrations, run, jobsInProgress, transfers>>
    BY <1>1, <1>13, TakeEffect
  <2>2. Todo' /\ Waiting'
    BY <1>8, <2>1 DEF Uncounted
  <2>3. /\ jobs'[c].registration = jobs[c].registration
        /\ jobs[c].registration \in Registrations
    BY <1>1, <1>9, <2>1, JobsStay
  <2>4. Counted'
    BY <1>3, <1>7, <2>1
  <2>5. GetPaymentCount(jobs[worker.conversation].registration)' =
          GetPaymentCount(jobs[c].registration)
    BY <2>1, <2>3 DEF GetPaymentCount
  <2>6. Read' /\ Counting'
    BY <1>3, <2>1, <2>3, <2>5
  <2> QED
    BY <1>4, <2>2, <2>4, <2>6
<1>14. ASSUME CreateWaitingTransaction
       PROVE  CountFacts' /\ PaymentCountIsPaymentsMade'
  <2>1. /\ worker.pc = "create" /\ worker'.pc = "latest"
        /\ worker'.conversation = worker.conversation
        /\ worker'.readCount = worker.readCount
        /\ UNCHANGED <<latestTransactions, registrations, run, jobs, jobsInProgress,
                       transfers>>
    BY <1>1, <1>14, CreateEffect DEF Advance
  <2>2. Todo' /\ Waiting'
    BY <1>8, <2>1 DEF Uncounted
  <2>3. Counted'
    BY <1>3, <1>7, <2>1
  <2>4. GetPaymentCount(jobs[worker.conversation].registration)' =
          GetPaymentCount(jobs[worker.conversation].registration)
    BY <2>1 DEF GetPaymentCount
  <2> QED
    BY <1>3, <1>4, <2>1, <2>2, <2>3, <2>4
\* A first attempt counts once; a retry counted before.
<1>15. ASSUME UpdateLatestTransaction
       PROVE  CountFacts' /\ PaymentCountIsPaymentsMade'
  <2>1. PICK w, k, s : w = worker.conversation /\ k = JobKey(w)
                         /\ s = jobs[w].registration
    OBVIOUS
  <2>2. /\ worker.pc = "latest"
        /\ worker'.pc = IF jobs[w].kind = "retry" THEN "save" ELSE "count"
        /\ worker'.conversation = w /\ worker'.readCount = worker.readCount
        /\ \A l \in Key : l # k => latestTransactions'[l] = latestTransactions[l]
        /\ UNCHANGED <<jobs, registrations, run, jobsInProgress, transfers>>
    BY <1>1, <1>15, <2>1, LatestEffect DEF Advance
  <2>3. /\ w \in DOMAIN jobs /\ w \in jobsInProgress /\ s \in Registrations
        /\ jobs[w].kind \in {"post", "retry"} /\ k[1] = s
    BY <1>1, <1>2, <1>6, <1>9, <2>1, <2>2 DEF JobInv, FreshFacts, JobKey
  <2>4. jobs[w].kind = "post" => latestTransactions[k] = NoTransaction
    BY <1>1, <1>3, <2>1, <2>2, <2>3 DEF Uncounted, TransferWhenCalling
  <2>5. jobs[w].kind = "retry" => latestTransactions[k] # NoTransaction
    BY <1>1, <2>1, <2>3 DEF RetryFacts
  <2>6. \A r \in Registrations : GetPaymentCount(r)' =
          IF r = s /\ jobs[w].kind = "post"
          THEN GetPaymentCount(r) + 1 ELSE GetPaymentCount(r)
    BY <1>1, <1>15, <2>1, <2>3, <2>4, <2>5, CountAfterLatest
  <2>7. Counted'
    BY <1>3, <2>1, <2>2, <2>3, <2>6
  <2>8. Todo'
    <3>1. \A r \in run.todo : <<r, run.payment>> \in Key
      BY <1>1 DEF TypeOK, Run, Key
    <3>2. run.pc = "adding" => \A r \in run.todo : <<r, run.payment>> # k
      BY <1>1, <2>1, <2>3 DEF Distinct
    <3> QED
      BY <1>3, <2>2, <3>1, <3>2
  <2>9. Waiting'
    <3>1. ASSUME NEW c \in jobsInProgress, jobs[c].kind = "post", Uncounted(c)'
          PROVE  c # w /\ Uncounted(c)
      BY <2>2, <3>1 DEF Uncounted
    <3>2. \A c \in jobsInProgress : c # w => JobKey(c) # k
      BY <1>1, <2>1, <2>3 DEF Distinct
    <3> QED
      BY <1>3, <1>5, <2>2, <3>1, <3>2
  <2>10. jobs[w].kind = "post" => worker'.readCount + 1 = GetPaymentCount(s)'
    BY <1>3, <2>1, <2>2, <2>3, <2>6
  <2>11. GetPaymentCount(jobs[worker.conversation].registration)' = GetPaymentCount(s)'
    BY <2>1, <2>2 DEF GetPaymentCount
  <2>12. Read' /\ Counting'
    BY <2>2, <2>3, <2>10, <2>11
  <2> QED
    BY <1>4, <2>7, <2>8, <2>9, <2>12
<1>16. ASSUME UpdateRegistration
       PROVE  CountFacts' /\ PaymentCountIsPaymentsMade'
  <2>1. PICK w, s : w = worker.conversation /\ s = jobs[w].registration
    OBVIOUS
  <2>2. /\ worker.pc = "count" /\ worker'.pc = "save" /\ worker'.conversation = w
        /\ UNCHANGED <<latestTransactions, run, jobs, jobsInProgress, transfers>>
    BY <1>1, <1>16, <2>1, CountEffect DEF Advance
  <2>3. \A r \in Registrations : registrations'[r].paymentCount =
          IF r # s THEN registrations[r].paymentCount
          ELSE IF CanBePaid(r) THEN worker.readCount + 1 ELSE GetPaymentCount(r)
    BY <1>1, <1>16, <2>1, RegistrationAfterCount
  <2>4. worker.readCount + 1 = GetPaymentCount(s)
    BY <1>3, <2>1, <2>2
  <2>5. Counted'
    BY <1>3, <1>7, <2>1, <2>2, <2>3, <2>4
  <2>6. Todo' /\ Waiting'
    BY <1>8, <2>1, <2>2 DEF Uncounted
  <2> QED
    BY <1>4, <2>2, <2>5, <2>6
<1>17. ASSUME ~UpdateLatestTransaction, ~UpdateRegistration,
              ~CreateWaitingTransaction, ~\E c \in Conversations : TakeJob(c),
              ~\E p \in Payments : PostPayment(p) \/ RetryPayment(p),
              ~\E r \in Registrations : AddSafaricomTransactionJob(r)
       PROVE  CountFacts' /\ PaymentCountIsPaymentsMade'
  <2>1. UNCHANGED <<latestTransactions, registrations>>
    BY <1>1, <1>17, TablesStay
  <2>2. /\ jobsInProgress' \subseteq jobsInProgress
        /\ run'.pc = "adding" => run' = run
    BY <1>1, <1>17, RunAndJobs
  <2>3. /\ \/ UNCHANGED worker
           \/ worker'.pc \notin {"create", "latest", "count"} /\ worker.pc # "count"
        /\ \A c \in DOMAIN jobs : Uncounted(c)' => Uncounted(c)
    BY <1>1, <1>17, CountStay
  <2> QED
    BY <1>4, <1>8, <1>10, <2>1, <2>2, <2>3
<1> QED
  BY <1>11, <1>12, <1>13, <1>14, <1>15, <1>16, <1>17

LEMMA CountInvInit == Init => CountInv
<1> SUFFICES ASSUME Init PROVE CountInv
  OBVIOUS
<1>1. JobInv
  BY InvInit, JobInvInit DEF JobInv
<1>2. RetryFacts /\ Distinct /\ CountFacts
  BY DEF Init, StoreInit, IdleWorker, RetryFacts, Distinct, CountFacts
<1>3. \A r \in Registrations : GetPaymentCount(r) = 0
  <2>1. \A r \in Registrations :
          {p \in Payments : latestTransactions[<<r, p>>] # NoTransaction} = {}
    BY DEF Init, StoreInit, Key
  <2> QED
    BY <2>1, FS_EmptySet DEF GetPaymentCount
<1>4. PaymentCountIsPaymentsMade
  BY <1>3 DEF Init, StoreInit, PaymentCountIsPaymentsMade
<1>5. CompletionFacts
  BY <1>3, MaxPaymentsAssumption DEF Init, StoreInit, CompletionFacts, CanBePaid
<1> QED
  BY <1>1, <1>2, <1>4, <1>5 DEF CountInv

LEMMA CountInvStep == CountInv /\ [Next]_vars => CountInv'
<1> SUFFICES ASSUME CountInv, [Next]_vars PROVE CountInv'
  OBVIOUS
<1>1. JobInv /\ RetryFacts /\ CompletionFacts /\ Distinct
  BY DEF CountInv
<1> QED
  BY <1>1, JobInvStep, RetryFactsStep, CompletionFactsStep, DistinctStep,
     CountFactsStep DEF CountInv

\* The strengthening of the two properties of payment counts holds in every
\* state: it names the job that is still going to count and to complete.
THEOREM CountInvCorrect == Spec => []CountInv
BY CountInvInit, CountInvStep, PTL DEF Spec

\* Until a crash the stored payment count is the number of payments made, for
\* any order of first attempts and retries.
THEOREM CountsArePayments == Spec => []PaymentCountIsPaymentsMade
<1>1. CountInv => PaymentCountIsPaymentsMade
  BY DEF CountInv
<1> QED
  BY <1>1, CountInvCorrect, PTL

\* A registration without unfinished jobs is completed exactly when it has had
\* its maximum number of payments, also when jobs crashed and were repeated.
THEOREM CompletionIsRight == Spec => []CompletionMatchesPayments
<1>1. CountInv => CompletionMatchesPayments
  <2> SUFFICES ASSUME CountInv, NEW r \in Registrations,
                      \A c \in DOMAIN jobs :
                        Unfinished(c) => jobs[c].registration # r
               PROVE  registrations[r].status = "completed" <=> CanBePaid(r)
    BY DEF CompletionMatchesPayments, CanBePaid
  <2>1. ~\E c \in DOMAIN jobs : jobs[c].registration = r /\ WillCount(c)
    BY DEF Unfinished, Issued, WillCount
  <2> QED
    BY <2>1 DEF CountInv, CompletionFacts
<1> QED
  BY <1>1, CountInvCorrect, PTL
-----------------------------------------------------------------------------
(* The payout ledger: what holds when callbacks are at most lost or repeated.*)

QuietFaults == Faults \subseteq {"duplicateCallback", "lostCallback"}

DoneFacts ==
    \A c \in DOMAIN jobs : jobs[c].state = "completed" => fsp[c] # "none"

\* While a job has not reached Safaricom the earlier jobs of its registration and
\* payment have failed.
RetriedIsFailed ==
    \A c, d \in DOMAIN jobs :
        JobKey(c) = JobKey(d) /\ c # d /\ fsp[d] = "none"
          /\ transfers[c] # NoTransaction =>
             transactions[transfers[c]].status = "error"

TodoIsFailed ==
    run.pc = "adding" => \A r \in run.todo :
        /\ StatusOf(<<r, run.payment>>) \in {"none", "error"}
        /\ \A c \in DOMAIN jobs :
             JobKey(c) = <<r, run.payment>> /\ transfers[c] # NoTransaction =>
               transactions[transfers[c]].status = "error"

OlderIsFailed ==
    \A c \in DOMAIN jobs :
        transfers[c] # NoTransaction /\ transfers[c] < latestTransactions[JobKey(c)] =>
            transactions[transfers[c]].status = "error"

LedgerInv ==
    /\ PayoutInv
    /\ DoneFacts
    /\ RetriedIsFailed
    /\ TodoIsFailed
    /\ OlderIsFailed

LEMMA LedgerBases ==
    ASSUME PayoutInv, QuietFaults
    PROVE  /\ TypeOK /\ TransferWhenCalling /\ TransactionOfJob /\ TransferOfOwnJob
           /\ Inv /\ JobInv /\ ReliableReports
           /\ OneMayPay /\ TodoCannotPay /\ NewestMayPay /\ NotFailed /\ CallbackTrue
           /\ "lostRequest" \notin Faults /\ "transientRefusal" \notin Faults
           /\ "lostResponse" \notin Faults
BY InvTypes DEF PayoutInv, JobInv, PayoutFacts, QuietFaults, ReliableReports

\* A job that has not reached Safaricom still can.
LEMMA UnknownMayPay ==
    ASSUME PayoutInv, QuietFaults, NEW c \in DOMAIN jobs,
           fsp[c] = "none" \/ transfers[c] = NoTransaction
    PROVE  fsp[c] = "none" /\ c \in jobsInProgress /\ MayPay(c)
<1>1. c \in Conversations
  BY LedgerBases, Bases
<1>2. fsp[c] = "none"
  BY <1>1, LedgerBases DEF Inv, KnownHasTransfer
<1>3. c \in jobsInProgress
  BY <1>2, LedgerBases DEF JobInv, SetFacts
<1> QED
  BY <1>2, <1>3 DEF MayPay

LEMMA OldTransfers ==
    ASSUME PayoutInv, QuietFaults, NEW c \in Conversations,
           transfers[c] # NoTransaction
    PROVE  /\ c \in DOMAIN jobs
           /\ transfers[c] \in DOMAIN transactions /\ transfers[c] \in Nat
           /\ transfers[c] > 0
           /\ JobKey(c) = KeyOf(transfers[c]) /\ JobKey(c) \in Key
<1>1. TypeOK /\ TransferOfOwnJob
  BY LedgerBases
<1>2. c \in DOMAIN jobs /\ JobKey(c) = KeyOf(transfers[c])
  BY <1>1 DEF TransferOfOwnJob, Issued
<1> QED
  BY <1>1, <1>2, Bases DEF NoTransaction

\* The transaction of a job that may be paid is the one users see.
LEMMA PayableIsShown ==
    ASSUME PayoutInv, QuietFaults, NEW c \in DOMAIN jobs, MayPay(c),
           transfers[c] # NoTransaction
    PROVE  latestTransactions[JobKey(c)] = transfers[c]
<1>1. /\ TypeOK /\ c \in Conversations /\ NewestMayPay /\ HiddenFacts /\ OneMayPay
      /\ \A l \in Key : latestTransactions[l] \in 0..Len(transactions)
  BY LedgerBases, Bases DEF JobInv, TypeOK, StoreTypeOK
<1>2. PICK i, k : i = transfers[c] /\ k = JobKey(c)
  OBVIOUS
<1>3. /\ i \in DOMAIN transactions /\ i \in Nat /\ i > 0 /\ KeyOf(i) = k /\ k \in Key
  BY <1>1, <1>2, OldTransfers
<1>4. \A d \in jobsInProgress : transfers[d] = NoTransaction => JobKey(d) # k
  <2> SUFFICES ASSUME NEW d \in jobsInProgress, transfers[d] = NoTransaction,
                      JobKey(d) = k
               PROVE  FALSE
    OBVIOUS
  <2>1. d \in DOMAIN jobs
    BY LedgerBases DEF JobInv, SetFacts
  <2>2. MayPay(d)
    BY <2>1, UnknownMayPay
  <2> QED
    BY <1>1, <1>2, <2>1, <2>2 DEF OneMayPay
<1>5. ~(latestTransactions[k] < i)
  BY <1>1, <1>3, <1>4 DEF HiddenFacts
<1>6. /\ latestTransactions[k] \in DOMAIN transactions
      /\ latestTransactions[k] # NoTransaction
  BY <1>1, <1>3, <1>5, Bases DEF NoTransaction
<1>7. latestTransactions[k] <= i
  BY <1>1, <1>2, <1>3, <1>6 DEF HiddenFacts, NewestMayPay
<1> QED
  BY <1>1, <1>2, <1>3, <1>5, <1>6, <1>7, Bases

LEMMA SuccessIsShown ==
    ASSUME PayoutInv, QuietFaults, NEW k \in Key, StatusOf(k) = "success"
    PROVE  \E c \in DOMAIN jobs : /\ transfers[c] = latestTransactions[k]
                                  /\ transfers[c] # NoTransaction
                                  /\ fsp[c] = "paid" /\ JobKey(c) = k /\ MayPay(c)
<1>1. /\ TypeOK /\ SuccessMeansPaid /\ HiddenFacts
      /\ latestTransactions[k] \in 0..Len(transactions)
  BY LedgerBases DEF JobInv, Inv, TypeOK, StoreTypeOK
<1>2. /\ latestTransactions[k] # NoTransaction
      /\ transactions[latestTransactions[k]].status = "success"
  BY DEF StatusOf
<1>3. latestTransactions[k] \in DOMAIN transactions
  BY <1>1, <1>2, Bases DEF NoTransaction
<1>4. PICK c \in DOMAIN jobs : /\ transfers[c] = latestTransactions[k]
                               /\ fsp[c] = "paid"
                               /\ JobKey(c) = KeyOf(latestTransactions[k])
  BY <1>1, <1>2, <1>3 DEF SuccessMeansPaid
<1>5. KeyOf(latestTransactions[k]) = k
  BY <1>1, <1>2 DEF HiddenFacts
<1> QED
  BY <1>2, <1>4, <1>5 DEF MayPay

\* A job that Safaricom has or will have, and has not settled, shows "waiting".
LEMMA UnsettledIsWaiting ==
    ASSUME PayoutInv, QuietFaults, NEW c \in DOMAIN jobs,
           fsp[c] \in {"none", "accepted"}, transfers[c] # NoTransaction
    PROVE  StatusOf(JobKey(c)) = "waiting"
<1>1. MayPay(c)
  BY UnknownMayPay DEF MayPay
<1>2. /\ TypeOK /\ c \in Conversations /\ OneMayPay /\ NotFailed /\ UnknownNotFailed
      /\ "lostRequest" \notin Faults
  BY LedgerBases, Bases DEF JobInv
<1>3. PICK i, k : i = transfers[c] /\ k = JobKey(c)
  OBVIOUS
<1>4. /\ i \in DOMAIN transactions /\ k \in Key
      /\ latestTransactions[k] = i /\ i # NoTransaction
  BY <1>1, <1>2, <1>3, OldTransfers, PayableIsShown
<1>5. StatusOf(k) = transactions[i].status
  BY <1>4 DEF StatusOf
<1>6. transactions[i].status # "error"
  BY <1>2, <1>3, <1>4 DEF NotFailed, UnknownNotFailed
<1>7. StatusOf(k) # "success"
  <2> SUFFICES ASSUME StatusOf(k) = "success" PROVE FALSE
    OBVIOUS
  <2>1. PICK d \in DOMAIN jobs : fsp[d] = "paid" /\ JobKey(d) = k /\ MayPay(d)
    BY <1>4, SuccessIsShown
  <2> QED
    BY <1>1, <1>2, <1>3, <2>1 DEF OneMayPay
<1>8. transactions[i].status \in TransactionStatus
  <2>1. transactions[i] \in Transaction
    BY <1>2, <1>4, Bases
  <2> QED
    BY <2>1 DEF Transaction
<1> QED
  BY <1>3, <1>5, <1>6, <1>7, <1>8 DEF TransactionStatus

\* A job that Safaricom turned down and whose transaction still shows "waiting" is
\* the last one: no other job has been paid or will be.
LEMMA SettledIsLast ==
    ASSUME PayoutInv, QuietFaults, RetriedIsFailed, NEW c \in DOMAIN jobs,
           transfers[c] # NoTransaction, fsp[c] \notin {"none", "accepted", "paid"},
           latestTransactions[JobKey(c)] = transfers[c],
           StatusOf(JobKey(c)) = "waiting",
           NEW d \in DOMAIN jobs, JobKey(d) = JobKey(c)
    PROVE  fsp[d] \notin {"none", "paid"}
<1>1. /\ TypeOK /\ TransferOfOwnJob /\ KnownHasTransfer
      /\ c \in Conversations /\ d \in Conversations
  BY LedgerBases, Bases DEF Inv
<1>2. transactions[transfers[c]].status = "waiting"
  BY DEF StatusOf
<1>3. fsp[d] # "none"
  BY <1>2 DEF RetriedIsFailed
<1>4. ASSUME fsp[d] = "paid"
      PROVE  FALSE
  <2>1. transfers[d] # NoTransaction
    BY <1>1, <1>4 DEF KnownHasTransfer
  <2>2. transfers[d] = transfers[c]
    BY <1>4, <2>1, PayableIsShown DEF MayPay
  <2> QED
    BY <1>1, <1>4, <2>1, <2>2 DEF TransferOfOwnJob
<1> QED
  BY <1>3, <1>4

\* The steps that matter to the ledger, and the others.
Beside ==
    /\ UNCHANGED <<transactions, latestTransactions, transfers, fsp>>
    /\ DOMAIN jobs' = DOMAIN jobs

LEMMA LedgerSteps ==
    ASSUME JobInv, [Next]_vars
    PROVE  \/ Beside
           \/ \E r \in Registrations : AddSafaricomTransactionJob(r)
           \/ CreateWaitingTransaction
           \/ UpdateLatestTransaction
           \/ SaveTransfer
           \/ CallSafaricom
           \/ HandleReply
           \/ \E c \in Conversations : SettleTransfer(c)
           \/ \E m \in callbacks : ApplyCallback(m)
<1>1. TypeOK
  BY InvTypes DEF JobInv
<1>2. ASSUME NEW p \in Payments, PostPayment(p) \/ RetryPayment(p)
      PROVE  Beside
  BY <1>2, StartEffect DEF Beside
<1>3. ASSUME FinishRun \/ CompleteJob \/ Crash
      PROVE  Beside
  BY <1>1, <1>3, FinishEffect, CompleteEffect, CrashEffect DEF Beside
<1>4. ASSUME NEW c \in Conversations,
             TakeJob(c) \/ RecoverStalledJob(c) \/ SendLateTimeout(c)
      PROVE  Beside
  BY <1>1, <1>4, TakeEffect, RecoverEffect, LateEffect DEF Beside, Aside
<1>5. ASSUME UpdateRegistration \/ RemoveFromJobsInProgress
      PROVE  Beside
  BY <1>1, <1>5, CountEffect, RemoveEffect DEF Beside, Advance
<1>6. ASSUME NEW m \in callbacks, LoseCallback(m) \/ ReceiveCallback(m)
      PROVE  Beside
  BY <1>1, <1>6, LoseEffect DEF Beside, Aside
<1>7. CASE UNCHANGED vars
  BY <1>7 DEF Beside, vars, storeVars
<1> QED
  BY <1>2, <1>3, <1>4, <1>5, <1>6, <1>7
  DEF Next, RunStep, WorkerStep, SafaricomStep, CallbackStep

\* What every step leaves.
LEMMA LedgerFrame ==
    ASSUME PayoutInv, QuietFaults, [Next]_vars
    PROVE  /\ \A c \in DOMAIN jobs : /\ c \in DOMAIN jobs'
                                     /\ JobKey(c)' = JobKey(c)
                                     /\ fsp'[c] = "none" => fsp[c] = "none"
           /\ \A i \in DOMAIN transactions : KeyOf(i)' = KeyOf(i)
           /\ \A c \in DOMAIN jobs' :
                transfers'[c] # NoTransaction => c \in DOMAIN jobs
           /\ ~UpdateLatestTransaction => UNCHANGED latestTransactions
           /\ \A c \in DOMAIN jobs : \/ transfers'[c] = transfers[c]
                                     \/ SaveTransfer /\ c = worker.conversation
<1>1. /\ TypeOK /\ TransferWhenCalling /\ TransactionOfJob /\ TransferOfOwnJob
      /\ Inv /\ JobInv
  BY LedgerBases
<1>2. \A c \in DOMAIN jobs : /\ c \in DOMAIN jobs'
                             /\ JobKey(c)' = JobKey(c)
                             /\ fsp'[c] = "none" => fsp[c] = "none"
  <2>1. \A c \in DOMAIN jobs : c \in DOMAIN jobs' /\ JobKey(c)' = JobKey(c)
    BY <1>1, Bases, JobsKeptStep DEF JobsKept, JobKey
  <2>2. \A c \in DOMAIN jobs : fsp'[c] = "none" => fsp[c] = "none"
    BY <1>1, Bases, FspKeptStep DEF FspKept
  <2> QED
    BY <2>1, <2>2
<1>3. \A i \in DOMAIN transactions : KeyOf(i)' = KeyOf(i)
  BY <1>1, Bases, TransactionsKeptStep DEF TransactionsKept, KeyOf
<1>4. ~UpdateLatestTransaction => UNCHANGED latestTransactions
  BY <1>1, LedgerSteps, AddEffect, CreateEffect, SaveEffect, CallEffect, ReplyEffect,
     SettleEffect, ApplyEffect DEF Beside, Aside
<1>5. /\ UNCHANGED transfers \/ SaveTransfer
      /\ DOMAIN jobs' = DOMAIN jobs \/ UNCHANGED transfers
  BY <1>1, LedgerSteps, AddEffect, CreateEffect, LatestEffect, SaveEffect, CallEffect,
     ReplyEffect, SettleEffect, ApplyEffect DEF Beside, Aside, Advance
<1>6. \A c \in DOMAIN jobs : \/ transfers'[c] = transfers[c]
                             \/ SaveTransfer /\ c = worker.conversation
  <2>1. SaveTransfer => \A d \in Conversations :
                          d # worker.conversation => transfers'[d] = transfers[d]
    BY <1>1, SaveEffect
  <2> QED
    BY <1>1, <1>5, <2>1, Bases
<1>7. \A c \in DOMAIN jobs' : transfers'[c] # NoTransaction => c \in DOMAIN jobs
  <2>1. \A c \in DOMAIN jobs' : c \in Conversations
    BY <1>1, JobsKeptStep, BoundsAssumption DEF JobsKept, Conversations
  <2> QED
    BY <1>1, <1>5, <2>1 DEF TransferOfOwnJob, Issued
<1> QED
  BY <1>2, <1>3, <1>4, <1>6, <1>7

\* A failed transaction stays failed: its transfer will not be paid.
LEMMA ErrorStays ==
    ASSUME PayoutInv, QuietFaults, [Next]_vars,
           NEW c \in DOMAIN jobs, transfers[c] # NoTransaction,
           transactions[transfers[c]].status = "error"
    PROVE  transfers'[c] = transfers[c] /\ transactions'[transfers'[c]].status = "error"
<1>1. /\ TypeOK /\ TransferWhenCalling /\ TransactionOfJob /\ TransferOfOwnJob
      /\ Inv /\ JobInv /\ NotFailed /\ CallbackTrue /\ c \in Conversations
  BY LedgerBases, Bases
<1>2. PICK i : i = transfers[c]
  OBVIOUS
<1>3. i \in DOMAIN transactions
  BY <1>1, <1>2, OldTransfers
<1>4. transfers'[c] = i
  BY <1>1, <1>2, LedgerFrame, SaveEffect DEF TransferWhenCalling, Advance
<1>5. \/ transactions'[i] = transactions[i]
      \/ transactions'[i].status = "error"
      \/ \E m \in callbacks : ApplyCallback(m)
  <2>1. ASSUME HandleReply
        PROVE  transactions'[i] = transactions[i] \/ transactions'[i].status = "error"
    BY <1>1, <1>2, <1>3, <2>1, ReplyEffect DEF StatusSet
  <2>2. ASSUME CreateWaitingTransaction
        PROVE  transactions'[i] = transactions[i]
    BY <1>1, <1>3, <2>2, CreateEffect
  <2> QED
    BY <1>1, <2>1, <2>2, LedgerSteps, AddEffect, LatestEffect, SaveEffect, CallEffect,
       SettleEffect DEF Beside
<1>6. ASSUME NEW m \in callbacks, ApplyCallback(m)
      PROVE  transactions'[i].status = "error"
  <2>1. PICK d, status : d = m.conversation
          /\ status = IF m.outcome = "paid" THEN "success" ELSE "error"
    OBVIOUS
  <2>2. StatusSet(transfers[d], status) /\ d \in Conversations
    BY <1>1, <1>6, <2>1, ApplyEffect
  <2>3. ASSUME transfers[d] = i
        PROVE  status = "error"
    <3>1. d = c
      BY <1>1, <1>2, <2>2, <2>3 DEF TransferOfOwnJob
    <3>2. fsp[c] # "paid"
      BY <1>1, <1>2 DEF NotFailed
    <3> QED
      BY <1>1, <2>1, <3>1, <3>2 DEF CallbackTrue
  <2> QED
    BY <1>2, <1>3, <2>2, <2>3 DEF StatusSet
<1> QED
  BY <1>2, <1>4, <1>5, <1>6

LEMMA DoneFactsStep ==
    ASSUME PayoutInv, QuietFaults, DoneFacts, [Next]_vars
    PROVE  DoneFacts'
<1>1. TypeOK /\ TransferWhenCalling /\ TransactionOfJob /\ Inv /\ JobInv
        /\ "lostRequest" \notin Faults
  BY LedgerBases
\* Only the worker completes a job, and it has asked Safaricom by then.
<1>2. \A c \in DOMAIN jobs' : jobs'[c].state = "completed" =>
        \/ c \in DOMAIN jobs /\ jobs[c].state = "completed"
        \/ CompleteJob /\ c = worker.conversation
  <2> DEFINE Goal == \A c \in DOMAIN jobs' : jobs'[c].state = "completed" =>
                       \/ c \in DOMAIN jobs /\ jobs[c].state = "completed"
                       \/ CompleteJob /\ c = worker.conversation
  <2>1. ASSUME NEW p \in Payments, PostPayment(p) \/ RetryPayment(p) PROVE Goal
    BY <2>1, StartEffect
  <2>2. ASSUME NEW r \in Registrations, AddSafaricomTransactionJob(r) PROVE Goal
    BY <1>1, <2>2, AddEffect
  <2>3. ASSUME FinishRun \/ CompleteJob \/ Crash PROVE Goal
    BY <1>1, <2>3, FinishEffect, CompleteEffect, CrashEffect
  <2>4. ASSUME NEW d \in Conversations, TakeJob(d) \/ RecoverStalledJob(d) PROVE Goal
    BY <1>1, <2>4, TakeEffect, RecoverEffect
  <2>5. ASSUME \/ CreateWaitingTransaction \/ UpdateLatestTransaction
               \/ UpdateRegistration \/ SaveTransfer \/ CallSafaricom
               \/ HandleReply \/ RemoveFromJobsInProgress
        PROVE  Goal
    BY <1>1, <2>5, CreateEffect, LatestEffect, CountEffect, SaveEffect, CallEffect,
       ReplyEffect, RemoveEffect DEF Advance
  <2>6. ASSUME NEW d \in Conversations, SettleTransfer(d) \/ SendLateTimeout(d)
        PROVE  Goal
    BY <1>1, <2>6, SettleEffect, LateEffect DEF Aside
  <2>7. ASSUME NEW m \in callbacks,
               LoseCallback(m) \/ ReceiveCallback(m) \/ ApplyCallback(m)
        PROVE  Goal
    BY <1>1, <2>7, LoseEffect, ApplyEffect DEF Aside
  <2>8. CASE UNCHANGED vars
    BY <2>8 DEF vars
  <2> QED
    BY <2>1, <2>2, <2>3, <2>4, <2>5, <2>6, <2>7, <2>8
    DEF Next, RunStep, WorkerStep, SafaricomStep, CallbackStep
<1>3. CompleteJob =>
        worker.conversation \in DOMAIN jobs /\ fsp[worker.conversation] # "none"
  BY <1>1, CompleteEffect DEF JobInv, WorkerFacts
<1> QED
  BY <1>2, <1>3, LedgerFrame DEF DoneFacts

LEMMA RetriedIsFailedStep ==
    ASSUME PayoutInv, QuietFaults, RetriedIsFailed, TodoIsFailed, [Next]_vars
    PROVE  RetriedIsFailed'
<1>1. /\ TypeOK /\ TransferWhenCalling /\ TransactionOfJob /\ OneMayPay
  BY LedgerBases
<1> SUFFICES ASSUME NEW c \in DOMAIN jobs', NEW d \in DOMAIN jobs',
                    JobKey(c)' = JobKey(d)', c # d, fsp'[d] = "none",
                    transfers'[c] # NoTransaction
             PROVE  transactions'[transfers'[c]].status = "error"
  BY DEF RetriedIsFailed
<1>2. c \in DOMAIN jobs /\ JobKey(c)' = JobKey(c)
  BY LedgerFrame
\* Two jobs that may be paid cannot be in the queue together.
<1>3. CASE SaveTransfer /\ c = worker.conversation
  <2>1. transfers[c] = NoTransaction /\ d \in DOMAIN jobs
    BY <1>1, <1>3, SaveEffect DEF Advance, TransferWhenCalling
  <2>2. JobKey(d)' = JobKey(d) /\ fsp[d] = "none"
    BY <2>1, LedgerFrame
  <2>3. MayPay(c) /\ MayPay(d)
    BY <1>2, <2>1, <2>2, UnknownMayPay
  <2> QED
    BY <1>1, <1>2, <2>1, <2>2, <2>3 DEF OneMayPay
<1>4. CASE transfers'[c] = transfers[c] /\ d \in DOMAIN jobs
  <2>1. JobKey(d)' = JobKey(d) /\ fsp[d] = "none"
    BY <1>4, LedgerFrame
  <2>2. transactions[transfers[c]].status = "error"
    BY <1>2, <1>4, <2>1 DEF RetriedIsFailed
  <2> QED
    BY <1>2, <1>4, <2>2, ErrorStays
<1>5. ASSUME transfers'[c] = transfers[c], d \notin DOMAIN jobs
      PROVE  transactions'[transfers'[c]].status = "error"
  <2>1. PICK r \in Registrations : AddSafaricomTransactionJob(r)
    BY <1>1, <1>5, LedgerBases, LedgerSteps, CreateEffect, LatestEffect, SaveEffect,
       CallEffect, ReplyEffect, SettleEffect, ApplyEffect DEF Beside, Aside, Advance
  <2>2. r \in run.todo /\ run.pc = "adding" /\ JobKey(d)' = <<r, run.payment>>
    BY <1>1, <1>5, <2>1, AddEffect DEF JobKey
  <2>3. transactions[transfers[c]].status = "error"
    BY <1>2, <1>5, <2>2 DEF TodoIsFailed
  <2> QED
    BY <1>2, <1>5, <2>3, ErrorStays
<1> QED
  BY <1>2, <1>3, <1>4, <1>5, LedgerFrame

LEMMA OlderIsFailedStep ==
    ASSUME PayoutInv, QuietFaults, RetriedIsFailed, OlderIsFailed, [Next]_vars
    PROVE  OlderIsFailed'
<1>1. /\ TypeOK /\ TransferWhenCalling /\ TransactionOfJob /\ JobInv
  BY LedgerBases
<1> SUFFICES ASSUME NEW c \in DOMAIN jobs', transfers'[c] # NoTransaction,
                    transfers'[c] < latestTransactions'[JobKey(c)']
             PROVE  transactions'[transfers'[c]].status = "error"
  BY DEF OlderIsFailed
<1>2. c \in DOMAIN jobs /\ JobKey(c)' = JobKey(c) /\ JobKey(c) \in Key
  BY <1>1, LedgerFrame, Bases
\* The worker saves the transaction it has just made the latest.
<1>3. ASSUME SaveTransfer, c = worker.conversation
      PROVE  FALSE
  <2>1. worker.pc = "save" /\ transfers'[c] = worker.transaction
          /\ UNCHANGED latestTransactions
    BY <1>1, <1>3, SaveEffect DEF Advance
  <2>2. latestTransactions[JobKey(c)] = worker.transaction
    BY <1>1, <1>3, <2>1 DEF JobInv, WorkerFacts
  <2>3. worker.transaction \in Nat
    BY <1>1 DEF TypeOK, Worker
  <2> QED
    BY <1>2, <2>1, <2>2, <2>3
<1>4. transfers'[c] = transfers[c]
  BY <1>2, <1>3, LedgerFrame
<1>5. CASE latestTransactions'[JobKey(c)] = latestTransactions[JobKey(c)]
  <2>1. transactions[transfers[c]].status = "error"
    BY <1>2, <1>4, <1>5 DEF OlderIsFailed
  <2> QED
    BY <1>2, <1>4, <2>1, ErrorStays
<1>6. ASSUME UpdateLatestTransaction, JobKey(worker.conversation) = JobKey(c)
      PROVE  transactions'[transfers'[c]].status = "error"
  <2>1. PICK w : w = worker.conversation
    OBVIOUS
  <2>2. w \in DOMAIN jobs /\ transfers[w] = NoTransaction
    BY <1>1, <1>6, <2>1, LatestEffect, Bases DEF Advance, TransferWhenCalling
  <2>3. fsp[w] = "none"
    BY <2>2, UnknownMayPay
  <2>4. transactions[transfers[c]].status = "error"
    BY <1>2, <1>4, <1>6, <2>1, <2>2, <2>3 DEF RetriedIsFailed
  <2> QED
    BY <1>2, <1>4, <2>4, ErrorStays
<1> QED
  BY <1>1, <1>2, <1>5, <1>6, LedgerFrame, LatestEffect

\* Whoever is chosen for a payment or a retry has failed until now.
LEMMA ChosenHasFailed ==
    ASSUME PayoutInv, QuietFaults, OlderIsFailed, ~IsPaymentInProgress, NEW k \in Key,
           \/ latestTransactions[k] = NoTransaction
           \/ StatusOf(k) = "error"
           \/ NewestTransactionFailed(k)
    PROVE  /\ StatusOf(k) \in {"none", "error"}
           /\ \A c \in DOMAIN jobs : JobKey(c) = k /\ transfers[c] # NoTransaction =>
                transactions[transfers[c]].status = "error"
<1>1. /\ TypeOK /\ HiddenFacts /\ jobsInProgress = {}
      /\ latestTransactions[k] \in 0..Len(transactions)
      /\ Len(transactions) \in Nat /\ DOMAIN transactions = 1..Len(transactions)
  BY LedgerBases, Bases DEF JobInv, IsPaymentInProgress, TypeOK, StoreTypeOK
<1>2. \A i \in DOMAIN transactions : KeyOf(i) = k => ~(latestTransactions[k] < i)
  BY <1>1 DEF HiddenFacts
<1>3. latestTransactions[k] # NoTransaction =>
        /\ latestTransactions[k] \in DOMAIN transactions
        /\ KeyOf(latestTransactions[k]) = k
  BY <1>1 DEF HiddenFacts, NoTransaction
<1>4. NewestTransactionFailed(k) => StatusOf(k) = "error"
  <2> SUFFICES ASSUME NEW i \in DOMAIN transactions, KeyOf(i) = k,
                      transactions[i].status = "error",
                      \A j \in DOMAIN transactions : KeyOf(j) = k => j <= i
               PROVE  StatusOf(k) = "error"
    BY DEF NewestTransactionFailed
  <2>1. ~(latestTransactions[k] < i) /\ i \in Nat /\ i > 0
    BY <1>1, <1>2
  <2>2. latestTransactions[k] # NoTransaction
    BY <1>1, <2>1 DEF NoTransaction
  <2>3. latestTransactions[k] <= i
    BY <1>3, <2>2
  <2>4. latestTransactions[k] = i
    BY <1>1, <2>1, <2>3
  <2> QED
    BY <2>2, <2>4 DEF StatusOf
<1>5. StatusOf(k) \in {"none", "error"}
  BY <1>4 DEF StatusOf
<1>6. ASSUME NEW c \in DOMAIN jobs, JobKey(c) = k, transfers[c] # NoTransaction
      PROVE  transactions[transfers[c]].status = "error"
  <2>1. PICK i : i = transfers[c]
    OBVIOUS
  <2>2. i \in DOMAIN transactions /\ KeyOf(i) = k /\ i \in Nat /\ i > 0
    BY <1>1, <1>6, <2>1, OldTransfers, Bases
  <2>3. ~(latestTransactions[k] < i)
    BY <1>2, <2>2
  <2>4. latestTransactions[k] # NoTransaction
    BY <1>1, <2>2, <2>3 DEF NoTransaction
  <2>5. transactions[latestTransactions[k]].status = "error"
    BY <1>4, <2>4 DEF StatusOf
  <2>6. CASE i < latestTransactions[k]
    BY <1>6, <2>1, <2>6 DEF OlderIsFailed
  <2>7. CASE i = latestTransactions[k]
    BY <2>1, <2>5, <2>7
  <2> QED
    BY <1>1, <2>2, <2>3, <2>6, <2>7
<1> QED
  BY <1>5, <1>6

LEMMA StatusStays ==
    ASSUME NEW k, UNCHANGED latestTransactions,
           latestTransactions[k] # NoTransaction =>
             transactions'[latestTransactions[k]].status =
               transactions[latestTransactions[k]].status
    PROVE  StatusOf(k)' = StatusOf(k)
BY DEF StatusOf

\* What a change of one status does to what users see.
LEMMA StatusShown ==
    ASSUME TypeOK, HiddenFacts, NEW k \in Key, UNCHANGED latestTransactions,
           NEW i \in DOMAIN transactions, NEW status, StatusSet(i, status)
    PROVE  \/ StatusOf(k)' = StatusOf(k) /\ latestTransactions[k] # i
           \/ /\ latestTransactions[k] = i /\ KeyOf(i) = k
              /\ StatusOf(k) = transactions[i].status
              /\ StatusOf(k)' = status
<1>1. /\ latestTransactions[k] \in 0..Len(transactions)
      /\ Len(transactions) \in Nat /\ DOMAIN transactions = 1..Len(transactions)
      /\ i # NoTransaction
  BY Bases DEF TypeOK, StoreTypeOK, NoTransaction
<1>2. latestTransactions[k] # NoTransaction =>
        latestTransactions[k] \in DOMAIN transactions
  BY <1>1 DEF NoTransaction
<1>3. CASE latestTransactions[k] = i
  BY <1>1, <1>3 DEF HiddenFacts, StatusOf, StatusSet
<1>4. CASE latestTransactions[k] # i
  BY <1>2, <1>4, StatusStays DEF StatusSet
<1> QED
  BY <1>3, <1>4

LEMMA CreatedIsHidden ==
    ASSUME TypeOK, NEW k \in Key, CreateWaitingTransaction
    PROVE  StatusOf(k)' = StatusOf(k)
<1>1. /\ latestTransactions[k] \in 0..Len(transactions)
      /\ Len(transactions) \in Nat /\ DOMAIN transactions = 1..Len(transactions)
  BY Bases DEF TypeOK, StoreTypeOK
<1>2. /\ UNCHANGED latestTransactions
      /\ \A j \in DOMAIN transactions : transactions'[j] = transactions[j]
  BY CreateEffect
<1> QED
  BY <1>1, <1>2, StatusStays DEF NoTransaction

\* What a run has still to add stays unpaid and failed.
LEMMA TodoStaysFailed ==
    ASSUME PayoutInv, QuietFaults, [Next]_vars, run.pc = "adding",
           NEW r \in run.todo, NEW k \in Key, k = <<r, run.payment>>,
           StatusOf(k) \in {"none", "error"}
    PROVE  StatusOf(k)' \in {"none", "error"}
<1>1. /\ TypeOK /\ TransferWhenCalling /\ TransactionOfJob /\ TodoCannotPay
      /\ HiddenFacts /\ JobInv /\ CallbackTrue
  BY LedgerBases DEF JobInv
<1>2. \A c \in DOMAIN jobs : JobKey(c) = k => ~MayPay(c)
  BY <1>1 DEF TodoCannotPay
<1>3. CASE UNCHANGED <<latestTransactions, transactions>>
  BY <1>3, StatusStays
<1>4. ASSUME UpdateLatestTransaction
      PROVE  StatusOf(k)' = StatusOf(k)
  <2>1. PICK w : w = worker.conversation
    OBVIOUS
  <2>2. /\ worker.pc = "latest" /\ UNCHANGED transactions
        /\ k # JobKey(w) => latestTransactions'[k] = latestTransactions[k]
    BY <1>1, <1>4, <2>1, LatestEffect DEF Advance
  <2>3. w \in DOMAIN jobs /\ transfers[w] = NoTransaction
    BY <1>1, <2>1, <2>2, Bases DEF TransferWhenCalling
  <2>4. k # JobKey(w)
    BY <1>2, <2>3, UnknownMayPay
  <2> QED
    BY <2>2, <2>4 DEF StatusOf
<1>5. ASSUME HandleReply
      PROVE  StatusOf(k)' \in {"none", "error"}
  <2>1. PICK w : w = worker.conversation
    OBVIOUS
  <2>2. /\ worker.pc = "reply" /\ UNCHANGED latestTransactions
        /\ StatusSet(transfers[w], "error") \/ UNCHANGED transactions
    BY <1>1, <1>5, <2>1, ReplyEffect DEF Advance
  <2>3. transfers[w] \in DOMAIN transactions
    BY <1>1, <2>1, <2>2, Bases DEF TransferWhenCalling, NoTransaction
  <2> QED
    BY <1>1, <1>3, <2>2, <2>3, StatusShown
<1>6. ASSUME NEW m \in callbacks, ApplyCallback(m)
      PROVE  StatusOf(k)' \in {"none", "error"}
  <2>1. PICK d, status : d = m.conversation
          /\ status = IF m.outcome = "paid" THEN "success" ELSE "error"
    OBVIOUS
  <2>2. /\ StatusSet(transfers[d], status) /\ d \in Conversations
        /\ transfers[d] \in DOMAIN transactions /\ UNCHANGED latestTransactions
    BY <1>1, <1>6, <2>1, ApplyEffect DEF Aside
  <2>3. d \in DOMAIN jobs /\ JobKey(d) = KeyOf(transfers[d])
    BY <1>1, <2>2, Bases, OldTransfers DEF NoTransaction
  <2>4. KeyOf(transfers[d]) = k => status = "error"
    BY <1>1, <1>2, <2>1, <2>3 DEF CallbackTrue, MayPay
  <2> QED
    BY <1>1, <2>2, <2>4, StatusShown
<1> QED
  BY <1>1, <1>3, <1>4, <1>5, <1>6, CreatedIsHidden, LedgerSteps, AddEffect, SaveEffect,
     CallEffect, SettleEffect DEF Beside, Aside

LEMMA TodoIsFailedStep ==
    ASSUME PayoutInv, QuietFaults, TodoIsFailed, OlderIsFailed, [Next]_vars
    PROVE  TodoIsFailed'
<1>1. /\ TypeOK /\ TransferWhenCalling /\ TransactionOfJob /\ JobInv /\ Inv
      /\ TodoCannotPay
  BY LedgerBases
<1>2. ASSUME NEW p \in Payments, PostPayment(p) \/ RetryPayment(p)
      PROVE  TodoIsFailed'
  <2>1. /\ ~IsPaymentInProgress /\ run'.payment = p
        /\ \A r \in run'.todo : r \in Registrations
        /\ UNCHANGED <<transactions, latestTransactions, transfers, jobs>>
    BY <1>2, StartEffect
  <2>2. ASSUME NEW r \in run'.todo
        PROVE  /\ StatusOf(<<r, p>>) \in {"none", "error"}
               /\ \A c \in DOMAIN jobs :
                    JobKey(c) = <<r, p>> /\ transfers[c] # NoTransaction =>
                      transactions[transfers[c]].status = "error"
    <3>1. <<r, p>> \in Key
      BY <2>1, <2>2 DEF Key
    <3>2. \/ latestTransactions[<<r, p>>] = NoTransaction
          \/ StatusOf(<<r, p>>) = "error"
          \/ NewestTransactionFailed(<<r, p>>)
      <4>1. \/ run'.todo \subseteq PayableRegistrations(p)
            \/ run'.todo = FailedRegistrations(p)
            \/ \A s \in run'.todo : NewestTransactionFailed(<<s, p>>)
        BY <1>2, StartEffect
      <4> QED
        BY <2>2, <4>1 DEF PayableRegistrations, FailedRegistrations
    <3> QED
      BY <2>1, <3>1, <3>2, ChosenHasFailed
  <2> QED
    BY <2>1, <2>2 DEF TodoIsFailed, StatusOf, JobKey
\* What is left of a run, after any other step.
<1>3. ASSUME run'.pc = "adding" => /\ run.pc = "adding" /\ run'.payment = run.payment
                                   /\ run'.todo \subseteq run.todo
      PROVE  TodoIsFailed'
  <2> SUFFICES ASSUME run'.pc = "adding", NEW r \in run'.todo
               PROVE  /\ StatusOf(<<r, run.payment>>)' \in {"none", "error"}
                      /\ \A c \in DOMAIN jobs' :
                           JobKey(c)' = <<r, run.payment>>
                             /\ transfers'[c] # NoTransaction =>
                               transactions'[transfers'[c]].status = "error"
    BY <1>3 DEF TodoIsFailed, StatusOf
  <2>1. PICK k : k = <<r, run.payment>>
    OBVIOUS
  <2>2. r \in run.todo /\ k \in Key /\ run.pc = "adding"
    BY <1>1, <1>3, <2>1 DEF TypeOK, Run, Key
  <2>3. StatusOf(k) \in {"none", "error"}
    BY <2>1, <2>2 DEF TodoIsFailed
  <2>4. StatusOf(k)' \in {"none", "error"}
    BY <2>1, <2>2, <2>3, TodoStaysFailed
  <2>5. ASSUME NEW c \in DOMAIN jobs', JobKey(c)' = k, transfers'[c] # NoTransaction
        PROVE  transactions'[transfers'[c]].status = "error"
    <3>1. c \in DOMAIN jobs /\ JobKey(c) = k
      BY <2>5, LedgerFrame
    <3>2. transfers[c] # NoTransaction
      BY <1>1, <2>1, <2>2, <3>1, UnknownMayPay DEF TodoCannotPay
    <3>3. transactions[transfers[c]].status = "error"
      BY <2>1, <2>2, <3>1, <3>2 DEF TodoIsFailed
    <3> QED
      BY <3>1, <3>2, <3>3, ErrorStays
  <2> QED
    BY <1>3, <2>1, <2>4, <2>5 DEF StatusOf
<1>4. ASSUME NEW r \in Registrations, AddSafaricomTransactionJob(r)
      PROVE  TodoIsFailed'
  BY <1>1, <1>3, <1>4, AddEffect
<1> QED
  BY <1>1, <1>2, <1>3, <1>4, RunAndJobs

LEMMA LedgerInvInit == Init => LedgerInv
<1> SUFFICES ASSUME Init PROVE LedgerInv
  OBVIOUS
<1>1. DoneFacts /\ RetriedIsFailed /\ TodoIsFailed /\ OlderIsFailed
  BY DEF Init, DoneFacts, RetriedIsFailed, TodoIsFailed, OlderIsFailed
<1> QED
  BY <1>1, PayoutInvInit DEF LedgerInv

LEMMA LedgerInvStep ==
    ASSUME QuietFaults, LedgerInv, [Next]_vars
    PROVE  LedgerInv'
BY PayoutInvStep, DoneFactsStep, RetriedIsFailedStep, TodoIsFailedStep,
   OlderIsFailedStep DEF LedgerInv

-----------------------------------------------------------------------------
(* The payout ledger is implemented.                                       *)

LedgerOpen(k) ==
    \/ StatusOf(k) = "waiting"
    \/ /\ StatusOf(k) # "success"
       /\ \E c \in DOMAIN jobs : JobKey(c) = k /\ fsp[c] = "none"

LedgerPaid(k) == \E c \in DOMAIN jobs : JobKey(c) = k /\ fsp[c] = "paid"

\* A job can still pay exactly when it has not reached Safaricom.
LEMMA CanStillPayIsUnknown ==
    ASSUME LedgerInv, QuietFaults, NEW c \in DOMAIN jobs
    PROVE  CanStillPay(c) <=> fsp[c] = "none"
<1>1. JobInv /\ "lostRequest" \notin Faults
  BY LedgerBases DEF LedgerInv
<1>2. fsp[c] = "none" =>
        ~(worker.conversation = c /\ worker.pc \in {"reply", "finally", "complete"})
  BY <1>1 DEF JobInv, WorkerFacts
<1>3. fsp[c] = "none" => Unfinished(c)
  BY DEF LedgerInv, DoneFacts, Unfinished, Issued
<1> QED
  BY <1>2, <1>3 DEF CanStillPay

Stays(k) ==
    /\ StatusOf(k)' = StatusOf(k)
    /\ LedgerOpen(k)' <=> LedgerOpen(k)
    /\ LedgerPaid(k)' <=> LedgerPaid(k)

\* What the ledger allows to happen to one registration and payment.
Attempted(k) ==
    /\ StatusOf(k) \in {"none", "error"} /\ ~LedgerOpen(k) /\ ~LedgerPaid(k)
    /\ StatusOf(k)' = StatusOf(k) /\ LedgerOpen(k)' /\ ~LedgerPaid(k)'

ReportedWaiting(k) ==
    /\ StatusOf(k) \in {"none", "error"} /\ LedgerOpen(k)
    /\ StatusOf(k)' = "waiting" /\ LedgerOpen(k)' /\ (LedgerPaid(k)' <=> LedgerPaid(k))

PaidOut(k) ==
    /\ LedgerOpen(k) /\ ~LedgerPaid(k)
    /\ StatusOf(k)' = StatusOf(k) /\ LedgerOpen(k)' /\ LedgerPaid(k)'

ReportedSuccess(k) ==
    /\ LedgerOpen(k) /\ LedgerPaid(k)
    /\ StatusOf(k)' = "success" /\ ~LedgerOpen(k)' /\ LedgerPaid(k)'

ReportedFailure(k) ==
    /\ LedgerOpen(k) /\ ~LedgerPaid(k)
    /\ StatusOf(k)' = "error" /\ ~LedgerOpen(k)' /\ ~LedgerPaid(k)'

Moves(k) ==
    \/ Attempted(k) \/ ReportedWaiting(k) \/ PaidOut(k)
    \/ ReportedSuccess(k) \/ ReportedFailure(k)

LedgerMoves ==
    \/ \A k \in Key : Stays(k)
    \/ \E k \in Key : Moves(k) /\ \A l \in Key : l # k => Stays(l)

\* What keeps the entry of a registration and payment.
LEMMA EntryStays ==
    ASSUME PayoutInv, QuietFaults, [Next]_vars, NEW l \in Key,
           StatusOf(l)' = StatusOf(l),
           \A c \in DOMAIN jobs : JobKey(c) = l => fsp'[c] = fsp[c],
           \A c \in DOMAIN jobs' : c \in DOMAIN jobs \/ JobKey(c)' # l
    PROVE  Stays(l)
<1>1. \A c \in DOMAIN jobs : c \in DOMAIN jobs' /\ JobKey(c)' = JobKey(c)
  BY LedgerFrame
<1>2. LedgerOpen(l)' <=> LedgerOpen(l)
  BY <1>1 DEF LedgerOpen
<1>3. LedgerPaid(l)' <=> LedgerPaid(l)
  BY <1>1 DEF LedgerPaid
<1> QED
  BY <1>2, <1>3 DEF Stays

LEMMA NothingMoves ==
    ASSUME PayoutInv, QuietFaults, [Next]_vars, \A k \in Key : StatusOf(k)' = StatusOf(k),
           UNCHANGED fsp, DOMAIN jobs' = DOMAIN jobs
    PROVE  LedgerMoves
BY EntryStays DEF LedgerMoves

LEMMA StatusOfType ==
    ASSUME TypeOK, NEW k \in Key
    PROVE  StatusOf(k) \in TransactionStatus \cup {"none"}
<1>1. latestTransactions[k] \in 0..Len(transactions)
  BY DEF TypeOK, StoreTypeOK
<1>2. CASE latestTransactions[k] = NoTransaction
  BY <1>2 DEF StatusOf
<1>3. CASE latestTransactions[k] # NoTransaction
  <2>1. latestTransactions[k] \in DOMAIN transactions
    BY <1>1, <1>3, Bases DEF NoTransaction
  <2>2. transactions[latestTransactions[k]] \in Transaction
    BY <2>1, Bases
  <2> QED
    BY <1>3, <2>2 DEF StatusOf, Transaction
<1> QED
  BY <1>2, <1>3

LEMMA AddMoves ==
    ASSUME LedgerInv, QuietFaults, [Next]_vars,
           NEW r \in Registrations, AddSafaricomTransactionJob(r)
    PROVE  LedgerMoves
<1>1. PayoutInv /\ TodoIsFailed /\ TypeOK /\ TodoCannotPay /\ TransferOfOwnJob
        /\ KnownHasTransfer
  BY LedgerBases DEF LedgerInv, Inv
<1>2. PICK n, k : n = Len(jobs) + 1 /\ k = <<r, run.payment>>
  OBVIOUS
<1>3. /\ run.pc = "adding" /\ r \in run.todo
      /\ DOMAIN jobs' = DOMAIN jobs \cup {n} /\ n \notin DOMAIN jobs
      /\ jobs'[n].registration = r /\ jobs'[n].payment = run.payment
      /\ UNCHANGED <<transactions, latestTransactions, transfers, fsp>>
  BY <1>1, <1>2, AddEffect
<1>4. k \in Key /\ JobKey(n)' = k /\ n \in Conversations
  <2>1. k \in Key
    BY <1>1, <1>2 DEF TypeOK, Run, Key
  <2>2. n \in Conversations
    <3>1. \A c \in DOMAIN jobs' : c \in Conversations
      BY <1>1, JobsKeptStep, BoundsAssumption DEF JobsKept, Conversations
    <3> QED
      BY <1>3, <3>1
  <2> QED
    BY <1>2, <1>3, <2>1, <2>2 DEF JobKey
<1>5. \A l \in Key : StatusOf(l)' = StatusOf(l)
  BY <1>3, StatusStays
<1>6. fsp'[n] = "none"
  BY <1>1, <1>3, <1>4 DEF KnownHasTransfer, TransferOfOwnJob, Issued
<1>7. \A c \in DOMAIN jobs : JobKey(c) = k => fsp[c] \notin {"none", "paid"}
  BY <1>1, <1>2, <1>3, UnknownMayPay DEF TodoCannotPay, MayPay
<1>8. StatusOf(k) \in {"none", "error"}
  BY <1>1, <1>2, <1>3 DEF TodoIsFailed
<1>9. \A c \in DOMAIN jobs : JobKey(c)' = JobKey(c)
  BY <1>1, LedgerFrame
<1>10. ~LedgerOpen(k) /\ ~LedgerPaid(k)
  BY <1>7, <1>8 DEF LedgerOpen, LedgerPaid
<1>11. LedgerOpen(k)' /\ ~LedgerPaid(k)'
  <2>1. StatusOf(k)' # "success"
    BY <1>4, <1>5, <1>8
  <2>2. n \in DOMAIN jobs'
    BY <1>3
  <2>3. LedgerOpen(k)'
    BY <1>4, <1>6, <2>1, <2>2 DEF LedgerOpen
  <2>4. \A c \in DOMAIN jobs' : JobKey(c)' = k => fsp'[c] # "paid"
    BY <1>3, <1>6, <1>7, <1>9
  <2> QED
    BY <2>3, <2>4 DEF LedgerPaid
<1>12. Attempted(k)
  BY <1>4, <1>5, <1>8, <1>10, <1>11 DEF Attempted
<1>13. \A l \in Key : l # k => Stays(l)
  BY <1>1, <1>3, <1>4, <1>5, EntryStays
<1> QED
  BY <1>4, <1>12, <1>13 DEF LedgerMoves, Moves

LEMMA LatestMoves ==
    ASSUME LedgerInv, QuietFaults, [Next]_vars, UpdateLatestTransaction
    PROVE  LedgerMoves
<1>1. PayoutInv /\ TypeOK /\ TransactionOfJob /\ TransferWhenCalling /\ OneMayPay
        /\ WorkerFacts
  BY LedgerBases DEF LedgerInv, JobInv
<1>2. PICK w, k : w = worker.conversation /\ k = JobKey(w)
  OBVIOUS
<1>3. /\ worker.pc = "latest" /\ UNCHANGED <<jobs, transactions, fsp>>
      /\ latestTransactions'[k] = worker.transaction
      /\ \A l \in Key : l # k => latestTransactions'[l] = latestTransactions[l]
  BY <1>1, <1>2, LatestEffect DEF Advance
<1>4. /\ w \in DOMAIN jobs /\ k \in Key /\ transfers[w] = NoTransaction
      /\ worker.transaction # NoTransaction
      /\ transactions[worker.transaction].status = "waiting"
  BY <1>1, <1>2, <1>3, Bases
  DEF TransferWhenCalling, WorkerFacts, TypeOK, NoTransaction
<1>5. fsp[w] = "none" /\ MayPay(w)
  BY <1>1, <1>4, UnknownMayPay
<1>6. StatusOf(k)' = "waiting"
  BY <1>3, <1>4 DEF StatusOf
<1>7. StatusOf(k) # "success"
  <2> SUFFICES ASSUME StatusOf(k) = "success" PROVE FALSE
    OBVIOUS
  <2>1. PICK d \in DOMAIN jobs : fsp[d] = "paid" /\ JobKey(d) = k /\ MayPay(d)
    BY <1>1, <1>4, SuccessIsShown
  <2> QED
    BY <1>1, <1>2, <1>4, <1>5, <2>1 DEF OneMayPay
<1>8. LedgerOpen(k) /\ LedgerOpen(k)'
  BY <1>2, <1>4, <1>5, <1>6, <1>7 DEF LedgerOpen
<1>9. LedgerPaid(k)' <=> LedgerPaid(k)
  BY <1>1, <1>3, LedgerFrame DEF LedgerPaid
<1>10. \A l \in Key : l # k => Stays(l)
  <2>1. \A l \in Key : l # k => StatusOf(l)' = StatusOf(l)
    BY <1>3 DEF StatusOf
  <2> QED
    BY <1>1, <1>3, <2>1, EntryStays
<1>11. CASE StatusOf(k) = "waiting"
  <2>1. Stays(k)
    BY <1>6, <1>8, <1>9, <1>11 DEF Stays
  <2> QED
    BY <1>10, <2>1 DEF LedgerMoves
<1>12. CASE StatusOf(k) # "waiting"
  <2>1. StatusOf(k) \in {"none", "error"}
    BY <1>1, <1>4, <1>7, <1>12, StatusOfType DEF TransactionStatus
  <2>2. ReportedWaiting(k)
    BY <1>6, <1>8, <1>9, <2>1 DEF ReportedWaiting
  <2> QED
    BY <1>4, <1>10, <2>2 DEF LedgerMoves, Moves
<1> QED
  BY <1>11, <1>12

\* Only unsettled transfers change here, and they show "waiting".
LEMMA CallMoves ==
    ASSUME LedgerInv, QuietFaults, [Next]_vars, CallSafaricom
    PROVE  LedgerMoves
<1>1. PayoutInv /\ TypeOK /\ TransferWhenCalling
        /\ "lostRequest" \notin Faults /\ "transientRefusal" \notin Faults
  BY LedgerBases DEF LedgerInv
<1>2. PICK w, k : w = worker.conversation /\ k = JobKey(w)
  OBVIOUS
<1>3. /\ worker.pc = "call"
      /\ UNCHANGED <<jobs, transactions, latestTransactions>>
      /\ \A d \in Conversations : d # w => fsp'[d] = fsp[d]
      /\ fsp'[w] = fsp[w] \/ fsp[w] = "none"
      /\ fsp[w] = "none" => fsp'[w] \in {"accepted", "refused"}
  BY <1>1, <1>2, CallEffect DEF Advance, Outcome
<1>4. w \in DOMAIN jobs /\ k \in Key /\ transfers[w] # NoTransaction
  BY <1>1, <1>2, <1>3, Bases DEF TransferWhenCalling
<1>5. \A l \in Key : StatusOf(l)' = StatusOf(l)
  BY <1>3, StatusStays
<1>6. \A l \in Key : l # k => Stays(l)
  BY <1>1, <1>2, <1>3, <1>5, Bases, EntryStays
<1>7. CASE fsp'[w] = fsp[w]
  <2>1. Stays(k)
    BY <1>1, <1>3, <1>4, <1>5, <1>7, Bases, EntryStays
  <2> QED
    BY <1>6, <2>1 DEF LedgerMoves
<1>8. CASE fsp[w] = "none"
  <2>1. StatusOf(k) = "waiting"
    BY <1>1, <1>2, <1>4, <1>8, UnsettledIsWaiting
  <2>2. LedgerOpen(k) /\ LedgerOpen(k)'
    BY <1>4, <1>5, <2>1 DEF LedgerOpen
  <2>3. \A c \in DOMAIN jobs : fsp'[c] = "paid" <=> fsp[c] = "paid"
    BY <1>1, <1>3, <1>8, Bases
  <2>4. LedgerPaid(k)' <=> LedgerPaid(k)
    BY <1>1, <1>3, <2>3, LedgerFrame DEF LedgerPaid
  <2>5. Stays(k)
    BY <1>4, <1>5, <2>2, <2>4 DEF Stays
  <2> QED
    BY <1>6, <2>5 DEF LedgerMoves
<1> QED
  BY <1>3, <1>7, <1>8

LEMMA SettleMoves ==
    ASSUME LedgerInv, QuietFaults, [Next]_vars, NEW c \in Conversations,
           SettleTransfer(c)
    PROVE  LedgerMoves
<1>1. PayoutInv /\ TypeOK /\ OneMayPay /\ KnownHasTransfer
  BY LedgerBases DEF LedgerInv, Inv
<1>2. /\ UNCHANGED <<jobs, transactions, latestTransactions>>
      /\ fsp[c] = "accepted" /\ fsp'[c] \in Outcome
      /\ \A d \in Conversations : d # c => fsp'[d] = fsp[d]
  BY <1>1, SettleEffect DEF Aside
<1>3. transfers[c] # NoTransaction
  BY <1>1, <1>2 DEF KnownHasTransfer
<1>4. PICK k : k = JobKey(c)
  OBVIOUS
<1>5. c \in DOMAIN jobs /\ k \in Key /\ MayPay(c)
  BY <1>1, <1>2, <1>3, <1>4, OldTransfers DEF MayPay
<1>6. \A l \in Key : StatusOf(l)' = StatusOf(l)
  BY <1>2, StatusStays
<1>7. \A l \in Key : l # k => Stays(l)
  BY <1>1, <1>2, <1>4, <1>6, Bases, EntryStays
<1>8. StatusOf(k) = "waiting"
  BY <1>1, <1>2, <1>3, <1>4, <1>5, UnsettledIsWaiting
<1>9. LedgerOpen(k) /\ LedgerOpen(k)'
  BY <1>5, <1>6, <1>8 DEF LedgerOpen
<1>10. ~LedgerPaid(k)
  BY <1>1, <1>2, <1>4, <1>5 DEF LedgerPaid, OneMayPay, MayPay
<1>11. CASE fsp'[c] = "paid"
  <2>1. LedgerPaid(k)'
    BY <1>1, <1>2, <1>4, <1>5, <1>11, LedgerFrame DEF LedgerPaid
  <2>2. PaidOut(k)
    BY <1>5, <1>6, <1>9, <1>10, <2>1 DEF PaidOut
  <2> QED
    BY <1>5, <1>7, <2>2 DEF LedgerMoves, Moves
<1>12. CASE fsp'[c] # "paid"
  <2>1. \A d \in DOMAIN jobs : fsp'[d] = "paid" => fsp[d] = "paid"
    BY <1>1, <1>2, <1>12, Bases
  <2>2. ~LedgerPaid(k)'
    BY <1>1, <1>2, <1>10, <2>1, LedgerFrame DEF LedgerPaid
  <2>3. Stays(k)
    BY <1>5, <1>6, <1>9, <1>10, <2>2 DEF Stays
  <2> QED
    BY <1>7, <2>3 DEF LedgerMoves
<1> QED
  BY <1>11, <1>12

\* A report, by the worker or a callback, of what Safaricom did with a transfer.
LEMMA ReportMoves ==
    ASSUME LedgerInv, QuietFaults, [Next]_vars, NEW c \in Conversations,
           transfers[c] # NoTransaction,
           UNCHANGED <<latestTransactions, fsp, jobs>>,
           NEW status, StatusSet(transfers[c], status),
           \/ status = "success" /\ fsp[c] = "paid"
           \/ status = "error" /\ fsp[c] \notin {"none", "accepted", "paid"}
    PROVE  LedgerMoves
<1>1. PayoutInv /\ RetriedIsFailed /\ TypeOK /\ HiddenFacts /\ NotFailed
        /\ TransferOfOwnJob
  BY LedgerBases DEF LedgerInv, JobInv
<1>2. PICK i, k : i = transfers[c] /\ k = JobKey(c)
  OBVIOUS
<1>3. /\ c \in DOMAIN jobs /\ i \in DOMAIN transactions /\ k \in Key
      /\ KeyOf(i) = k
  BY <1>1, <1>2, OldTransfers
<1>4. \A l \in Key : l # k => Stays(l)
  <2>1. \A l \in Key : l # k => StatusOf(l)' = StatusOf(l)
    BY <1>1, <1>2, <1>3, StatusShown
  <2> QED
    BY <1>1, <2>1, EntryStays
<1>5. CASE StatusOf(k)' = StatusOf(k)
  <2>1. Stays(k)
    BY <1>1, <1>3, <1>5, EntryStays
  <2> QED
    BY <1>4, <2>1 DEF LedgerMoves
<1>6. ASSUME StatusOf(k)' # StatusOf(k)
      PROVE  LedgerMoves
  <2>1. /\ latestTransactions[k] = i /\ StatusOf(k) = transactions[i].status
        /\ StatusOf(k)' = status /\ transactions[i].status # status
    BY <1>1, <1>2, <1>3, <1>6, StatusShown
  <2>2. StatusOf(k) = "waiting"
    <3>1. StatusOf(k) # "none"
      <4>1. transactions[i] \in Transaction
        BY <1>1, <1>3, Bases
      <4> QED
        BY <2>1, <4>1 DEF Transaction, TransactionStatus
    <3>2. status = "success" => StatusOf(k) # "error"
      BY <1>1, <1>2, <1>3, <2>1 DEF NotFailed
    <3>3. status = "error" => StatusOf(k) # "success"
      <4> SUFFICES ASSUME status = "error", StatusOf(k) = "success" PROVE FALSE
        OBVIOUS
      <4>1. PICK d \in DOMAIN jobs : /\ transfers[d] = latestTransactions[k]
                                     /\ fsp[d] = "paid"
        BY <1>1, <1>3, SuccessIsShown
      <4>2. d = c
        BY <1>1, <1>2, <2>1, <4>1, Bases DEF TransferOfOwnJob
      <4> QED
        BY <4>1, <4>2
    <3> QED
      BY <1>1, <1>3, <2>1, <3>1, <3>2, <3>3, StatusOfType DEF TransactionStatus
  <2>3. LedgerOpen(k)
    BY <2>2 DEF LedgerOpen
  <2>4. LedgerPaid(k)' <=> LedgerPaid(k)
    BY <1>1, LedgerFrame DEF LedgerPaid
  <2>5. CASE status = "success"
    <3>1. LedgerPaid(k)
      BY <1>2, <1>3, <2>5 DEF LedgerPaid
    <3>2. ~LedgerOpen(k)'
      BY <2>1, <2>5 DEF LedgerOpen
    <3>3. ReportedSuccess(k)
      BY <2>1, <2>3, <2>4, <2>5, <3>1, <3>2 DEF ReportedSuccess
    <3> QED
      BY <1>3, <1>4, <3>3 DEF LedgerMoves, Moves
  <2>6. CASE status = "error"
    <3>1. \A d \in DOMAIN jobs : JobKey(d) = k => fsp[d] \notin {"none", "paid"}
      BY <1>1, <1>2, <1>3, <2>1, <2>2, <2>6, SettledIsLast
    <3>2. ~LedgerPaid(k)
      BY <3>1 DEF LedgerPaid
    <3>3. ~LedgerOpen(k)'
      BY <1>1, <2>1, <2>6, <3>1, LedgerFrame DEF LedgerOpen
    <3>4. ReportedFailure(k)
      BY <2>1, <2>3, <2>4, <2>6, <3>2, <3>3 DEF ReportedFailure
    <3> QED
      BY <1>3, <1>4, <3>4 DEF LedgerMoves, Moves
  <2> QED
    BY <2>5, <2>6
<1> QED
  BY <1>5, <1>6

LEMMA ReplyMoves ==
    ASSUME LedgerInv, QuietFaults, [Next]_vars, HandleReply
    PROVE  LedgerMoves
<1>1. PayoutInv /\ TypeOK /\ TransferWhenCalling /\ ReplyTrue /\ WorkerFacts
        /\ "lostRequest" \notin Faults
  BY LedgerBases DEF LedgerInv, JobInv, PayoutInv, PayoutFacts
<1>2. PICK w : w = worker.conversation
  OBVIOUS
<1>3. /\ worker.pc = "reply" /\ UNCHANGED <<jobs, latestTransactions, fsp>>
      /\ \/ worker.reply = "error" /\ StatusSet(transfers[w], "error")
         \/ UNCHANGED transactions
  BY <1>1, <1>2, ReplyEffect DEF Advance
<1>4. w \in Conversations /\ transfers[w] # NoTransaction
  BY <1>1, <1>2, <1>3, Bases DEF TransferWhenCalling
<1>5. CASE UNCHANGED transactions
  <2>1. \A k \in Key : StatusOf(k)' = StatusOf(k)
    BY <1>3, <1>5, StatusStays
  <2> QED
    BY <1>1, <1>3, <2>1, NothingMoves
<1>6. CASE worker.reply = "error" /\ StatusSet(transfers[w], "error")
  <2>1. fsp[w] = "refused"
    BY <1>1, <1>2, <1>3, <1>6 DEF ReplyTrue, WorkerFacts
  <2> QED
    BY <1>3, <1>4, <1>6, <2>1, ReportMoves
<1> QED
  BY <1>3, <1>5, <1>6

LEMMA CallbackMoves ==
    ASSUME LedgerInv, QuietFaults, [Next]_vars, NEW m \in callbacks, ApplyCallback(m)
    PROVE  LedgerMoves
<1>1. TypeOK /\ CallbackTrue /\ KnownHasTransfer
  BY LedgerBases DEF LedgerInv, Inv
<1>2. PICK c, status : c = m.conversation
        /\ status = IF m.outcome = "paid" THEN "success" ELSE "error"
  OBVIOUS
<1>3. /\ UNCHANGED <<jobs, latestTransactions, fsp>> /\ c \in Conversations
      /\ StatusSet(transfers[c], status)
      /\ transfers[c] # NoTransaction
  BY <1>1, <1>2, ApplyEffect, Bases DEF Aside, NoTransaction
<1>4. m.outcome \in Outcome /\ fsp[c] = m.outcome
  BY <1>1, <1>2 DEF CallbackTrue, TypeOK, Callback
<1>5. \/ status = "success" /\ fsp[c] = "paid"
      \/ status = "error" /\ fsp[c] \notin {"none", "accepted", "paid"}
  BY <1>2, <1>4 DEF Outcome
<1> QED
  BY <1>3, <1>5, ReportMoves

\* Every step of the component changes at most one entry of the ledger, in one of
\* the ways the ledger allows.
LEMMA LedgerMovesStep ==
    ASSUME LedgerInv, QuietFaults, [Next]_vars
    PROVE  LedgerMoves
<1>1. PayoutInv /\ JobInv /\ TypeOK
  BY LedgerBases DEF LedgerInv
<1>2. CASE Beside
  <2>1. \A k \in Key : StatusOf(k)' = StatusOf(k)
    BY <1>2, StatusStays DEF Beside
  <2> QED
    BY <1>1, <1>2, <2>1, NothingMoves DEF Beside
<1>3. CASE CreateWaitingTransaction
  <2>1. UNCHANGED fsp /\ DOMAIN jobs' = DOMAIN jobs
    BY <1>1, <1>3, CreateEffect DEF Advance
  <2> QED
    BY <1>1, <1>3, <2>1, CreatedIsHidden, NothingMoves
<1>4. CASE SaveTransfer
  <2>1. UNCHANGED <<transactions, latestTransactions, fsp>> /\ DOMAIN jobs' = DOMAIN jobs
    BY <1>1, <1>4, SaveEffect DEF Advance
  <2>2. \A k \in Key : StatusOf(k)' = StatusOf(k)
    BY <2>1, StatusStays
  <2> QED
    BY <1>1, <2>1, <2>2, NothingMoves
<1> QED
  BY <1>1, <1>2, <1>3, <1>4, LedgerSteps, AddMoves, LatestMoves, CallMoves, ReplyMoves,
     SettleMoves, CallbackMoves

-----------------------------------------------------------------------------
(* From entries to the variables of the ledger.                            *)

LEMMA EntryUpdated ==
    ASSUME NEW S, NEW f, NEW g, f = [x \in S |-> f[x]], g = [x \in S |-> g[x]],
           NEW k \in S, \A x \in S : x # k => g[x] = f[x]
    PROVE  g = [f EXCEPT ![k] = g[k]]
OBVIOUS

LedgerStatus == [k \in Key |-> StatusOf(k)]
LedgerOpens == [k \in Key |-> LedgerOpen(k)]
LedgerPaids == [k \in Key |-> LedgerPaid(k)]

\* The variables of the ledger, in terms of its entries.
LedgerVariables ==
    /\ [k \in Key |-> StatusOf(k)] = LedgerStatus
    /\ [k \in Key |->
          \/ StatusOf(k) = "waiting"
          \/ /\ StatusOf(k) # "success"
             /\ \E c \in DOMAIN jobs : JobKey(c) = k /\ CanStillPay(c)] = LedgerOpens
    /\ [k \in Key |-> \E c \in DOMAIN jobs : JobKey(c) = k /\ fsp[c] = "paid"] =
         LedgerPaids

LEMMA LedgerVariablesAgree == LedgerInv /\ QuietFaults => LedgerVariables
<1> SUFFICES ASSUME LedgerInv, QuietFaults PROVE LedgerVariables
  OBVIOUS
<1>1. ASSUME NEW k \in Key
      PROVE  (\/ StatusOf(k) = "waiting"
              \/ /\ StatusOf(k) # "success"
                 /\ \E c \in DOMAIN jobs : JobKey(c) = k /\ CanStillPay(c)) =
               LedgerOpen(k)
  BY CanStillPayIsUnknown DEF LedgerOpen
<1> QED
  BY <1>1 DEF LedgerVariables, LedgerStatus, LedgerOpens, LedgerPaids, LedgerPaid

LEMMA LedgerVariablesNext == QuietFaults /\ LedgerInv' => LedgerVariables'
<1>1. QuietFaults => QuietFaults'
  BY DEF QuietFaults
<1> QED
  BY <1>1, LedgerVariablesAgree, PTL

LedgerEntries ==
    /\ \A k \in Key : /\ LedgerStatus[k] = StatusOf(k)
                      /\ LedgerOpen(k) => LedgerOpens[k] = TRUE
                      /\ ~LedgerOpen(k) => LedgerOpens[k] = FALSE
                      /\ LedgerPaid(k) => LedgerPaids[k] = TRUE
                      /\ ~LedgerPaid(k) => LedgerPaids[k] = FALSE
    /\ LedgerStatus = [k \in Key |-> LedgerStatus[k]]
    /\ LedgerOpens = [k \in Key |-> LedgerOpens[k]]
    /\ LedgerPaids = [k \in Key |-> LedgerPaids[k]]

LEMMA LedgerEntriesAgree == LedgerEntries
<1>1. ASSUME NEW k \in Key
      PROVE  /\ LedgerStatus[k] = StatusOf(k)
             /\ LedgerOpen(k) => LedgerOpens[k] = TRUE
             /\ ~LedgerOpen(k) => LedgerOpens[k] = FALSE
             /\ LedgerPaid(k) => LedgerPaids[k] = TRUE
             /\ ~LedgerPaid(k) => LedgerPaids[k] = FALSE
  BY DEF LedgerStatus, LedgerOpens, LedgerPaids
<1>2. /\ LedgerStatus = [k \in Key |-> LedgerStatus[k]]
      /\ LedgerOpens = [k \in Key |-> LedgerOpens[k]]
      /\ LedgerPaids = [k \in Key |-> LedgerPaids[k]]
  BY DEF LedgerStatus, LedgerOpens, LedgerPaids
<1> QED
  BY <1>1, <1>2 DEF LedgerEntries

LEMMA LedgerEntriesNext == LedgerEntries'
BY LedgerEntriesAgree, PTL

LEMMA LedgerInitial == QuietFaults /\ Init => Ledger!Init
<1> SUFFICES ASSUME QuietFaults, Init PROVE Ledger!Init
  OBVIOUS
<1>1. \A k \in Key : StatusOf(k) = "none"
  BY DEF Init, StoreInit, StatusOf
<1>2. DOMAIN jobs = {}
  BY DEF Init
<1> QED
  BY <1>1, <1>2 DEF Ledger!Init

LedgerNext == [Ledger!Next]_(Ledger!ledger)

LEMMA LedgerStep ==
    ASSUME LedgerVariables, LedgerVariables', LedgerMoves
    PROVE  LedgerNext
<1>1. LedgerEntries /\ LedgerEntries'
  BY LedgerEntriesAgree, LedgerEntriesNext
<1>3. ASSUME NEW k \in Key, Stays(k)
      PROVE  /\ LedgerStatus'[k] = LedgerStatus[k]
             /\ LedgerOpens'[k] = LedgerOpens[k]
             /\ LedgerPaids'[k] = LedgerPaids[k]
  <2>1. StatusOf(k)' = StatusOf(k)
    BY <1>3 DEF Stays
  <2>2. LedgerStatus'[k] = LedgerStatus[k]
    BY <1>1, <2>1 DEF LedgerEntries
  <2>3. (LedgerOpen(k) /\ LedgerOpen(k)') \/ (~LedgerOpen(k) /\ ~LedgerOpen(k)')
    BY <1>3 DEF Stays
  <2>4. LedgerOpens'[k] = LedgerOpens[k]
    BY <1>1, <2>3 DEF LedgerEntries
  <2>5. (LedgerPaid(k) /\ LedgerPaid(k)') \/ (~LedgerPaid(k) /\ ~LedgerPaid(k)')
    BY <1>3 DEF Stays
  <2>6. LedgerPaids'[k] = LedgerPaids[k]
    BY <1>1, <2>5 DEF LedgerEntries
  <2> QED
    BY <2>2, <2>4, <2>6
<1>4. CASE \A k \in Key : Stays(k)
  <2>1. UNCHANGED <<LedgerStatus, LedgerOpens, LedgerPaids>>
    BY <1>1, <1>3, <1>4 DEF LedgerEntries
  <2>2. UNCHANGED Ledger!ledger
    BY <2>1 DEF LedgerVariables, Ledger!ledger
  <2> QED
    BY <2>2 DEF LedgerNext
<1>5. ASSUME NEW k \in Key, Moves(k), \A l \in Key : l # k => Stays(l)
      PROVE  Ledger!Next
  <2>1. /\ LedgerStatus' = [LedgerStatus EXCEPT ![k] = LedgerStatus'[k]]
        /\ LedgerOpens' = [LedgerOpens EXCEPT ![k] = LedgerOpens'[k]]
        /\ LedgerPaids' = [LedgerPaids EXCEPT ![k] = LedgerPaids'[k]]
    BY <1>1, <1>3, <1>5, EntryUpdated DEF LedgerEntries
  <2>2. CASE Attempted(k)
    <3>1. /\ LedgerStatus[k] \in {"none", "error"}
          /\ LedgerOpens[k] = FALSE /\ LedgerPaids[k] = FALSE
      BY <1>1, <1>5, <2>2 DEF LedgerEntries, Attempted
    <3>2. /\ LedgerStatus'[k] = LedgerStatus[k]
          /\ LedgerOpens'[k] = TRUE
          /\ LedgerPaids'[k] = LedgerPaids[k]
      BY <1>1, <1>5, <2>2 DEF LedgerEntries, Attempted
    <3>3. /\ UNCHANGED LedgerStatus
          /\ LedgerOpens' = [LedgerOpens EXCEPT ![k] = TRUE]
          /\ UNCHANGED LedgerPaids
      BY <1>1, <1>5, <2>1, <3>2 DEF LedgerEntries
    <3>4. Ledger!Attempt(k)
      BY <3>1, <3>3 DEF Ledger!Attempt, LedgerVariables
    <3> QED
      BY <1>5, <3>4 DEF Ledger!Next
  <2>3. CASE ReportedWaiting(k)
    <3>1. LedgerStatus[k] \in {"none", "error"} /\ LedgerOpens[k] = TRUE
      BY <1>1, <1>5, <2>3 DEF LedgerEntries, ReportedWaiting
    <3>2. /\ LedgerStatus'[k] = "waiting"
          /\ LedgerOpens'[k] = LedgerOpens[k]
          /\ LedgerPaids'[k] = LedgerPaids[k]
      BY <1>1, <1>5, <2>3 DEF LedgerEntries, ReportedWaiting
    <3>3. /\ LedgerStatus' = [LedgerStatus EXCEPT ![k] = "waiting"]
          /\ UNCHANGED LedgerOpens
          /\ UNCHANGED LedgerPaids
      BY <1>1, <1>5, <2>1, <3>2 DEF LedgerEntries
    <3>4. Ledger!ReportWaiting(k)
      BY <3>1, <3>3 DEF Ledger!ReportWaiting, LedgerVariables
    <3> QED
      BY <1>5, <3>4 DEF Ledger!Next
  <2>4. CASE PaidOut(k)
    <3>1. LedgerOpens[k] = TRUE /\ LedgerPaids[k] = FALSE
      BY <1>1, <1>5, <2>4 DEF LedgerEntries, PaidOut
    <3>2. /\ LedgerStatus'[k] = LedgerStatus[k]
          /\ LedgerOpens'[k] = LedgerOpens[k]
          /\ LedgerPaids'[k] = TRUE
      BY <1>1, <1>5, <2>4 DEF LedgerEntries, PaidOut
    <3>3. /\ UNCHANGED LedgerStatus
          /\ UNCHANGED LedgerOpens
          /\ LedgerPaids' = [LedgerPaids EXCEPT ![k] = TRUE]
      BY <1>1, <1>5, <2>1, <3>2 DEF LedgerEntries
    <3>4. Ledger!PayOut(k)
      BY <3>1, <3>3 DEF Ledger!PayOut, LedgerVariables
    <3> QED
      BY <1>5, <3>4 DEF Ledger!Next
  <2>5. CASE ReportedSuccess(k)
    <3>1. LedgerOpens[k] = TRUE /\ LedgerPaids[k] = TRUE
      BY <1>1, <1>5, <2>5 DEF LedgerEntries, ReportedSuccess
    <3>2. /\ LedgerStatus'[k] = "success"
          /\ LedgerOpens'[k] = FALSE
          /\ LedgerPaids'[k] = LedgerPaids[k]
      BY <1>1, <1>5, <2>5 DEF LedgerEntries, ReportedSuccess
    <3>3. /\ LedgerStatus' = [LedgerStatus EXCEPT ![k] = "success"]
          /\ LedgerOpens' = [LedgerOpens EXCEPT ![k] = FALSE]
          /\ UNCHANGED LedgerPaids
      BY <1>1, <1>5, <2>1, <3>2 DEF LedgerEntries
    <3>4. Ledger!ReportSuccess(k)
      BY <3>1, <3>3 DEF Ledger!ReportSuccess, LedgerVariables
    <3> QED
      BY <1>5, <3>4 DEF Ledger!Next
  <2>6. CASE ReportedFailure(k)
    <3>1. LedgerOpens[k] = TRUE /\ LedgerPaids[k] = FALSE
      BY <1>1, <1>5, <2>6 DEF LedgerEntries, ReportedFailure
    <3>2. /\ LedgerStatus'[k] = "error"
          /\ LedgerOpens'[k] = FALSE
          /\ LedgerPaids'[k] = LedgerPaids[k]
      BY <1>1, <1>5, <2>6 DEF LedgerEntries, ReportedFailure
    <3>3. /\ LedgerStatus' = [LedgerStatus EXCEPT ![k] = "error"]
          /\ LedgerOpens' = [LedgerOpens EXCEPT ![k] = FALSE]
          /\ UNCHANGED LedgerPaids
      BY <1>1, <1>5, <2>1, <3>2 DEF LedgerEntries
    <3>4. Ledger!ReportFailure(k)
      BY <3>1, <3>3 DEF Ledger!ReportFailure, LedgerVariables
    <3> QED
      BY <1>5, <3>4 DEF Ledger!Next
  <2> QED
    BY <1>5, <2>2, <2>3, <2>4, <2>5, <2>6 DEF Moves
<1>6. Ledger!Next => LedgerNext
  BY DEF LedgerNext
<1> QED
  BY <1>4, <1>5, <1>6 DEF LedgerMoves

\* With callbacks that are at most lost or repeated, payments through Safaricom
\* are a payout ledger, for any number of jobs, retries and crashes: money moves at
\* most once, a payment that shows as failed was not and will not be paid, and a
\* success is final.
THEOREM LedgerImplemented == QuietFaults => (Spec => LedgerSpec)
<1> SUFFICES ASSUME QuietFaults PROVE Spec => LedgerSpec
  OBVIOUS
<1>1. Init => LedgerInv /\ Ledger!Init
  BY LedgerInvInit, LedgerInitial
<1>2. LedgerInv /\ [Next]_vars => LedgerInv' /\ LedgerNext
  <2> SUFFICES ASSUME LedgerInv, [Next]_vars
               PROVE  LedgerInv' /\ LedgerNext
    OBVIOUS
  <2>1. LedgerInv' /\ LedgerMoves
    BY LedgerInvStep, LedgerMovesStep
  <2>2. LedgerVariables /\ LedgerVariables'
    BY <2>1, LedgerVariablesAgree, LedgerVariablesNext
  <2> QED
    BY <2>1, <2>2, LedgerStep
<1> QED
  BY <1>1, <1>2, PTL DEF Spec, LedgerSpec, Ledger!Spec, LedgerNext

-----------------------------------------------------------------------------
(* What the ledger means for a user.                                       *)

\* Once a payment shows neither as waiting nor has a job that is still to reach
\* Safaricom, it shows as a success exactly when the money was paid: a payout is
\* never shown as failed for good (safaricom.service.ts, processors of jobs and
\* callbacks).
SettledIsShown ==
    \A k \in Key : ~LedgerOpen(k) => (LedgerPaid(k) <=> StatusOf(k) = "success")

LEMMA MovesKeepSettled ==
    ASSUME SettledIsShown, LedgerMoves PROVE SettledIsShown'
<1>1. SUFFICES ASSUME NEW k \in Key, ~LedgerOpen(k)'
               PROVE  LedgerPaid(k)' <=> StatusOf(k)' = "success"
  BY DEF SettledIsShown, Key
<1>2. CASE Stays(k)
  BY <1>1, <1>2 DEF SettledIsShown, Stays
<1>3. CASE Moves(k)
  BY <1>1, <1>3 DEF Moves, Attempted, ReportedWaiting, PaidOut, ReportedSuccess,
                    ReportedFailure
<1> QED
  BY <1>2, <1>3 DEF LedgerMoves

\* The users can believe the status of a payment that is over.
THEOREM SettledPaymentsAreShown == QuietFaults => (Spec => []SettledIsShown)
<1> SUFFICES ASSUME QuietFaults PROVE Spec => []SettledIsShown
  OBVIOUS
<1>1. Init => LedgerInv /\ SettledIsShown
  <2>1. Init => SettledIsShown
    BY DEF Init, StoreInit, StatusOf, SettledIsShown, LedgerPaid
  <2> QED
    BY <2>1, LedgerInvInit
<1>2. LedgerInv /\ SettledIsShown /\ [Next]_vars => LedgerInv' /\ SettledIsShown'
  BY LedgerInvStep, LedgerMovesStep, MovesKeepSettled
<1> QED
  BY <1>1, <1>2, PTL DEF Spec

\* No step takes a success back, whichever callbacks are lost or repeated and
\* wherever the service crashes and does a job again.
THEOREM SuccessIsFinal ==
    QuietFaults => (Spec => [][\A k \in Key :
        StatusOf(k) = "success" => StatusOf(k)' = "success"]_vars)
<1> SUFFICES ASSUME QuietFaults
             PROVE  Spec => [][\A k \in Key :
                        StatusOf(k) = "success" => StatusOf(k)' = "success"]_vars
  OBVIOUS
<1>1. Init => LedgerInv
  BY LedgerInvInit
<1>2. LedgerInv /\ [Next]_vars => LedgerInv'
  BY LedgerInvStep
<1>3. LedgerInv /\ [Next]_vars =>
        [\A k \in Key : StatusOf(k) = "success" => StatusOf(k)' = "success"]_vars
  <2> SUFFICES ASSUME LedgerInv, [Next]_vars, NEW k \in Key, StatusOf(k) = "success"
               PROVE  StatusOf(k)' = "success"
    OBVIOUS
  <2>1. LedgerMoves
    BY LedgerMovesStep
  <2>2. ~LedgerOpen(k)
    BY DEF LedgerOpen
  <2>3. CASE Stays(k)
    BY <2>3 DEF Stays
  <2>4. ~Moves(k)
    BY <2>2 DEF Moves, Attempted, ReportedWaiting, PaidOut, ReportedSuccess,
                ReportedFailure
  <2> QED
    BY <2>1, <2>3, <2>4 DEF LedgerMoves
<1> QED
  BY <1>1, <1>2, <1>3, PTL DEF Spec
=============================================================================
