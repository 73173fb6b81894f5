------------------ MODULE CommercialBankEthiopiaProofs ------------------
(***************************************************************************)
(* Proofs about CommercialBankEthiopia, for every number of registrations, *)
(* payments, jobs, crashes and stalls.                                     *)
(***************************************************************************)
EXTENDS CommercialBankEthiopia, TransactionStoringProofs

-----------------------------------------------------------------------------
(* Types.                                                                  *)

\* What a run adds fits below the bound on the jobs, and the transactions it
\* retries exist.
RunTyped ==
    /\ run.pc = "adding" =>
         /\ run.payment \in Payments
         /\ Len(jobs) + Cardinality(run.todo) <= MaxJobs
    /\ \A r \in Registrations : run.transactionId[r] \in 0..Len(transactions)

TypeInv == TypeOK /\ RunTyped

JobState == {"queued", "active", "stalled", "failed", "completed"}

LEMMA WorkerIsStorer == Worker \in Storers
BY WorkerAssumption

LEMMA TodoIsFinite ==
    ASSUME NEW todo \in SUBSET Registrations
    PROVE  /\ IsFiniteSet(todo) /\ Cardinality(todo) \in Nat
           /\ \A r \in todo : /\ Cardinality(todo \ {r}) = Cardinality(todo) - 1
                              /\ Cardinality(todo) >= 1
<1>1. IsFiniteSet(todo) /\ Cardinality(todo) \in Nat
  BY RegistrationsAssumption, FS_Subset, FS_CardinalityType
<1>2. ASSUME NEW r \in todo
      PROVE  /\ Cardinality(todo \ {r}) = Cardinality(todo) - 1
             /\ Cardinality(todo) >= 1
  <2>1. Cardinality(todo \ {r}) = Cardinality(todo) - 1
    BY <1>1, FS_RemoveElement
  <2>2. Cardinality(todo \ {r}) \in Nat
    BY RegistrationsAssumption, FS_Subset, FS_CardinalityType
  <2> QED
    BY <1>1, <2>1, <2>2
<1> QED
  BY <1>1, <1>2

LEMMA JobFacts ==
    ASSUME TypeOK, NEW j \in DOMAIN jobs
    PROVE  /\ j \in 1..Len(jobs) /\ j \in Reference /\ jobs[j] \in Job
           /\ jobs[j].key \in Key /\ jobs[j].reference \in Reference
           /\ jobs[j].reference \in Nat /\ jobs[j].stalls \in Nat
<1>1. j \in 1..Len(jobs) /\ Len(jobs) <= MaxJobs /\ jobs[j] \in Job
  BY DEF TypeOK
<1> QED
  BY <1>1, BankBoundsAssumption DEF Reference, Job

\* The worker has a job.
LEMMA WorkerFacts ==
    ASSUME TypeOK, worker.pc # "idle"
    PROVE  /\ worker \in WorkerState /\ worker.job \in DOMAIN jobs
           /\ worker.job \in 1..Len(jobs) /\ jobs[worker.job] \in Job
           /\ WorkerReference \in Reference /\ jobs[worker.job].key \in Key
           /\ worker.status \in TransactionStatus
BY JobFacts DEF TypeOK, WorkerReference, WorkerState

\* Jobs are added and change their state; their key and reference stay.
JobsKept ==
    /\ jobs' \in Seq(Job) /\ Len(jobs') <= MaxJobs
    /\ Len(jobs) <= Len(jobs') /\ DOMAIN jobs \subseteq DOMAIN jobs'
    /\ \A j \in DOMAIN jobs : /\ jobs'[j].key = jobs[j].key
                              /\ jobs'[j].reference = jobs[j].reference

\* One job changes its state.
JobMoves(j, state) ==
    /\ JobsKept
    /\ Len(jobs') = Len(jobs) /\ DOMAIN jobs' = DOMAIN jobs
    /\ jobs'[j].state = state
    /\ \A i \in DOMAIN jobs \ {j} : jobs'[i] = jobs[i]

LEMMA JobsUnchanged == TypeOK /\ UNCHANGED jobs => JobsKept
BY DEF TypeOK, JobsKept

LEMMA JobReplaced ==
    ASSUME TypeOK, NEW j \in DOMAIN jobs, NEW job \in Job,
           job.key = jobs[j].key, job.reference = jobs[j].reference,
           jobs' = [jobs EXCEPT ![j] = job]
    PROVE  JobMoves(j, job.state)
<1>1. jobs \in Seq(Job) /\ j \in 1..Len(jobs) /\ Len(jobs) <= MaxJobs
  BY DEF TypeOK
<1>2. /\ jobs' \in Seq(Job) /\ Len(jobs') = Len(jobs)
      /\ \A i \in 1..Len(jobs) : i # j => jobs'[i] = jobs[i]
      /\ jobs'[j] = job
  BY <1>1, ExceptSeq
<1> QED
  BY <1>1, <1>2 DEF JobsKept, JobMoves

LEMMA JobStateChanges ==
    ASSUME TypeOK, NEW j \in DOMAIN jobs, NEW state \in JobState,
           jobs' = [jobs EXCEPT ![j].state = state]
    PROVE  JobMoves(j, state)
<1> DEFINE job == [jobs[j] EXCEPT !.state = state]
<1>1. jobs[j] \in Job
  BY JobFacts
<1>2. /\ job \in Job /\ job.key = jobs[j].key
      /\ job.reference = jobs[j].reference /\ job.state = state
  BY <1>1 DEF Job, JobState
<1>3. jobs' = [jobs EXCEPT ![j] = job]
  OBVIOUS
<1> HIDE DEF job
<1> QED
  BY <1>2, <1>3, JobReplaced

LEMMA JobAppended ==
    ASSUME TypeOK, NEW job \in Job, jobs' = Append(jobs, job), Len(jobs) < MaxJobs
    PROVE  /\ JobsKept /\ Len(jobs') = Len(jobs) + 1
           /\ DOMAIN jobs' = DOMAIN jobs \cup {Len(jobs) + 1}
           /\ \A j \in DOMAIN jobs : jobs'[j] = jobs[j]
           /\ jobs'[Len(jobs) + 1] = job
<1>1. jobs \in Seq(Job) /\ Len(jobs) \in Nat /\ MaxJobs \in Nat
  BY BankBoundsAssumption DEF TypeOK
<1> QED
  BY <1>1, AppendProperties DEF JobsKept

\* The run goes on with another job.
JobAdded(r, reference) ==
    LET new == Len(jobs) + 1
    IN  /\ JobsKept
        /\ Len(jobs') = new /\ new \in Reference
        /\ DOMAIN jobs' = DOMAIN jobs \cup {new}
        /\ \A j \in DOMAIN jobs : jobs'[j] = jobs[j] /\ j # new
        /\ jobs'[new].key = <<r, run.payment>>
        /\ jobs'[new].reference = reference
        /\ jobs'[new].state = "queued"
        /\ jobsInProgress' = jobsInProgress \cup {new}
        /\ run' \in Run
        /\ run'.pc = run.pc /\ run'.payment = run.payment
        /\ run'.transactionId = run.transactionId
        /\ run'.todo = run.todo \ {r}
        /\ UNCHANGED unchangedByRun

LEMMA AddJobFacts ==
    ASSUME TypeInv, run.pc = "adding", NEW r \in run.todo,
           NEW reference \in Reference, UNCHANGED unchangedByRun,
           AddJob(<<r, run.payment>>, reference)
    PROVE  JobAdded(r, reference)
<1> DEFINE k == <<r, run.payment>>
           job == [key |-> k, reference |-> reference, state |-> "queued", stalls |-> 0]
<1>1. /\ run \in Run /\ run.todo \subseteq Registrations /\ k \in Key
      /\ run.payment \in Payments
  BY DEF TypeInv, TypeOK, Run, RunTyped, Key
<1>2. job \in Job
  BY <1>1 DEF Job
<1>3. job.key = k /\ job.reference = reference /\ job.state = "queued"
  OBVIOUS
<1>4. /\ jobs' = Append(jobs, job)
      /\ jobsInProgress' = jobsInProgress \cup {Len(jobs) + 1}
      /\ run' = [run EXCEPT !.todo = run.todo \ {r}]
  BY DEF AddJob
<1> HIDE DEF job
<1>5. Len(jobs) \in Nat /\ Len(jobs) < MaxJobs
  <2>1. Cardinality(run.todo) >= 1 /\ Cardinality(run.todo) \in Nat
    BY <1>1, TodoIsFinite
  <2>2. Len(jobs) + Cardinality(run.todo) <= MaxJobs /\ Len(jobs) \in Nat
    BY DEF TypeInv, TypeOK, RunTyped
  <2> QED
    BY <2>1, <2>2, BankBoundsAssumption
<1>6. /\ JobsKept /\ Len(jobs') = Len(jobs) + 1
      /\ DOMAIN jobs' = DOMAIN jobs \cup {Len(jobs) + 1}
      /\ \A j \in DOMAIN jobs : jobs'[j] = jobs[j]
      /\ jobs'[Len(jobs) + 1] = job
  BY <1>2, <1>4, <1>5, JobAppended DEF TypeInv
<1>7. \A j \in DOMAIN jobs : j # Len(jobs) + 1
  BY <1>5 DEF TypeInv, TypeOK
<1>8. Len(jobs) + 1 \in Reference
  BY <1>5, BankBoundsAssumption DEF Reference
<1>9. /\ run' \in Run
      /\ run'.pc = run.pc /\ run'.payment = run.payment
      /\ run'.transactionId = run.transactionId
      /\ run'.todo = run.todo \ {r}
  BY <1>1, <1>4 DEF Run
<1> QED
  BY <1>3, <1>4, <1>6, <1>7, <1>8, <1>9 DEF JobAdded

LEMMA JobAddedKeepsType ==
    ASSUME TypeInv, run.pc = "adding", NEW r \in run.todo,
           NEW reference \in Reference, JobAdded(r, reference)
    PROVE  TypeInv'
<1>1. Cardinality(run.todo \ {r}) = Cardinality(run.todo) - 1
      /\ Cardinality(run.todo) \in Nat
  BY TodoIsFinite DEF TypeInv, TypeOK, Run
<1>2. StoringTypeOK' /\ UNCHANGED transactions
  BY StoringUnchanged DEF TypeInv, TypeOK, JobAdded, unchangedByRun, storingVars,
                          storeVars
<1>3. RunTyped'
  <2>1. Len(jobs) \in Nat /\ Len(jobs) + Cardinality(run.todo) <= MaxJobs
        /\ run.payment \in Payments
    BY DEF TypeInv, TypeOK, RunTyped
  <2>2. Len(jobs') + Cardinality(run'.todo) <= MaxJobs
    BY <1>1, <2>1, BankBoundsAssumption DEF JobAdded
  <2> QED
    BY <1>2, <2>1, <2>2 DEF TypeInv, RunTyped, JobAdded
<1>4. jobsInProgress' \subseteq DOMAIN jobs'
  BY DEF TypeInv, TypeOK, JobAdded
<1>5. worker'.pc # "idle" => worker'.job \in DOMAIN jobs'
  BY DEF TypeInv, TypeOK, JobAdded, unchangedByRun
<1> QED
  BY <1>2, <1>3, <1>4, <1>5
     DEF TypeInv, TypeOK, JobAdded, JobsKept, unchangedByRun

\* A run starts, ends, or stops at a transaction without a reference.
RunOnly ==
    /\ run' \in Run
    /\ UNCHANGED <<storingVars, jobs, jobsInProgress, worker, references, bank,
                   crashes>>

LEMMA RunOnlyKeepsType ==
    ASSUME TypeInv, RunOnly, RunTyped'
    PROVE  TypeInv'
BY StoringUnchanged DEF TypeInv, TypeOK, RunOnly, storingVars, storeVars

LEMMA IdleRunType == IdleRun \in Run
                     /\ \A r \in Registrations : IdleRun.transactionId[r] = 0
BY DEF IdleRun, Run, NoTransaction

LEMMA IdleRunKeepsType ==
    ASSUME TypeInv, run' = IdleRun,
           UNCHANGED <<storingVars, jobs, jobsInProgress, worker, references, bank,
                       crashes>>
    PROVE  RunOnly /\ TypeInv'
<1>1. run' \in Run /\ run'.pc = "idle"
      /\ \A r \in Registrations : run'.transactionId[r] = 0
  BY IdleRunType DEF IdleRun
<1>2. Len(transactions) \in Nat /\ UNCHANGED transactions
  BY DEF TypeInv, TypeOK, StoringTypeOK, StoreTypeOK, storingVars, storeVars
<1>3. RunTyped'
  BY <1>1, <1>2 DEF RunTyped
<1> QED
  BY <1>1, <1>3, RunOnlyKeepsType DEF RunOnly

LEMMA StartRunFacts ==
    ASSUME TypeInv, NEW p \in Payments, NEW chosen \in SUBSET Registrations,
           NEW transactionId \in [Registrations -> 0..Len(transactions)],
           StartRun(p, chosen, transactionId)
    PROVE  /\ RunOnly /\ TypeInv'
           /\ run'.pc = "adding" /\ run'.payment = p /\ run'.todo = chosen
           /\ run'.transactionId = transactionId
           /\ run.pc = "idle" /\ jobsInProgress = {}
<1>0. Len(transactions) \in Nat
  BY DEF TypeInv, TypeOK, StoringTypeOK, StoreTypeOK
<1>1. transactionId \in [Registrations -> Nat]
  BY <1>0
<1>2. /\ run' = [pc |-> "adding", payment |-> p, todo |-> chosen,
                 transactionId |-> transactionId]
      /\ Len(jobs) + Cardinality(chosen) <= MaxJobs
      /\ run.pc = "idle" /\ jobsInProgress = {}
      /\ UNCHANGED <<storingVars, jobs, jobsInProgress, worker, references, bank,
                     crashes>>
  BY DEF StartRun, IsPaymentInProgress
<1>3. /\ run' \in Run /\ run'.pc = "adding" /\ run'.payment = p
      /\ run'.todo = chosen /\ run'.transactionId = transactionId
  BY <1>1, <1>2 DEF Run
<1>4. RunTyped'
  BY <1>2, <1>3 DEF RunTyped, storingVars, storeVars
<1> QED
  BY <1>2, <1>3, <1>4, RunOnlyKeepsType DEF RunOnly

\* A failed newest transaction can be found and is of that registration.
LEMMA NewestTransactionFacts ==
    ASSUME TypeOK, NEW k, NewestTransactionFailed(k)
    PROVE  /\ NewestTransaction(k) \in 1..Len(transactions)
           /\ KeyOf(NewestTransaction(k)) = k
<1>1. DOMAIN transactions = 1..Len(transactions)
  BY DEF TypeOK, StoringTypeOK, StoreTypeOK
<1>2. \E i \in DOMAIN transactions :
        KeyOf(i) = k /\ \A j \in DOMAIN transactions : KeyOf(j) = k => j <= i
  BY DEF NewestTransactionFailed
<1> QED
  BY <1>1, <1>2 DEF NewestTransaction

LEMMA FailedTransactionsFacts ==
    ASSUME TypeOK, NEW p \in Payments, NEW chosen \in SUBSET Registrations
    PROVE  /\ FailedTransactions(p, chosen) \in [Registrations -> 0..Len(transactions)]
           /\ \A r \in chosen :
                LET i == FailedTransactions(p, chosen)[r]
                IN  IF NewestTransactionFailed(<<r, p>>)
                    THEN i \in 1..Len(transactions) /\ KeyOf(i) = <<r, p>>
                    ELSE i = 0
<1>1. Len(transactions) \in Nat
  BY DEF TypeOK, StoringTypeOK, StoreTypeOK
<1>2. ASSUME NEW r \in Registrations
      PROVE  /\ FailedTransactions(p, chosen)[r] =
                  IF r \in chosen /\ NewestTransactionFailed(<<r, p>>)
                  THEN NewestTransaction(<<r, p>>) ELSE 0
             /\ NewestTransactionFailed(<<r, p>>) =>
                  /\ NewestTransaction(<<r, p>>) \in 1..Len(transactions)
                  /\ KeyOf(NewestTransaction(<<r, p>>)) = <<r, p>>
  BY NewestTransactionFacts DEF FailedTransactions, NoTransaction
<1>3. FailedTransactions(p, chosen) = [r \in Registrations |->
        FailedTransactions(p, chosen)[r]]
  BY DEF FailedTransactions
<1>4. ASSUME NEW r \in Registrations
      PROVE  FailedTransactions(p, chosen)[r] \in 0..Len(transactions)
  <2>1. CASE r \in chosen /\ NewestTransactionFailed(<<r, p>>)
    <3>1. FailedTransactions(p, chosen)[r] \in 1..Len(transactions)
      BY <1>2, <2>1
    <3> QED
      BY <1>1, <3>1
  <2>2. CASE ~(r \in chosen /\ NewestTransactionFailed(<<r, p>>))
    <3>1. FailedTransactions(p, chosen)[r] = 0
      BY <1>2, <2>2
    <3> QED
      BY <1>1, <3>1
  <2> QED
    BY <2>1, <2>2
<1> QED
  BY <1>2, <1>3, <1>4

-----------------------------------------------------------------------------
(* The steps of the worker, as far as the invariants look at them.         *)

BankState == {"unknown", "rejected", "paid"}

\* The worker goes on with the same job and result.
WorkerTo(pc) ==
    /\ worker' \in WorkerState
    /\ worker'.pc = pc /\ worker'.job = worker.job
    /\ worker'.status = worker.status /\ worker'.sent = worker.sent

LEMMA WorkerGoes ==
    ASSUME TypeOK, NEW pc \in {"query", "storing", "remove", "complete"},
           worker' = [worker EXCEPT !.pc = pc]
    PROVE  WorkerTo(pc)
BY DEF TypeOK, WorkerState, WorkerTo

LEMMA IdleWorkerType ==
    IdleWorker \in WorkerState /\ IdleWorker.pc = "idle"
BY BankBoundsAssumption DEF IdleWorker, WorkerState, TransactionStatus, NoReference

\* No step of the worker on its job adds jobs or transactions.
LEMMA WorkerKeepsType ==
    ASSUME TypeInv, JobsKept, Len(jobs') = Len(jobs), DOMAIN jobs' = DOMAIN jobs,
           StoringTypeOK', jobsInProgress' \subseteq jobsInProgress,
           UNCHANGED <<transactions, run, references, crashes>>,
           worker' \in WorkerState,
           worker'.pc # "idle" => worker'.job \in DOMAIN jobs,
           bank' \in [Reference -> BankState]
    PROVE  TypeInv'
<1>1. RunTyped'
  BY DEF TypeInv, RunTyped
<1> QED
  BY <1>1 DEF TypeInv, TypeOK, JobsKept, BankState

Taking(j) ==
    /\ JobMoves(j, "active") /\ jobs[j].state = "queued"
    /\ worker.pc = "idle"
    /\ worker'.pc = "transfer" /\ worker'.job = j
    /\ worker'.status = "waiting" /\ worker'.sent = NoReference
    /\ UNCHANGED <<storingVars, jobsInProgress, bank, unchangedByWorker>>

LEMMA TakeJobFacts ==
    ASSUME TypeInv, NEW j \in Reference, TakeJob(j)
    PROVE  j \in DOMAIN jobs /\ Taking(j) /\ TypeInv'
<1> DEFINE mid == [IdleWorker EXCEPT !.pc = "transfer"]
           new == [mid EXCEPT !.job = j]
<1>1. /\ j \in DOMAIN jobs /\ jobs[j].state = "queued" /\ worker.pc = "idle"
      /\ jobs' = [jobs EXCEPT ![j].state = "active"]
      /\ worker' = new
      /\ UNCHANGED <<storingVars, jobsInProgress, bank, unchangedByWorker>>
  BY DEF TakeJob
<1>2. mid \in WorkerState /\ mid.pc = "transfer" /\ mid.status = "waiting"
      /\ mid.sent = NoReference
  BY IdleWorkerType DEF WorkerState, IdleWorker
<1>3. j \in 0..MaxJobs
  BY BankBoundsAssumption DEF Reference
<1> HIDE DEF mid
<1>4. new \in WorkerState /\ new.pc = "transfer" /\ new.job = j
      /\ new.status = "waiting" /\ new.sent = NoReference
  BY <1>2, <1>3 DEF WorkerState
<1> HIDE DEF new
<1>5. JobMoves(j, "active")
  BY <1>1, JobStateChanges DEF TypeInv, JobState
<1>6. StoringTypeOK'
  BY <1>1, StoringUnchanged DEF TypeInv, TypeOK
<1>7. Taking(j)
  BY <1>1, <1>4, <1>5 DEF Taking
<1>8. TypeInv'
  BY <1>1, <1>4, <1>5, <1>6, WorkerKeepsType
     DEF JobMoves, TypeInv, TypeOK, unchangedByWorker, storingVars, storeVars, BankState
<1> QED
  BY <1>1, <1>7, <1>8

\* The bank is asked for the transfer or for what became of it.
Answering ==
    /\ UNCHANGED <<storingVars, jobs, jobsInProgress, unchangedByWorker>>
    /\ worker.pc \in {"transfer", "query"}
    /\ worker'.job = worker.job
    /\ \A ref \in Reference :
         bank[ref] # "unknown" \/ ref # WorkerReference => bank'[ref] = bank[ref]
    /\ \/ /\ worker'.pc = "query" /\ worker'.sent = worker.sent
          /\ bank' = bank
       \/ /\ worker'.pc = "store"
          /\ worker'.status = "success" => bank'[WorkerReference] = "paid"
          /\ \/ worker'.sent = WorkerReference
             \/ worker'.sent = worker.sent /\ bank' = bank

LEMMA AnsweringKeepsType ==
    ASSUME TypeInv, Answering, worker' \in WorkerState,
           bank' \in [Reference -> BankState]
    PROVE  TypeInv'
<1>1. StoringTypeOK' /\ JobsKept
  BY StoringUnchanged, JobsUnchanged DEF Answering, TypeInv, TypeOK
<1>2. worker'.job \in DOMAIN jobs
  BY WorkerFacts DEF Answering, TypeInv
<1> QED
  BY <1>1, <1>2, WorkerKeepsType
     DEF Answering, unchangedByWorker, storingVars, storeVars

LEMMA AnsweredFacts ==
    ASSUME TypeOK, worker.pc # "idle", NEW status \in TransactionStatus, Answered(status)
    PROVE  /\ worker' \in WorkerState
           /\ worker'.pc = "store" /\ worker'.job = worker.job
           /\ worker'.status = status /\ worker'.sent = WorkerReference
<1> DEFINE ref == WorkerReference
           mid == [worker EXCEPT !.pc = "store"]
           rep == [mid EXCEPT !.status = status]
           new == [rep EXCEPT !.sent = ref]
<1>1. worker' = new
  BY DEF Answered
<1>2. worker \in WorkerState /\ ref \in Reference
  BY WorkerFacts
<1>3. mid \in WorkerState /\ mid.pc = "store" /\ mid.job = worker.job
  BY <1>2 DEF WorkerState
<1> HIDE DEF mid
<1>4. rep \in WorkerState /\ rep.pc = "store" /\ rep.job = worker.job
      /\ rep.status = status
  BY <1>3 DEF WorkerState
<1> HIDE DEF rep, ref
<1>5. new \in WorkerState /\ new.pc = "store" /\ new.job = worker.job
      /\ new.status = status /\ new.sent = ref
  BY <1>2, <1>4 DEF WorkerState
<1> QED
  BY <1>1, <1>5 DEF ref

LEMMA MissCredentialsFacts ==
    ASSUME TypeInv, MissCredentials PROVE Answering /\ TypeInv'
<1> DEFINE mid == [worker EXCEPT !.pc = "store"]
           new == [mid EXCEPT !.status = "error"]
<1>1. /\ worker.pc = "transfer" /\ worker' = new
      /\ UNCHANGED <<storingVars, jobs, jobsInProgress, bank, unchangedByWorker>>
  BY DEF MissCredentials
<1>2. mid \in WorkerState /\ mid.pc = "store" /\ mid.job = worker.job
      /\ mid.sent = worker.sent
  BY DEF TypeInv, TypeOK, WorkerState
<1> HIDE DEF mid
<1>3. new \in WorkerState /\ new.pc = "store" /\ new.job = worker.job
      /\ new.sent = worker.sent /\ new.status = "error"
  BY <1>2 DEF WorkerState, TransactionStatus
<1> HIDE DEF new
<1>4. Answering
  BY <1>1, <1>3 DEF Answering
<1> QED
  BY <1>1, <1>3, <1>4, AnsweringKeepsType DEF TypeInv, TypeOK, BankState

LEMMA CreditTransferFacts ==
    ASSUME TypeInv, CreditTransfer PROVE Answering /\ TypeInv'
<1>1. PICK outcome \in BankState, heard \in BOOLEAN :
        /\ bank' = [bank EXCEPT ![WorkerReference] = outcome]
        /\ Answered(IF outcome = "paid" /\ heard THEN "success" ELSE "error")
  BY DEF CreditTransfer, BankState
<1>2. /\ worker.pc = "transfer" /\ bank[WorkerReference] = "unknown"
      /\ UNCHANGED <<storingVars, jobs, jobsInProgress, unchangedByWorker>>
  BY DEF CreditTransfer
<1>3. WorkerReference \in Reference
  BY <1>2, WorkerFacts DEF TypeInv
<1>4. PICK status \in TransactionStatus :
        Answered(status) /\ (status = "success" => outcome = "paid")
  BY <1>1 DEF TransactionStatus
<1>5. /\ worker' \in WorkerState
      /\ worker'.pc = "store" /\ worker'.job = worker.job
      /\ worker'.status = status /\ worker'.sent = WorkerReference
  BY <1>2, <1>4, AnsweredFacts DEF TypeInv
<1>6. /\ bank' \in [Reference -> BankState] /\ bank'[WorkerReference] = outcome
      /\ \A ref \in Reference : ref # WorkerReference => bank'[ref] = bank[ref]
  BY <1>1, <1>3 DEF TypeInv, TypeOK, BankState
<1>7. Answering
  BY <1>2, <1>4, <1>5, <1>6 DEF Answering
<1> QED
  BY <1>5, <1>6, <1>7, AnsweringKeepsType

LEMMA CreditTransferDuplicatedFacts ==
    ASSUME TypeInv, CreditTransferDuplicated PROVE Answering /\ TypeInv'
<1>1. /\ worker.pc = "transfer"
      /\ worker' = [worker EXCEPT !.pc = "query"] \/ Answered("error")
      /\ UNCHANGED <<storingVars, jobs, jobsInProgress, bank, unchangedByWorker>>
  BY DEF CreditTransferDuplicated, DuplicateIs
<1>2. bank' \in [Reference -> BankState]
  BY <1>1 DEF TypeInv, TypeOK, BankState
<1>3. CASE worker' = [worker EXCEPT !.pc = "query"]
  <2>1. WorkerTo("query")
    BY <1>3, WorkerGoes DEF TypeInv
  <2>2. Answering
    BY <1>1, <2>1 DEF Answering, WorkerTo
  <2> QED
    BY <1>2, <2>1, <2>2, AnsweringKeepsType DEF WorkerTo
<1>4. CASE Answered("error")
  <2>1. /\ worker' \in WorkerState
        /\ worker'.pc = "store" /\ worker'.job = worker.job
        /\ worker'.status = "error" /\ worker'.sent = WorkerReference
    BY <1>1, <1>4, AnsweredFacts DEF TypeInv, TransactionStatus
  <2>2. Answering
    BY <1>1, <2>1 DEF Answering
  <2> QED
    BY <1>2, <2>1, <2>2, AnsweringKeepsType
<1> QED
  BY <1>1, <1>3, <1>4

Failing ==
    /\ worker.pc = "query" /\ worker' = IdleWorker
    /\ JobMoves(worker.job, "failed")
    /\ UNCHANGED <<storingVars, jobsInProgress, bank, unchangedByWorker>>

LEMMA GetTransactionStatusFacts ==
    ASSUME TypeInv, GetTransactionStatus
    PROVE  (Answering \/ Failing) /\ TypeInv'
<1>1. /\ worker.pc = "query"
      /\ UNCHANGED <<storingVars, bank, unchangedByWorker>>
      /\ \/ /\ \/ /\ bank[WorkerReference] = "paid"
                  /\ Answered("success")
               \/ Answered("error")
            /\ UNCHANGED <<jobs, jobsInProgress>>
         \/ FailJob(jobsInProgress)
  BY DEF GetTransactionStatus, GetTransactionStatusWith
<1>2. bank' \in [Reference -> BankState]
  BY <1>1 DEF TypeInv, TypeOK, BankState
<1>3. ASSUME NEW status \in {"success", "error"}, Answered(status),
             status = "success" => bank[WorkerReference] = "paid",
             UNCHANGED <<jobs, jobsInProgress>>
      PROVE  Answering /\ TypeInv'
  <2>1. /\ worker' \in WorkerState
        /\ worker'.pc = "store" /\ worker'.job = worker.job
        /\ worker'.status = status /\ worker'.sent = WorkerReference
    BY <1>1, <1>3, AnsweredFacts DEF TypeInv, TransactionStatus
  <2>2. Answering
    BY <1>1, <1>3, <2>1 DEF Answering
  <2> QED
    BY <1>2, <2>1, <2>2, AnsweringKeepsType
<1>4. ASSUME FailJob(jobsInProgress)
      PROVE  Failing /\ TypeInv'
  <2>1. worker.job \in DOMAIN jobs
    BY <1>1, WorkerFacts DEF TypeInv
  <2>2. JobMoves(worker.job, "failed")
    BY <1>4, <2>1, JobStateChanges DEF FailJob, TypeInv, JobState
  <2>3. Failing
    BY <1>1, <1>4, <2>2 DEF Failing, FailJob
  <2>4. StoringTypeOK'
    BY <1>1, StoringUnchanged DEF TypeInv, TypeOK
  <2>5. TypeInv'
    BY <1>1, <1>2, <1>4, <2>2, <2>4, IdleWorkerType, WorkerKeepsType
       DEF FailJob, JobMoves, unchangedByWorker, storingVars, storeVars
  <2> QED
    BY <2>3, <2>5
<1> QED
  BY <1>1, <1>3, <1>4

BeginningToStore ==
    /\ worker.pc = "store" /\ WorkerTo("storing")
    /\ storing[Worker].pc = "idle" /\ storing'[Worker].pc = "save"
    /\ storing'[Worker].key = jobs[worker.job].key
    /\ storing'[Worker].status = worker.status
    /\ UNCHANGED <<storeVars, jobs, jobsInProgress, bank, unchangedByWorker>>

LEMMA StoreTransactionResultFacts ==
    ASSUME TypeInv, StoreTransactionResult
    PROVE  BeginningToStore /\ TypeInv'
<1>1. /\ worker.pc = "store"
      /\ BeginStoring(Worker, jobs[worker.job].key, worker.status, FALSE)
      /\ worker' = [worker EXCEPT !.pc = "storing"]
      /\ UNCHANGED <<jobs, jobsInProgress, bank, unchangedByWorker>>
  BY DEF StoreTransactionResult
<1>2. /\ jobs[worker.job].key \in Key /\ worker.status \in TransactionStatus
      /\ worker.job \in DOMAIN jobs
  BY <1>1, WorkerFacts DEF TypeInv
<1>3. /\ StoringTypeOK'
      /\ storing[Worker].pc = "idle" /\ storing'[Worker].pc = "save"
      /\ storing'[Worker].key = jobs[worker.job].key
      /\ storing'[Worker].status = worker.status
  BY <1>1, <1>2, BeginStoringKeepsType, WorkerIsStorer DEF TypeInv, TypeOK
<1>4. UNCHANGED storeVars
  BY <1>1 DEF BeginStoring, BeginStoringAt
<1>5. WorkerTo("storing")
  BY <1>1, WorkerGoes DEF TypeInv
<1>6. TypeInv'
  BY <1>1, <1>2, <1>3, <1>4, <1>5, JobsUnchanged, WorkerKeepsType
     DEF TypeInv, TypeOK, WorkerTo, unchangedByWorker, storeVars, BankState
<1> QED
  BY <1>1, <1>3, <1>4, <1>5, <1>6 DEF BeginningToStore

\* One statement of storeTransactionUpdateStatus.
StoringOnly ==
    /\ storing[Worker].pc \notin {"idle", "stored"}
    /\ storing'[Worker].pc # "idle"
    /\ OnlyStorer(Worker)
    /\ \/ SavedBy(Worker) /\ references' = Append(references, worker.sent)
          /\ storing'[Worker].pc \in {"link", "count"}
       \/ PublishedBy(Worker) /\ references' = references
       \/ BesidesTransactions(Worker) /\ references' = references
    /\ UNCHANGED <<run, jobs, jobsInProgress, worker, bank, crashes>>

LEMMA StoreStepFacts ==
    ASSUME TypeInv, StoreStep PROVE StoringOnly /\ TypeInv'
<1>1. /\ StoringStep(Worker)
      /\ references' = IF Len(transactions') > Len(transactions)
                       THEN Append(references, worker.sent) ELSE references
      /\ UNCHANGED <<run, jobs, jobsInProgress, worker, bank, crashes>>
  BY DEF StoreStep
<1>2. /\ StoringTypeOK' /\ OnlyStorer(Worker)
      /\ \/ SavedBy(Worker) /\ storing'[Worker].pc \in {"link", "count"}
         \/ PublishedBy(Worker)
         \/ BesidesTransactions(Worker)
  BY <1>1, StoringStepKeeps, WorkerIsStorer DEF TypeInv, TypeOK
<1>3. Len(transactions) \in Nat
  BY DEF TypeInv, TypeOK, StoringTypeOK, StoreTypeOK
<1>4. CASE SavedBy(Worker) /\ storing'[Worker].pc \in {"link", "count"}
  <2>1. references' = Append(references, worker.sent)
    BY <1>1, <1>3, <1>4 DEF SavedBy
  <2>2. StoringOnly
    BY <1>1, <1>2, <1>4, <2>1 DEF StoringOnly, SavedBy
  <2>3. /\ references' \in Seq(Reference \cup {NoReference})
        /\ Len(references') = Len(transactions')
    <3>1. worker.sent \in Reference \cup {NoReference}
      BY DEF TypeInv, TypeOK, WorkerState
    <3>2. references \in Seq(Reference \cup {NoReference})
          /\ Len(references) = Len(transactions)
      BY DEF TypeInv, TypeOK
    <3> QED
      BY <1>4, <2>1, <3>1, <3>2, AppendProperties DEF SavedBy
  <2>4. RunTyped'
    BY <1>1, <1>3, <1>4 DEF TypeInv, RunTyped, SavedBy
  <2> QED
    BY <1>1, <1>2, <2>2, <2>3, <2>4 DEF TypeInv, TypeOK
<1>5. CASE PublishedBy(Worker) \/ BesidesTransactions(Worker)
  <2>1. references' = references /\ transactions' = transactions
    BY <1>1, <1>3, <1>5 DEF PublishedBy, BesidesTransactions
  <2>2. StoringOnly
    BY <1>1, <1>2, <1>5, <2>1 DEF StoringOnly, PublishedBy, BesidesTransactions
  <2>3. TypeInv'
    BY <1>1, <1>2, <2>1 DEF TypeInv, TypeOK, RunTyped
  <2> QED
    BY <2>2, <2>3
<1> QED
  BY <1>2, <1>4, <1>5

EndingToStore ==
    /\ worker.pc = "storing" /\ WorkerTo("remove")
    /\ storing[Worker].pc = "stored" /\ storing'[Worker].pc = "idle"
    /\ UNCHANGED <<storeVars, jobs, jobsInProgress, bank, unchangedByWorker>>

LEMMA TransactionResultStoredFacts ==
    ASSUME TypeInv, TransactionResultStored
    PROVE  EndingToStore /\ TypeInv'
<1>1. /\ worker.pc = "storing" /\ EndStoring(Worker)
      /\ worker' = [worker EXCEPT !.pc = "remove"]
      /\ UNCHANGED <<jobs, jobsInProgress, bank, unchangedByWorker>>
  BY DEF TransactionResultStored
<1>2. /\ StoringTypeOK'
      /\ storing[Worker].pc = "stored" /\ storing'[Worker].pc = "idle"
  BY <1>1, EndStoringKeepsType, WorkerIsStorer DEF TypeInv, TypeOK
<1>3. UNCHANGED storeVars
  BY <1>1 DEF EndStoring
<1>4. WorkerTo("remove") /\ worker.job \in DOMAIN jobs
  BY <1>1, WorkerGoes, WorkerFacts DEF TypeInv
<1>5. TypeInv'
  BY <1>1, <1>2, <1>3, <1>4, JobsUnchanged, WorkerKeepsType
     DEF TypeInv, TypeOK, WorkerTo, unchangedByWorker, storeVars, BankState
<1> QED
  BY <1>1, <1>2, <1>3, <1>4, <1>5 DEF EndingToStore

Removing ==
    /\ worker.pc = "remove" /\ WorkerTo("complete")
    /\ jobsInProgress' = jobsInProgress \ {worker.job}
    /\ UNCHANGED <<storingVars, jobs, bank, unchangedByWorker>>

LEMMA RemoveFromJobsInProgressFacts ==
    ASSUME TypeInv, RemoveFromJobsInProgress
    PROVE  Removing /\ TypeInv'
<1>1. /\ worker.pc = "remove"
      /\ worker' = [worker EXCEPT !.pc = "complete"]
      /\ jobsInProgress' = jobsInProgress \ {worker.job}
      /\ UNCHANGED <<storingVars, jobs, bank, unchangedByWorker>>
  BY DEF RemoveFromJobsInProgress
<1>2. WorkerTo("complete") /\ worker.job \in DOMAIN jobs
  BY <1>1, WorkerGoes, WorkerFacts DEF TypeInv
<1>3. StoringTypeOK'
  BY <1>1, StoringUnchanged DEF TypeInv, TypeOK
<1>4. TypeInv'
  BY <1>1, <1>2, <1>3, JobsUnchanged, WorkerKeepsType
     DEF TypeInv, TypeOK, WorkerTo, unchangedByWorker, storingVars, storeVars, BankState
<1> QED
  BY <1>1, <1>2, <1>4 DEF Removing

Completing ==
    /\ worker.pc = "complete" /\ worker' = IdleWorker
    /\ JobMoves(worker.job, "completed")
    /\ UNCHANGED <<storingVars, jobsInProgress, bank, unchangedByWorker>>

LEMMA CompleteJobFacts ==
    ASSUME TypeInv, CompleteJob PROVE Completing /\ TypeInv'
<1>1. /\ worker.pc = "complete" /\ worker' = IdleWorker
      /\ jobs' = [jobs EXCEPT ![worker.job].state = "completed"]
      /\ UNCHANGED <<storingVars, jobsInProgress, bank, unchangedByWorker>>
  BY DEF CompleteJob
<1>2. worker.job \in DOMAIN jobs
  BY <1>1, WorkerFacts DEF TypeInv
<1>3. JobMoves(worker.job, "completed")
  BY <1>1, <1>2, JobStateChanges DEF TypeInv, JobState
<1>4. StoringTypeOK'
  BY <1>1, StoringUnchanged DEF TypeInv, TypeOK
<1>5. TypeInv'
  BY <1>1, <1>3, <1>4, IdleWorkerType, WorkerKeepsType
     DEF JobMoves, TypeInv, TypeOK, unchangedByWorker, storingVars, storeVars, BankState
<1> QED
  BY <1>1, <1>3, <1>5 DEF Completing

-----------------------------------------------------------------------------
(* Crashes and the step as a whole.                                        *)

Crashing ==
    /\ worker.pc = "complete" => LateCrash
    /\ JobsKept /\ Len(jobs') = Len(jobs) /\ DOMAIN jobs' = DOMAIN jobs
    /\ \A j \in DOMAIN jobs : jobs'[j].state =
         IF jobs[j].state = "active" THEN "stalled" ELSE jobs[j].state
    /\ worker' = IdleWorker
    /\ storing'[Worker].pc = "idle"
    /\ run'.pc # "adding"
    /\ crashes \in Nat /\ crashes' = crashes + 1
    /\ UNCHANGED <<storeVars, jobsInProgress, references, bank>>

LEMMA CrashFacts ==
    ASSUME TypeInv, Crash PROVE Crashing /\ TypeInv'
<1>1. /\ crashes < MaxCrashes /\ crashes' = crashes + 1
      /\ worker.pc = "complete" => LateCrash
      /\ run' = IF run.pc = "adding" THEN [IdleRun EXCEPT !.pc = "lost"] ELSE run
      /\ jobs' = [j \in DOMAIN jobs |->
           IF jobs[j].state = "active" THEN [jobs[j] EXCEPT !.state = "stalled"]
                                       ELSE jobs[j]]
      /\ worker' = IdleWorker
      /\ StopStoring
      /\ UNCHANGED <<storeVars, linked, statusEvents, jobsInProgress, references,
                     bank>>
  BY DEF Crash
<1>2. /\ StoringTypeOK' /\ storing'[Worker].pc = "idle"
  BY <1>1, StopStoringKeepsType, WorkerIsStorer DEF TypeInv, TypeOK
<1>3. /\ JobsKept /\ Len(jobs') = Len(jobs) /\ DOMAIN jobs' = DOMAIN jobs
      /\ \A j \in DOMAIN jobs : jobs'[j].state =
           IF jobs[j].state = "active" THEN "stalled" ELSE jobs[j].state
  <2>1. /\ jobs \in Seq(Job) /\ Len(jobs) \in Nat /\ Len(jobs) <= MaxJobs
        /\ DOMAIN jobs = 1..Len(jobs)
    BY DEF TypeInv, TypeOK
  <2>2. ASSUME NEW j \in 1..Len(jobs)
        PROVE  /\ jobs'[j] \in Job
               /\ jobs'[j].key = jobs[j].key
               /\ jobs'[j].reference = jobs[j].reference
               /\ jobs'[j].state =
                    IF jobs[j].state = "active" THEN "stalled" ELSE jobs[j].state
    <3>1. jobs[j] \in Job
      BY <2>1
    <3>2. jobs'[j] = IF jobs[j].state = "active" THEN [jobs[j] EXCEPT !.state = "stalled"]
                                                ELSE jobs[j]
      BY <1>1, <2>1
    <3> QED
      BY <3>1, <3>2 DEF Job
  <2>3. jobs' \in Seq(Job) /\ Len(jobs') = Len(jobs)
    <3>1. jobs' \in [1..Len(jobs) -> Job]
      BY <1>1, <2>1, <2>2
    <3> QED
      BY <2>1, <3>1
  <2> QED
    BY <2>1, <2>2, <2>3 DEF JobsKept
<1>4. run' \in Run /\ run'.pc # "adding"
      /\ \A r \in Registrations : run'.transactionId[r] \in 0..Len(transactions)
  <2>1. Len(transactions) \in Nat
    BY DEF TypeInv, TypeOK, StoringTypeOK, StoreTypeOK
  <2>2. CASE run.pc = "adding"
    <3>1. run' = [IdleRun EXCEPT !.pc = "lost"]
      BY <1>1, <2>2
    <3>2. run' \in Run /\ run'.pc = "lost" /\ run'.transactionId = IdleRun.transactionId
      BY <3>1, IdleRunType DEF Run
    <3> QED
      BY <2>1, <3>2, IdleRunType
  <2>3. CASE run.pc # "adding"
    BY <1>1, <2>3 DEF TypeInv, TypeOK, RunTyped
  <2> QED
    BY <2>2, <2>3
<1>5. RunTyped'
  BY <1>1, <1>4 DEF RunTyped, storeVars
<1>6. crashes' \in 0..MaxCrashes /\ crashes \in Nat
  BY <1>1, BankBoundsAssumption DEF TypeInv, TypeOK
<1>7. TypeOK'
  BY <1>1, <1>2, <1>3, <1>4, <1>6, IdleWorkerType
     DEF TypeInv, TypeOK, JobsKept, storeVars
<1> QED
  BY <1>1, <1>2, <1>3, <1>4, <1>5, <1>6, <1>7 DEF Crashing, TypeInv

Recovering(j) ==
    /\ jobs[j].state = "stalled"
    /\ \E state \in {"queued", "failed"} : JobMoves(j, state)
    /\ UNCHANGED <<storingVars, run, jobsInProgress, worker, references, bank, crashes>>

LEMMA RecoverStalledJobFacts ==
    ASSUME TypeInv, NEW j \in Reference, RecoverStalledJob(j)
    PROVE  j \in DOMAIN jobs /\ Recovering(j) /\ TypeInv'
<1> DEFINE state == IF jobs[j].stalls < MaxStalls THEN "queued" ELSE "failed"
           stalls == jobs[j].stalls + 1
           mid == [jobs[j] EXCEPT !.stalls = stalls]
           job == [mid EXCEPT !.state = state]
<1>1. /\ j \in DOMAIN jobs /\ jobs[j].state = "stalled"
      /\ UNCHANGED <<storingVars, run, jobsInProgress, worker, references, bank,
                     crashes>>
  BY DEF RecoverStalledJob
<1>2. jobs[j] \in Job /\ jobs[j].stalls \in Nat
  BY <1>1, JobFacts DEF TypeInv
<1>3. jobs' = [jobs EXCEPT ![j] = job]
  BY <1>1, <1>2 DEF RecoverStalledJob, Job
<1>4. stalls \in Nat /\ state \in {"queued", "failed"}
  BY <1>2
<1> HIDE DEF stalls, state
<1>5. mid \in Job /\ mid.key = jobs[j].key /\ mid.reference = jobs[j].reference
  BY <1>2, <1>4 DEF Job
<1> HIDE DEF mid
<1>6. /\ job \in Job /\ job.key = jobs[j].key
      /\ job.reference = jobs[j].reference /\ job.state = state
  BY <1>4, <1>5 DEF Job
<1> HIDE DEF job
<1>7. JobMoves(j, state)
  BY <1>1, <1>3, <1>6, JobReplaced DEF TypeInv
<1>8. TypeInv'
  <2>1. StoringTypeOK'
    BY <1>1, StoringUnchanged DEF TypeInv, TypeOK
  <2> QED
    BY <1>1, <1>7, <2>1, WorkerKeepsType
       DEF JobMoves, TypeInv, TypeOK, storingVars, storeVars, BankState
<1> QED
  BY <1>1, <1>4, <1>7, <1>8 DEF Recovering

\* A run starts: with registrations never paid, or with failed ones, of each
\* of which it notes the newest transaction if that has failed.
Starting(p, chosen, transactionId) ==
    /\ RunOnly /\ run.pc = "idle" /\ jobsInProgress = {}
    /\ run'.pc = "adding" /\ run'.payment = p /\ run'.todo = chosen
    /\ run'.transactionId = transactionId
    /\ \/ \A r \in chosen : latestTransactions[<<r, p>>] = 0 /\ transactionId[r] = 0
       \/ /\ \A r \in chosen :
               IF NewestTransactionFailed(<<r, p>>)
               THEN transactionId[r] \in 1..Len(transactions)
                    /\ KeyOf(transactionId[r]) = <<r, p>>
               ELSE transactionId[r] = 0
          /\ \/ chosen \subseteq FailedRegistrations(p)
             \/ \A r \in chosen : NewestTransactionFailed(<<r, p>>)

LEMMA PostPaymentFacts ==
    ASSUME TypeInv, NEW p \in Payments, PostPayment(p)
    PROVE  /\ TypeInv'
           /\ \E chosen \in SUBSET Registrations :
                \E transactionId : Starting(p, chosen, transactionId)
<1>1. PICK chosen \in SUBSET PayableRegistrations(p) :
        StartRun(p, chosen, IdleRun.transactionId)
  BY DEF PostPayment
<1>2. /\ chosen \in SUBSET Registrations
      /\ \A r \in chosen : latestTransactions[<<r, p>>] = 0
  BY DEF PayableRegistrations, NoTransaction
<1>3. Len(transactions) \in Nat
  BY DEF TypeInv, TypeOK, StoringTypeOK, StoreTypeOK
<1>4. IdleRun.transactionId \in [Registrations -> 0..Len(transactions)]
  BY <1>3, IdleRunType DEF IdleRun
<1>5. Starting(p, chosen, IdleRun.transactionId) /\ TypeInv'
  BY <1>1, <1>2, <1>4, IdleRunType, StartRunFacts DEF Starting
<1> QED
  BY <1>2, <1>5

LEMMA RetryPaymentFacts ==
    ASSUME TypeInv, NEW p \in Payments, RetryPayment(p)
    PROVE  /\ TypeInv'
           /\ \E chosen \in SUBSET Registrations :
                \E transactionId : Starting(p, chosen, transactionId)
<1>1. PICK chosen \in SUBSET Registrations :
        /\ StartRun(p, chosen, FailedTransactions(p, chosen))
        /\ \/ chosen \subseteq FailedRegistrations(p)
           \/ \A r \in chosen : NewestTransactionFailed(<<r, p>>)
  <2>1. FailedRegistrations(p) \subseteq Registrations
    BY DEF FailedRegistrations
  <2> QED
    BY <2>1 DEF RetryPayment
<1>2. /\ FailedTransactions(p, chosen) \in [Registrations -> 0..Len(transactions)]
      /\ \A r \in chosen :
           IF NewestTransactionFailed(<<r, p>>)
           THEN FailedTransactions(p, chosen)[r] \in 1..Len(transactions)
                /\ KeyOf(FailedTransactions(p, chosen)[r]) = <<r, p>>
           ELSE FailedTransactions(p, chosen)[r] = 0
  BY FailedTransactionsFacts DEF TypeInv
<1>3. Starting(p, chosen, FailedTransactions(p, chosen)) /\ TypeInv'
  BY <1>1, <1>2, StartRunFacts DEF Starting
<1> QED
  BY <1>3

Adding(r) ==
    /\ run.pc = "adding"
    /\ \/ run.transactionId[r] = 0 /\ JobAdded(r, Len(jobs) + 1)
       \/ /\ run.transactionId[r] # 0 /\ KeptReference(r) \in Reference
          /\ JobAdded(r, KeptReference(r))

Idling ==
    /\ RunOnly /\ run' = IdleRun

LEMMA AddFirstAttemptFacts ==
    ASSUME TypeInv, NEW r \in Registrations, AddFirstAttempt(r)
    PROVE  r \in run.todo /\ Adding(r) /\ TypeInv'
<1>1. /\ run.pc = "adding" /\ r \in run.todo /\ run.transactionId[r] = 0
      /\ AddJob(<<r, run.payment>>, Len(jobs) + 1)
      /\ UNCHANGED unchangedByRun
  BY DEF AddFirstAttempt, NoTransaction
<1>2. Len(jobs) + 1 \in Reference
  <2>1. Cardinality(run.todo) >= 1 /\ Cardinality(run.todo) \in Nat
    BY <1>1, TodoIsFinite DEF TypeInv, TypeOK, Run
  <2>2. Len(jobs) + Cardinality(run.todo) <= MaxJobs /\ Len(jobs) \in Nat
    BY <1>1 DEF TypeInv, TypeOK, RunTyped
  <2> QED
    BY <2>1, <2>2, BankBoundsAssumption DEF Reference
<1>3. JobAdded(r, Len(jobs) + 1)
  BY <1>1, <1>2, AddJobFacts
<1> QED
  BY <1>1, <1>2, <1>3, JobAddedKeepsType DEF Adding

LEMMA AddRetryFacts ==
    ASSUME TypeInv, NEW r \in Registrations, AddRetry(r)
    PROVE  r \in run.todo /\ (Adding(r) \/ Idling) /\ TypeInv'
<1>1. /\ run.pc = "adding" /\ r \in run.todo /\ run.transactionId[r] # 0
      /\ \/ /\ KeptReference(r) # NoReference
            /\ AddJob(<<r, run.payment>>, KeptReference(r))
         \/ run' = IdleRun /\ UNCHANGED <<jobs, jobsInProgress>>
      /\ UNCHANGED unchangedByRun
  BY DEF AddRetry, AddRetryWith, NoTransaction
<1>2. KeptReference(r) \in Reference \cup {NoReference}
  <2>1. /\ run.transactionId[r] \in 1..Len(references)
        /\ references \in Seq(Reference \cup {NoReference})
    BY <1>1 DEF TypeInv, TypeOK, RunTyped, StoringTypeOK, StoreTypeOK
  <2> QED
    BY <2>1 DEF KeptReference
<1>3. CASE /\ KeptReference(r) # NoReference
           /\ AddJob(<<r, run.payment>>, KeptReference(r))
  <2>1. JobAdded(r, KeptReference(r))
    BY <1>1, <1>2, <1>3, AddJobFacts
  <2> QED
    BY <1>1, <1>2, <1>3, <2>1, JobAddedKeepsType DEF Adding
<1>4. CASE run' = IdleRun /\ UNCHANGED <<jobs, jobsInProgress>>
  BY <1>1, <1>4, IdleRunKeepsType DEF unchangedByRun, Idling
<1> QED
  BY <1>1, <1>3, <1>4

\* The steps as the invariants see them.
Stepping ==
    \/ \E p \in Payments : \E chosen \in SUBSET Registrations :
         \E transactionId : Starting(p, chosen, transactionId)
    \/ \E r \in run.todo : Adding(r)
    \/ Idling
    \/ \E j \in DOMAIN jobs : Taking(j) \/ Recovering(j)
    \/ Answering \/ Failing
    \/ BeginningToStore \/ StoringOnly \/ EndingToStore
    \/ Removing \/ Completing
    \/ Crashing
    \/ UNCHANGED vars

\* Which steps touch the worker, and which the tables of transactions.
LEMMA WorkerCases ==
    ASSUME Stepping
    PROVE  \/ UNCHANGED worker
           \/ \E j \in DOMAIN jobs : Taking(j)
           \/ Answering \/ BeginningToStore \/ EndingToStore \/ Removing
           \/ worker' = IdleWorker
BY DEF Stepping, Starting, RunOnly, Adding, JobAdded, unchangedByRun, Idling,
       Recovering, Failing, StoringOnly, Completing, Crashing, vars

LEMMA TransactionsCases ==
    ASSUME Stepping
    PROVE  StoringOnly \/ UNCHANGED <<transactions, latestTransactions, references>>
BY DEF Stepping, Starting, RunOnly, Adding, JobAdded, unchangedByRun, Idling,
       Taking, Recovering, Answering, Failing, BeginningToStore, EndingToStore,
       Removing, Completing, Crashing, unchangedByWorker, vars, storingVars, storeVars

LEMMA NextFacts == TypeInv /\ [Next]_vars => TypeInv' /\ Stepping
<1> SUFFICES ASSUME TypeInv, [Next]_vars PROVE TypeInv' /\ Stepping
  OBVIOUS
<1>1. ASSUME NEW p \in Payments, PostPayment(p) \/ RetryPayment(p)
      PROVE  TypeInv' /\ Stepping
  BY <1>1, PostPaymentFacts, RetryPaymentFacts DEF Stepping
<1>2. ASSUME NEW r \in Registrations, AddFirstAttempt(r) \/ AddRetry(r)
      PROVE  TypeInv' /\ Stepping
  BY <1>2, AddFirstAttemptFacts, AddRetryFacts DEF Stepping
<1>3. ASSUME FinishRun PROVE TypeInv' /\ Stepping
  BY <1>3, IdleRunKeepsType DEF FinishRun, unchangedByRun, Idling, Stepping
<1>4. ASSUME WorkerStep PROVE TypeInv' /\ Stepping
  <2>1. ASSUME NEW j \in Reference, TakeJob(j) PROVE TypeInv' /\ Stepping
    BY <2>1, TakeJobFacts DEF Stepping
  <2>2. ASSUME MissCredentials \/ CreditTransfer \/ CreditTransferDuplicated
               \/ GetTransactionStatus
        PROVE  TypeInv' /\ Stepping
    BY <2>2, MissCredentialsFacts, CreditTransferFacts, CreditTransferDuplicatedFacts,
       GetTransactionStatusFacts DEF Stepping
  <2>3. ASSUME StoreTransactionResult \/ StoreStep \/ TransactionResultStored
        PROVE  TypeInv' /\ Stepping
    BY <2>3, StoreTransactionResultFacts, StoreStepFacts,
       TransactionResultStoredFacts DEF Stepping
  <2>4. ASSUME RemoveFromJobsInProgress \/ CompleteJob PROVE TypeInv' /\ Stepping
    BY <2>4, RemoveFromJobsInProgressFacts, CompleteJobFacts DEF Stepping
  <2> QED
    BY <1>4, <2>1, <2>2, <2>3, <2>4 DEF WorkerStep
<1>5. ASSUME Crash PROVE TypeInv' /\ Stepping
  BY <1>5, CrashFacts DEF Stepping
<1>6. ASSUME NEW j \in Reference, RecoverStalledJob(j) PROVE TypeInv' /\ Stepping
  BY <1>6, RecoverStalledJobFacts DEF Stepping
<1>7. CASE UNCHANGED vars
  <2>1. StoringTypeOK'
    BY <1>7, StoringUnchanged DEF TypeInv, TypeOK, vars
  <2> QED
    BY <1>7, <2>1 DEF TypeInv, TypeOK, RunTyped, Stepping, vars, storingVars, storeVars
<1> QED
  BY <1>1, <1>2, <1>3, <1>4, <1>5, <1>6, <1>7 DEF Next

LEMMA TypeInit == Init => TypeInv
<1> SUFFICES ASSUME Init PROVE TypeInv
  OBVIOUS
<1>1. StoringTypeOK /\ transactions = << >>
  BY StoringInitType DEF Init, StoringInit, StoreInit
<1>2. worker \in WorkerState /\ worker.pc = "idle"
  BY IdleWorkerType DEF Init
<1>3. run \in Run /\ RunTyped
  BY <1>1, IdleRunType DEF Init, RunTyped, IdleRun
<1> QED
  BY <1>1, <1>2, <1>3, BankBoundsAssumption DEF Init, TypeInv, TypeOK

\* Every state has the types the module declares, whatever is retried, lost or
\* done again after a crash.
THEOREM TypeCorrect == Spec => []TypeOK
<1>1. TypeInv /\ [Next]_vars => TypeInv'
  BY NextFacts
<1>2. TypeInv => TypeOK
  BY DEF TypeInv
<1> QED
  BY <1>1, <1>2, TypeInit, PTL DEF Spec

-----------------------------------------------------------------------------
(* What only grows: jobs, transactions, what the bank paid, and what       *)
(* latest_transaction shows.                                               *)

Monotone ==
    /\ JobsKept
    /\ Len(transactions) \in Nat /\ Len(transactions') \in Nat
    /\ Len(transactions) <= Len(transactions')
    /\ DOMAIN transactions = 1..Len(transactions)
    /\ DOMAIN transactions' = 1..Len(transactions')
    /\ \A i \in 1..Len(transactions) : transactions'[i] = transactions[i]
    /\ \A ref \in Reference : bank[ref] = "paid" => bank'[ref] = "paid"
    /\ \A k \in Key : latestTransactions[k] # 0 => latestTransactions'[k] # 0

\* All but one kind of step leaves the tables of the transactions alone.
LEMMA TransactionsUnchanged ==
    ASSUME TypeInv, TypeInv', UNCHANGED <<transactions, latestTransactions>>,
           JobsKept, \A ref \in Reference : bank[ref] = "paid" => bank'[ref] = "paid"
    PROVE  Monotone
BY DEF TypeInv, TypeOK, StoringTypeOK, StoreTypeOK, Monotone

LEMMA StoringIsMonotone ==
    ASSUME TypeInv, TypeInv', StoringOnly PROVE Monotone
<1>1. JobsKept
  BY JobsUnchanged DEF TypeInv, StoringOnly
<1>2. /\ DOMAIN transactions = 1..Len(transactions) /\ Len(transactions) \in Nat
      /\ DOMAIN transactions' = 1..Len(transactions') /\ Len(transactions') \in Nat
      /\ latestTransactions \in [Key -> Nat]
  BY DEF TypeInv, TypeOK, StoringTypeOK, StoreTypeOK
<1>3. CASE SavedBy(Worker)
  BY <1>1, <1>2, <1>3 DEF SavedBy, StoringOnly, Monotone
<1>4. CASE PublishedBy(Worker)
  <2>1. storing[Worker].transaction \in 1..Len(transactions)
    BY <1>2, <1>4, WorkerIsStorer
       DEF PublishedBy, TypeInv, TypeOK, StoringTypeOK, StoringPc
  <2>2. storing[Worker].transaction # 0
    BY <1>2, <2>1
  <2> QED
    BY <1>1, <1>2, <1>4, <2>2 DEF PublishedBy, StoringOnly, Monotone
<1>5. CASE BesidesTransactions(Worker)
  BY <1>1, <1>5, TransactionsUnchanged DEF BesidesTransactions, StoringOnly
<1> QED
  BY <1>3, <1>4, <1>5 DEF StoringOnly

LEMMA StepIsMonotone == TypeInv /\ TypeInv' /\ Stepping => Monotone
<1> SUFFICES ASSUME TypeInv, TypeInv', Stepping PROVE Monotone
  OBVIOUS
<1>1. ASSUME UNCHANGED <<transactions, latestTransactions, bank>>, JobsKept
      PROVE  Monotone
  BY <1>1, TransactionsUnchanged
<1>2. ASSUME UNCHANGED <<transactions, latestTransactions, bank, jobs>>
      PROVE  Monotone
  BY <1>1, <1>2, JobsUnchanged DEF TypeInv
<1> USE DEF storingVars, storeVars
<1>3. ASSUME NEW p \in Payments, NEW chosen, NEW transactionId,
             Starting(p, chosen, transactionId)
      PROVE  Monotone
  BY <1>2, <1>3 DEF Starting, RunOnly
<1>4. ASSUME NEW r \in run.todo, Adding(r) PROVE Monotone
  BY <1>1, <1>4 DEF Adding, JobAdded, unchangedByRun
<1>5. ASSUME NEW j \in DOMAIN jobs, Taking(j) \/ Recovering(j) PROVE Monotone
  BY <1>1, <1>5 DEF Taking, Recovering, JobMoves
<1>6. ASSUME Answering PROVE Monotone
  <2>1. \A ref \in Reference : bank[ref] = "paid" => bank'[ref] = "paid"
    BY <1>6 DEF Answering
  <2> QED
    BY <1>6, <2>1, JobsUnchanged, TransactionsUnchanged DEF Answering, TypeInv
<1>7. ASSUME Failing \/ Completing PROVE Monotone
  BY <1>1, <1>7 DEF Failing, Completing, JobMoves
<1>8. ASSUME \/ Idling \/ BeginningToStore \/ EndingToStore \/ Removing
             \/ UNCHANGED vars
      PROVE  Monotone
  BY <1>2, <1>8 DEF Idling, RunOnly, BeginningToStore, EndingToStore, Removing, vars
<1>9. ASSUME Crashing PROVE Monotone
  BY <1>1, <1>9 DEF Crashing
<1> QED
  BY <1>3, <1>4, <1>5, <1>6, <1>7, <1>8, <1>9, StoringIsMonotone DEF Stepping

-----------------------------------------------------------------------------
(* What the worker stores.                                                 *)

\* The only storer stores the result of the job at hand, its transaction is
\* the newest of all until it is done, and then also the latest of its key.
StorerInv ==
    LET s == storing[Worker]
    IN  /\ s.pc # "idle" <=> worker.pc = "storing"
        /\ s.pc # "idle" => s.key = jobs[worker.job].key /\ s.status = worker.status
        /\ s.pc \notin {"idle", "save"} =>
             /\ s.transaction = Len(transactions) /\ s.transaction # 0
             /\ KeyOf(Len(transactions)) = s.key
        /\ s.pc = "stored" => latestTransactions[s.key] = Len(transactions)

\* latest_transaction shows a transaction of its own registration and payment.
LatestIsOwn ==
    \A k \in Key : latestTransactions[k] # 0 => KeyOf(latestTransactions[k]) = k

LEMMA StorerStep ==
    TypeInv /\ TypeInv' /\ StorerInv /\ Stepping => StorerInv'
<1> SUFFICES ASSUME TypeInv, TypeInv', StorerInv, Stepping PROVE StorerInv'
  OBVIOUS
<1>0. Monotone
  BY StepIsMonotone
<1>1. worker.pc # "idle" => worker.job \in DOMAIN jobs
  BY DEF TypeInv, TypeOK
<1>2. ASSUME UNCHANGED <<storing, transactions, latestTransactions>>, JobsKept,
             worker'.pc = "storing" <=> worker.pc = "storing",
             worker.pc = "storing" => worker' = worker
      PROVE  StorerInv'
  BY <1>1, <1>2 DEF StorerInv, JobsKept, KeyOf
<1> USE DEF storingVars, storeVars
<1>3. ASSUME NEW p \in Payments, NEW chosen, NEW transactionId,
             Starting(p, chosen, transactionId)
      PROVE  StorerInv'
  BY <1>0, <1>2, <1>3 DEF Starting, RunOnly, Monotone
<1>4. ASSUME NEW r \in run.todo, Adding(r) PROVE StorerInv'
  BY <1>0, <1>2, <1>4 DEF Adding, JobAdded, unchangedByRun, Monotone
<1>5. ASSUME NEW j \in DOMAIN jobs, Taking(j) \/ Recovering(j) PROVE StorerInv'
  BY <1>0, <1>2, <1>5 DEF Taking, Recovering, Monotone
<1>6. ASSUME Answering PROVE StorerInv'
  BY <1>0, <1>2, <1>6 DEF Answering, Monotone
<1>7. ASSUME Failing \/ Completing PROVE StorerInv'
  BY <1>0, <1>2, <1>7, IdleWorkerType DEF Failing, Completing, Monotone
<1>8. ASSUME Idling \/ Removing \/ UNCHANGED vars PROVE StorerInv'
  BY <1>0, <1>2, <1>8 DEF Idling, RunOnly, Removing, WorkerTo, vars, Monotone
<1>9. ASSUME BeginningToStore PROVE StorerInv'
  BY <1>9 DEF BeginningToStore, WorkerTo, StorerInv
<1>10. ASSUME EndingToStore PROVE StorerInv'
  BY <1>10 DEF EndingToStore, WorkerTo, StorerInv
<1>11. ASSUME Crashing PROVE StorerInv'
  BY <1>11, IdleWorkerType DEF Crashing, StorerInv
<1>12. ASSUME StoringOnly PROVE StorerInv'
  <2>1. /\ storing'[Worker].key = storing[Worker].key
        /\ storing'[Worker].status = storing[Worker].status
        /\ storing[Worker].pc # "idle" /\ storing'[Worker].pc # "idle"
        /\ UNCHANGED <<worker, jobs>>
    BY <1>12 DEF StoringOnly, OnlyStorer
  <2>2. Len(transactions) \in Nat
    BY <1>0 DEF Monotone
  <2>3. CASE SavedBy(Worker) /\ storing'[Worker].pc \in {"link", "count"}
    <3>1. Len(transactions') # 0 /\ Len(transactions') = Len(transactions) + 1
          /\ storing'[Worker].transaction = Len(transactions')
      BY <2>2, <2>3 DEF SavedBy
    <3>2. <<transactions'[Len(transactions')].registration,
            transactions'[Len(transactions')].payment>> = storing[Worker].key
      BY <2>3, <3>1 DEF SavedBy
    <3> QED
      BY <2>1, <2>3, <3>1, <3>2 DEF StorerInv, KeyOf
  <2>4. CASE PublishedBy(Worker)
    <3>1. storing[Worker].key \in Key
      BY StorerFacts, WorkerIsStorer DEF TypeInv, TypeOK
    <3>2. storing[Worker].transaction = Len(transactions)
          /\ KeyOf(Len(transactions)) = storing[Worker].key
          /\ storing[Worker].transaction # 0
      BY <2>4 DEF StorerInv, PublishedBy
    <3>3. latestTransactions'[storing[Worker].key] = Len(transactions)
      BY <2>4, <3>1, <3>2
         DEF PublishedBy, TypeInv, TypeOK, StoringTypeOK, StoreTypeOK
    <3> QED
      BY <2>1, <2>4, <3>2, <3>3 DEF StorerInv, PublishedBy, KeyOf
  <2>5. CASE BesidesTransactions(Worker)
    BY <2>1, <2>5 DEF StorerInv, BesidesTransactions, KeyOf
  <2> QED
    BY <1>12, <2>3, <2>4, <2>5 DEF StoringOnly
<1> QED
  BY <1>3, <1>4, <1>5, <1>6, <1>7, <1>8, <1>9, <1>10, <1>11, <1>12 DEF Stepping

LEMMA LatestIsOwnStep ==
    TypeInv /\ TypeInv' /\ StorerInv /\ LatestIsOwn /\ Stepping => LatestIsOwn'
<1> SUFFICES ASSUME TypeInv, TypeInv', StorerInv, LatestIsOwn, Stepping
             PROVE  LatestIsOwn'
  OBVIOUS
<1>0. Monotone
  BY StepIsMonotone
<1>1. \A k \in Key : latestTransactions[k] \in 0..Len(transactions)
  BY DEF TypeInv, TypeOK, StoringTypeOK, StoreTypeOK
<1>2. ASSUME UNCHANGED latestTransactions PROVE LatestIsOwn'
  <2>1. ASSUME NEW k \in Key, latestTransactions[k] # 0
        PROVE  transactions'[latestTransactions[k]] = transactions[latestTransactions[k]]
    BY <1>0, <1>1, <2>1 DEF Monotone
  <2> QED
    BY <1>2, <2>1 DEF LatestIsOwn, KeyOf
<1>3. ASSUME StoringOnly, PublishedBy(Worker) PROVE LatestIsOwn'
  <2>1. /\ KeyOf(storing[Worker].transaction) = storing[Worker].key
        /\ latestTransactions' = [latestTransactions EXCEPT ![storing[Worker].key] =
                                    storing[Worker].transaction]
        /\ transactions' = transactions
    BY <1>3 DEF PublishedBy, StorerInv
  <2>2. latestTransactions \in [Key -> Nat]
    BY DEF TypeInv, TypeOK, StoringTypeOK, StoreTypeOK
  <2> QED
    BY <2>1, <2>2 DEF LatestIsOwn, KeyOf
<1>4. (StoringOnly /\ PublishedBy(Worker)) \/ UNCHANGED latestTransactions
  BY TransactionsCases DEF StoringOnly, SavedBy, BesidesTransactions
<1> QED
  BY <1>2, <1>3, <1>4

-----------------------------------------------------------------------------
(* A reported success was paid.                                            *)

PaidInv ==
    /\ worker.pc \in {"store", "storing"} /\ worker.status = "success" =>
         bank[WorkerReference] = "paid"
    /\ \A i \in 1..Len(transactions) : transactions[i].status = "success" =>
         \E j \in DOMAIN jobs : /\ jobs[j].key = KeyOf(i)
                                /\ bank[jobs[j].reference] = "paid"

LEMMA PaidStep ==
    TypeInv /\ TypeInv' /\ StorerInv /\ PaidInv /\ Stepping => PaidInv'
<1> SUFFICES ASSUME TypeInv, TypeInv', StorerInv, PaidInv, Stepping PROVE PaidInv'
  OBVIOUS
<1>0. Monotone
  BY StepIsMonotone
<1>1. ASSUME NEW j \in DOMAIN jobs, bank[jobs[j].reference] = "paid"
      PROVE  /\ j \in DOMAIN jobs' /\ jobs'[j].key = jobs[j].key
             /\ bank'[jobs'[j].reference] = "paid"
  BY <1>0, <1>1, JobFacts DEF Monotone, JobsKept, TypeInv
<1>2. ASSUME worker.pc # "idle", worker'.job = worker.job,
             bank[WorkerReference] = "paid" \/ bank'[WorkerReference] = "paid"
      PROVE  bank'[WorkerReference'] = "paid"
  <2>1. WorkerReference' = WorkerReference /\ WorkerReference \in Reference
    BY <1>0, <1>2, WorkerFacts DEF WorkerReference, Monotone, JobsKept, TypeInv
  <2> QED
    BY <1>0, <1>2, <2>1 DEF Monotone
<1>3. worker'.pc \in {"store", "storing"} /\ worker'.status = "success" =>
        bank'[WorkerReference'] = "paid"
  <2>1. CASE Answering
    BY <1>2, <2>1 DEF Answering
  <2>2. CASE BeginningToStore
    BY <1>2, <2>2 DEF BeginningToStore, WorkerTo, PaidInv
  <2>3. CASE UNCHANGED worker
    BY <1>2, <2>3 DEF PaidInv
  <2>4. CASE worker'.pc \notin {"store", "storing"}
    BY <2>4
  <2>5. UNCHANGED worker \/ worker'.pc \notin {"store", "storing"}
        \/ Answering \/ BeginningToStore
    BY WorkerCases, IdleWorkerType DEF Taking, EndingToStore, WorkerTo, Removing
  <2> QED
    BY <2>1, <2>2, <2>3, <2>4, <2>5
<1>4. ASSUME NEW i \in 1..Len(transactions), transactions'[i].status = "success"
      PROVE  \E j \in DOMAIN jobs' : /\ jobs'[j].key = KeyOf(i)'
                                    /\ bank'[jobs'[j].reference] = "paid"
  <2>1. transactions'[i] = transactions[i] /\ KeyOf(i)' = KeyOf(i)
    BY <1>0 DEF Monotone, KeyOf
  <2> QED
    BY <1>1, <1>4, <2>1 DEF PaidInv
<1>5. CASE StoringOnly /\ SavedBy(Worker)
  <2>0. PICK n \in Nat : n = Len(transactions) + 1
    BY <1>0 DEF Monotone
  <2>1. worker.pc = "storing" /\ worker.job \in DOMAIN jobs
    BY <1>5, WorkerFacts DEF StorerInv, SavedBy, TypeInv
  <2>2. /\ Len(transactions') = n
        /\ KeyOf(n)' = jobs[worker.job].key
        /\ transactions'[n].status = worker.status
    BY <1>5, <2>0 DEF StorerInv, SavedBy, KeyOf
  <2>3. worker.status = "success" => bank[jobs[worker.job].reference] = "paid"
    BY <2>1 DEF PaidInv, WorkerReference
  <2>4. transactions'[n].status = "success" =>
          \E j \in DOMAIN jobs' : /\ jobs'[j].key = KeyOf(n)'
                                 /\ bank'[jobs'[j].reference] = "paid"
    BY <1>1, <2>1, <2>2, <2>3
  <2>5. \A i \in 1..Len(transactions') : i \in 1..Len(transactions) \/ i = n
    BY <1>0, <2>0, <2>2 DEF Monotone
  <2> QED
    BY <1>3, <1>4, <2>4, <2>5 DEF PaidInv
<1>6. CASE UNCHANGED transactions
  BY <1>3, <1>4, <1>6 DEF PaidInv
<1>7. (StoringOnly /\ SavedBy(Worker)) \/ UNCHANGED transactions
  BY TransactionsCases DEF StoringOnly, PublishedBy, BesidesTransactions
<1> QED
  BY <1>5, <1>6, <1>7

LEMMA StorerInit == Init => StorerInv /\ LatestIsOwn /\ PaidInv
<1> SUFFICES ASSUME Init PROVE StorerInv /\ LatestIsOwn /\ PaidInv
  OBVIOUS
<1>1. /\ storing[Worker].pc = "idle" /\ worker.pc = "idle"
      /\ transactions = << >> /\ \A k \in Key : latestTransactions[k] = 0
  BY WorkerIsStorer, IdleWorkerType
     DEF Init, StoringInit, StoreInit, NotStoring, NoTransaction
<1> QED
  BY <1>1 DEF StorerInv, LatestIsOwn, PaidInv

StoredInv == TypeInv /\ StorerInv /\ LatestIsOwn /\ PaidInv

LEMMA StoredInit == Init => StoredInv
BY TypeInit, StorerInit DEF StoredInv

LEMMA StoredStep == StoredInv /\ [Next]_vars => StoredInv'
BY NextFacts, StorerStep, LatestIsOwnStep, PaidStep DEF StoredInv

\* A payment is reported successful only if the bank paid it: whatever answers
\* are lost, refused or inquired after, and wherever the service crashes.
THEOREM SuccessIsPaid == Spec => []SuccessMeansPaid
<1>1. ASSUME StoredInv PROVE SuccessMeansPaid
  <2> SUFFICES ASSUME NEW k \in Key, StatusOf(k) = "success" PROVE Paid(k) # {}
    BY DEF SuccessMeansPaid
  <2>1. /\ latestTransactions[k] \in 1..Len(transactions)
        /\ transactions[latestTransactions[k]].status = "success"
        /\ KeyOf(latestTransactions[k]) = k
    BY <1>1 DEF StatusOf, NoTransaction, StoredInv, TypeInv, TypeOK, StoringTypeOK,
                StoreTypeOK, LatestIsOwn
  <2>2. PICK j \in DOMAIN jobs : jobs[j].key = k /\ bank[jobs[j].reference] = "paid"
    BY <1>1, <2>1 DEF StoredInv, PaidInv
  <2> QED
    BY <2>2 DEF Paid
<1> QED
  BY <1>1, StoredInit, StoredStep, PTL DEF Spec

-----------------------------------------------------------------------------
(* References: a transaction keeps one of a job of its own, and jobs of    *)
(* different registrations or payments never share one.                    *)

ReferenceInv ==
    /\ worker.pc # "idle" => worker.sent \in {NoReference, WorkerReference}
    /\ \A i \in 1..Len(transactions) : references[i] # NoReference =>
         \E j \in DOMAIN jobs : /\ jobs[j].key = KeyOf(i)
                                /\ jobs[j].reference = references[i]

\* The failed transactions that a run retries are of their registrations.
RetryInv ==
    run.pc = "adding" => \A r \in run.todo :
        run.transactionId[r] # 0 => KeyOf(run.transactionId[r]) = <<r, run.payment>>

OwnReferences ==
    /\ \A j \in DOMAIN jobs : jobs[j].reference <= j
    /\ \A i, j \in DOMAIN jobs :
         jobs[i].reference = jobs[j].reference => jobs[i].key = jobs[j].key

LEMMA ReferencesKept ==
    ASSUME TypeInv, TypeInv', Stepping
    PROVE  /\ Len(references) = Len(transactions)
           /\ \A i \in 1..Len(transactions) : references'[i] = references[i]
<1>1. Len(references) = Len(transactions) /\ references \in Seq(Reference \cup {NoReference})
  BY DEF TypeInv, TypeOK
<1>2. CASE references' = Append(references, worker.sent)
  BY <1>1, <1>2
<1> QED
  BY <1>1, <1>2, TransactionsCases DEF StoringOnly

LEMMA ReferenceStep ==
    TypeInv /\ TypeInv' /\ StorerInv /\ ReferenceInv /\ Stepping => ReferenceInv'
<1> SUFFICES ASSUME TypeInv, TypeInv', StorerInv, ReferenceInv, Stepping
             PROVE  ReferenceInv'
  OBVIOUS
<1>0. Monotone
  BY StepIsMonotone
<1>1. worker.pc # "idle" /\ worker'.job = worker.job => WorkerReference' = WorkerReference
  BY <1>0, WorkerFacts DEF WorkerReference, Monotone, JobsKept, TypeInv
<1>2. worker'.pc # "idle" => worker'.sent \in {NoReference, WorkerReference'}
  <2>1. CASE UNCHANGED worker
    BY <1>1, <2>1 DEF ReferenceInv
  <2>2. CASE Answering
    BY <1>1, <2>2 DEF ReferenceInv, Answering
  <2>3. CASE worker.pc # "idle" /\ worker'.job = worker.job /\ worker'.sent = worker.sent
    BY <1>1, <2>3 DEF ReferenceInv
  <2>4. CASE worker'.pc = "idle" \/ worker'.sent = NoReference
    BY <2>4
  <2> QED
    BY <2>1, <2>2, <2>3, <2>4, WorkerCases, IdleWorkerType
       DEF Taking, BeginningToStore, EndingToStore, Removing, WorkerTo
<1>3. ASSUME NEW j \in DOMAIN jobs
      PROVE  /\ j \in DOMAIN jobs' /\ jobs'[j].key = jobs[j].key
             /\ jobs'[j].reference = jobs[j].reference
  BY <1>0 DEF Monotone, JobsKept
<1>4. ASSUME NEW i \in 1..Len(transactions), references'[i] # NoReference
      PROVE  \E j \in DOMAIN jobs' : /\ jobs'[j].key = KeyOf(i)'
                                    /\ jobs'[j].reference = references'[i]
  <2>1. references'[i] = references[i] /\ KeyOf(i)' = KeyOf(i)
    BY <1>0, ReferencesKept DEF Monotone, KeyOf
  <2> QED
    BY <1>3, <1>4, <2>1 DEF ReferenceInv
<1>5. CASE StoringOnly /\ SavedBy(Worker) /\ references' = Append(references, worker.sent)
  <2>0. PICK n \in Nat : n = Len(transactions) + 1
    BY <1>0 DEF Monotone
  <2>1. worker.pc = "storing" /\ worker.job \in DOMAIN jobs
    BY <1>5, WorkerFacts DEF StorerInv, SavedBy, TypeInv
  <2>2. Len(transactions') = n /\ KeyOf(n)' = jobs[worker.job].key
    BY <1>5, <2>0 DEF StorerInv, SavedBy, KeyOf
  <2>3. references'[n] = worker.sent
    BY <1>5, <2>0 DEF TypeInv, TypeOK
  <2>4. references'[n] # NoReference =>
          \E j \in DOMAIN jobs' : /\ jobs'[j].key = KeyOf(n)'
                                 /\ jobs'[j].reference = references'[n]
    BY <1>3, <2>1, <2>2, <2>3 DEF ReferenceInv, WorkerReference
  <2>5. \A i \in 1..Len(transactions') : i \in 1..Len(transactions) \/ i = n
    BY <1>0, <2>0, <2>2 DEF Monotone
  <2> QED
    BY <1>2, <1>4, <2>4, <2>5 DEF ReferenceInv
<1>6. CASE UNCHANGED transactions
  BY <1>2, <1>4, <1>6 DEF ReferenceInv
<1>7. \/ StoringOnly /\ SavedBy(Worker) /\ references' = Append(references, worker.sent)
      \/ UNCHANGED transactions
  BY TransactionsCases DEF StoringOnly, PublishedBy, BesidesTransactions
<1> QED
  BY <1>5, <1>6, <1>7

LEMMA RetryStep ==
    TypeInv /\ TypeInv' /\ RetryInv /\ Stepping => RetryInv'
<1> SUFFICES ASSUME TypeInv, TypeInv', RetryInv, Stepping PROVE RetryInv'
  OBVIOUS
<1>0. Monotone
  BY StepIsMonotone
<1>1. ASSUME NEW i \in 1..Len(transactions) PROVE KeyOf(i)' = KeyOf(i)
  BY <1>0 DEF Monotone, KeyOf
<1>2. run.todo \subseteq Registrations /\ run'.todo \subseteq Registrations
  BY DEF TypeInv, TypeOK, Run
<1>3. ASSUME run'.pc = run.pc, run'.payment = run.payment,
             run'.transactionId = run.transactionId, run'.todo \subseteq run.todo
      PROVE  RetryInv'
  <2>1. ASSUME NEW r \in run.todo, run.transactionId[r] # 0
        PROVE  run.transactionId[r] \in 1..Len(transactions)
    BY <1>0, <1>2, <2>1 DEF TypeInv, RunTyped, Monotone
  <2>2. ASSUME NEW r \in run'.todo, run'.pc = "adding", run'.transactionId[r] # 0
        PROVE  KeyOf(run.transactionId[r])' = <<r, run'.payment>>
    <3>1. PICK i \in 1..Len(transactions) : i = run.transactionId[r]
      BY <1>3, <2>1, <2>2
    <3>2. KeyOf(i) = <<r, run.payment>>
      BY <1>3, <2>2, <3>1 DEF RetryInv
    <3>3. KeyOf(i)' = <<r, run'.payment>>
      BY <1>1, <1>3, <3>2
    <3> QED
      BY <1>3, <3>1, <3>3 DEF KeyOf
  <2> QED
    BY <1>3, <2>2 DEF RetryInv, KeyOf
<1>4. ASSUME NEW p \in Payments, NEW chosen \in SUBSET Registrations, NEW transactionId,
             Starting(p, chosen, transactionId)
      PROVE  RetryInv'
  <2>1. UNCHANGED transactions
    BY <1>4 DEF Starting, RunOnly, storingVars, storeVars
  <2>2. ASSUME NEW r \in chosen, transactionId[r] # 0
        PROVE  KeyOf(transactionId[r]) = <<r, p>>
    BY <1>4, <2>2 DEF Starting
  <2> QED
    BY <1>4, <2>1, <2>2 DEF Starting, RetryInv, KeyOf
<1>5. ASSUME NEW r \in run.todo, Adding(r) PROVE RetryInv'
  BY <1>3, <1>5 DEF Adding, JobAdded
<1>6. CASE run'.pc # "adding"
  BY <1>6 DEF RetryInv
<1>7. CASE UNCHANGED run
  BY <1>3, <1>7
<1>8. \/ \E p \in Payments : \E chosen \in SUBSET Registrations :
           \E transactionId : Starting(p, chosen, transactionId)
      \/ \E r \in run.todo : Adding(r)
      \/ run'.pc # "adding"
      \/ UNCHANGED run
  BY DEF Stepping, Idling, IdleRun, Taking, Recovering, Answering, Failing,
         BeginningToStore, StoringOnly, EndingToStore, Removing, Completing, Crashing,
         unchangedByWorker, vars
<1> QED
  BY <1>4, <1>5, <1>6, <1>7, <1>8

\* Jobs are added by a run and by nothing else.
LEMMA JobsOrAdding ==
    ASSUME TypeInv, Stepping
    PROVE  \/ DOMAIN jobs' = DOMAIN jobs /\ JobsKept
           \/ \E r \in run.todo : Adding(r)
BY JobsUnchanged
   DEF TypeInv, Stepping, Starting, RunOnly, Idling, Taking, Recovering, JobMoves,
       Answering, Failing, BeginningToStore, StoringOnly, EndingToStore, Removing,
       Completing, Crashing, vars

LEMMA OwnReferencesStep ==
    TypeInv /\ ReferenceInv /\ RetryInv /\ OwnReferences /\ Stepping => OwnReferences'
<1> SUFFICES ASSUME TypeInv, ReferenceInv, RetryInv, OwnReferences, Stepping
             PROVE  OwnReferences'
  OBVIOUS
<1>1. CASE DOMAIN jobs' = DOMAIN jobs /\ JobsKept
  BY <1>1 DEF OwnReferences, JobsKept
<1>2. ASSUME NEW r \in run.todo, Adding(r) PROVE OwnReferences'
  <2>1. PICK new \in Nat : new = Len(jobs) + 1
    BY DEF TypeInv, TypeOK
  <2>2. /\ DOMAIN jobs' = DOMAIN jobs \cup {new}
        /\ \A j \in DOMAIN jobs : jobs'[j] = jobs[j]
        /\ jobs'[new].key = <<r, run.payment>>
    BY <1>2, <2>1 DEF Adding, JobAdded
  <2>3. \A j \in DOMAIN jobs : j < new /\ j \in Nat /\ jobs[j].reference \in Nat
    BY <2>1, JobFacts DEF TypeInv, TypeOK
  <2>4. CASE run.transactionId[r] = 0 /\ JobAdded(r, Len(jobs) + 1)
    <3>1. jobs'[new].reference = new
      BY <2>1, <2>4 DEF JobAdded
    <3> QED
      BY <2>2, <2>3, <3>1 DEF OwnReferences
  <2>5. CASE /\ run.transactionId[r] # 0 /\ KeptReference(r) \in Reference
             /\ JobAdded(r, KeptReference(r))
    <3>1. /\ run.transactionId[r] \in 1..Len(transactions)
          /\ KeyOf(run.transactionId[r]) = <<r, run.payment>>
      BY <1>2, <2>5 DEF Adding, TypeInv, TypeOK, Run, RunTyped, RetryInv,
                        StoringTypeOK, StoreTypeOK
    <3>2. KeptReference(r) # NoReference
      BY <2>5, BankBoundsAssumption DEF Reference, NoReference
    <3>3. PICK old \in DOMAIN jobs : /\ jobs[old].key = <<r, run.payment>>
                                    /\ jobs[old].reference = KeptReference(r)
      BY <3>1, <3>2 DEF ReferenceInv, KeptReference
    <3>4. jobs'[new].reference = jobs[old].reference
      BY <2>1, <2>5, <3>3 DEF JobAdded
    <3> QED
      BY <2>2, <2>3, <3>3, <3>4 DEF OwnReferences
  <2> QED
    BY <1>2, <2>4, <2>5 DEF Adding
<1> QED
  BY <1>1, <1>2, JobsOrAdding

-----------------------------------------------------------------------------
(* What latest_transaction shows of a job that is done.                    *)

ShownInv ==
    /\ \A j \in DOMAIN jobs \ jobsInProgress : latestTransactions[jobs[j].key] # 0
    /\ worker.pc \in {"remove", "complete"} =>
         latestTransactions[jobs[worker.job].key] # 0

\* Which steps touch the Redis set.
LEMMA SetCases ==
    ASSUME Stepping
    PROVE  \/ UNCHANGED jobsInProgress
           \/ \E r \in run.todo : Adding(r)
           \/ Removing
BY DEF Stepping, Starting, RunOnly, Idling, Taking, Recovering, Answering, Failing,
       BeginningToStore, StoringOnly, EndingToStore, Completing, Crashing, vars

LEMMA ShownStep ==
    TypeInv /\ TypeInv' /\ StorerInv /\ ShownInv /\ Stepping => ShownInv'
<1> SUFFICES ASSUME TypeInv, TypeInv', StorerInv, ShownInv, Stepping PROVE ShownInv'
  OBVIOUS
<1>0. Monotone
  BY StepIsMonotone
<1>1. ASSUME NEW j \in DOMAIN jobs, latestTransactions[jobs[j].key] # 0
      PROVE  latestTransactions'[jobs'[j].key] # 0
  BY <1>0, <1>1, JobFacts DEF Monotone, JobsKept, TypeInv
<1>2. worker.pc # "idle" => worker.job \in DOMAIN jobs
  BY DEF TypeInv, TypeOK
<1>3. ASSUME worker'.pc \in {"remove", "complete"}
      PROVE  latestTransactions'[jobs'[worker'.job].key] # 0
  <2>1. CASE UNCHANGED worker
    BY <1>1, <1>2, <1>3, <2>1 DEF ShownInv
  <2>2. CASE EndingToStore
    <3>1. latestTransactions[jobs[worker.job].key] # 0
      BY <2>2 DEF EndingToStore, StorerInv
    <3> QED
      BY <1>1, <1>2, <2>2, <3>1 DEF EndingToStore, WorkerTo
  <2>3. CASE Removing
    BY <1>1, <1>2, <2>3 DEF Removing, WorkerTo, ShownInv
  <2> QED
    BY <1>3, <2>1, <2>2, <2>3, WorkerCases, IdleWorkerType
       DEF Taking, Answering, BeginningToStore, WorkerTo
<1>4. ASSUME NEW j \in DOMAIN jobs' \ jobsInProgress'
      PROVE  latestTransactions'[jobs'[j].key] # 0
  <2>1. CASE j \in DOMAIN jobs \ jobsInProgress
    BY <1>1, <2>1 DEF ShownInv
  <2>2. CASE j \in DOMAIN jobs /\ Removing /\ j = worker.job
    BY <1>1, <2>2 DEF ShownInv, Removing
  <2>3. j \in DOMAIN jobs /\ (j \notin jobsInProgress \/ (Removing /\ j = worker.job))
    BY <1>4, SetCases, JobsOrAdding DEF Adding, JobAdded, Removing
  <2> QED
    BY <2>1, <2>2, <2>3
<1> QED
  BY <1>3, <1>4 DEF ShownInv

-----------------------------------------------------------------------------
(* As long as no job is in the hands of Bull and out of the Redis set: no  *)
(* crash has hit a worker between the two statements.                      *)

Clean == LateCrash => crashes = 0

\* A job out of the Redis set is completed or about to be.
SetInv ==
    /\ worker.pc # "idle" => jobs[worker.job].state = "active"
    /\ Clean => \A j \in DOMAIN jobs \ jobsInProgress :
         \/ jobs[j].state = "completed"
         \/ worker.pc = "complete" /\ worker.job = j

LEMMA CleanBefore == ASSUME Stepping, Clean' PROVE Clean
BY BankBoundsAssumption
   DEF Stepping, Starting, RunOnly, Adding, JobAdded, unchangedByRun, Idling, Taking,
       Recovering, Answering, Failing, BeginningToStore, StoringOnly, EndingToStore,
       Removing, Completing, Crashing, unchangedByWorker, vars, Clean

LEMMA WorkingInProgress ==
    ASSUME TypeInv, SetInv, Clean, worker.pc \notin {"idle", "complete"}
    PROVE  worker.job \in DOMAIN jobs /\ worker.job \in jobsInProgress
BY DEF TypeInv, TypeOK, SetInv

LEMMA SetStep ==
    TypeInv /\ TypeInv' /\ SetInv /\ Stepping => SetInv'
<1> SUFFICES ASSUME TypeInv, TypeInv', SetInv, Stepping PROVE SetInv'
  OBVIOUS
<1>0. worker.pc # "idle" => worker.job \in DOMAIN jobs
  BY DEF TypeInv, TypeOK
<1>1. Clean' => Clean
  BY CleanBefore
<1>2. ASSUME UNCHANGED <<jobs, jobsInProgress>>, worker'.job = worker.job,
             worker.pc # "idle", worker.pc # "complete"
      PROVE  SetInv'
  BY <1>1, <1>2 DEF SetInv
<1>3. ASSUME UNCHANGED <<jobs, jobsInProgress, worker>> PROVE SetInv'
  BY <1>1, <1>3 DEF SetInv
<1>4. ASSUME NEW p \in Payments, NEW chosen, NEW transactionId,
             Starting(p, chosen, transactionId)
      PROVE  SetInv'
  BY <1>3, <1>4 DEF Starting, RunOnly
<1>5. ASSUME NEW r \in run.todo, Adding(r) PROVE SetInv'
  BY <1>0, <1>1, <1>5 DEF Adding, JobAdded, unchangedByRun, SetInv
<1>6. ASSUME NEW j \in DOMAIN jobs, Taking(j) PROVE SetInv'
  BY <1>1, <1>6 DEF Taking, JobMoves, SetInv
<1>7. ASSUME NEW j \in DOMAIN jobs, Recovering(j) PROVE SetInv'
  <2>1. worker.pc # "idle" => worker.job # j
    BY <1>7 DEF Recovering, SetInv
  <2> QED
    BY <1>0, <1>1, <1>7, <2>1 DEF Recovering, JobMoves, SetInv
<1>8. ASSUME Answering \/ BeginningToStore \/ EndingToStore PROVE SetInv'
  BY <1>2, <1>8 DEF Answering, BeginningToStore, EndingToStore, WorkerTo
<1>9. ASSUME Failing \/ Completing PROVE SetInv'
  BY <1>0, <1>1, <1>9, IdleWorkerType DEF Failing, Completing, JobMoves, SetInv
<1>10. ASSUME Removing PROVE SetInv'
  BY <1>1, <1>10 DEF Removing, WorkerTo, SetInv
<1>11. ASSUME Crashing PROVE SetInv'
  <2>1. worker'.pc = "idle"
    BY <1>11, IdleWorkerType DEF Crashing
  <2>2. ASSUME Clean', NEW j \in DOMAIN jobs' \ jobsInProgress'
        PROVE  jobs'[j].state = "completed"
    <3>1. ~LateCrash
      BY <1>11, <2>2 DEF Crashing, Clean
    <3>2. jobs[j].state = "completed"
      BY <1>1, <1>11, <2>2, <3>1 DEF Crashing, SetInv
    <3> QED
      BY <1>11, <3>2 DEF Crashing
  <2> QED
    BY <2>1, <2>2 DEF SetInv
<1> QED
  BY <1>3, <1>4, <1>5, <1>6, <1>7, <1>8, <1>9, <1>10, <1>11
     DEF Stepping, Idling, RunOnly, StoringOnly, vars

\* A transaction that latest_transaction does not show has a job of its key in
\* the Redis set; when the worker is about to take its job out, there is none.
HiddenInv ==
    Clean =>
        /\ \A i \in 1..Len(transactions) : latestTransactions[KeyOf(i)] < i =>
             \E j \in jobsInProgress : jobs[j].key = KeyOf(i)
        /\ worker.pc = "remove" => \A i \in 1..Len(transactions) :
             KeyOf(i) = jobs[worker.job].key => i <= latestTransactions[KeyOf(i)]

LEMMA HiddenStep ==
    TypeInv /\ TypeInv' /\ StorerInv /\ SetInv /\ HiddenInv /\ Stepping => HiddenInv'
<1> SUFFICES ASSUME TypeInv, TypeInv', StorerInv, SetInv, HiddenInv, Stepping, Clean'
             PROVE  HiddenInv'
  BY DEF HiddenInv
<1>0. Clean /\ Monotone
  BY StepIsMonotone, CleanBefore
<1>1. /\ worker.pc # "idle" => worker.job \in DOMAIN jobs
      /\ jobsInProgress \subseteq DOMAIN jobs
      /\ \A j \in DOMAIN jobs : jobs'[j].key = jobs[j].key
      /\ Len(transactions) \in Nat
  BY <1>0 DEF TypeInv, TypeOK, Monotone, JobsKept
<1>2. \A i \in 1..Len(transactions) :
        KeyOf(i) \in Key /\ latestTransactions[KeyOf(i)] \in Nat
  BY KeyOfTransaction DEF TypeInv, TypeOK, StoringTypeOK, StoreTypeOK
<1>3. \A i \in 1..Len(transactions) : KeyOf(i)' = KeyOf(i)
  BY <1>0 DEF Monotone, KeyOf
<1>4. ASSUME UNCHANGED <<transactions, latestTransactions>>,
             jobsInProgress \subseteq jobsInProgress',
             worker'.pc = "remove" => UNCHANGED worker
      PROVE  HiddenInv'
  <2>1. ASSUME NEW i \in 1..Len(transactions'), latestTransactions'[KeyOf(i)'] < i
        PROVE  \E j \in jobsInProgress' : jobs'[j].key = KeyOf(i)'
    BY <1>0, <1>1, <1>3, <1>4, <2>1 DEF HiddenInv
  <2>2. ASSUME worker'.pc = "remove", NEW i \in 1..Len(transactions'),
               KeyOf(i)' = jobs'[worker'.job].key
        PROVE  i <= latestTransactions'[KeyOf(i)']
    BY <1>0, <1>1, <1>3, <1>4, <2>2 DEF HiddenInv
  <2> QED
    BY <2>1, <2>2 DEF HiddenInv
<1>5. ASSUME EndingToStore PROVE HiddenInv'
  <2>1. ASSUME NEW i \in 1..Len(transactions), latestTransactions[KeyOf(i)] < i
        PROVE  \E j \in jobsInProgress' : jobs'[j].key = KeyOf(i)
    BY <1>0, <1>1, <1>5, <2>1 DEF HiddenInv, EndingToStore
  <2>2. latestTransactions[jobs[worker.job].key] = Len(transactions)
    BY <1>5 DEF EndingToStore, StorerInv
  <2>3. /\ UNCHANGED <<transactions, latestTransactions>> /\ worker'.job = worker.job
        /\ worker.job \in DOMAIN jobs
    BY <1>1, <1>5 DEF EndingToStore, WorkerTo, storeVars
  <2>4. ASSUME NEW i \in 1..Len(transactions'), latestTransactions'[KeyOf(i)'] < i
        PROVE  \E j \in jobsInProgress' : jobs'[j].key = KeyOf(i)'
    BY <1>3, <2>1, <2>3, <2>4
  <2>5. ASSUME NEW i \in 1..Len(transactions'), KeyOf(i)' = jobs'[worker'.job].key
        PROVE  i <= latestTransactions'[KeyOf(i)']
    BY <1>1, <2>2, <2>3, <2>5
  <2> QED
    BY <2>4, <2>5 DEF HiddenInv
<1>6. ASSUME Removing PROVE HiddenInv'
  <2>1. ASSUME NEW i \in 1..Len(transactions), latestTransactions[KeyOf(i)] < i
        PROVE  \E j \in jobsInProgress' : jobs'[j].key = KeyOf(i)
    <3>1. PICK j \in jobsInProgress : jobs[j].key = KeyOf(i)
      BY <1>0, <2>1 DEF HiddenInv
    <3>2. j # worker.job
      BY <1>0, <1>2, <1>6, <2>1, <3>1 DEF HiddenInv, Removing
    <3> QED
      BY <1>1, <1>6, <3>1, <3>2 DEF Removing
  <2>2. /\ worker'.pc # "remove"
        /\ UNCHANGED <<transactions, latestTransactions>>
    BY <1>6 DEF Removing, WorkerTo, storingVars, storeVars
  <2> QED
    BY <1>3, <2>1, <2>2 DEF HiddenInv, KeyOf
<1>7. ASSUME StoringOnly PROVE HiddenInv'
  <2>1. /\ worker.job \in jobsInProgress /\ storing[Worker].key = jobs[worker.job].key
        /\ UNCHANGED <<worker, jobs, jobsInProgress>> /\ worker.pc = "storing"
    BY <1>0, <1>7, WorkingInProgress DEF StorerInv, StoringOnly
  <2>2. CASE SavedBy(Worker)
    <3>1. PICK n \in Nat : n = Len(transactions) + 1
      BY <1>1
    <3>2. /\ Len(transactions') = n /\ KeyOf(n)' = storing[Worker].key
          /\ UNCHANGED latestTransactions
      BY <2>2, <3>1 DEF SavedBy, KeyOf
    <3>3. ASSUME NEW i \in 1..Len(transactions'), latestTransactions'[KeyOf(i)'] < i
          PROVE  \E j \in jobsInProgress' : jobs'[j].key = KeyOf(i)'
      <4>1. CASE i = n
        BY <2>1, <3>2, <4>1
      <4>2. CASE i \in 1..Len(transactions)
        BY <1>0, <1>3, <2>1, <3>2, <3>3, <4>2 DEF HiddenInv
      <4> QED
        BY <1>1, <3>1, <3>2, <4>1, <4>2
    <3> QED
      BY <2>1, <3>3 DEF HiddenInv
  <2>3. CASE PublishedBy(Worker)
    <3>1. /\ latestTransactions' = [latestTransactions EXCEPT ![storing[Worker].key] =
                                      storing[Worker].transaction]
          /\ UNCHANGED transactions
      BY <2>3 DEF PublishedBy, StorerInv
    <3>2. ASSUME NEW i \in 1..Len(transactions), latestTransactions'[KeyOf(i)] < i
          PROVE  \E j \in jobsInProgress' : jobs'[j].key = KeyOf(i)
      <4>1. CASE KeyOf(i) = storing[Worker].key
        BY <2>1, <4>1
      <4>2. CASE KeyOf(i) # storing[Worker].key
        <5>1. latestTransactions'[KeyOf(i)] = latestTransactions[KeyOf(i)]
          BY <1>2, <3>1, <4>2 DEF TypeInv, TypeOK, StoringTypeOK, StoreTypeOK
        <5> QED
          BY <1>0, <2>1, <3>2, <5>1 DEF HiddenInv
      <4> QED
        BY <4>1, <4>2
    <3> QED
      BY <1>3, <2>1, <3>1, <3>2 DEF HiddenInv, KeyOf
  <2>4. CASE BesidesTransactions(Worker)
    BY <1>4, <2>1, <2>4 DEF BesidesTransactions
  <2> QED
    BY <1>7, <2>2, <2>3, <2>4 DEF StoringOnly
<1>8. ASSUME UNCHANGED <<transactions, latestTransactions>>, ~Removing, ~EndingToStore
      PROVE  HiddenInv'
  <2>1. jobsInProgress \subseteq jobsInProgress'
    BY <1>8, SetCases DEF Adding, JobAdded
  <2>2. worker'.pc = "remove" => UNCHANGED worker
    BY <1>8, WorkerCases, IdleWorkerType DEF Taking, Answering, BeginningToStore, WorkerTo
  <2> QED
    BY <1>4, <1>8, <2>1, <2>2
<1> QED
  BY <1>5, <1>6, <1>7, <1>8, TransactionsCases

-----------------------------------------------------------------------------
(* A registration is paid once.                                            *)

\* A run draws a fresh reference only for a registration without a job.
FreshInv ==
    Clean /\ run.pc = "adding" => \A r \in run.todo : run.transactionId[r] = 0 =>
        \A j \in DOMAIN jobs : jobs[j].key # <<r, run.payment>>

OneReference ==
    Clean => \A i, j \in DOMAIN jobs :
        jobs[i].key = jobs[j].key => jobs[i].reference = jobs[j].reference

LEMMA FreshStep ==
    /\ TypeInv /\ TypeInv' /\ LatestIsOwn /\ ShownInv /\ HiddenInv /\ FreshInv
    /\ Stepping
    => FreshInv'
<1> SUFFICES ASSUME TypeInv, TypeInv', LatestIsOwn, ShownInv, HiddenInv, FreshInv,
                    Stepping, Clean', run'.pc = "adding"
             PROVE  FreshInv'
  BY DEF FreshInv
<1>0. Clean
  BY CleanBefore
<1>1. ASSUME NEW p \in Payments, NEW chosen \in SUBSET Registrations, NEW transactionId,
             Starting(p, chosen, transactionId)
      PROVE  FreshInv'
  <2> SUFFICES ASSUME NEW r \in chosen, transactionId[r] = 0,
                      NEW j \in DOMAIN jobs, jobs[j].key = <<r, p>>
               PROVE  FALSE
    BY <1>1 DEF Starting, RunOnly, FreshInv
  <2>1. latestTransactions[<<r, p>>] # 0
    BY <1>1 DEF Starting, ShownInv
  <2>2. CASE NewestTransactionFailed(<<r, p>>)
    <3>1. transactionId[r] \in 1..Len(transactions)
      BY <1>1, <2>1, <2>2 DEF Starting
    <3> QED
      BY <3>1 DEF TypeInv, TypeOK, StoringTypeOK, StoreTypeOK
  <2>3. CASE ~NewestTransactionFailed(<<r, p>>)
    <3>1. chosen \subseteq FailedRegistrations(p)
      BY <1>1, <2>1, <2>3 DEF Starting
    <3>2. StatusOf(<<r, p>>) = "error"
      BY <3>1 DEF FailedRegistrations
    <3> DEFINE k == <<r, p>>
               l == latestTransactions[k]
    <3>3. /\ k \in Key /\ l \in 1..Len(transactions) /\ KeyOf(l) = k
          /\ transactions[l].status = "error"
          /\ DOMAIN transactions = 1..Len(transactions)
      BY <2>1, <3>2 DEF StatusOf, NoTransaction, LatestIsOwn, Key, TypeInv, TypeOK,
                        StoringTypeOK, StoreTypeOK
    <3>4. ASSUME NEW i \in DOMAIN transactions, KeyOf(i) = k PROVE i <= l
      BY <1>0, <1>1, <3>3, <3>4 DEF HiddenInv, Starting
    <3> HIDE DEF k, l
    <3>5. NewestTransactionFailed(k)
      BY <3>3, <3>4 DEF NewestTransactionFailed
    <3> QED
      BY <2>3, <3>5 DEF k
  <2> QED
    BY <2>2, <2>3
<1>2. ASSUME NEW r \in run.todo, Adding(r) PROVE FreshInv'
  <2>1. /\ run.pc = "adding" /\ run'.payment = run.payment
        /\ run'.transactionId = run.transactionId /\ run'.todo = run.todo \ {r}
        /\ \A j \in DOMAIN jobs' : \/ j \in DOMAIN jobs /\ jobs'[j].key = jobs[j].key
                                  \/ jobs'[j].key = <<r, run.payment>>
    BY <1>2 DEF Adding, JobAdded
  <2> QED
    BY <1>0, <2>1 DEF FreshInv
<1>3. CASE UNCHANGED run /\ DOMAIN jobs' = DOMAIN jobs /\ JobsKept
  BY <1>0, <1>3 DEF FreshInv, JobsKept
<1>4. \/ \E p \in Payments : \E chosen \in SUBSET Registrations :
           \E transactionId : Starting(p, chosen, transactionId)
      \/ \E r \in run.todo : Adding(r)
      \/ UNCHANGED run
  BY DEF Stepping, Idling, IdleRun, Taking, Recovering, Answering, Failing,
         BeginningToStore, StoringOnly, EndingToStore, Removing, Completing, Crashing,
         unchangedByWorker, vars
<1> QED
  BY <1>1, <1>2, <1>3, <1>4, JobsOrAdding

LEMMA OneReferenceStep ==
    /\ TypeInv /\ ReferenceInv /\ RetryInv /\ FreshInv /\ OneReference /\ Stepping
    => OneReference'
<1> SUFFICES ASSUME TypeInv, ReferenceInv, RetryInv, FreshInv, OneReference, Stepping,
                    Clean'
             PROVE  OneReference'
  BY DEF OneReference
<1>0. Clean
  BY CleanBefore
<1>1. CASE DOMAIN jobs' = DOMAIN jobs /\ JobsKept
  BY <1>0, <1>1 DEF OneReference, JobsKept
<1>2. ASSUME NEW r \in run.todo, Adding(r) PROVE OneReference'
  <2>1. PICK new \in Nat : new = Len(jobs) + 1
    BY DEF TypeInv, TypeOK
  <2>2. /\ DOMAIN jobs' = DOMAIN jobs \cup {new}
        /\ \A j \in DOMAIN jobs : jobs'[j] = jobs[j]
        /\ jobs'[new].key = <<r, run.payment>>
    BY <1>2, <2>1 DEF Adding, JobAdded
  <2>3. CASE run.transactionId[r] = 0
    <3>1. \A j \in DOMAIN jobs : jobs[j].key # <<r, run.payment>>
      BY <1>0, <1>2, <2>3 DEF FreshInv, Adding
    <3> QED
      BY <1>0, <2>2, <3>1 DEF OneReference
  <2>4. CASE /\ run.transactionId[r] # 0 /\ KeptReference(r) \in Reference
             /\ JobAdded(r, KeptReference(r))
    <3>1. /\ run.transactionId[r] \in 1..Len(transactions)
          /\ KeyOf(run.transactionId[r]) = <<r, run.payment>>
      BY <1>2, <2>4 DEF Adding, TypeInv, TypeOK, Run, RunTyped, RetryInv,
                        StoringTypeOK, StoreTypeOK
    <3>2. KeptReference(r) # NoReference
      BY <2>4, BankBoundsAssumption DEF Reference, NoReference
    <3>3. PICK old \in DOMAIN jobs : /\ jobs[old].key = <<r, run.payment>>
                                    /\ jobs[old].reference = KeptReference(r)
      BY <3>1, <3>2 DEF ReferenceInv, KeptReference
    <3>4. jobs'[new].reference = jobs[old].reference
      BY <2>1, <2>4, <3>3 DEF JobAdded
    <3> QED
      BY <1>0, <2>2, <3>3, <3>4 DEF OneReference
  <2> QED
    BY <1>2, <2>3, <2>4 DEF Adding
<1> QED
  BY <1>1, <1>2, JobsOrAdding

-----------------------------------------------------------------------------
(* A payout can be found again.                                            *)

\* Without a crash the reference of a payout is kept with a transaction, or is
\* about to be.
TraceInv ==
    crashes = 0 => \A ref \in Reference : bank[ref] = "paid" =>
        \/ \E i \in 1..Len(transactions) : references[i] = ref
        \/ /\ worker.pc \in {"store", "storing"} /\ worker.sent = ref
           /\ storing[Worker].pc \in {"idle", "save"}

\* Only the worker asks the bank, and only a crash counts.
LEMMA BankCases ==
    ASSUME Stepping PROVE Answering \/ UNCHANGED bank
BY DEF Stepping, Starting, RunOnly, Adding, JobAdded, unchangedByRun, Idling, Taking,
       Recovering, Failing, BeginningToStore, StoringOnly, EndingToStore,
       Removing, Completing, Crashing, vars

LEMMA CrashCases ==
    ASSUME Stepping, crashes' = 0 PROVE crashes = 0 /\ ~Crashing
BY DEF Stepping, Starting, RunOnly, Adding, JobAdded, unchangedByRun, Idling, Taking,
       Recovering, Answering, Failing, BeginningToStore, StoringOnly, EndingToStore,
       Removing, Completing, Crashing, unchangedByWorker, vars

LEMMA TraceStep ==
    /\ TypeInv /\ TypeInv' /\ StorerInv /\ TraceInv /\ Stepping => TraceInv'
<1> SUFFICES ASSUME TypeInv, TypeInv', StorerInv, TraceInv, Stepping, crashes' = 0,
                    NEW ref \in Reference, bank'[ref] = "paid",
                    ~ \E i \in 1..Len(transactions') : references'[i] = ref
             PROVE  /\ worker'.pc \in {"store", "storing"} /\ worker'.sent = ref
                    /\ storing'[Worker].pc \in {"idle", "save"}
  BY DEF TraceInv
<1>0. Monotone /\ crashes = 0 /\ ~Crashing
  BY StepIsMonotone, CrashCases
<1>1. ~ \E i \in 1..Len(transactions) : references[i] = ref
  BY <1>0, ReferencesKept DEF Monotone
<1>2. CASE bank[ref] = "paid"
  <2>1. /\ worker.pc \in {"store", "storing"} /\ worker.sent = ref
        /\ storing[Worker].pc \in {"idle", "save"}
    BY <1>0, <1>1, <1>2 DEF TraceInv
  <2>2. CASE BeginningToStore
    BY <2>1, <2>2 DEF BeginningToStore, WorkerTo
  <2>3. CASE StoringOnly
    <3>1. SavedBy(Worker) /\ references' = Append(references, worker.sent)
      BY <2>1, <2>3 DEF StoringOnly, PublishedBy, BesidesTransactions
    <3>2. PICK n \in Nat : n = Len(transactions) + 1
      BY <1>0 DEF Monotone
    <3>3. Len(transactions') = n /\ references'[n] = ref
      BY <2>1, <3>1, <3>2 DEF SavedBy, TypeInv, TypeOK
    <3> QED
      BY <1>0, <3>2, <3>3 DEF Monotone
  <2>4. CASE UNCHANGED <<worker, storing>>
    BY <2>1, <2>4
  <2>5. BeginningToStore \/ StoringOnly \/ UNCHANGED <<worker, storing>>
    BY <1>0, <2>1
       DEF Stepping, Starting, RunOnly, Adding, JobAdded, unchangedByRun, Idling,
           Taking, Recovering, Answering, Failing, EndingToStore, Removing, Completing,
           vars, storingVars
  <2> QED
    BY <2>2, <2>3, <2>4, <2>5
<1>3. CASE bank[ref] # "paid"
  <2>1. Answering
    BY <1>3, BankCases
  <2>2. ref = WorkerReference /\ worker'.pc = "store" /\ worker'.sent = WorkerReference
    BY <1>3, <2>1 DEF Answering
  <2>3. UNCHANGED storing /\ storing[Worker].pc = "idle"
    BY <2>1 DEF Answering, storingVars, StorerInv
  <2> QED
    BY <2>2, <2>3
<1> QED
  BY <1>2, <1>3

-----------------------------------------------------------------------------
(* The theorems.                                                           *)

PayoutInv ==
    /\ StoredInv /\ ReferenceInv /\ RetryInv /\ OwnReferences
    /\ ShownInv /\ SetInv /\ HiddenInv /\ FreshInv /\ OneReference /\ TraceInv

LEMMA PayoutInit == Init => PayoutInv
<1> SUFFICES ASSUME Init PROVE PayoutInv
  OBVIOUS
<1>1. /\ jobs = << >> /\ jobsInProgress = {} /\ transactions = << >>
      /\ worker.pc = "idle" /\ run.pc = "idle"
      /\ \A ref \in Reference : bank[ref] # "paid"
  BY IdleWorkerType DEF Init, StoringInit, StoreInit, IdleRun
<1>2. DOMAIN jobs = {} /\ 1..Len(transactions) = {}
  BY <1>1
<1>3. ReferenceInv /\ RetryInv /\ OwnReferences
  BY <1>1, <1>2 DEF ReferenceInv, RetryInv, OwnReferences
<1>4. ShownInv /\ SetInv /\ HiddenInv
  BY <1>1, <1>2 DEF ShownInv, SetInv, HiddenInv
<1>5. FreshInv /\ OneReference /\ TraceInv
  BY <1>1, <1>2 DEF FreshInv, OneReference, TraceInv
<1> QED
  BY <1>3, <1>4, <1>5, StoredInit DEF PayoutInv

LEMMA PayoutStep == PayoutInv /\ [Next]_vars => PayoutInv'
<1> SUFFICES ASSUME PayoutInv, [Next]_vars PROVE PayoutInv'
  OBVIOUS
<1>1. TypeInv /\ TypeInv' /\ Stepping /\ StoredInv'
  BY NextFacts, StoredStep DEF PayoutInv, StoredInv
<1>2. ReferenceInv' /\ RetryInv' /\ OwnReferences'
  BY <1>1, ReferenceStep, RetryStep, OwnReferencesStep DEF PayoutInv, StoredInv
<1>3. ShownInv' /\ SetInv' /\ HiddenInv'
  BY <1>1, ShownStep, SetStep, HiddenStep DEF PayoutInv, StoredInv
<1>4. FreshInv' /\ OneReference' /\ TraceInv'
  BY <1>1, FreshStep, OneReferenceStep, TraceStep DEF PayoutInv, StoredInv
<1> QED
  BY <1>1, <1>2, <1>3, <1>4 DEF PayoutInv

\* All payouts to a registration for a payment have one reference, of which
\* the bank executes one transfer.
LEMMA OnePayout ==
    ASSUME PayoutInv, ~LateCrash PROVE AtMostOnePayout
<1> SUFFICES ASSUME NEW k \in Key PROVE Cardinality(Paid(k)) <= 1
  BY DEF AtMostOnePayout
<1>1. CASE Paid(k) = {}
  BY <1>1, FS_EmptySet
<1>2. CASE Paid(k) # {}
  <2>1. PICK j \in DOMAIN jobs : jobs[j].key = k /\ jobs[j].reference \in Paid(k)
    BY <1>2 DEF Paid
  <2>2. \A i \in DOMAIN jobs : jobs[i].key = k => jobs[i].reference = jobs[j].reference
    BY <2>1 DEF PayoutInv, OneReference, Clean
  <2>3. Paid(k) = {jobs[j].reference}
    BY <2>1, <2>2 DEF Paid
  <2>4. Cardinality({jobs[j].reference}) = 1
    BY FS_Singleton
  <2>5. Cardinality(Paid(k)) = 1
    BY <2>3, <2>4
  <2> HIDE DEF Paid
  <2> QED
    BY <2>5
<1> QED
  BY <1>1, <1>2

\* When no crash comes between taking a job out of the Redis set and completing
\* it, a registration is paid once, through all retries, lost answers, failing
\* inquiries and crashes elsewhere.
THEOREM PaidOnce == ~LateCrash => (Spec => []AtMostOnePayout)
<1> SUFFICES ASSUME ~LateCrash PROVE Spec => []AtMostOnePayout
  OBVIOUS
<1>1. PayoutInv => AtMostOnePayout
  BY OnePayout
<1> QED
  BY <1>1, PayoutInit, PayoutStep, PTL DEF Spec

\* Once nothing is in progress a payout is reported, and without a crash a
\* retry finds its reference with a transaction.
THEOREM PayoutsTraceable == Spec => []PayoutIsTraceable
<1>1. ASSUME PayoutInv PROVE PayoutIsTraceable
  <2> SUFFICES ASSUME ~IsPaymentInProgress, NEW k \in Key, Paid(k) # {}
               PROVE  /\ StatusOf(k) # "none"
                      /\ crashes = 0 => \E i \in DOMAIN transactions :
                           KeyOf(i) = k /\ references[i] \in Paid(k)
    BY DEF PayoutIsTraceable
  <2>1. PICK j \in DOMAIN jobs : jobs[j].key = k /\ bank[jobs[j].reference] = "paid"
    BY DEF Paid
  <2>2. TypeInv /\ jobsInProgress = {}
    BY <1>1 DEF PayoutInv, StoredInv, IsPaymentInProgress
  <2>3. latestTransactions[k] # 0
    BY <1>1, <2>1, <2>2 DEF PayoutInv, ShownInv
  <2>4. StatusOf(k) # "none"
    <3>1. /\ latestTransactions[k] \in 1..Len(transactions)
          /\ transactions \in Seq(Transaction)
      BY <2>2, <2>3 DEF TypeInv, TypeOK, StoringTypeOK, StoreTypeOK
    <3>2. transactions[latestTransactions[k]] \in Transaction
      BY <3>1
    <3>3. transactions[latestTransactions[k]].status \in TransactionStatus
      BY <3>2 DEF Transaction
    <3> QED
      BY <2>3, <3>3 DEF StatusOf, NoTransaction, TransactionStatus
  <2>5. ASSUME crashes = 0
        PROVE  \E i \in DOMAIN transactions :
                 KeyOf(i) = k /\ references[i] \in Paid(k)
    <3>1. jobs[j].reference \in Reference /\ jobs[j].reference # NoReference
      BY <2>1, <2>2, JobFacts DEF TypeInv, Reference, NoReference
    <3>2. worker.pc \notin {"store", "storing"}
      BY <1>1, <2>2, <2>5, WorkingInProgress DEF PayoutInv, Clean
    <3>3. PICK i \in 1..Len(transactions) : references[i] = jobs[j].reference
      BY <1>1, <2>1, <2>5, <3>1, <3>2 DEF PayoutInv, TraceInv
    <3>4. PICK own \in DOMAIN jobs : /\ jobs[own].key = KeyOf(i)
                                    /\ jobs[own].reference = references[i]
      BY <1>1, <3>1, <3>3 DEF PayoutInv, ReferenceInv
    <3>5. KeyOf(i) = k
      BY <1>1, <2>1, <3>3, <3>4 DEF PayoutInv, OwnReferences
    <3>6. references[i] \in Paid(k)
      BY <2>1, <3>3 DEF Paid
    <3>7. DOMAIN transactions = 1..Len(transactions)
      BY <1>1 DEF PayoutInv, TypeInv, TypeOK, StoringTypeOK, StoreTypeOK
    <3>8. i \in DOMAIN transactions
      BY <3>3, <3>7
    <3> QED
      BY <3>5, <3>6, <3>8
  <2> QED
    BY <2>4, <2>5
<1> QED
  BY <1>1, PayoutInit, PayoutStep, PTL DEF Spec

-----------------------------------------------------------------------------
(* A success is final, as long as nothing crashes.                         *)

\* The job has yet to show a result.
ToStore(j) ==
    \/ jobs[j].state \in {"queued", "stalled"}
    \/ /\ worker.job = j
       /\ \/ worker.pc \in {"transfer", "query", "store"}
          \/ worker.pc = "storing" /\ storing[Worker].pc # "stored"

\* One job at most has yet to show a result of a registration and payment, none
\* if the run is about to add one, and none if it shows as a success.
FinalInv ==
    crashes = 0 =>
        /\ \A i, j \in DOMAIN jobs :
             ToStore(i) /\ ToStore(j) /\ jobs[i].key = jobs[j].key => i = j
        /\ run.pc = "adding" => \A r \in run.todo :
             /\ StatusOf(<<r, run.payment>>) # "success"
             /\ \A j \in DOMAIN jobs : jobs[j].key = <<r, run.payment>> => ~ToStore(j)
        /\ \A j \in DOMAIN jobs : ToStore(j) => StatusOf(jobs[j].key) # "success"

LEMMA ToStoreInSet ==
    ASSUME TypeInv, SetInv, Clean, NEW j \in DOMAIN jobs, ToStore(j)
    PROVE  j \in jobsInProgress
<1>1. CASE jobs[j].state \in {"queued", "stalled"}
  BY <1>1 DEF SetInv
<1>2. CASE /\ worker.job = j
           /\ worker.pc \in {"transfer", "query", "store", "storing"}
  BY <1>2 DEF SetInv
<1> QED
  BY <1>1, <1>2 DEF ToStore

\* Without a crash no step but the adding of a job makes one that has yet to
\* show its result.
LEMMA ToStoreBefore ==
    ASSUME TypeInv, StorerInv, Stepping, ~Crashing,
           NEW j \in DOMAIN jobs, ToStore(j)'
    PROVE  ToStore(j)
<1>0. worker.pc # "idle" => worker.job \in DOMAIN jobs
  BY DEF TypeInv, TypeOK
<1>1. CASE UNCHANGED <<worker, storing>> /\ jobs'[j].state = jobs[j].state
  BY <1>1 DEF ToStore
<1>2. ASSUME NEW r \in run.todo, Adding(r) PROVE ToStore(j)
  BY <1>1, <1>2 DEF Adding, JobAdded, unchangedByRun, storingVars
<1>3. ASSUME NEW i \in DOMAIN jobs, Taking(i) PROVE ToStore(j)
  BY <1>3 DEF Taking, JobMoves, ToStore
<1>4. ASSUME NEW i \in DOMAIN jobs, Recovering(i) PROVE ToStore(j)
  BY <1>4 DEF Recovering, JobMoves, ToStore, storingVars
<1>5. ASSUME Answering \/ BeginningToStore \/ EndingToStore \/ Removing PROVE ToStore(j)
  BY <1>5 DEF Answering, BeginningToStore, EndingToStore, Removing, WorkerTo, ToStore
<1>6. ASSUME Failing \/ Completing PROVE ToStore(j)
  BY <1>0, <1>6, IdleWorkerType DEF Failing, Completing, JobMoves, ToStore
<1>7. ASSUME StoringOnly PROVE ToStore(j)
  BY <1>7 DEF StoringOnly, ToStore
<1>8. ASSUME Idling \/ UNCHANGED vars PROVE ToStore(j)
  BY <1>1, <1>8 DEF Idling, RunOnly, vars, storingVars
<1>9. ASSUME NEW p \in Payments, NEW chosen, NEW transactionId,
             Starting(p, chosen, transactionId)
      PROVE  ToStore(j)
  BY <1>1, <1>9 DEF Starting, RunOnly, storingVars
<1> QED
  BY <1>2, <1>3, <1>4, <1>5, <1>6, <1>7, <1>8, <1>9 DEF Stepping

\* What is shown of a payment changes only when the worker makes the result of
\* its job the latest.
LEMMA StatusCases ==
    ASSUME StoredInv, TypeInv', Stepping, NEW k \in Key
    PROVE  \/ StatusOf(k)' = StatusOf(k)
           \/ /\ StoringOnly /\ PublishedBy(Worker)
              /\ worker.pc = "storing" /\ worker.job \in DOMAIN jobs
              /\ k = jobs[worker.job].key
<1>0. Monotone /\ latestTransactions[k] \in 0..Len(transactions)
  BY StepIsMonotone DEF StoredInv, TypeInv, TypeOK, StoringTypeOK, StoreTypeOK
<1>1. CASE latestTransactions'[k] = latestTransactions[k]
  BY <1>0, <1>1 DEF Monotone, StatusOf, NoTransaction
<1>2. CASE StoringOnly /\ PublishedBy(Worker)
  <2>1. /\ worker.pc = "storing" /\ worker.job \in DOMAIN jobs
        /\ KeyOf(storing[Worker].transaction) = jobs[worker.job].key
    BY <1>2, WorkerFacts DEF PublishedBy, StoredInv, StorerInv, TypeInv
  <2>2. latestTransactions' =
          [latestTransactions EXCEPT ![jobs[worker.job].key] = storing[Worker].transaction]
    BY <1>2, <2>1 DEF PublishedBy
  <2>3. latestTransactions \in [Key -> Nat]
    BY DEF StoredInv, TypeInv, TypeOK, StoringTypeOK, StoreTypeOK
  <2>4. k # jobs[worker.job].key => latestTransactions'[k] = latestTransactions[k]
    BY <2>2, <2>3
  <2> QED
    BY <1>1, <1>2, <2>1, <2>4
<1>3. (StoringOnly /\ PublishedBy(Worker)) \/ UNCHANGED latestTransactions
  BY TransactionsCases DEF StoringOnly, SavedBy, BesidesTransactions
<1> QED
  BY <1>1, <1>2, <1>3

\* No run chooses a payment that shows as a success.
LEMMA ChosenNotSuccessful ==
    ASSUME StoredInv, HiddenInv, Clean, NEW p \in Payments,
           NEW chosen \in SUBSET Registrations, NEW transactionId,
           Starting(p, chosen, transactionId), NEW r \in chosen
    PROVE  StatusOf(<<r, p>>) # "success"
<1> DEFINE k == <<r, p>>
           l == latestTransactions[k]
<1>1. CASE l = 0
  BY <1>1 DEF StatusOf, NoTransaction
<1>2. CASE chosen \subseteq FailedRegistrations(p)
  BY <1>2 DEF FailedRegistrations
<1>3. CASE l # 0 /\ NewestTransactionFailed(k)
  <2>1. PICK i \in DOMAIN transactions :
          /\ KeyOf(i) = k
          /\ transactions[i].status = "error"
          /\ \A j \in DOMAIN transactions : KeyOf(j) = k => j <= i
    BY <1>3 DEF NewestTransactionFailed
  <2>2. /\ DOMAIN transactions = 1..Len(transactions) /\ Len(transactions) \in Nat
        /\ l \in 1..Len(transactions)
    BY <1>3 DEF Key, StoredInv, TypeInv, TypeOK, StoringTypeOK, StoreTypeOK
  <2>3. KeyOf(l) = k
    BY <1>3 DEF Key, StoredInv, LatestIsOwn
  <2>4. jobsInProgress = {}
    BY DEF Starting
  <2>5. i <= l
    BY <2>1, <2>2, <2>4 DEF HiddenInv
  <2>6. l = i
    BY <2>1, <2>2, <2>3, <2>5
  <2> QED
    BY <1>3, <2>1, <2>6 DEF StatusOf, NoTransaction
<1> QED
  BY <1>1, <1>2, <1>3 DEF Starting

LEMMA FinalStep ==
    ASSUME PayoutInv, TypeInv', FinalInv, Stepping PROVE FinalInv'
<1> SUFFICES ASSUME crashes' = 0 PROVE FinalInv'
  BY DEF FinalInv
<1>0. /\ crashes = 0 /\ ~Crashing /\ Clean /\ Monotone
      /\ StoredInv /\ TypeInv /\ StorerInv /\ SetInv /\ HiddenInv
  BY CrashCases, StepIsMonotone DEF PayoutInv, StoredInv, Clean
<1>1. \A j \in DOMAIN jobs : /\ ToStore(j)' => ToStore(j)
                             /\ jobs'[j].key = jobs[j].key /\ jobs[j].key \in Key
  BY <1>0, ToStoreBefore, JobFacts DEF Monotone, JobsKept, TypeInv
<1>2. \A r \in run.todo : <<r, run.payment>> \in Key \/ run.pc # "adding"
  <2>1. run.pc = "adding" => run.payment \in Payments /\ run.todo \subseteq Registrations
    BY <1>0 DEF TypeInv, TypeOK, RunTyped, Run
  <2> QED
    BY <2>1 DEF Key
<1>3. ASSUME NEW r \in run.todo, Adding(r) PROVE FinalInv'
  <2>1. PICK new \in Nat : new = Len(jobs) + 1
    BY <1>0 DEF TypeInv, TypeOK
  <2>2. PICK p : p = run.payment
    OBVIOUS
  <2>3. /\ DOMAIN jobs' = DOMAIN jobs \cup {new} /\ new \notin DOMAIN jobs
        /\ jobs'[new].key = <<r, p>>
        /\ run.pc = "adding" /\ run'.payment = p
        /\ run'.todo = run.todo \ {r}
        /\ UNCHANGED <<transactions, latestTransactions>>
    BY <1>3, <2>1, <2>2 DEF Adding, JobAdded, unchangedByRun, storingVars, storeVars
  <2>4. \A k : StatusOf(k)' = StatusOf(k)
    BY <2>3 DEF StatusOf
  <2>5. \A q \in run.todo :
          /\ StatusOf(<<q, p>>) # "success"
          /\ \A j \in DOMAIN jobs : jobs[j].key = <<q, p>> => ~ToStore(j)
    BY <1>0, <2>2, <2>3 DEF FinalInv
  <2>6. \A i, j \in DOMAIN jobs' :
          ToStore(i)' /\ ToStore(j)' /\ jobs'[i].key = jobs'[j].key => i = j
    <3>1. \A i, j \in DOMAIN jobs :
            ToStore(i)' /\ ToStore(j)' /\ jobs'[i].key = jobs'[j].key => i = j
      BY <1>0, <1>1 DEF FinalInv
    <3>2. \A j \in DOMAIN jobs : ToStore(j)' => jobs'[j].key # <<r, p>>
      BY <1>1, <2>5
    <3> QED
      BY <2>3, <3>1, <3>2
  <2>7. ASSUME NEW q \in run'.todo
        PROVE  /\ StatusOf(<<q, p>>)' # "success"
               /\ \A j \in DOMAIN jobs' : jobs'[j].key = <<q, p>> => ~ToStore(j)'
    <3>1. q \in run.todo /\ q # r
      BY <2>3, <2>7
    <3>2. StatusOf(<<q, p>>)' # "success"
      BY <2>4, <2>5, <3>1
    <3>3. \A j \in DOMAIN jobs : jobs'[j].key = <<q, p>> => ~ToStore(j)'
      BY <1>1, <2>5, <3>1
    <3> QED
      BY <2>3, <3>1, <3>2, <3>3
  <2>8. ASSUME NEW j \in DOMAIN jobs', ToStore(j)', NEW k, k = jobs'[j].key
        PROVE  StatusOf(k)' # "success"
    <3>1. CASE j \in DOMAIN jobs
      BY <1>0, <1>1, <2>4, <2>8, <3>1 DEF FinalInv
    <3>2. CASE j = new
      BY <1>3, <2>3, <2>4, <2>5, <2>8, <3>2
    <3> QED
      BY <2>3, <3>1, <3>2
  <2> QED
    BY <2>3, <2>6, <2>7, <2>8 DEF FinalInv
\* Every other step only takes away from what is to be stored.
<1>4. ASSUME DOMAIN jobs' = DOMAIN jobs
      PROVE  \A i, j \in DOMAIN jobs' :
               ToStore(i)' /\ ToStore(j)' /\ jobs'[i].key = jobs'[j].key => i = j
  BY <1>0, <1>1, <1>4 DEF FinalInv
<1>5. ASSUME NEW k \in Key, StatusOf(k)' = "success", StatusOf(k) # "success"
      PROVE  \E w \in DOMAIN jobs : k = jobs[w].key /\ ToStore(w) /\ ~ToStore(w)'
  <2>1. PICK w : w = worker.job
    OBVIOUS
  <2>2. /\ StoringOnly /\ PublishedBy(Worker) /\ worker.pc = "storing"
        /\ w \in DOMAIN jobs /\ k = jobs[w].key
    BY <1>0, <1>5, <2>1, StatusCases
  <2>3. UNCHANGED <<worker, jobs, run>>
    BY <2>2 DEF StoringOnly
  <2>4. jobs[w].state = "active"
    BY <1>0, <2>1, <2>2 DEF SetInv
  <2>5. ToStore(w) /\ ~ToStore(w)'
    BY <2>1, <2>2, <2>3, <2>4 DEF PublishedBy, ToStore
  <2> QED
    BY <2>2, <2>5
<1>6. ASSUME NEW j \in DOMAIN jobs, ToStore(j)', NEW k \in Key, k = jobs[j].key
      PROVE  StatusOf(k)' # "success"
  <2>1. StatusOf(k) # "success" /\ ToStore(j)
    BY <1>0, <1>1, <1>6 DEF FinalInv
  <2>2. ASSUME StatusOf(k)' = "success" PROVE FALSE
    <3>1. PICK w \in DOMAIN jobs : k = jobs[w].key /\ ToStore(w) /\ ~ToStore(w)'
      BY <1>5, <2>1, <2>2
    <3>2. j = w
      BY <1>0, <1>6, <2>1, <3>1 DEF FinalInv
    <3> QED
      BY <1>6, <3>1, <3>2
  <2> QED
    BY <2>2
<1>7. ASSUME DOMAIN jobs' = DOMAIN jobs, NEW p, p = run'.payment,
             run'.pc = "adding" => \A r \in run'.todo :
               /\ StatusOf(<<r, p>>)' # "success"
               /\ \A j \in DOMAIN jobs : jobs[j].key = <<r, p>> => ~ToStore(j)'
      PROVE  FinalInv'
  <2>1. ASSUME NEW j \in DOMAIN jobs', ToStore(j)', NEW k, k = jobs'[j].key
        PROVE  StatusOf(k)' # "success"
    BY <1>1, <1>6, <1>7, <2>1
  <2>2. ASSUME run'.pc = "adding", NEW r \in run'.todo
        PROVE  /\ StatusOf(<<r, p>>)' # "success"
               /\ \A j \in DOMAIN jobs' : jobs'[j].key = <<r, p>> => ~ToStore(j)'
    BY <1>1, <1>7, <2>2
  <2> QED
    BY <1>4, <1>7, <2>1, <2>2 DEF FinalInv
<1>8. ASSUME NEW p \in Payments, NEW chosen \in SUBSET Registrations,
             NEW transactionId, Starting(p, chosen, transactionId)
      PROVE  FinalInv'
  <2>1. /\ DOMAIN jobs' = DOMAIN jobs /\ run'.todo = chosen /\ run'.payment = p
        /\ UNCHANGED <<transactions, latestTransactions>> /\ jobsInProgress = {}
    BY <1>8 DEF Starting, RunOnly, storingVars, storeVars
  <2>2. \A j \in DOMAIN jobs : ~ToStore(j)'
    BY <1>0, <1>1, <2>1, ToStoreInSet
  <2>3. ASSUME NEW r \in chosen PROVE StatusOf(<<r, p>>)' # "success"
    <3>1. StatusOf(<<r, p>>) # "success"
      BY <1>0, <1>8, ChosenNotSuccessful
    <3> QED
      BY <2>1, <3>1 DEF StatusOf
  <2> QED
    BY <1>7, <2>1, <2>2, <2>3
<1>9. ASSUME UNCHANGED run, DOMAIN jobs' = DOMAIN jobs PROVE FinalInv'
  <2>1. PICK p : p = run.payment
    OBVIOUS
  <2>2. ASSUME run.pc = "adding", NEW r \in run.todo
        PROVE  /\ StatusOf(<<r, p>>)' # "success"
               /\ \A j \in DOMAIN jobs : jobs[j].key = <<r, p>> => ~ToStore(j)'
    <3>1. /\ StatusOf(<<r, p>>) # "success"
          /\ \A j \in DOMAIN jobs : jobs[j].key = <<r, p>> => ~ToStore(j)
      BY <1>0, <2>1, <2>2 DEF FinalInv
    <3>2. <<r, p>> \in Key
      BY <1>2, <2>1, <2>2
    <3>3. StatusOf(<<r, p>>)' # "success"
      BY <1>5, <3>1, <3>2
    <3> QED
      BY <1>1, <3>1, <3>3
  <2> QED
    BY <1>7, <1>9, <2>1, <2>2
<1>10. ASSUME Idling PROVE FinalInv'
  <2>1. run'.pc # "adding" /\ DOMAIN jobs' = DOMAIN jobs
    BY <1>10 DEF Idling, RunOnly, IdleRun
  <2> QED
    BY <1>7, <2>1
<1>11. \/ \E p \in Payments : \E chosen \in SUBSET Registrations :
             \E transactionId : Starting(p, chosen, transactionId)
       \/ \E r \in run.todo : Adding(r)
       \/ Idling
       \/ UNCHANGED run /\ DOMAIN jobs' = DOMAIN jobs
  BY <1>0 DEF Stepping, Taking, Recovering, JobMoves, Answering, Failing,
              BeginningToStore, StoringOnly, EndingToStore, Removing, Completing,
              unchangedByWorker, vars
<1> QED
  BY <1>3, <1>8, <1>9, <1>10, <1>11

\* No step takes back a success the user sees, as long as nothing crashes: a
\* retry is not for a payment that succeeded, and no other job of it is to come.
\* A job that is done again after a crash can find the credentials gone, or the
\* inquiry failing, and does take it back.
THEOREM SuccessIsFinal ==
    Spec => [][crashes = 0 => \A k \in Key :
                 StatusOf(k) = "success" => StatusOf(k)' = "success"]_vars
<1>1. Init => FinalInv
  BY DEF Init, IdleRun, FinalInv
<1>2. PayoutInv /\ FinalInv /\ [Next]_vars => FinalInv'
  <2> SUFFICES ASSUME PayoutInv, FinalInv, [Next]_vars PROVE FinalInv'
    OBVIOUS
  <2>1. TypeInv' /\ Stepping
    BY NextFacts DEF PayoutInv, StoredInv
  <2> QED
    BY <2>1, FinalStep
<1>3. PayoutInv /\ FinalInv /\ [Next]_vars =>
        [crashes = 0 => \A k \in Key :
           StatusOf(k) = "success" => StatusOf(k)' = "success"]_vars
  <2> SUFFICES ASSUME PayoutInv, FinalInv, [Next]_vars, crashes = 0,
                      NEW k \in Key, StatusOf(k) = "success"
               PROVE  StatusOf(k)' = "success"
    OBVIOUS
  <2>1. StoredInv /\ TypeInv' /\ Stepping /\ SetInv
    BY NextFacts DEF PayoutInv, StoredInv
  <2>2. ASSUME StoringOnly, PublishedBy(Worker), worker.pc = "storing",
               worker.job \in DOMAIN jobs, k = jobs[worker.job].key
        PROVE  FALSE
    <3>1. ToStore(worker.job)
      BY <2>2 DEF PublishedBy, ToStore
    <3> QED
      BY <2>2, <3>1 DEF FinalInv
  <2> QED
    BY <2>1, <2>2, StatusCases
<1> QED
  BY <1>1, <1>2, <1>3, PayoutInit, PayoutStep, PTL DEF Spec
=============================================================================
