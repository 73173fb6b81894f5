------------------------ MODULE PaymentInProgress -----------------------
(***************************************************************************)
(* How the 121-service decides whether a payment of a program is in        *)
(* progress, and so refuses a second one.  Two sources say so:             *)
(*                                                                         *)
(*   - the action log: a run saves paymentStarted before it adds its first *)
(*     job and paymentFinished after its last;                             *)
(*   - the Redis set program:<id>:jobs: the ids of the jobs not yet done.  *)
(*                                                                         *)
(* Requests (calls of postPayment and retryPayment) run concurrently with  *)
(* each other and with one worker per FSP.  Nothing keeps a second request *)
(* from being checked before the first has saved paymentStarted.  Bull     *)
(* numbers the jobs of each queue from 1; all queues of a program share    *)
(* the one Redis set.                                                      *)
(*                                                                         *)
(* Both are ways for a payment not to be seen.  The history variable       *)
(* mishaps says which of them has happened; no guard reads it.             *)
(*                                                                         *)
(* What a job does is left to the modules of the FSPs: here it stores a    *)
(* transaction that succeeded or failed.  Operators named _Wrong contain a *)
(* deliberate mistake and belong to no specification.                      *)
(***************************************************************************)
EXTENDS Integers, Sequences, FiniteSets

CONSTANTS
    Registrations,  \* the registrations of the program
    Fsps,           \* the FSPs that work with a job queue
    FspOf,          \* the FSP of each registration
    Requests        \* the calls of postPayment and retryPayment

ASSUME FspOfAssumption == FspOf \in [Registrations -> Fsps]

VARIABLES
    request,           \* where each request is, and the jobs it has to add
    latestAction,      \* the latest payment action in the action log
    queue,             \* the jobs waiting in each FSP's queue
    lastJobId,         \* the id counter of each queue
    jobsInProgress,    \* the Redis set
    worker,            \* what each FSP's worker does: with no job or with one
    status,            \* the status of a registration's latest transaction
    payouts,           \* how often a job for the registration succeeded
    mishaps            \* what has gone wrong so far

vars == <<request, latestAction, queue, lastJobId, jobsInProgress, worker,
          status, payouts, mishaps>>

Job == [id : Nat, fsp : Fsps, registration : Registrations]
RequestPc == {"idle", "checkQueue", "select", "start", "adding", "done", "rejected"}
Request == [pc : RequestPc, todo : SUBSET Registrations, unmarked : SUBSET Job]
Worker == [pc : {"idle", "processing", "removing"}, jobs : SUBSET Job]

TypeOK ==
    /\ request \in [Requests -> Request]
    /\ latestAction \in {"none", "paymentStarted", "paymentFinished"}
    /\ queue \in [Fsps -> Seq(Job)]
    /\ lastJobId \in [Fsps -> Nat]
    /\ jobsInProgress \subseteq Nat
    /\ worker \in [Fsps -> Worker]
    /\ status \in [Registrations -> {"none", "success", "error"}]
    /\ payouts \in [Registrations -> Nat]
    /\ mishaps \subseteq {"overlap", "namesake"}

IdleWorker == [pc |-> "idle", jobs |-> {}]

Init ==
    /\ request = [q \in Requests |->
           [pc |-> "idle", todo |-> {}, unmarked |-> {}]]
    /\ latestAction = "none"
    /\ queue = [f \in Fsps |-> << >>]
    /\ lastJobId = [f \in Fsps |-> 0]
    /\ jobsInProgress = {}
    /\ worker = [f \in Fsps |-> IdleWorker]
    /\ status = [r \in Registrations |-> "none"]
    /\ payouts = [r \in Registrations |-> 0]
    /\ mishaps = {}

PaymentActionInProgress == latestAction = "paymentStarted"

IsPaymentInProgress == PaymentActionInProgress \/ jobsInProgress # {}

-----------------------------------------------------------------------------
(* A request.                                                              *)

unchangedByChecks ==
    <<latestAction, queue, lastJobId, jobsInProgress, worker, status, payouts,
      mishaps>>

Goto(q, pc) == request' = [request EXCEPT ![q].pc = pc]

\* A request has passed a check and its paymentStarted is not yet saved.
BetweenCheckAndStart(q) == request[q].pc \in {"checkQueue", "select", "start"}

CheckActionsAnd(q, inProgress) ==
    /\ request[q].pc = "idle"
    /\ Goto(q, IF inProgress THEN "rejected" ELSE "checkQueue")
    /\ UNCHANGED unchangedByChecks

CheckActionsSkipped_Wrong(q) == CheckActionsAnd(q, FALSE)

CheckPaymentActionInProgress(q) == CheckActionsAnd(q, PaymentActionInProgress)

CheckQueueAnd(q, inProgress) ==
    /\ request[q].pc = "checkQueue"
    /\ Goto(q, IF inProgress THEN "rejected" ELSE "select")
    /\ UNCHANGED unchangedByChecks

CheckQueueSkipped_Wrong(q) == CheckQueueAnd(q, FALSE)

CheckPaymentInProgressForProgramQueue(q) == CheckQueueAnd(q, jobsInProgress # {})

\* postPayment takes registrations without a transaction, retryPayment those
\* whose transaction failed (which of the two was called matters only here); the
\* user may name fewer.  Without any, nothing is started.
SelectRegistrations(q) ==
    /\ request[q].pc = "select"
    /\ \E wanted \in {"none", "error"} :
       \E selected \in SUBSET {r \in Registrations : status[r] = wanted} :
         request' = [request EXCEPT
             ![q].todo = selected,
             ![q].pc = IF selected = {} THEN "done" ELSE "start"]
    /\ UNCHANGED unchangedByChecks

\* It is a mishap when another request has been checked before.
Overlaps(q) == \E other \in Requests \ {q} : BetweenCheckAndStart(other)

SavePaymentStarted(q) ==
    /\ request[q].pc = "start"
    /\ latestAction' = "paymentStarted"
    /\ Goto(q, "adding")
    /\ mishaps' = mishaps \cup IF Overlaps(q) THEN {"overlap"} ELSE {}
    /\ UNCHANGED <<queue, lastJobId, jobsInProgress, worker, status, payouts>>

\* The loops over the FSPs run side by side (Promise.all); each of them adds a
\* job to its queue ...
AddJob(q, r) ==
    LET f == FspOf[r]
        job == [id |-> lastJobId[f] + 1, fsp |-> f, registration |-> r]
    IN  /\ request[q].pc = "adding"
        /\ r \in request[q].todo
        /\ \A other \in request[q].unmarked : other.fsp # f
        /\ queue' = [queue EXCEPT ![f] = Append(@, job)]
        /\ lastJobId' = [lastJobId EXCEPT ![f] = job.id]
        /\ request' = [request EXCEPT ![q].todo = @ \ {r},
                                      ![q].unmarked = @ \cup {job}]
        /\ UNCHANGED <<latestAction, jobsInProgress, worker, status, payouts, mishaps>>

\* ... and then the job's id to the Redis set.
MarkJobAs(q, job, entry) ==
    /\ job \in request[q].unmarked
    /\ jobsInProgress' = jobsInProgress \cup {entry}
    /\ request' = [request EXCEPT ![q].unmarked = @ \ {job}]
    /\ UNCHANGED <<latestAction, queue, lastJobId, worker, status, payouts, mishaps>>

MarkJobByRegistration_Wrong(q, job) == MarkJobAs(q, job, job.registration)

MarkJob(q, job) == MarkJobAs(q, job, job.id)

SaveFinishedIf(q, addedAll) ==
    /\ request[q].pc = "adding"
    /\ addedAll
    /\ latestAction' = "paymentFinished"
    /\ Goto(q, "done")
    /\ UNCHANGED <<queue, lastJobId, jobsInProgress, worker, status, payouts, mishaps>>

SaveFinishedAtOnce_Wrong(q) == SaveFinishedIf(q, TRUE)

SavePaymentFinished(q) ==
    SaveFinishedIf(q, request[q].todo = {} /\ request[q].unmarked = {})

RequestStep(q) ==
    \/ CheckPaymentInProgressForProgramQueue(q)
    \/ SelectRegistrations(q)
    \/ SavePaymentStarted(q)
    \/ \E r \in Registrations : AddJob(q, r)
    \/ \E job \in request[q].unmarked : MarkJob(q, job)
    \/ SavePaymentFinished(q)

-----------------------------------------------------------------------------
(* The worker of an FSP.                                                   *)

unchangedByWorker == <<request, latestAction, lastJobId>>

TakeJob(f) ==
    /\ worker[f].pc = "idle"
    /\ queue[f] # << >>
    /\ worker' = [worker EXCEPT ![f] = 
         [pc |-> "processing", jobs |-> {Head(queue[f])}]]
    /\ queue' = [queue EXCEPT ![f] = Tail(@)]
    /\ UNCHANGED <<jobsInProgress, status, payouts, mishaps, unchangedByWorker>>

ProcessJob(f) ==
    /\ worker[f].pc = "processing"
    /\ \E job \in worker[f].jobs :
         \/ /\ status' = [status EXCEPT ![job.registration] = "success"]
            /\ payouts' = [payouts EXCEPT ![job.registration] = @ + 1]
         \/ /\ status' = [status EXCEPT ![job.registration] = "error"]
            /\ UNCHANGED payouts
    /\ worker' = [worker EXCEPT ![f].pc = "removing"]
    /\ UNCHANGED <<queue, jobsInProgress, mishaps, unchangedByWorker>>

\* The jobs of an FSP that are not done yet.
PendingJobs(f) ==
    {queue[f][i] : i \in DOMAIN queue[f]}
        \cup IF worker[f].pc = "processing" THEN worker[f].jobs ELSE {}

\* It is a mishap when a job of another queue has the same number.
HidesNamesake(f) ==
    \E g \in Fsps \ {f} : \E job \in worker[f].jobs, other \in PendingJobs(g) :
        job.id = other.id

RemoveJob(f) ==
    /\ worker[f].pc = "removing"
    /\ jobsInProgress' = jobsInProgress \ {job.id : job \in worker[f].jobs}
    /\ worker' = [worker EXCEPT ![f] = IdleWorker]
    /\ mishaps' = mishaps \cup IF HidesNamesake(f) THEN {"namesake"} ELSE {}
    /\ UNCHANGED <<queue, status, payouts, unchangedByWorker>>

WorkerStep(f) == TakeJob(f) \/ ProcessJob(f) \/ RemoveJob(f)

-----------------------------------------------------------------------------
Next ==
    \/ \E q \in Requests : CheckPaymentActionInProgress(q) \/ RequestStep(q)
    \/ \E f \in Fsps : WorkerStep(f)

Spec == Init /\ [][Next]_vars

-----------------------------------------------------------------------------
(* Properties.                                                             *)

Adding(q) == request[q].pc = "adding"

\* As long as jobs are being added, wait or are processed, the service says
\* that a payment is in progress.  The queues' numbers break this.
PendingMeansInProgress ==
    (\/ \E q \in Requests : Adding(q)
     \/ \E f \in Fsps : PendingJobs(f) # {}) => IsPaymentInProgress

\* A job that waits or is processed is in the Redis set, or about to be put
\* there by its run, unless another queue has done a job of the same number:
\* whatever overlaps, no other job of the queue removes it, and no run forgets it.
NamesakeDone(f, id) ==
    \E g \in Fsps \ {f} :
        /\ id <= lastJobId[g]
        /\ \A other \in PendingJobs(g) : other.id # id

JobHiddenOnlyByNamesake ==
    \A f \in Fsps : \A job \in PendingJobs(f) :
        \/ job.id \in jobsInProgress
        \/ \E q \in Requests : Adding(q) /\ job \in request[q].unmarked
        \/ NamesakeDone(f, job.id)

\* While a run adds jobs, the action log says so and no second run adds any,
\* unless two requests have overlapped between check and paymentStarted: no
\* queue, no worker and no shared number makes the log forget a run.
RunHiddenOnlyByOverlap ==
    "overlap" \notin mishaps =>
        \A q \in Requests : Adding(q) =>
            /\ PaymentActionInProgress
            /\ \A other \in Requests : Adding(other) => other = q

\* No registration has two jobs at once, and none is paid twice, whatever is
\* posted and retried, unless requests have overlapped or a job of one queue
\* has hidden one of another.
OneJobEach ==
    /\ \A f \in Fsps : \A i, j \in DOMAIN queue[f] :
         queue[f][i].registration = queue[f][j].registration => i = j
    /\ \A f \in Fsps : worker[f].pc = "processing" =>
         \A i \in DOMAIN queue[f] : \A job \in worker[f].jobs :
            queue[f][i].registration # job.registration

OnePayoutWithoutMishap ==
    mishaps = {} =>
        OneJobEach /\ \A r \in Registrations : payouts[r] <= 1
=============================================================================
