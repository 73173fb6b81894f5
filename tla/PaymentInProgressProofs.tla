--------------------- MODULE PaymentInProgressProofs --------------------
(***************************************************************************)
(* Proofs about PaymentInProgress, for every set of registrations, FSPs    *)
(* and requests, however the requests overlap.                             *)
(***************************************************************************)
EXTENDS PaymentInProgress, TLAPS

-----------------------------------------------------------------------------
(* The action log keeps runs apart as long as requests do not overlap.     *)

\* Inductive: while a run adds jobs, the action log says so, and nobody else
\* adds jobs or has been checked.
SequentialInv ==
    /\ DOMAIN request = Requests
    /\ "overlap" \notin mishaps =>
         /\ \A p, q \in Requests : Adding(p) /\ Adding(q) => p = q
         /\ \A p, q \in Requests : Adding(p) => ~BetweenCheckAndStart(q)
         /\ \A q \in Requests : Adding(q) => PaymentActionInProgress
         /\ \A q \in Requests : BetweenCheckAndStart(q) => ~PaymentActionInProgress

LEMMA SequentialInit == Init => SequentialInv
BY DEF Init, SequentialInv, Adding, BetweenCheckAndStart, PaymentActionInProgress

LEMMA SequentialStep == SequentialInv /\ [Next]_vars => SequentialInv'
<1> SUFFICES ASSUME SequentialInv, [Next]_vars
             PROVE  SequentialInv'
  OBVIOUS
<1> USE DEF SequentialInv, Adding, BetweenCheckAndStart, Goto, PaymentActionInProgress
<1>1. ASSUME NEW q \in Requests, CheckPaymentActionInProgress(q)
      PROVE  SequentialInv'
  BY <1>1 DEF CheckPaymentActionInProgress, CheckActionsAnd, unchangedByChecks
<1>2. ASSUME NEW q \in Requests, CheckPaymentInProgressForProgramQueue(q)
      PROVE  SequentialInv'
  BY <1>2 DEF CheckPaymentInProgressForProgramQueue, CheckQueueAnd, unchangedByChecks
<1>3. ASSUME NEW q \in Requests, SelectRegistrations(q)
      PROVE  SequentialInv'
  BY <1>3 DEF SelectRegistrations, unchangedByChecks
<1>4. ASSUME NEW q \in Requests, SavePaymentStarted(q)
      PROVE  SequentialInv'
  BY <1>4 DEF SavePaymentStarted, Overlaps
<1>5. ASSUME NEW q \in Requests, NEW r \in Registrations, AddJob(q, r)
      PROVE  SequentialInv'
  BY <1>5 DEF AddJob
<1>6. ASSUME NEW q \in Requests, NEW job \in request[q].unmarked, MarkJob(q, job)
      PROVE  SequentialInv'
  BY <1>6 DEF MarkJob, MarkJobAs
<1>7. ASSUME NEW q \in Requests, SavePaymentFinished(q)
      PROVE  SequentialInv'
  BY <1>7 DEF SavePaymentFinished, SaveFinishedIf
<1>8. ASSUME NEW f \in Fsps, WorkerStep(f)
      PROVE  SequentialInv'
  BY <1>8 DEF WorkerStep, TakeJob, ProcessJob, RemoveJob, unchangedByWorker
<1>9. CASE UNCHANGED vars
  BY <1>9 DEF vars
<1> QED
  BY <1>1, <1>2, <1>3, <1>4, <1>5, <1>6, <1>7, <1>8, <1>9 DEF Next, RequestStep

\* Unless two requests have overlapped between check and paymentStarted, the
\* action log shows a run that adds jobs and keeps every other run out,
\* however many FSPs and requests there are.
THEOREM RunHidden == Spec => []RunHiddenOnlyByOverlap
<1>1. SequentialInv => RunHiddenOnlyByOverlap
  BY DEF SequentialInv, RunHiddenOnlyByOverlap
<1> QED
  BY <1>1, SequentialInit, SequentialStep, PTL DEF Spec

-----------------------------------------------------------------------------
(* Type correctness.                                                       *)

LEMMA TypeInit == Init => TypeOK
BY FspOfAssumption
DEF Init, TypeOK, Request, RequestPc, Worker, IdleWorker, Job

LEMMA RequestPcType ==
    ASSUME NEW requests \in [Requests -> Request], NEW q \in Requests,
           NEW next \in RequestPc
    PROVE  [requests EXCEPT ![q].pc = next] \in [Requests -> Request]
BY DEF Request

LEMMA RequestUnmarkedType ==
    ASSUME NEW requests \in [Requests -> Request], NEW q \in Requests,
           NEW unmarked \in SUBSET Job
    PROVE  [requests EXCEPT ![q].unmarked = unmarked] \in [Requests -> Request]
BY DEF Request

LEMMA TypeStep == TypeOK /\ [Next]_vars => TypeOK'
<1> SUFFICES ASSUME TypeOK, [Next]_vars
             PROVE  TypeOK'
  OBVIOUS
<1> USE DEF TypeOK, Request, RequestPc, Worker
<1>1. ASSUME NEW q \in Requests, CheckPaymentActionInProgress(q)
      PROVE  TypeOK'
  <2>1. PICK next \in RequestPc : Goto(q, next)
    BY <1>1 DEF CheckPaymentActionInProgress, CheckActionsAnd
  <2>2. UNCHANGED unchangedByChecks
    BY <1>1 DEF CheckPaymentActionInProgress, CheckActionsAnd
  <2> QED
    BY <2>1, <2>2, RequestPcType DEF unchangedByChecks, Goto
<1>2. ASSUME NEW q \in Requests, CheckPaymentInProgressForProgramQueue(q)
      PROVE  TypeOK'
  <2>1. PICK next \in RequestPc : Goto(q, next)
    BY <1>2 DEF CheckPaymentInProgressForProgramQueue, CheckQueueAnd
  <2>2. UNCHANGED unchangedByChecks
    BY <1>2 DEF CheckPaymentInProgressForProgramQueue, CheckQueueAnd
  <2> QED
    BY <2>1, <2>2, RequestPcType DEF unchangedByChecks, Goto
<1>3. ASSUME NEW q \in Requests, SelectRegistrations(q)
      PROVE  TypeOK'
  <2>1. PICK selected \in SUBSET Registrations, next \in RequestPc :
          request' = [request EXCEPT ![q].todo = selected, ![q].pc = next]
    BY <1>3 DEF SelectRegistrations
  <2>2. request' \in [Requests -> Request]
    <3> DEFINE mid == [request EXCEPT ![q].todo = selected]
    <3>1. mid \in [Requests -> Request]
      OBVIOUS
    <3>2. request' = [mid EXCEPT ![q].pc = next]
      BY <2>1
    <3> HIDE DEF mid
    <3> QED
      BY <3>1, <3>2, RequestPcType
  <2> QED
    BY <1>3, <2>2 DEF SelectRegistrations, unchangedByChecks
<1>4. ASSUME NEW q \in Requests, SavePaymentStarted(q)
      PROVE  TypeOK'
  <2>1. request' = [request EXCEPT ![q].pc = "adding"] /\ "adding" \in RequestPc
    BY <1>4 DEF SavePaymentStarted, Goto
  <2>2. request' \in [Requests -> Request]
    BY <2>1, RequestPcType
  <2> QED
    BY <1>4, <2>2 DEF SavePaymentStarted
<1>5. ASSUME NEW q \in Requests, NEW r \in Registrations, AddJob(q, r)
      PROVE  TypeOK'
  <2> DEFINE f == FspOf[r]
             job == [id |-> lastJobId[f] + 1, fsp |-> f, registration |-> r]
  <2>1. f \in Fsps
    BY FspOfAssumption
  <2>2. job \in Job /\ job.id \in Nat
    BY <2>1 DEF Job
  <2>3. queue' \in [Fsps -> Seq(Job)] /\ lastJobId' \in [Fsps -> Nat]
    BY <1>5, <2>1, <2>2 DEF AddJob
  <2>4. request' \in [Requests -> Request]
    <3>1. [request EXCEPT ![q].todo = @ \ {r}] \in [Requests -> Request]
      OBVIOUS
    <3>2. request[q].unmarked \cup {job} \in SUBSET Job
      BY <2>2
    <3> DEFINE todo == request[q].todo \ {r}
               unmarked == request[q].unmarked \cup {job}
    <3>3. request' = [request EXCEPT ![q].todo = todo, ![q].unmarked = unmarked]
      BY <1>5 DEF AddJob
    <3>4. todo \in SUBSET Registrations /\ unmarked \in SUBSET Job
      BY <3>2
    <3> DEFINE mid == [request EXCEPT ![q].todo = todo]
    <3>5. mid \in [Requests -> Request]
      <4>1. request \in [Requests -> Request] /\ todo \in SUBSET Registrations
        BY <3>4
      <4> HIDE DEF todo
      <4> QED
        BY <4>1
    <3>6. request' = [mid EXCEPT ![q].unmarked = unmarked]
      BY <3>3
    <3> HIDE DEF job, todo, unmarked, mid
    <3> QED
      BY <3>4, <3>5, <3>6, RequestUnmarkedType
  <2> QED
    BY <1>5, <2>3, <2>4 DEF AddJob
<1>6. ASSUME NEW q \in Requests, NEW job \in request[q].unmarked, MarkJob(q, job)
      PROVE  TypeOK'
  <2>1. request[q] \in Request /\ request[q].unmarked \subseteq Job
    OBVIOUS
  <2>2. job.id \in Nat
    BY <2>1 DEF Job
  <2>3. jobsInProgress' = jobsInProgress \cup {job.id}
    BY <1>6 DEF MarkJob, MarkJobAs
  <2>4. request' = [request EXCEPT ![q].unmarked = request[q].unmarked \ {job}]
    BY <1>6 DEF MarkJob, MarkJobAs
  <2>5. request' \in [Requests -> Request]
    <3>1. request[q].unmarked \ {job} \in SUBSET Job
      BY <2>1
    <3> QED
      BY <2>4, <3>1, RequestUnmarkedType
  <2>6. jobsInProgress' \subseteq Nat
    BY <2>2, <2>3
  <2>7. UNCHANGED <<latestAction, queue, lastJobId, worker, status, payouts, mishaps>>
    BY <1>6 DEF MarkJob, MarkJobAs
  <2> QED
    BY <2>5, <2>6, <2>7
<1>7. ASSUME NEW q \in Requests, SavePaymentFinished(q)
      PROVE  TypeOK'
  <2>1. request' = [request EXCEPT ![q].pc = "done"] /\ "done" \in RequestPc
    BY <1>7 DEF SavePaymentFinished, SaveFinishedIf, Goto
  <2>2. request' \in [Requests -> Request]
    BY <2>1, RequestPcType
  <2> QED
    BY <1>7, <2>2 DEF SavePaymentFinished, SaveFinishedIf
<1>8. ASSUME NEW f \in Fsps, TakeJob(f)
      PROVE  TypeOK'
  <2>1. Head(queue[f]) \in Job /\ Tail(queue[f]) \in Seq(Job)
    BY <1>8 DEF TakeJob
  <2> QED
    BY <1>8, <2>1 DEF TakeJob, unchangedByWorker
<1>9. ASSUME NEW f \in Fsps, ProcessJob(f)
      PROVE  TypeOK'
  <2>1. PICK job \in worker[f].jobs :
          \/ /\ status' = [status EXCEPT ![job.registration] = "success"]
             /\ payouts' = [payouts EXCEPT ![job.registration] = @ + 1]
          \/ /\ status' = [status EXCEPT ![job.registration] = "error"]
             /\ UNCHANGED payouts
    BY <1>9 DEF ProcessJob
  <2>2. job.registration \in Registrations
    BY DEF Job
  <2>3. status' \in [Registrations -> {"none", "success", "error"}]
    BY <2>1
  <2>4. payouts' \in [Registrations -> Nat]
    <3>1. payouts \in [Registrations -> Nat]
      OBVIOUS
    <3>2. payouts[job.registration] + 1 \in Nat
      BY <2>2, <3>1
    <3> QED
      BY ONLY <2>1, <3>1, <3>2
  <2>5. /\ worker' = [worker EXCEPT ![f].pc = "removing"]
        /\ UNCHANGED <<queue, jobsInProgress, mishaps, unchangedByWorker>>
    BY <1>9 DEF ProcessJob
  <2>6. worker' \in [Fsps -> Worker]
    BY <2>5
  <2> QED
    BY <2>3, <2>4, <2>5, <2>6 DEF unchangedByWorker
<1>10. ASSUME NEW f \in Fsps, RemoveJob(f)
       PROVE  TypeOK'
  <2>1. IdleWorker \in Worker
    BY DEF IdleWorker
  <2>2. worker' \in [Fsps -> Worker] /\ jobsInProgress' \subseteq Nat
    BY <1>10, <2>1 DEF RemoveJob
  <2> QED
    BY <1>10, <2>2 DEF RemoveJob, unchangedByWorker
<1>11. CASE UNCHANGED vars
  BY <1>11 DEF vars
<1> QED
  BY <1>1, <1>2, <1>3, <1>4, <1>5, <1>6, <1>7, <1>8, <1>9, <1>10, <1>11
  DEF Next, RequestStep, WorkerStep

\* Every variable keeps its type.
THEOREM TypeCorrect == Spec => []TypeOK
BY TypeInit, TypeStep, PTL DEF Spec

-----------------------------------------------------------------------------
(* A pending job is hidden by a job of its number in another queue only.   *)

\* The job's id is in the Redis set, or the run that added it is about to put
\* it there.
Noted(job) ==
    \/ job.id \in jobsInProgress
    \/ \E q \in Requests : Adding(q) /\ job \in request[q].unmarked

\* The jobs of a queue are numbered in order and after those of its worker,
\* so that removing the id of one job removes the id of no other of its queue.
JobIdsInOrder ==
    \A f \in Fsps :
        /\ \A i \in DOMAIN queue[f] : queue[f][i].id <= lastJobId[f]
        /\ \A i, j \in DOMAIN queue[f] : i < j => queue[f][i].id < queue[f][j].id
        /\ \A job \in worker[f].jobs : job.id <= lastJobId[f]
        /\ \A job \in worker[f].jobs, i \in DOMAIN queue[f] : job.id < queue[f][i].id

\* A job waits in the queue of its registration's FSP.
JobsAtTheirFsp ==
    \A f \in Fsps :
        /\ \A i \in DOMAIN queue[f] : FspOf[queue[f][i].registration] = f
        /\ \A job \in worker[f].jobs : FspOf[job.registration] = f

NotedWithoutNamesake ==
    "namesake" \notin mishaps => \A f \in Fsps : \A job \in PendingJobs(f) : Noted(job)

NotedInv == JobHiddenOnlyByNamesake /\ NotedWithoutNamesake

JobsInv == JobIdsInOrder /\ JobsAtTheirFsp /\ NotedInv

PendingInv == TypeOK /\ SequentialInv /\ JobsInv

LEMMA PendingInit == Init => PendingInv
<1> SUFFICES ASSUME Init PROVE PendingInv
  OBVIOUS
<1>1. \A f \in Fsps : PendingJobs(f) = {}
  BY DEF Init, PendingJobs, IdleWorker
<1>2. JobIdsInOrder /\ JobsAtTheirFsp
  BY DEF Init, JobIdsInOrder, JobsAtTheirFsp, IdleWorker
<1> QED
  BY <1>1, <1>2, TypeInit, SequentialInit
  DEF PendingInv, JobsInv, NotedInv, JobHiddenOnlyByNamesake, NotedWithoutNamesake

LEMMA PendingJobType ==
    ASSUME TypeOK, JobIdsInOrder, JobsAtTheirFsp, NEW f \in Fsps, NEW job \in PendingJobs(f)
    PROVE  /\ job \in Job /\ job.id \in Nat /\ job.id <= lastJobId[f]
           /\ job.registration \in Registrations /\ FspOf[job.registration] = f
<1>1. CASE \E i \in DOMAIN queue[f] : job = queue[f][i]
  <2>1. PICK i \in DOMAIN queue[f] : job = queue[f][i]
    BY <1>1
  <2>2. queue[f] \in Seq(Job)
    BY DEF TypeOK
  <2>3. job \in Job
    BY <2>1, <2>2
  <2> QED
    BY <2>1, <2>3 DEF JobIdsInOrder, JobsAtTheirFsp, Job
<1>2. CASE job \in worker[f].jobs
  <2>1. job \in Job
    BY <1>2 DEF TypeOK, Worker
  <2> QED
    BY <1>2, <2>1 DEF JobIdsInOrder, JobsAtTheirFsp, Job
<1> QED
  BY <1>1, <1>2 DEF PendingJobs

\* A number another queue has done stays done: its numbers only grow.
LEMMA NamesakeStays ==
    ASSUME TypeOK, TypeOK', NEW f \in Fsps, NEW id \in Nat, NamesakeDone(f, id),
           \A g \in Fsps : lastJobId[g] <= lastJobId'[g],
           \A g \in Fsps : \A job \in PendingJobs(g)' :
               job \in PendingJobs(g) \/ job.id = lastJobId[g] + 1
    PROVE  NamesakeDone(f, id)'
<1>1. PICK g \in Fsps \ {f} :
          /\ id <= lastJobId[g]
          /\ \A other \in PendingJobs(g) : other.id # id
  BY DEF NamesakeDone
<1>2. lastJobId[g] \in Nat /\ lastJobId'[g] \in Nat
  BY DEF TypeOK
<1>3. id <= lastJobId'[g] /\ id # lastJobId[g] + 1
  BY <1>1, <1>2
<1>4. \A other \in PendingJobs(g)' : other.id # id
  BY <1>1, <1>3
<1> QED
  BY <1>1, <1>3, <1>4 DEF NamesakeDone

\* What a step has to show: a pending job is new and noted, or it was pending
\* and stays noted unless a job of its number is done.
LEMMA NotedStep ==
    ASSUME TypeOK, TypeOK', JobIdsInOrder, JobsAtTheirFsp, NotedInv,
           mishaps \subseteq mishaps',
           \A g \in Fsps : lastJobId[g] <= lastJobId'[g],
           \A g \in Fsps : \A job \in PendingJobs(g)' :
               \/ job \in PendingJobs(g)
               \/ job.id = lastJobId[g] + 1 /\ Noted(job)',
           \A g \in Fsps : \A job \in PendingJobs(g) :
               Noted(job) =>
                   \/ Noted(job)'
                   \/ NamesakeDone(g, job.id)' /\ "namesake" \in mishaps'
    PROVE  NotedInv'
<1>1. ASSUME NEW f \in Fsps, NEW job \in PendingJobs(f)'
      PROVE  \/ Noted(job)'
             \/ NamesakeDone(f, job.id)'
  <2>1. CASE Noted(job)'
    BY <2>1
  <2>2. CASE job \in PendingJobs(f) /\ Noted(job)
    BY <2>2
  <2>3. CASE job \in PendingJobs(f) /\ NamesakeDone(f, job.id)
    <3>1. PICK id \in Nat : id = job.id
      BY <2>3, PendingJobType
    <3>2. NamesakeDone(f, id)'
      BY <2>3, <3>1, NamesakeStays
    <3> QED
      BY <3>1, <3>2
  <2> QED
    BY <2>1, <2>2, <2>3 DEF NotedInv, JobHiddenOnlyByNamesake, Noted
<1>2. ASSUME "namesake" \notin mishaps', NEW f \in Fsps, NEW job \in PendingJobs(f)'
      PROVE  Noted(job)'
  BY <1>2 DEF NotedInv, NotedWithoutNamesake
<1> QED
  BY <1>1, <1>2 DEF NotedInv, JobHiddenOnlyByNamesake, NotedWithoutNamesake, Noted

\* Steps that touch neither the jobs nor the set keep the invariant.
LEMMA QuietStep ==
    ASSUME TypeOK, TypeOK', JobsInv, mishaps \subseteq mishaps',
           UNCHANGED <<queue, lastJobId, jobsInProgress, worker>>,
           \A q \in Requests : Adding(q) /\ request[q].unmarked # {} =>
               Adding(q)' /\ request'[q].unmarked = request[q].unmarked
    PROVE  JobsInv'
<1>1. JobIdsInOrder' /\ JobsAtTheirFsp'
  BY DEF JobsInv, JobIdsInOrder, JobsAtTheirFsp
<1>2. \A g \in Fsps : PendingJobs(g)' = PendingJobs(g)
  BY DEF PendingJobs
<1>3. \A job : Noted(job) => Noted(job)'
  BY DEF Noted
<1>4. \A g \in Fsps : lastJobId[g] <= lastJobId'[g]
  BY DEF TypeOK
<1>5. NotedInv'
  BY <1>2, <1>3, <1>4, NotedStep DEF JobsInv
<1> QED
  BY <1>1, <1>5 DEF JobsInv

LEMMA PendingAddJob ==
    ASSUME PendingInv, TypeOK', NEW q \in Requests, NEW r \in Registrations,
           AddJob(q, r)
    PROVE  JobsInv'
<1> PICK f : f = FspOf[r]
  OBVIOUS
<1> PICK id : id = lastJobId[f] + 1
  OBVIOUS
<1> PICK job : job = [id |-> id, fsp |-> f, registration |-> r]
  OBVIOUS
<1> USE DEF PendingInv, JobsInv
<1>1. f \in Fsps
  BY FspOfAssumption
<1>2. job \in Job /\ job.id = lastJobId[f] + 1 /\ lastJobId[f] \in Nat /\ id \in Nat
  BY <1>1 DEF Job, TypeOK
<1>3. /\ queue[f] \in Seq(Job)
      /\ queue'[f] = Append(queue[f], job)
      /\ lastJobId'[f] = id
      /\ \A g \in Fsps : g # f => queue'[g] = queue[g] /\ lastJobId'[g] = lastJobId[g]
      /\ UNCHANGED <<jobsInProgress, worker, mishaps>>
  <2>1. /\ queue' = [queue EXCEPT ![f] = Append(@, job)]
        /\ lastJobId' = [lastJobId EXCEPT ![f] = id]
        /\ UNCHANGED <<jobsInProgress, worker, mishaps>>
    BY DEF AddJob
  <2> QED
    BY <1>1, <2>1 DEF TypeOK
<1>4. /\ Adding(q) /\ Adding(q)'
      /\ request'[q].unmarked = request[q].unmarked \cup {job}
      /\ \A p \in Requests : p # q => request'[p] = request[p]
  BY DEF AddJob, TypeOK, Request, Adding
<1>5. /\ \A i \in DOMAIN queue[f] : i \in DOMAIN queue'[f] /\ queue'[f][i] = queue[f][i]
      /\ \A i \in DOMAIN queue'[f] :
           i \in DOMAIN queue[f] \/ (i = Len(queue[f]) + 1 /\ queue'[f][i] = job)
      /\ \A i \in DOMAIN queue[f] :
           i \in Nat /\ i <= Len(queue[f]) /\ queue[f][i] \in Job
  <2>1. PICK n \in Nat : n = Len(queue[f])
    BY <1>3
  <2>2. DOMAIN queue[f] = 1..n /\ DOMAIN queue'[f] = 1..(n + 1)
    BY <1>2, <1>3, <2>1
  <2>3. \A i \in 1..n : queue'[f][i] = queue[f][i] /\ queue[f][i] \in Job
    BY <1>2, <1>3, <2>1
  <2>4. queue'[f][n + 1] = job
    BY <1>2, <1>3, <2>1
  <2> QED
    BY ONLY <2>1, <2>2, <2>3, <2>4
<1>6. \A i \in DOMAIN queue[f] : queue[f][i].id \in Nat
  BY <1>5 DEF Job
<1>7. \A other \in worker[f].jobs : other.id \in Nat
  BY <1>1 DEF TypeOK, Worker, Job
<1>8. JobIdsInOrder'
  <2>1. \A i \in DOMAIN queue'[f] : queue'[f][i].id <= lastJobId'[f]
    BY <1>1, <1>2, <1>3, <1>5, <1>6 DEF JobIdsInOrder
  <2>2. \A i, j \in DOMAIN queue'[f] : i < j => queue'[f][i].id < queue'[f][j].id
    BY <1>1, <1>2, <1>3, <1>5, <1>6 DEF JobIdsInOrder
  <2>3. \A other \in worker'[f].jobs :
          /\ other.id <= lastJobId'[f]
          /\ \A i \in DOMAIN queue'[f] : other.id < queue'[f][i].id
    BY <1>1, <1>2, <1>3, <1>5, <1>6, <1>7 DEF JobIdsInOrder
  <2> QED
    BY <1>1, <1>3, <2>1, <2>2, <2>3 DEF JobIdsInOrder
<1>9. JobsAtTheirFsp'
  <2>1. \A i \in DOMAIN queue'[f] : FspOf[queue'[f][i].registration] = f
    <3>1. job.registration = r
      OBVIOUS
    <3> QED
      BY <1>1, <1>5, <3>1 DEF JobsAtTheirFsp
  <2>2. \A other \in worker'[f].jobs : FspOf[other.registration] = f
    BY <1>1, <1>3 DEF JobsAtTheirFsp
  <2>3. ASSUME NEW g \in Fsps, g # f
        PROVE  /\ \A i \in DOMAIN queue'[g] : FspOf[queue'[g][i].registration] = g
               /\ \A other \in worker'[g].jobs : FspOf[other.registration] = g
    BY <1>3, <2>3 DEF JobsAtTheirFsp
  <2> QED
    BY <2>1, <2>2, <2>3 DEF JobsAtTheirFsp
<1>10. \A other : Noted(other) \/ other = job => Noted(other)'
  BY <1>3, <1>4 DEF Noted, Adding
<1>11. \A g \in Fsps : \A other \in PendingJobs(g)' :
           other \in PendingJobs(g) \/ (g = f /\ other = job)
  <2>1. \A i \in DOMAIN queue'[f] :
            queue'[f][i] = job \/ queue'[f][i] \in {queue[f][j] : j \in DOMAIN queue[f]}
    BY <1>5
  <2>2. \A other \in PendingJobs(f)' : other \in PendingJobs(f) \/ other = job
    BY <1>3, <2>1 DEF PendingJobs
  <2>3. \A g \in Fsps : g # f => PendingJobs(g)' = PendingJobs(g)
    BY <1>3 DEF PendingJobs
  <2> QED
    BY <2>2, <2>3
<1>12. \A g \in Fsps : lastJobId[g] <= lastJobId'[g]
  <2>1. \A g \in Fsps : lastJobId[g] \in Nat
    BY DEF TypeOK
  <2>2. lastJobId[f] <= lastJobId'[f]
    BY <1>2, <1>3
  <2> QED
    BY <1>3, <2>1, <2>2
<1>13. NotedInv'
  <2>1. mishaps \subseteq mishaps'
    BY <1>3
  <2>2. \A g \in Fsps : \A other \in PendingJobs(g)' :
            \/ other \in PendingJobs(g)
            \/ other.id = lastJobId[g] + 1 /\ Noted(other)'
    BY <1>2, <1>10, <1>11
  <2> QED
    BY <1>10, <1>12, <2>1, <2>2, NotedStep
<1> QED
  BY <1>8, <1>9, <1>13

LEMMA PendingMarkJob ==
    ASSUME PendingInv, TypeOK', NEW q \in Requests, NEW job \in request[q].unmarked,
           MarkJob(q, job)
    PROVE  JobsInv'
<1> USE DEF PendingInv, JobsInv
<1>1. /\ jobsInProgress' = jobsInProgress \cup {job.id}
      /\ UNCHANGED <<queue, lastJobId, worker, mishaps>>
  BY DEF MarkJob, MarkJobAs
<1>2. /\ request'[q].unmarked = request[q].unmarked \ {job}
      /\ request'[q].pc = request[q].pc
      /\ \A p \in Requests : p # q => request'[p] = request[p]
  BY DEF MarkJob, MarkJobAs, TypeOK, Request
<1>3. \A other : Noted(other) => Noted(other)'
  BY <1>1, <1>2 DEF Noted, Adding
<1>4. JobIdsInOrder' /\ JobsAtTheirFsp'
  BY <1>1 DEF JobIdsInOrder, JobsAtTheirFsp
<1>5. \A g \in Fsps : PendingJobs(g)' = PendingJobs(g)
  BY <1>1 DEF PendingJobs
<1>6. \A g \in Fsps : lastJobId[g] <= lastJobId'[g]
  BY <1>1 DEF TypeOK
<1>7. NotedInv'
  BY <1>1, <1>3, <1>5, <1>6, NotedStep
<1> QED
  BY <1>4, <1>7

\* What is known of a worker and its queue.
LEMMA WorkerFacts ==
    ASSUME TypeOK, NEW f \in Fsps
    PROVE  /\ queue[f] \in Seq(Job)
           /\ \A i \in DOMAIN queue[f] : queue[f][i].id \in Nat /\ queue[f][i] \in Job
           /\ worker[f] \in Worker
           /\ \A job \in worker[f].jobs : job.id \in Nat
           /\ lastJobId[f] \in Nat
<1>1. /\ queue[f] \in Seq(Job)
      /\ worker[f] \in Worker
      /\ lastJobId[f] \in Nat
  BY DEF TypeOK
<1>2. \A i \in DOMAIN queue[f] : queue[f][i] \in Job
  BY <1>1
<1>3. \A job \in Job : job.id \in Nat
  BY DEF Job
<1>4. worker[f].jobs \subseteq Job
  BY <1>1 DEF Worker
<1> QED
  BY <1>1, <1>2, <1>3, <1>4

LEMMA PendingTakeJob ==
    ASSUME PendingInv, TypeOK', NEW f \in Fsps, TakeJob(f)
    PROVE  /\ JobsInv'
           /\ \A g \in Fsps : PendingJobs(g)' = PendingJobs(g)
<1> USE DEF PendingInv, JobsInv
<1>1. /\ queue[f] # << >>
      /\ worker[f].pc = "idle"
      /\ queue'[f] = Tail(queue[f])
      /\ worker'[f] = [pc |-> "processing", jobs |-> {Head(queue[f])}]
      /\ \A g \in Fsps : g # f => queue'[g] = queue[g] /\ worker'[g] = worker[g]
      /\ UNCHANGED <<request, lastJobId, jobsInProgress, mishaps>>
  BY DEF TakeJob, TypeOK, unchangedByWorker
<1>2. 1 \in DOMAIN queue[f] /\ Head(queue[f]) = queue[f][1]
  BY <1>1, WorkerFacts
<1>3. \A i \in DOMAIN queue'[f] : /\ i \in Nat /\ i > 0 /\ i + 1 \in DOMAIN queue[f]
                                  /\ queue'[f][i] = queue[f][i + 1]
  BY <1>1, WorkerFacts
<1>4. \A i \in DOMAIN queue[f] : i = 1 \/ (i - 1 \in DOMAIN queue'[f] /\ queue'[f][i - 1] = queue[f][i])
  BY <1>1, WorkerFacts
<1>5. worker'[f].pc = "processing" /\ worker'[f].jobs = {queue[f][1]}
  BY <1>1, <1>2
<1>6. /\ \A i \in DOMAIN queue[f] : queue[f][i].id <= lastJobId[f]
      /\ \A i, j \in DOMAIN queue[f] : i < j => queue[f][i].id < queue[f][j].id
      /\ \A i \in DOMAIN queue[f] : FspOf[queue[f][i].registration] = f
  BY DEF JobIdsInOrder, JobsAtTheirFsp
<1>7. JobIdsInOrder'
  <2>1. \A i \in DOMAIN queue'[f] : queue'[f][i].id <= lastJobId'[f]
    BY <1>1, <1>3, <1>6
  <2>2. \A i, j \in DOMAIN queue'[f] : i < j => queue'[f][i].id < queue'[f][j].id
    BY <1>3, <1>6
  <2>3. \A job \in worker'[f].jobs : job.id <= lastJobId'[f]
    BY <1>1, <1>2, <1>5, <1>6
  <2>4. \A job \in worker'[f].jobs, i \in DOMAIN queue'[f] : job.id < queue'[f][i].id
    BY <1>2, <1>3, <1>5, <1>6
  <2> QED
    BY <1>1, <2>1, <2>2, <2>3, <2>4 DEF JobIdsInOrder
<1>8. JobsAtTheirFsp'
  <2>1. \A i \in DOMAIN queue'[f] : FspOf[queue'[f][i].registration] = f
    BY <1>3, <1>6
  <2>2. \A job \in worker'[f].jobs : FspOf[job.registration] = f
    BY <1>2, <1>5, <1>6
  <2> QED
    BY <1>1, <2>1, <2>2 DEF JobsAtTheirFsp
<1>9. \A g \in Fsps : PendingJobs(g)' = PendingJobs(g)
  <2>1. {queue'[f][i] : i \in DOMAIN queue'[f]} \cup {queue[f][1]}
            = {queue[f][i] : i \in DOMAIN queue[f]}
    BY <1>2, <1>3, <1>4
  <2>2. PendingJobs(f)' = PendingJobs(f)
    BY <1>1, <1>5, <2>1 DEF PendingJobs
  <2>3. \A g \in Fsps : g # f => PendingJobs(g)' = PendingJobs(g)
    BY <1>1 DEF PendingJobs
  <2> QED
    BY <2>2, <2>3
<1>10. NotedInv'
  <2>1. \A job : Noted(job) => Noted(job)'
    BY <1>1 DEF Noted, Adding
  <2>2. \A g \in Fsps : lastJobId[g] <= lastJobId'[g]
    BY <1>1 DEF TypeOK
  <2>3. mishaps \subseteq mishaps'
    BY <1>1
  <2> QED
    BY <1>9, <2>1, <2>2, <2>3, NotedStep
<1> QED
  BY <1>7, <1>8, <1>9, <1>10

LEMMA PendingProcessJob ==
    ASSUME PendingInv, TypeOK', NEW f \in Fsps, ProcessJob(f)
    PROVE  JobsInv'
<1> USE DEF PendingInv, JobsInv
<1>1. /\ UNCHANGED <<request, queue, lastJobId, jobsInProgress, mishaps>>
      /\ worker'[f].jobs = worker[f].jobs
      /\ worker'[f].pc = "removing"
      /\ \A g \in Fsps : g # f => worker'[g] = worker[g]
  BY DEF ProcessJob, TypeOK, Worker, unchangedByWorker
<1>2. JobIdsInOrder' /\ JobsAtTheirFsp'
  BY <1>1 DEF JobIdsInOrder, JobsAtTheirFsp
<1>3. \A g \in Fsps : PendingJobs(g)' \subseteq PendingJobs(g)
  BY <1>1 DEF PendingJobs
<1>4. NotedInv'
  <2>1. \A job : Noted(job) => Noted(job)'
    BY <1>1 DEF Noted, Adding
  <2>2. \A g \in Fsps : lastJobId[g] <= lastJobId'[g]
    BY <1>1 DEF TypeOK
  <2>3. mishaps \subseteq mishaps'
    BY <1>1
  <2> QED
    BY <1>3, <2>1, <2>2, <2>3, NotedStep
<1> QED
  BY <1>2, <1>4

\* Removing a job's id hides the jobs of that number in the other queues, and
\* is then recorded; the jobs of its own queue have higher numbers.
LEMMA PendingRemoveJob ==
    ASSUME PendingInv, TypeOK', NEW f \in Fsps, RemoveJob(f)
    PROVE  /\ JobsInv'
           /\ \A g \in Fsps : PendingJobs(g)' = PendingJobs(g)
<1> USE DEF PendingInv, JobsInv
<1>1. /\ UNCHANGED <<request, queue, lastJobId>>
      /\ jobsInProgress' = jobsInProgress \ {job.id : job \in worker[f].jobs}
      /\ worker[f].pc = "removing"
      /\ worker'[f].pc = "idle" /\ worker'[f].jobs = {}
      /\ \A g \in Fsps : g # f => worker'[g] = worker[g]
      /\ mishaps' = mishaps \cup IF HidesNamesake(f) THEN {"namesake"} ELSE {}
  BY DEF RemoveJob, TypeOK, IdleWorker, unchangedByWorker
<1>2. JobIdsInOrder' /\ JobsAtTheirFsp'
  BY <1>1 DEF JobIdsInOrder, JobsAtTheirFsp
<1>3. \A g \in Fsps : PendingJobs(g)' = PendingJobs(g)
  BY <1>1 DEF PendingJobs
<1>4. ASSUME NEW g \in Fsps, NEW job \in PendingJobs(g), Noted(job)
      PROVE  \/ Noted(job)'
             \/ NamesakeDone(g, job.id)' /\ "namesake" \in mishaps'
  <2>1. CASE job.id \notin {done.id : done \in worker[f].jobs}
    BY <1>1, <1>4, <2>1 DEF Noted, Adding
  <2>2. CASE job.id \in {done.id : done \in worker[f].jobs}
    <3>1. PICK done \in worker[f].jobs : done.id = job.id
      BY <2>2
    <3>2. \A other \in PendingJobs(f) : done.id < other.id
      <4>1. PendingJobs(f) = {queue[f][i] : i \in DOMAIN queue[f]}
        BY <1>1 DEF PendingJobs
      <4> QED
        BY <4>1, <3>1 DEF JobIdsInOrder
    <3>3. done.id \in Nat /\ done.id <= lastJobId[f]
      BY <3>1, WorkerFacts DEF JobIdsInOrder
    <3>4. g # f
      BY <3>1, <3>2, <3>3
    <3>5. "namesake" \in mishaps'
      BY <1>1, <3>1, <3>4 DEF HidesNamesake
    <3>6. PICK id : id = job.id
      OBVIOUS
    <3>7. \A other \in PendingJobs(f)' : other.id # id
      BY <1>3, <3>1, <3>2, <3>3, <3>6
    <3>8. NamesakeDone(g, id)'
      BY <1>1, <3>1, <3>3, <3>4, <3>6, <3>7 DEF NamesakeDone
    <3> QED
      BY <3>5, <3>6, <3>8
  <2> QED
    BY <2>1, <2>2
<1>5. NotedInv'
  <2>1. mishaps \subseteq mishaps'
    BY <1>1
  <2>2. \A g \in Fsps : lastJobId[g] <= lastJobId'[g]
    BY <1>1 DEF TypeOK
  <2> QED
    BY <1>3, <1>4, <2>1, <2>2, NotedStep
<1> QED
  BY <1>2, <1>3, <1>5

LEMMA PendingStep == PendingInv /\ [Next]_vars => PendingInv'
<1> SUFFICES ASSUME PendingInv, [Next]_vars
             PROVE  PendingInv'
  OBVIOUS
<1>1. TypeOK' /\ SequentialInv'
  BY TypeStep, SequentialStep DEF PendingInv
<1>2. TypeOK /\ JobsInv
  BY DEF PendingInv
<1>3. ASSUME NEW q \in Requests, CheckPaymentActionInProgress(q)
      PROVE  JobsInv'
  BY <1>1, <1>2, <1>3, QuietStep
  DEF CheckPaymentActionInProgress, CheckActionsAnd, Goto, unchangedByChecks,
      TypeOK, Request, Adding
<1>4. ASSUME NEW q \in Requests, CheckPaymentInProgressForProgramQueue(q)
      PROVE  JobsInv'
  BY <1>1, <1>2, <1>4, QuietStep
  DEF CheckPaymentInProgressForProgramQueue, CheckQueueAnd, Goto,
      unchangedByChecks, TypeOK, Request, Adding
<1>5. ASSUME NEW q \in Requests, SelectRegistrations(q)
      PROVE  JobsInv'
  <2>1. \A p \in Requests : p = q \/ request'[p] = request[p]
    BY <1>2, <1>5 DEF SelectRegistrations, TypeOK
  <2>2. request[q].pc = "select"
        /\ UNCHANGED <<queue, lastJobId, jobsInProgress, worker, mishaps>>
    BY <1>5 DEF SelectRegistrations, unchangedByChecks
  <2>3. \A p \in Requests : Adding(p) /\ request[p].unmarked # {} =>
               Adding(p)' /\ request'[p].unmarked = request[p].unmarked
    BY <2>1, <2>2 DEF Adding
  <2> QED
    BY <1>1, <1>2, <2>2, <2>3, QuietStep
<1>6. ASSUME NEW q \in Requests, SavePaymentStarted(q)
      PROVE  JobsInv'
  BY <1>1, <1>2, <1>6, QuietStep
  DEF SavePaymentStarted, Goto, TypeOK, Request, Adding
<1>7. ASSUME NEW q \in Requests, SavePaymentFinished(q)
      PROVE  JobsInv'
  BY <1>1, <1>2, <1>7, QuietStep
  DEF SavePaymentFinished, SaveFinishedIf, Goto, TypeOK, Request, Adding
<1>8. ASSUME UNCHANGED vars
      PROVE  JobsInv'
  BY <1>1, <1>2, <1>8, QuietStep DEF vars, Adding
<1>9. ASSUME NEW q \in Requests, NEW r \in Registrations, AddJob(q, r)
      PROVE  JobsInv'
  BY <1>1, <1>9, PendingAddJob
<1>10. ASSUME NEW q \in Requests, NEW job \in request[q].unmarked, MarkJob(q, job)
       PROVE  JobsInv'
  BY <1>1, <1>10, PendingMarkJob
<1>11. ASSUME NEW f \in Fsps, WorkerStep(f)
       PROVE  JobsInv'
  BY <1>1, <1>11, PendingTakeJob, PendingProcessJob, PendingRemoveJob DEF WorkerStep
<1>12. ASSUME NEW q \in Requests, CheckPaymentActionInProgress(q) \/ RequestStep(q)
       PROVE  JobsInv'
  BY <1>3, <1>4, <1>5, <1>6, <1>7, <1>9, <1>10, <1>12 DEF RequestStep
<1>13. JobsInv'
  BY <1>8, <1>11, <1>12 DEF Next, vars
<1> QED
  BY <1>1, <1>13 DEF PendingInv

\* A job that waits or is processed is in the Redis set, or about to be put
\* there by the run that added it, unless another queue has done a job of its
\* number, however many requests, FSPs and registrations there are.
THEOREM JobHidden == Spec => []JobHiddenOnlyByNamesake
<1>1. PendingInv => JobHiddenOnlyByNamesake
  BY DEF PendingInv, JobsInv, NotedInv
<1> QED
  BY <1>1, PendingInit, PendingStep, PTL DEF Spec

-----------------------------------------------------------------------------
(* Without a mishap, no registration is paid twice.                        *)

\* A job of the registration waits or is processed.
HasJob(r) == \E f \in Fsps : \E job \in PendingJobs(f) : job.registration = r

NothingPending == \A f \in Fsps : PendingJobs(f) = {}

\* When a request selects registrations, no job is pending.
CheckedIsQuiet ==
    \A q \in Requests : request[q].pc \in {"select", "start"} => NothingPending

\* Who is to get a job has none, and who has one or is to get one was not paid.
TodoIsUnpaid ==
    \A q \in Requests :
        request[q].pc \in {"start", "adding"} =>
            \A r \in request[q].todo : ~HasJob(r) /\ status[r] # "success"
JobIsUnpaid == \A r \in Registrations : HasJob(r) => status[r] # "success"
UnpaidIsUnpaid ==
    \A r \in Registrations :
        /\ payouts[r] <= 1
        /\ status[r] # "success" => payouts[r] = 0

PayoutInv ==
    /\ CheckedIsQuiet
    /\ TodoIsUnpaid
    /\ JobIsUnpaid
    /\ UnpaidIsUnpaid
    /\ OneJobEach

\* A request that goes on, with nothing added, taken or stored.
LEMMA PayoutRequestMoves ==
    ASSUME TypeOK, PayoutInv, NEW q \in Requests, NEW x,
           request' = [request EXCEPT ![q] = x],
           UNCHANGED <<queue, worker, status, payouts>>,
           x.pc \in {"select", "start"} => NothingPending,
           x.pc \in {"start", "adding"} =>
               \A r \in x.todo : ~HasJob(r) /\ status[r] # "success"
    PROVE  PayoutInv'
<1>1. \A p \in Requests : request'[p] = IF p = q THEN x ELSE request[p]
  BY DEF TypeOK
<1>2. /\ \A r : HasJob(r)' <=> HasJob(r)
      /\ NothingPending' <=> NothingPending
  BY DEF HasJob, NothingPending, PendingJobs
<1>3. CheckedIsQuiet'
  BY <1>1, <1>2 DEF PayoutInv, CheckedIsQuiet
<1>4. TodoIsUnpaid'
  BY <1>1, <1>2 DEF PayoutInv, TodoIsUnpaid
<1>5. JobIsUnpaid' /\ UnpaidIsUnpaid' /\ OneJobEach'
  BY <1>2 DEF PayoutInv, JobIsUnpaid, UnpaidIsUnpaid, OneJobEach
<1>6. QED
  BY <1>3, <1>4, <1>5 DEF PayoutInv

\* While a run adds jobs, nothing is asked of the other requests.
LEMMA OnlyAdding ==
    ASSUME SequentialInv', "overlap" \notin mishaps', NEW q \in Requests, Adding(q)',
           \A r \in request'[q].todo : ~HasJob(r)' /\ status'[r] # "success"
    PROVE  CheckedIsQuiet' /\ TodoIsUnpaid'
<1>1. \A p \in Requests :
          p = q \/ request'[p].pc \notin {"checkQueue", "select", "start", "adding"}
  BY DEF SequentialInv, Adding, BetweenCheckAndStart
<1>2. request'[q].pc = "adding"
  BY DEF Adding
<1>3. CheckedIsQuiet'
  BY <1>1, <1>2 DEF CheckedIsQuiet
<1>4. TodoIsUnpaid'
  BY <1>1, <1>2 DEF TodoIsUnpaid
<1>5. QED
  BY <1>3, <1>4

\* The checks of a request: an empty set means that no job is pending.
LEMMA PayoutChecks ==
    ASSUME PendingInv, PayoutInv, mishaps = {}, NEW q \in Requests,
           \/ CheckPaymentActionInProgress(q)
           \/ CheckPaymentInProgressForProgramQueue(q)
    PROVE  PayoutInv'
<1>1. /\ TypeOK /\ request[q] \in Request
      /\ UNCHANGED <<queue, worker, status, payouts>>
  BY DEF PendingInv, TypeOK, CheckPaymentActionInProgress, CheckActionsAnd,
         CheckPaymentInProgressForProgramQueue, CheckQueueAnd, unchangedByChecks
<1>2. PICK pc : /\ Goto(q, pc)
                /\ \/ pc = "rejected"
                   \/ pc = "checkQueue"
                   \/ /\ pc = "select" /\ jobsInProgress = {}
                      /\ request[q].pc = "checkQueue"
  BY DEF CheckPaymentActionInProgress, CheckActionsAnd,
         CheckPaymentInProgressForProgramQueue, CheckQueueAnd
<1> PICK x : x = [request[q] EXCEPT !.pc = pc]
  OBVIOUS
<1>3. x.pc = pc /\ request' = [request EXCEPT ![q] = x]
  BY <1>1, <1>2 DEF Goto, Request, TypeOK
<1>4. ASSUME pc = "select"
      PROVE  NothingPending
  <2>1. jobsInProgress = {} /\ BetweenCheckAndStart(q)
    BY <1>2, <1>4 DEF BetweenCheckAndStart
  <2>2. \A p \in Requests : ~Adding(p)
    BY <2>1 DEF PendingInv, SequentialInv
  <2>3. \A job : ~Noted(job)
    BY <2>1, <2>2 DEF Noted
  <2>4. \A f \in Fsps : \A job \in PendingJobs(f) : Noted(job)
    BY DEF PendingInv, JobsInv, NotedInv, NotedWithoutNamesake
  <2>5. QED
    BY <2>3, <2>4 DEF NothingPending
<1>5. QED
  BY <1>1, <1>2, <1>3, <1>4, PayoutRequestMoves

\* A request selects registrations that were not paid, when no job is pending.
LEMMA PayoutSelect ==
    ASSUME PendingInv, PayoutInv, NEW q \in Requests, SelectRegistrations(q)
    PROVE  PayoutInv'
<1>1. /\ TypeOK /\ request[q] \in Request
      /\ UNCHANGED <<queue, worker, status, payouts>>
      /\ request[q].pc = "select"
  BY DEF PendingInv, TypeOK, SelectRegistrations, unchangedByChecks
<1>2. PICK wanted \in {"none", "error"} :
          \E selected \in SUBSET {r \in Registrations : status[r] = wanted} :
             request' = [request EXCEPT
                 ![q].todo = selected,
                 ![q].pc = IF selected = {} THEN "done" ELSE "start"]
  BY DEF SelectRegistrations
<1>3. PICK selected \in SUBSET {r \in Registrations : status[r] = wanted} :
          request' = [request EXCEPT
                 ![q].todo = selected,
                 ![q].pc = IF selected = {} THEN "done" ELSE "start"]
  BY <1>2
<1> PICK pc : pc = IF selected = {} THEN "done" ELSE "start"
  OBVIOUS
<1> PICK x : x = [request[q] EXCEPT !.todo = selected, !.pc = pc]
  OBVIOUS
<1>4. request' = [request EXCEPT ![q] = x]
  <2>1. request' = [request EXCEPT ![q].todo = selected, ![q].pc = pc]
    BY <1>3
  <2>2. QED
    BY <1>1, <2>1 DEF TypeOK, Request
<1>5. x.todo = selected /\ x.pc = pc
  BY <1>1 DEF Request
<1>6. NothingPending
  BY <1>1 DEF PayoutInv, CheckedIsQuiet
<1>7. \A r : ~HasJob(r)
  BY <1>6 DEF HasJob, NothingPending
<1>8. \A r \in selected : status[r] # "success"
  OBVIOUS
<1>9. QED
  BY <1>1, <1>4, <1>5, <1>6, <1>7, <1>8, PayoutRequestMoves

\* paymentStarted is saved, and paymentFinished.
LEMMA PayoutStart ==
    ASSUME PendingInv, PayoutInv, mishaps' = {}, NEW q \in Requests, PendingInv',
           SavePaymentStarted(q)
    PROVE  PayoutInv'
<1>1. /\ TypeOK /\ request[q] \in Request /\ SequentialInv'
      /\ UNCHANGED <<queue, worker, status, payouts>>
      /\ request[q].pc = "start"
      /\ request' = [request EXCEPT ![q].pc = "adding"]
  BY DEF PendingInv, TypeOK, SavePaymentStarted, Goto
<1>2. Adding(q)' /\ request'[q].todo = request[q].todo
  BY <1>1 DEF TypeOK, Request, Adding
<1>3. \A r : HasJob(r)' <=> HasJob(r)
  BY <1>1 DEF HasJob, PendingJobs
<1>4. \A r \in request[q].todo : ~HasJob(r) /\ status[r] # "success"
  BY <1>1 DEF PayoutInv, TodoIsUnpaid
<1>5. CheckedIsQuiet' /\ TodoIsUnpaid'
  BY <1>1, <1>2, <1>3, <1>4, OnlyAdding
<1>6. JobIsUnpaid' /\ UnpaidIsUnpaid' /\ OneJobEach'
  BY <1>1, <1>3 DEF PayoutInv, JobIsUnpaid, UnpaidIsUnpaid, OneJobEach
<1>7. QED
  BY <1>5, <1>6 DEF PayoutInv

LEMMA PayoutFinish ==
    ASSUME PendingInv, PayoutInv, NEW q \in Requests, SavePaymentFinished(q)
    PROVE  PayoutInv'
<1>1. /\ TypeOK /\ request[q] \in Request
      /\ UNCHANGED <<queue, worker, status, payouts>>
      /\ request' = [request EXCEPT ![q].pc = "done"]
  BY DEF PendingInv, TypeOK, SavePaymentFinished, SaveFinishedIf, Goto
<1> PICK x : x = [request[q] EXCEPT !.pc = "done"]
  OBVIOUS
<1>2. request' = [request EXCEPT ![q] = x] /\ x.pc = "done"
  BY <1>1 DEF TypeOK, Request
<1>3. QED
  BY <1>1, <1>2, PayoutRequestMoves

\* A job is added for a registration that has none and was not paid.
LEMMA PayoutAddJob ==
    ASSUME PendingInv, PendingInv', PayoutInv, mishaps' = {}, NEW q \in Requests,
           NEW r \in Registrations, AddJob(q, r)
    PROVE  PayoutInv'
<1> PICK f : f = FspOf[r]
  OBVIOUS
<1> PICK id : id = lastJobId[f] + 1
  OBVIOUS
<1> PICK job : job = [id |-> id, fsp |-> f, registration |-> r]
  OBVIOUS
<1>1. TypeOK /\ SequentialInv' /\ f \in Fsps
  BY FspOfAssumption DEF PendingInv
<1>2. /\ job \in Job /\ job.registration = r
      /\ queue[f] \in Seq(Job)
      /\ queue'[f] = Append(queue[f], job)
      /\ \A g \in Fsps : g # f => queue'[g] = queue[g]
      /\ UNCHANGED <<worker, status, payouts>>
  <2>1. lastJobId[f] \in Nat /\ queue[f] \in Seq(Job)
    BY <1>1 DEF TypeOK
  <2>2. job \in Job /\ job.registration = r
    BY <1>1, <2>1 DEF Job
  <2>3. queue' = [queue EXCEPT ![f] = Append(@, job)]
        /\ UNCHANGED <<worker, status, payouts>>
    BY DEF AddJob
  <2>4. QED
    BY <1>1, <2>1, <2>2, <2>3 DEF TypeOK
<1>3. /\ Adding(q) /\ r \in request[q].todo
      /\ Adding(q)'
      /\ request'[q].todo = request[q].todo \ {r}
  BY DEF AddJob, PendingInv, TypeOK, Request, Adding
<1>4. PICK n \in Nat :
          /\ DOMAIN queue[f] = 1 .. n /\ DOMAIN queue'[f] = 1 .. (n + 1)
          /\ \A i \in 1 .. n : queue'[f][i] = queue[f][i]
          /\ queue'[f][n + 1] = job
  BY <1>2
<1>5. \A i \in 1 .. (n + 1) : i \in 1 .. n \/ i = n + 1
  OBVIOUS
<1>6. n + 1 \in 1 .. (n + 1) /\ (n + 1) \notin 1 .. n /\ \A i \in 1 .. n : i \in 1 .. (n + 1)
  OBVIOUS
<1>7. ~HasJob(r) /\ status[r] # "success"
  <2>1. request[q].pc \in {"start", "adding"} /\ r \in request[q].todo
    BY <1>3 DEF Adding
  <2>2. TodoIsUnpaid
    BY DEF PayoutInv
  <2>3. QED
    BY <2>1, <2>2 DEF TodoIsUnpaid
<1>8. \A s : HasJob(s)' => HasJob(s) \/ s = r
  <2>1. \A other \in PendingJobs(f)' : other \in PendingJobs(f) \/ other = job
    <3>1. \A i \in 1 .. (n + 1) :
              queue'[f][i] = job \/ queue'[f][i] \in {queue[f][j] : j \in 1 .. n}
      BY <1>4, <1>5
    <3>2. QED
      BY <1>2, <1>4, <3>1 DEF PendingJobs
  <2>2. \A g \in Fsps : g # f => PendingJobs(g)' = PendingJobs(g)
    BY <1>2 DEF PendingJobs
  <2>3. QED
    BY <1>2, <2>1, <2>2 DEF HasJob
<1>9. CheckedIsQuiet' /\ TodoIsUnpaid'
  <2>1. \A s \in request'[q].todo : ~HasJob(s)' /\ status'[s] # "success"
    BY <1>2, <1>3, <1>8 DEF PayoutInv, TodoIsUnpaid, Adding
  <2>2. QED
    BY <1>1, <1>3, <2>1, OnlyAdding
<1>10. JobIsUnpaid' /\ UnpaidIsUnpaid'
  BY <1>2, <1>7, <1>8 DEF PayoutInv, JobIsUnpaid, UnpaidIsUnpaid
<1>11. OneJobEach'
  <2>1. \A i \in 1 .. n : queue[f][i].registration # r
    BY <1>1, <1>4, <1>7 DEF HasJob, PendingJobs
  <2>2. worker[f].pc = "processing" => \A other \in worker[f].jobs : other.registration # r
    BY <1>1, <1>7 DEF HasJob, PendingJobs
  <2>3. \A i, j \in 1 .. (n + 1) :
            queue'[f][i].registration = queue'[f][j].registration => i = j
    BY <1>1, <1>2, <1>4, <1>5, <2>1 DEF PayoutInv, OneJobEach
  <2>4. worker[f].pc = "processing" =>
            \A i \in 1 .. (n + 1), other \in worker[f].jobs :
                queue'[f][i].registration # other.registration
    BY <1>1, <1>2, <1>4, <1>5, <2>2 DEF PayoutInv, OneJobEach
  <2>5. worker' = worker /\ DOMAIN queue'[f] = 1 .. (n + 1)
    BY <1>2, <1>4
  <2>6. ASSUME NEW g \in Fsps, g # f
        PROVE  /\ \A i, j \in DOMAIN queue'[g] :
                      queue'[g][i].registration = queue'[g][j].registration => i = j
               /\ worker'[g].pc = "processing" =>
                      \A i \in DOMAIN queue'[g], other \in worker'[g].jobs :
                          queue'[g][i].registration # other.registration
    BY <1>2, <2>6 DEF PayoutInv, OneJobEach
  <2>7. QED
    BY <2>3, <2>4, <2>5, <2>6 DEF OneJobEach
<1>12. QED
  BY <1>9, <1>10, <1>11 DEF PayoutInv

LEMMA PayoutMarkJob ==
    ASSUME PendingInv, PayoutInv, NEW q \in Requests,
           NEW job \in request[q].unmarked, MarkJob(q, job)
    PROVE  PayoutInv'
<1> PICK unmarked : unmarked = request[q].unmarked \ {job}
  OBVIOUS
<1> PICK x : x = [request[q] EXCEPT !.unmarked = unmarked]
  OBVIOUS
<1>1. /\ TypeOK /\ request[q] \in Request
      /\ UNCHANGED <<queue, worker, status, payouts>>
      /\ request' = [request EXCEPT ![q].unmarked = unmarked]
  BY DEF PendingInv, TypeOK, MarkJob, MarkJobAs
<1>2. /\ request' = [request EXCEPT ![q] = x]
      /\ x.pc = request[q].pc /\ x.todo = request[q].todo
  BY <1>1 DEF TypeOK, Request
<1>3. x.pc \in {"select", "start"} => NothingPending
  BY <1>2 DEF PayoutInv, CheckedIsQuiet
<1>4. x.pc \in {"start", "adding"} =>
          \A r \in x.todo : ~HasJob(r) /\ status[r] # "success"
  <2>1. TodoIsUnpaid
    BY DEF PayoutInv
  <2>2. QED
    BY <1>2, <2>1 DEF TodoIsUnpaid
<1>5. QED
  BY <1>1, <1>2, <1>3, <1>4, PayoutRequestMoves

\* What the steps of a worker leave to show: jobs only end, and who is paid has
\* no other job.
LEMMA PayoutWorkerMoves ==
    ASSUME PayoutInv, UNCHANGED request,
           \A f \in Fsps : PendingJobs(f)' \subseteq PendingJobs(f),
           \A r \in Registrations : status'[r] = "success" /\ status[r] # "success" =>
               HasJob(r) /\ ~HasJob(r)',
           UnpaidIsUnpaid', OneJobEach',
           \A q \in Requests : request[q].todo \subseteq Registrations
    PROVE  PayoutInv'
<1>1. CheckedIsQuiet'
  BY DEF PayoutInv, CheckedIsQuiet, NothingPending
<1>2. \A r : HasJob(r)' => HasJob(r)
  BY DEF HasJob
<1>3. TodoIsUnpaid'
  BY <1>2 DEF PayoutInv, TodoIsUnpaid
<1>4. JobIsUnpaid'
  BY <1>2 DEF PayoutInv, JobIsUnpaid
<1>5. QED
  BY <1>1, <1>3, <1>4 DEF PayoutInv

LEMMA PayoutTakeJob ==
    ASSUME PendingInv, TypeOK', PayoutInv, NEW f \in Fsps, TakeJob(f)
    PROVE  PayoutInv'
<1>1. TypeOK
  BY DEF PendingInv
<1>2. /\ queue[f] \in Seq(Job) /\ queue[f] # << >>
      /\ queue'[f] = Tail(queue[f])
      /\ worker'[f] = [pc |-> "processing", jobs |-> {Head(queue[f])}]
      /\ \A g \in Fsps : g # f => queue'[g] = queue[g] /\ worker'[g] = worker[g]
      /\ UNCHANGED <<request, status, payouts>>
  BY <1>1 DEF TypeOK, TakeJob, unchangedByWorker
<1>3. /\ 1 \in DOMAIN queue[f] /\ Head(queue[f]) = queue[f][1]
      /\ \A i \in DOMAIN queue'[f] :
             /\ i \in Nat /\ i > 0 /\ i + 1 \in DOMAIN queue[f]
             /\ queue'[f][i] = queue[f][i + 1]
      /\ \A i \in DOMAIN queue[f] : i \in Nat
  BY <1>2
<1>4. worker'[f].pc = "processing" /\ worker'[f].jobs = {queue[f][1]}
  BY <1>2, <1>3
<1>5. \A g \in Fsps : PendingJobs(g)' \subseteq PendingJobs(g)
  BY PendingTakeJob
<1>6. OneJobEach'
  <2>1. \A i, j \in DOMAIN queue[f] :
            queue[f][i].registration = queue[f][j].registration => i = j
    BY DEF PayoutInv, OneJobEach
  <2>2. \A i, j \in DOMAIN queue'[f] :
            queue'[f][i].registration = queue'[f][j].registration => i = j
    BY <1>3, <2>1
  <2>3. \A i \in DOMAIN queue'[f] : queue'[f][i].registration # queue[f][1].registration
    BY <1>3, <2>1
  <2>4. ASSUME NEW g \in Fsps, g # f
        PROVE  /\ \A i, j \in DOMAIN queue'[g] :
                      queue'[g][i].registration = queue'[g][j].registration => i = j
               /\ worker'[g].pc = "processing" =>
                      \A i \in DOMAIN queue'[g], other \in worker'[g].jobs :
                          queue'[g][i].registration # other.registration
    BY <1>2, <2>4 DEF PayoutInv, OneJobEach
  <2>5. QED
    BY <1>4, <2>2, <2>3, <2>4 DEF OneJobEach
<1>7. UnpaidIsUnpaid'
  BY <1>2 DEF PayoutInv, UnpaidIsUnpaid
<1>8. \A q \in Requests : request[q].todo \subseteq Registrations
  BY <1>1 DEF TypeOK, Request
<1>9. QED
  BY <1>2, <1>5, <1>6, <1>7, <1>8, PayoutWorkerMoves

LEMMA PayoutProcessJob ==
    ASSUME PendingInv, PayoutInv, NEW f \in Fsps, ProcessJob(f)
    PROVE  PayoutInv'
<1>1. TypeOK /\ worker[f] \in Worker
  BY DEF PendingInv, TypeOK
<1>2. /\ worker[f].pc = "processing" /\ worker'[f].pc = "removing"
      /\ worker'[f].jobs = worker[f].jobs
      /\ \A g \in Fsps : g # f => worker'[g] = worker[g]
      /\ UNCHANGED <<request, queue>>
  BY <1>1 DEF TypeOK, Worker, ProcessJob, unchangedByWorker
<1>3. PICK job \in worker[f].jobs :
          \/ /\ status' = [status EXCEPT ![job.registration] = "success"]
             /\ payouts' = [payouts EXCEPT ![job.registration] = @ + 1]
          \/ /\ status' = [status EXCEPT ![job.registration] = "error"]
             /\ UNCHANGED payouts
  BY DEF ProcessJob
<1> PICK r : r = job.registration
  OBVIOUS
<1>4. job \in PendingJobs(f)
  BY <1>2, <1>3 DEF PendingJobs
<1>5. r \in Registrations /\ FspOf[r] = f /\ HasJob(r)
  BY <1>4, PendingJobType DEF PendingInv, JobsInv, HasJob
<1>6. \A g \in Fsps : PendingJobs(g)' \subseteq PendingJobs(g)
  BY <1>2 DEF PendingJobs
<1>7. ~HasJob(r)'
  <2>1. PendingJobs(f)' = {queue[f][i] : i \in DOMAIN queue[f]}
    BY <1>2 DEF PendingJobs
  <2>2. \A i \in DOMAIN queue[f] : queue[f][i].registration # r
    BY <1>2, <1>3 DEF PayoutInv, OneJobEach
  <2>3. \A other \in PendingJobs(f)' : other.registration # r
    BY <2>1, <2>2
  <2>4. \A g \in Fsps : \A other \in PendingJobs(g) : FspOf[other.registration] = g
    BY PendingJobType DEF PendingInv, JobsInv
  <2>5. QED
    BY <1>5, <1>6, <2>3, <2>4 DEF HasJob
<1>8. status[r] # "success" /\ payouts[r] = 0
  BY <1>5 DEF PayoutInv, JobIsUnpaid, UnpaidIsUnpaid
<1>9. UnpaidIsUnpaid'
  <2>1. payouts \in [Registrations -> Nat] /\ DOMAIN status = Registrations
    BY <1>1 DEF TypeOK
  <2>2. QED
    BY <1>3, <1>5, <1>8, <2>1 DEF PayoutInv, UnpaidIsUnpaid
<1>10. OneJobEach'
  BY <1>2 DEF PayoutInv, OneJobEach
<1>11. \A s \in Registrations : s # r => status'[s] = status[s]
  BY <1>1, <1>3 DEF TypeOK
<1>12. \A q \in Requests : request[q].todo \subseteq Registrations
  BY <1>1 DEF TypeOK, Request
<1>13. QED
  BY <1>2, <1>5, <1>6, <1>7, <1>9, <1>10, <1>11, <1>12, PayoutWorkerMoves

LEMMA PayoutRemoveJob ==
    ASSUME PendingInv, TypeOK', PayoutInv, NEW f \in Fsps, RemoveJob(f)
    PROVE  PayoutInv'
<1>1. TypeOK
  BY DEF PendingInv
<1>2. /\ worker'[f].pc = "idle"
      /\ \A g \in Fsps : g # f => worker'[g] = worker[g]
      /\ UNCHANGED <<request, queue, status, payouts>>
  BY <1>1 DEF TypeOK, RemoveJob, IdleWorker, unchangedByWorker
<1>3. \A g \in Fsps : PendingJobs(g)' \subseteq PendingJobs(g)
  BY PendingRemoveJob
<1>4. UnpaidIsUnpaid'
  BY <1>2 DEF PayoutInv, UnpaidIsUnpaid
<1>5. OneJobEach'
  BY <1>2 DEF PayoutInv, OneJobEach
<1>6. \A q \in Requests : request[q].todo \subseteq Registrations
  BY <1>1 DEF TypeOK, Request
<1>7. QED
  BY <1>2, <1>3, <1>4, <1>5, <1>6, PayoutWorkerMoves

\* Inductive, together with PendingInv.
PayoutInvWithoutMishap == mishaps = {} => PayoutInv

LEMMA PayoutInit == Init => PayoutInvWithoutMishap
<1> SUFFICES ASSUME Init
             PROVE  PayoutInv
  BY DEF PayoutInvWithoutMishap
<1>1. /\ \A q \in Requests : request[q].pc = "idle"
      /\ \A f \in Fsps : queue[f] = << >> /\ worker[f].pc = "idle"
      /\ \A r \in Registrations : status[r] = "none" /\ payouts[r] = 0
  BY DEF Init, IdleWorker
<1>2. \A f \in Fsps : PendingJobs(f) = {}
  BY <1>1 DEF PendingJobs
<1>3. QED
  BY <1>1, <1>2
     DEF PayoutInv, CheckedIsQuiet, TodoIsUnpaid, JobIsUnpaid, HasJob,
         UnpaidIsUnpaid, OneJobEach

LEMMA MishapsGrow == [Next]_vars => mishaps \subseteq mishaps'
BY DEF Next, RequestStep, WorkerStep, CheckPaymentActionInProgress, CheckActionsAnd,
       CheckPaymentInProgressForProgramQueue, CheckQueueAnd, SelectRegistrations,
       SavePaymentStarted, AddJob, MarkJob, MarkJobAs, SavePaymentFinished,
       SaveFinishedIf, TakeJob, ProcessJob, RemoveJob, unchangedByChecks, vars

LEMMA PayoutStep ==
    PendingInv /\ PayoutInvWithoutMishap /\ [Next]_vars => PayoutInvWithoutMishap'
<1> SUFFICES ASSUME PendingInv, PayoutInvWithoutMishap, [Next]_vars, mishaps' = {}
             PROVE  PayoutInv'
  BY DEF PayoutInvWithoutMishap
<1>1. PendingInv' /\ TypeOK' /\ mishaps = {} /\ PayoutInv
  BY PendingStep, MishapsGrow DEF PayoutInvWithoutMishap, PendingInv
<1>2. ASSUME NEW q \in Requests, CheckPaymentActionInProgress(q) \/ RequestStep(q)
      PROVE  PayoutInv'
  BY <1>1, <1>2, PayoutChecks, PayoutSelect, PayoutStart, PayoutAddJob, PayoutMarkJob,
     PayoutFinish DEF RequestStep
<1>3. ASSUME NEW f \in Fsps, WorkerStep(f)
      PROVE  PayoutInv'
  BY <1>1, <1>3, PayoutTakeJob, PayoutProcessJob, PayoutRemoveJob DEF WorkerStep
<1>4. CASE UNCHANGED vars
  BY <1>1, <1>4
     DEF vars, PayoutInv, CheckedIsQuiet, NothingPending, TodoIsUnpaid,
         JobIsUnpaid, HasJob, UnpaidIsUnpaid, OneJobEach, PendingJobs
<1>5. QED
  BY <1>2, <1>3, <1>4 DEF Next

\* Unless requests have overlapped or a job of one queue has hidden one of
\* another, no registration has two jobs and none is paid twice, whatever is
\* posted and retried, however many FSPs and requests there are.
THEOREM OnePayout == Spec => []OnePayoutWithoutMishap
<1>1. PayoutInvWithoutMishap => OnePayoutWithoutMishap
  BY DEF PayoutInvWithoutMishap, PayoutInv, UnpaidIsUnpaid, OnePayoutWithoutMishap
<1>2. QED
  BY <1>1, PendingInit, PendingStep, PayoutInit, PayoutStep, PTL DEF Spec

=============================================================================
