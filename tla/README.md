# A verification of the 121-platform

TLA+ models, TLC runs and TLAPS proofs about the payments, registrations and
messages of the 121-service (`services/121-service`), the NestJS back-end of the 121-platform:
it pays out cash to registrations of humanitarian programs through financial
service providers (FSPs). In what follows `S/` stands for
`services/121-service/src/`.

1. [The system](#1-the-system)
2. [How the modules fit together](#2-how-the-modules-fit-together)
3. [The modules and the code](#3-the-modules-and-the-code)
4. [Runs](#4-runs)
5. [What the runs found](#5-what-the-runs-found)
6. [Mutants](#6-mutants)
7. [Proofs](#7-proofs)
8. [What is not modelled](#8-what-is-not-modelled)

## 1. The system

### Parts, their state and how they interact

A user starts a payment in the portal. The service answers at once and goes on
in the background: it adds a job per registration to a Bull queue (Redis), a
worker takes the jobs one at a time and calls the FSP, and the FSP answers in
its reply or by a callback later.

| Part | State it keeps | Operations | Talks to |
| --- | --- | --- | --- |
| Payments core, `S/payments/payments.service.ts` | none of its own | `postPayment`, `retryPayment`, `initiatePayment`, `payout`, `isPaymentInProgress` | action log, transaction queues, transaction store, Redis set |
| Action log, `S/actions` | table `action` | `saveAction`, `getLatestAction` | |
| Transaction queues, `S/transaction-queues` | Bull queues; Redis set `program:<id>:jobs` | `addSafaricomTransactionJobs`, `addIntersolveVisaTransactionJobs` | Redis |
| Job processors, `S/transaction-job-processors` | a job in hand per queue | `processSafaricomTransactionJob`, `processIntersolveVisaTransactionJob` | transaction store, FSP integrations, message queues |
| Transaction store, `S/payments/transactions` | tables `transaction`, `latest_transaction`; `paymentCount` and `registrationStatus` of a registration | create, update, latest, count | |
| Safaricom, `S/payments/fsp-integration/safaricom` | table `safaricom_transfer`, access token | `doTransfer`, `processTransferCallback`, `processTimeoutCallback` | Safaricom, callback queues |
| Callback processors, `S/financial-service-provider-callback-job-processors` | a callback in hand per queue | transfer and timeout callback | transaction store |
| Queues registry, `S/queues-registry` | all Bull queues | `retryFailedJobs` on start-up, `emptyAllQueues` | Redis |
| Intersolve Visa, `S/payments/fsp-integration/intersolve-visa` | customer, parent and child wallets | `calculateTransferAmountWithWalletRetrieval`, `doTransferOrIssueCard`, `reissueCard`, `pauseCardOrThrow`, wallet refresh (page, cronjob) | Intersolve |
| Intersolve voucher, `S/payments/fsp-integration/intersolve-voucher` | vouchers, issue requests, images | issue, store, send, cancel by refPos (cron), balances (cron) | Intersolve, messages, transaction store |
| Commercial Bank of Ethiopia, `S/payments/fsp-integration/commercial-bank-ethiopia` | request and result of each transfer (`customData` of the transaction) | credit transfer, transaction status, validation (cron) | the bank, transaction store |
| Excel, `S/payments/fsp-integration/excel`, and `importFspReconciliationData` | none | waiting transactions, import of results | transaction store |
| Registrations, `S/registration` | table `registration`, personal data | import, update, bulk status changes, deletion | events, messages |
| Messages, `S/notifications` | `twilio_message`, `latest_message`, pending messages | queue, send, status callbacks, incoming WhatsApp | Twilio |
| Programs, FSP configurations, users, events, activities, notes, metrics, e-mails, exchange rates, organization, Kobo Connect, cron jobs | their tables | single statements | |

### What is hard

* **Interleaving.** Every `await` is a point where another request, worker or
  callback runs. There are no database transactions around a handler: a
  handler is a sequence of statements.
* **Stale state.** TypeORM's `save` writes an entity as it was loaded: what
  another handler changed since is taken back.
* **Crashes.** A job that was being processed when the service stopped is
  found *stalled* by Bull and processed again from the start. The comment in
  `processSafaricomTransactionJob` says so. A request or a run that was adding
  jobs is gone.
* **Unreliable delivery.** Requests and responses get lost, callbacks are lost,
  repeated, late, or contradict each other.
* **Two sources of truth for "in progress"**: the action log and the Redis set.
* **Ids.** A conversation id is fresh per job, so that a repeated job can be
  told from a retry; a Bull job id is unique only within its queue; the bank's
  reference has to survive from a failed attempt to its retry.

### What makes each part correct

* Payments core: while a payment of a program is being made, the service says
  so and refuses another; when it is done, the service says so too.
* Transaction store: `latest_transaction` shows the newest transaction once no
  job is at work; the payment count is the number of payments made; a
  registration is completed exactly when it has had its maximum.
* An FSP integration: a registration is not paid twice for one payment, a
  payment is reported failed only if nothing was and nothing more can be paid
  out, a success is never withdrawn, and nothing stays *waiting* for ever.
* Visa: steps that failed are resumed without repeating the ones that did not,
  money is transferred once per payment, to a wallet with a card, and the
  limit of the card holds; the newest stored wallet is the one in use.
* Voucher: a payment has one voucher, valid and reported; every other issued
  card is cancelled.
* Bank: a transfer whose answer was lost is recognised by its reference, so
  that a retry finds out instead of paying again.
* Excel: an import of results never pays or counts what was not paid.
* Bulk changes: a request reaches all it selected although it changes what its
  own query selects; a deletion takes the personal data with it.
* Messages: none is lost between the template, the answer and the message
  itself; a final status stays; the latest message is known.

## 2. How the modules fit together

```
TransactionStore            the tables, single statements
  |-- SafaricomTransfers    refines PayoutLedger
  `-- TransactionStoring    storing one result, statement by statement
        |-- CommercialBankEthiopia
        |-- IntersolveVouchers
        `-- ExcelPayments
              `-- RegistrationsBulk
PaymentInProgress           the check before a payment, several FSPs
IntersolveVisaWallet        the wallets and cards of one registration
WhatsappMessages            messages, answers, callbacks of Twilio
```

An arrow is `EXTENDS`: a component takes the store's variables and statements
and composes them with its own steps. Two ways of storing a result exist in the
code and in the modules: the newer one of the job processors, inside
`SafaricomTransfers`, and `storeTransactionUpdateStatus`, which the bank, the
vouchers and the Excel payments share (`TransactionStoring`; each worker or
request that stores is a *storer*, and several may be at it). `PayoutLedger` is
the abstract specification: what an integration promises for a registration and
a payment.

What the others abstract is detailed in one place: `PaymentInProgress` has the
check, the action log and the Redis set statement by statement and reduces what
a job does to a step; the integrations add a job and its entry in the set
together, and take the check and the `paymentStarted` of a run as one step. What
they say of payments thus holds for requests that do not overlap there;
`PaymentInProgress` shows what happens when they do. Vouchers are sent like pending messages; `IntersolveVouchers` has the
sending of vouchers, `WhatsappMessages` everything else that is sent.

## 3. The modules and the code

`PROJECT.json` maps every definition to its lines. In short:

| Module | Models |
| --- | --- |
| `TransactionStore` | The tables and the single statements on them. A transaction's id is its position in the table. The payment count has the two branches of `updatePaymentCountAndStatusInRegistration`, of which one uses the count *read at the start of the job*. |
| `SafaricomTransfers` | A payment from the user's request to the final status: the run (`StartRun`, `AddSafaricomTransactionJob`, `FinishRun`), the worker with one action per statement (`TakeJob`, `CreateWaitingTransaction`, `UpdateLatestTransaction`, `UpdateRegistration`, `SaveTransfer`, `CallSafaricom`, `HandleReply`, `RemoveFromJobsInProgress`, `CompleteJob`), Safaricom, both callback workers (`ReceiveCallback`, `ApplyCallback`), `Crash` and `RecoverStalledJob`. |
| `PayoutLedger` | What every FSP integration promises for a (registration, payment). |
| `PaymentInProgress` | The check before a payment, statement by statement: two requests or more, one worker per FSP, the action log and the Redis set. What a job does is one step. |
| `IntersolveVisaWallet` | One registration with a Visa card: the worker in `processIntersolveVisaTransactionJob`, API call by API call and database write by database write, the refreshes of the stored wallets, `reissueCard`, `pauseCardOrThrow`, what Intersolve keeps, the holder, crashes. |
| `TransactionStoring` | `storeTransactionUpdateStatus` as seven actions: the transaction, its link to a Twilio message, the count, completing (whole-entity save), the event, the count in the registration, the latest transaction. |
| `CommercialBankEthiopia` | The run with the references of a retry, the worker (`CreditTransfer`, `CreditTransferDuplicated`, `GetTransactionStatus`, storing, leaving the Redis set), the bank, crashes and stalled jobs. |
| `IntersolveVouchers` | The payment worker from `getReusableVoucher` to the stored transaction, the template, the answer of the registrant, the reply workers, failed messages, the cron jobs that cancel cards and refresh balances, a crash. |
| `ExcelPayments`, `RegistrationsBulk` | Payments that only store transactions and the import of results; status changes and deletions of many registrations, page by page, beside them. |
| `WhatsappMessages` | The message queues and their senders, pending messages, answers, status callbacks, faulty template messages that are sent again, crashes. |
| `MC…` | Sets of registrations, payments, requests, faults for TLC; symmetry. |
| `…Proofs` | Theorems; `TransactionStoringProofs` holds the lemmas about storing that the others cite. |

Notes on `SafaricomTransfers`:

* `jobs[c]` is the job with the conversation id `c`. `uuid()` is modelled by
  the next number; only freshness matters.
* `worker.pc` is the statement the worker is about to execute. A crash puts
  the worker back to `idle` and its job to `stalled`; what the database holds
  stays. `worker.readCount` is the payment count of the entity read first.
* The read of the registration and of the transfer are one action: nothing
  else writes a transfer record, and one worker takes the jobs of the queue.
* `CallSafaricom` covers a missing token (`authenticate`), the request and the
  reply. Replies are `ok`, `duplicate` (error code 500.002.1001, for a
  conversation Safaricom has accepted before) and `error`, everything else
  `createErrorMessageIfApplicable` and `makeTransferCall` turn into a
  `SafaricomApiError`.
* `HandleReply` ends in the `finally` block of the processor
  (`RemoveFromJobsInProgress`), after which Bull completes the job.
* The statements before the transaction's update in a transfer callback
  (look-up, storing the Safaricom ids) are one action, the update another; a
  crash in between makes Bull process the callback again.
* Amounts, names and texts of errors are left out: no property depends on
  them. One program is modelled; programs share no payment state.

`CONSTANT Faults` says what may go wrong outside the service: `lostRequest`,
`lostResponse`, `transientRefusal`, `lateTimeout`, `duplicateCallback`,
`lostCallback`. Crashes are bounded by `MaxCrashes`.

Notes on `PaymentInProgress`:

* Only the order of the latest `paymentStarted` and `paymentFinished` matters
  to `checkPaymentActionInProgress`, hence `latestAction`.
* `AddJob` and `MarkJob` are the two statements in the loop of
  `transaction-queues.service.ts`; the loops of the FSPs run side by side.
* Job ids count from 1 in every queue, as Bull does. The Redis set is shared.
* Requests overlap in every way: nothing keeps one from being checked before
  another has saved its `paymentStarted`, and the code has nothing that would.
  `mishaps` is a history variable, which no guard reads: it notes that a run
  was started while another request stood between its check and its
  `paymentStarted`, and that a worker removed an id which a pending job of
  another queue has too. Each property says which of the two it takes to break
  what a user relies on.
* The two queries of the action log are one action. Between them the log can
  gain a *finished* that belongs to the *started* just read, and then nothing
  was in progress at the second query either.

Notes on `IntersolveVisaWallet`:

* `worker.pc` is the next statement. An action named after a function of the
  service is its API call with the check before it (*skipped when it is marked
  as done*), the action after it the write that marks it: a crash, a refresh
  or a reissue can come in between. `Provision` is what the steps have in
  common.
* `Call` is `intersolveApiRequest`: the effect at Intersolve and the answer,
  or an `IntersolveVisaApiError`, which ends a job with an error transaction.
  The effect is lost with it or, with `LostReplies`, is not.
  Everything that is not an `IntersolveVisaApiError` ends a job without a
  transaction (`Throw`, pc *thrown*). A failing calculation stores the amount
  that was asked for, a failing call after it the amount calculated.
* `update()` of TypeORM writes the columns it names, `save()` writes the entity
  as it was loaded, and fails for a parent wallet whose list of child wallets
  lacks one that is stored (it tries to clear that child's key, a column that
  may not be null). This is TypeORM's behaviour, modelled from how the entities
  are declared (`SaveParent`).
* A refresh takes the wallets in the order of the wallet page (parent first)
  or of the cronjob (parent last), the child wallets in whatever order the query
  returns them. `GetBalance`, `GetSpentThisMonth` and
  `GetChild` are separate calls; a refresh of the parent wallet stores two
  numbers that no action reads again, so they are left out of the entity.
* Which child wallet the calculation refreshes is whichever the query returns
  first: any of them.
* Amounts are units, `Limit` the 150 Euro of the code; cents and their rounding
  are left out. `StartJob` stands for the queue: a payment that has no
  successful transaction may get a job again, as a retry does.
* Intersolve: it issues fresh tokens; it refuses an `operationReference` it has
  seen (the mock service answers with an error too,
  `intersolve-visa.mock.service.ts:27`); it refuses to substitute a token that
  is substituted or blocked; it accepts a second `registerHolder` and
  `linkToken`; a second `createPhysicalCard` makes a second card. `MaxTokens` is
  large enough never to matter in the runs.

Notes on `TransactionStoring`:

* `storing[s].read` is the registration as the storer read it before it stored
  anything; the comparison with `MaxPayments` uses a count of the database and
  the status of that entity, and `CompleteRegistration` writes the entity back
  whole. The count is written once more afterwards.
* A crash forgets what the storers were doing and keeps the tables.

Notes on `CommercialBankEthiopia`:

* A reference is the number of the job it was drawn for. A retry takes the one
  kept with the failed transaction; `references[i]` is that column of
  transaction `i`, `NoReference` when it was stored without one.
* The bank executes, rejects or never gets a transfer it does not know, and
  refuses one it knows. Each answer may be lost. What the bank says of an
  inquiry is its record, an error, or an answer that is no status, at which the
  code throws.
* `StoreStep` stores the request with the transaction, as the code does in the
  same statement.

Notes on `IntersolveVouchers`:

* A card is the number of its issue request (`refPos`). One record holds what
  Intersolve knows of it (`issued`, `cancelled`), the issue-request row
  (`request`, and how long ago it was written, `age`), and the voucher row with
  its image (`voucher`, `send`).
* `age` goes through the ten minutes before the first attempt to cancel and the
  two weeks after which no more is made; every write of the row makes it fresh.
* Intersolve answers an attempt to cancel with *Ok* (`CancelAnswered`), with one
  of the two other codes at which the cron job stops and leaves `isCancelled`
  false (`CancelStopped`: the row is *refused*, the card may still be valid), or
  with a code that makes it try again (`CancelRefused`).
* A voucher that is reused, and one whose balance is refreshed, is saved as it
  was read: `send` may go back. Both are two actions.
* The payment worker, the reply workers and Twilio's callbacks all store
  transactions of the same payment.

Notes on `ExcelPayments` and `RegistrationsBulk`:

* A payment is a request, not a job: it stores one waiting transaction after
  the other; a crash ends it and leaves the payment in progress.
* An import goes through the configurations one by one: two queries, the join,
  the transactions of a configuration in one statement, and then their latest
  entries one by one. `JoinRegistrationsThrows` and `SortMayThrow` are the
  errors of the join; an import that throws has stored nothing.
* A bulk request counts once, and then reads the first page again and again.
  `paging` is the size of a page and whether it comes in the order of the ids;
  a user may have sorted the table otherwise.
* A deletion changes the status, then deletes notes and registration data, then
  the messages, and sets the phone numbers to null: `UpdateStatus`,
  `DeleteAttributes`, `DeleteNumbers`. The notes and the messages are left out,
  as nothing else in these modules reads them. A payment that completes a
  registration writes back the phone number it read with the rest of it
  (`SaveNumber`).
* `abandoned` names registrations whose deletion was cut short, by a crash or
  by `eventsService.log`, so that the property can except them.

Notes on `WhatsappMessages`:

* Bodies are numbered by the request of the user; a template and a default
  reply have none. A sid is an index into `twilio`, what Twilio has accepted.
* `fate` is what becomes of a message at Twilio; `UpdateStatus` may happen any
  number of times for each status Twilio can report with that fate, in any
  order. Statuses that say less than *read* or *failed* are one, `sent`.
* `StoreSendMessage`, `UpdateLatestMessage` and `InsertLatestMessage` are three
  statements, so that two senders can be between them.
* `FindFaultyMessage`, `UpdateRetryCount`, `HandleFaultyTemplateError` are
  what a callback does for error 63016, the last of them thirty seconds later;
  a crash in between forgets it.

## 4. Runs

| Run | Instance | Shows |
| --- | --- | --- |
| `safaricom_crash` | 2 registrations, 1 payment, `MaxPayments` 2, 2 jobs, 2 crashes, 2 re-queues, repeated callbacks | `AtMostOnePayout`, `HiddenTransactionMeansInProgress`, refinement of `PayoutLedger` |
| `safaricom_faults` | 2 registrations, 1 payment, 2 jobs, 1 crash, every fault | `TypeOK`, `CallbackFindsTransfer`, `SuccessMeansPaid`, `TransferOfOwnJob`, `CompletionMatchesPayments` |
| `safaricom_liveness` | 1 registration, 1 payment, 3 jobs, 1 crash, 1 re-queue, lost requests and refusals | `PaymentCountIsPaymentsMade`, `EveryJobResolves` |
| `progress` | 3 requests that overlap in every way, 2 FSPs, 1 registration of each | `TypeOK`, `JobHiddenOnlyByNamesake`, `RunHiddenOnlyByOverlap`, `OnePayoutWithoutMishap` |
| `visa_faults` | 2 payments of 2 units, limit 3, 1 refresh, 1 failing call (request or reply lost), 1 crash | `TypeOK`, `MarkedStepsAreDone`, `TransferredOnce`, `WithinLimit`, `ReportedMoneyWasTransferred`, `TransfersReachACard` |
| `visa_reissue` | 1 payment, 1 reissue, 2 requests to pause or unpause, 1 failing call, no crash | `NewestIsCurrent`, `PausedIsBlocked` |
| `vouchers` | 1 registration, 1 payment over WhatsApp, 2 jobs, 2 cards, 1 answer of the registrant, lost answers of Intersolve, a crash or a balance refresh | `TypeOK`, `OneVoucherPerPayment`, `LinkedVoucherIsValid`, `ReportedPaymentHasVoucher`, `ValidCardIsKnown`, `UnsentVoucherIsReported` |
| `bank` | 2 registrations, 1 payment, 4 jobs, 1 crash, 1 re-queue | `TypeOK`, `AtMostOnePayout`, `SuccessMeansPaid`, `PayoutIsTraceable` |
| `registrations` | 2 registrations of one Excel configuration, 1 payment and its retry, 1 import of a row, 1 bulk request that pauses or deletes, 1 crash | `TypeOK`, `PaymentCountIsPaymentsMade`, `BulkChangeReachesAll`, `DeletedHasNoAttributes` |
| `messages` | 2 registrations, one of them with WhatsApp, 1 message, 1 answer, 2 senders, 1 handler, one crash or lost answer or message sent again | `TypeOK`, `NoMessageIsLost`, `LatestMessageIsKnown`, `FinalStatusIsKept` |
| `progress_job_ids` | 1 request, 2 FSPs | violates `PendingMeansInProgress` |
| `registrations_deleted` | 2 Excel configurations, a deletion | violates `NoPaymentToDeleted` |

*Bounds.* Two registrations are enough for one job's callback or reference to
hit another's transaction and for a retry to run beside a first attempt; with
one registration, two jobs are a payment and its retry, three a second retry.
One crash interrupts every statement once; two crashes interrupt a repetition of
a job. `MaxPayments = 1` makes the first payment the completing one.

For the card, two payments of 2 units below a limit of 3 make the second one
run into the limit unless the holder has spent or a month has passed; the
failing call and the crash leave the provisioning at any two of its points,
and the refresh holds wallets that it loaded at any earlier one. A month may
begin and the holder may spend at any time. Two requests that pause are a pausing
and an unpausing, or a second pausing, of the old or the new token at any point of
the reissue, with a call of any of the four that fails.

For the check before a payment, two requests suffice to overlap and the third
meets what they leave behind: in this instance requests that overlap give two jobs
to one registration, and so do jobs that share a number without any overlap, each
within twenty steps.

For a voucher, two jobs and two cards are an attempt that fails or crashes and
one that must find what it left behind; one answer of the registrant comes at
any point of either. Four jobs of the bank are two first attempts and two
retries, each with its own lost answer. Two registrations in pages of one make
the bulk request read its first page twice after its own update, in one page of
two, not in the order of the ids, they are the page whose log fails. One message
goes through template, answer and message; with two senders its jobs and those of
the default reply are stored side by side. More of everything is covered where
there is a proof (section 7).

*Circumstances that are left out.* Some properties cannot hold for every fault.
What is left out is a named operator or constant, never a silent guard:

* `ReliableReports` (`SafaricomTransfers`): `AtMostOnePayout` and the refinement
  assume that failure is detectable. When the response of an accepted transfer
  is lost the code reports an error, a user retries, and the retry has a
  conversation id Safaricom does not know. `ReliableReports` excludes a lost
  response, a late timeout, and, when a crash makes a job repeat its request, a
  request that is lost or judged differently the second time. `SuccessMeansPaid`
  and the others are checked with every fault.
* `LateCrash = FALSE` (`CommercialBankEthiopia`): no crash between leaving the
  Redis set and completing the Bull job.
* `crashes = 0` in `ValidCardIsKnown`, `PayoutIsTraceable` and the two
  `PaymentCountIsPaymentsMade`: what is promised as long as nothing crashes.
* `abandoned` (`RegistrationsBulk`), `TakenForAnother` and a job Bull has given
  up (`WhatsappMessages`); `mishaps` and `NamesakeDone` (`PaymentInProgress`);
  `UnblockingAsked` (a reissue or an unpausing that was asked for),
  `StableNamespace` and `Reversals` (`IntersolveVisaWallet`).

Section 5 says what happens in each of them.

*Fairness* (`FairSpec`, used by `safaricom_liveness`): the run that adds jobs,
the worker, the callback workers and Bull's check for stalled jobs go on
(Node's event loop and Bull's timers), and Safaricom settles what it accepted.
Nothing forces a user to start or retry a payment and nothing has to fail. A
lost callback leaves a transaction waiting for ever, as no code asks Safaricom
for the outcome, so the run has no lost callbacks; with more crashes than Bull
re-queues a job the job stays failed, so `MaxCrashes <= MaxStalledCount` there.

*Deadlock* is not checked: when every job is done and the bounds are reached the
system has nothing to do, and the code may be idle for days. That nothing waits
for something that cannot come is `EveryJobResolves`.

## 5. What the runs found

Two runs check what a test or a text of the repository says and find it violated
(`PROJECT.json`, "findings", quotes the lines).

* `progress_job_ids`, `PendingMeansInProgress`: with two FSPs, job 1 of one
  queue and job 1 of the other are one entry of the Redis set. The first that
  is done makes the service say that no payment is in progress.
* `registrations_deleted`, `NoPaymentToDeleted`: `getPaymentListForRetry` and
  the retry by reference id select by the failed transaction and never look at
  the status of the registration, so a deleted registration is paid again.

Other circumstances in which a property does not hold, or in which the model
does what nobody may have intended. Those of the first column that name a module
were seen in a counterexample or in the model's behaviour; paths are below `S/`.

| Where | What happens |
| --- | --- |
| `PaymentInProgress`, `transaction-queues/transaction-queues.service.ts:42` | `queue.add` comes before `sadd`. A worker that finishes in between removes an id that is not there; then the id is added and stays. The program refuses every later payment. |
| `PaymentInProgress`, `payments/payments.service.ts:212` | Two requests that both pass the check before either has saved `paymentStarted` each add a job for the same registration, and the first that is finished hides the other from the action log. |
| `PaymentInProgress`, `transaction-job-safaricom.processor.ts:32` | After jobs of one number have hidden each other (`progress_job_ids`) a second payment passes the check and adds a job for a registration that has one. |
| `SafaricomTransfers`, `transaction-job-processors/transaction-job-processors.service.ts:258` | A job that is repeated after a crash leaves the transaction alone only if Safaricom answers *duplicate*; when the second request fails on its way the transaction becomes an error and can be retried, although the first transfer was accepted (comment at `:255`). |
| `SafaricomTransfers`, same file `:421` | The branch that completes a registration stores the count read at the start of the job plus one. A job repeated after a crash has read a count that includes the payment already. |
| `IntersolveVisaWallet`, `intersolve-visa.service.ts:652` | When the customer is stored and creating the parent wallet fails, every later payment stops with a `TypeError` in the calculation of the amount, before the code that would create the wallet, and leaves no transaction. |
| `StableNamespace = FALSE`, `intersolve-visa.api.service.ts:33` | Without `INTERSOLVE_VISA_UUID_NAMESPACE` each start of the service draws a namespace, and a repeated job has another `operationReference`: it transfers again. |
| `Reversals = TRUE`, `intersolve-visa.service.ts:454` | A reservation expires between the call for the balance and the call for what was spent: it counts in neither, and the limit is passed. |
| `transaction-job-processors.service.ts:73` | A Visa job repeated after its transfer finds the limit reached and reports a success of nothing. |
| `IntersolveVisaWallet`, `intersolve-visa.service.ts:501`, `:585` | A refresh saves a wallet that it loaded before its card was made, or a payment makes the card of a wallet that a reissue has just stored: a second card for one token. |
| `visa_reissue` with a crash, `:568` | After a crash between `substituteToken` and `save` the newest stored wallet is the substituted one. |
| `visa_reissue`, `:552` | A reissue that fails after unblocking the token leaves the card stored as paused and usable (`UnblockingAsked`). |
| `IntersolveVouchers`, `instersolve-voucher.api.service.ts:25` | The cron job gives up a card that Intersolve refuses to cancel with code 9 or 18, or that no answer came about for two weeks, although it may be valid: the row says that it is not cancelled, and nothing else does. |
| `IntersolveVisaProofs`, `:583` | A reissue that starts between the write of a new wallet and the call that links it stores its own wallet as linked, although the wallet it replaces was linked to nothing: later payments skip the step. `MarkedStepsAreDone` is checked and proved where no card is reissued. |
| any reissue, `:546` | The comment at `:515` promises an error for a wallet without a card; the code has no such check. |
| `LateCrash = TRUE`, `commercial-bank-ethiopia.processor.ts:22` | The job is out of the Redis set and not completed: a user retries with the kept reference of an older failure while Bull hands the job out again, and both are paid. |
| `CommercialBankEthiopia`, `commercial-bank-ethiopia.processor.ts:22` | A job that crashes after its success is shown is done again; when the credentials are gone or the inquiry fails this time, the paid payment shows as an error. A retry finds out what became of it, or, without credentials, throws (next row); it does not pay again. |
| `CommercialBankEthiopia`, `commercial-bank-ethiopia.service.ts:161` | A job without credentials stores a failed transaction without `customData`; a retry of that payment throws at this row each time, and the registrations after it get no job. |
| `CommercialBankEthiopia`, `:303` | An inquiry whose answer is no status makes the job throw; its id stays in the Redis set and the program refuses every later payment. |
| same, `:284`, `:233` | A *duplicated* message that is a single object is not recognised. `=` stands for `===` in `:233`; account validation passes the id of the program as the id of a configuration. |
| `RegistrationsBulk`, `registration/services/registrations-bulk.service.ts:530` | *Select all* keeps the order of the table, the second query is ordered by id, and `eventsService.log` throws at the difference: no event, no message, and a deletion never removes the personal data (`abandoned`). |
| same, `:361` | The number of pages comes from a count that is stale when other handlers change registrations meanwhile. |
| `ExcelPayments`, `excel/excel.service.ts:309` | A configuration without registrations makes the import fail: `undefined` is not `notFound`. Of rows with one match value the last wins, for each of them, with a transaction per row. |
| same, the join | It sorts with `localeCompare` and advances with `<`. |
| `TransactionStoring`, `payments/transactions/transactions.service.ts:255` | Completing saves the registration as it was read: one that was paused or deleted meanwhile becomes completed, and the phone number that a deletion has removed is stored again. |
| `ExcelPayments` | A retry and an import of the same payment can leave the latest entry at the older transaction. |
| `IntersolveVouchers`, `intersolve-voucher.service.ts:171` | A retry finds a claimed voucher, although the comment says this should never happen, and ends without a transaction. |
| same, with paper vouchers | A job is done again after a crash between linking the voucher and storing the transaction; if the balance refresh has found the voucher used meanwhile, it is claimed and the job ends without any transaction. `UnsentVoucherIsReported` excepts it; TLC finds it within fifteen steps when it does not. |
| same, `:223` | The template is queued before its transaction is stored; when it fails at once there is no transaction yet to make an error. |
| same, the balance refresh | A voucher saved as it was read takes back that it was sent: it is sent again. |
| same, `:683` | `updateUnusedVouchers` stops with a `TypeError` at an empty batch. |
| `WhatsappMessages`, `message-incoming.service.ts:255` | The `pendingMessageId` of a message that is sent again is the id of its `twilio_message`: when it goes well, an unrelated pending message is deleted (`TakenForAnother`). The new row counts retries from 0. |
| same, `last-message-status.service.ts:23` | Of two first messages stored at once one meets the unique index; it was accepted and is stored a second time, as failed, and its pending message stays. |
| same, `message-incoming.service.ts:179` | Only *read* and *failed* are protected: *delivered* can become *sent* again. A callback that comes before the row is stored is lost. An SMS has no guard at all. |
| `whatsapp.service.ts:140` | The comment says that the sid is kept; it is overwritten. |
| `message-incoming.service.ts:306`, `:541` | `=` stands for `===`; the instruction that is to be sent once is inside the loop. |
| `message-queues.service.ts:115` | An error of the queue is caught and only logged: the message is lost before there is a job. |

## 6. Mutants

Next to some actions stands a variant whose name ends in `_Wrong`: the action
with a mistake somebody could make in the code (a dropped case, the wrong
transaction, a job that is taken out of the set too early). The specification
never uses it. `PROJECT.json` lists for every property of a passing run a
definition and the variant which, put in its place, makes TLC find the
property violated: so each property can fail, and says something about the
code.

## 7. Proofs

Checked by `tlapm` for every value of the constants, under the named assumptions
of the modules only. They say what a constant is (numbers are natural, sets of
registrations finite, the storers of a component its own workers, payments
numbered from 1) and nothing about how large it is.

| Theorem | States |
| --- | --- |
| `SafaricomProofs!TypeCorrect` | `Spec => []TypeOK` |
| `SafaricomProofs!TransfersAreOwn` | `Spec => []TransferOfOwnJob` |
| `SafaricomProofs!CallbacksFindTransfers` | `Spec => []CallbackFindsTransfer` |
| `SafaricomProofs!SuccessIsPaid` | `Spec => []SuccessMeansPaid` |
| `SafaricomProofs!HiddenIsInProgress` | `Spec => []HiddenTransactionMeansInProgress` |
| `SafaricomProofs!PaidAtMostOnce` | `Spec => []AtMostOnePayout` |
| `SafaricomProofs!CountsArePayments` | `Spec => []PaymentCountIsPaymentsMade` |
| `SafaricomProofs!CompletionIsRight` | `Spec => []CompletionMatchesPayments` |
| `SafaricomProofs!LedgerImplemented` | `QuietFaults => (Spec => LedgerSpec)` |
| `SafaricomProofs!SettledPaymentsAreShown` | `QuietFaults => (Spec => []SettledIsShown)` |
| `SafaricomProofs!SuccessIsFinal` | with `QuietFaults`, `Spec` implies that no step takes a shown success back |
| `PaymentInProgressProofs!TypeCorrect` | `Spec => []TypeOK` |
| `PaymentInProgressProofs!RunHidden` | `Spec => []RunHiddenOnlyByOverlap` |
| `PaymentInProgressProofs!JobHidden` | `Spec => []JobHiddenOnlyByNamesake` |
| `PaymentInProgressProofs!OnePayout` | `Spec => []OnePayoutWithoutMishap` |
| `IntersolveVisaProofs!OneTransfer` | `StableNamespace => (Spec => []TransferredOnce)` |
| `IntersolveVisaProofs!LimitHolds` | `~Reversals => (Spec => []WithinLimit)` |
| `IntersolveVisaProofs!WalletInvHolds` | `Spec => []WalletInv`, the inductive invariant of the wallets |
| `IntersolveVisaProofs!TypeOKHolds` | `Spec => []TypeOK` |
| `IntersolveVisaProofs!MarkedStepsAreDoneHolds` | `Reissues = {} => (Spec => []MarkedStepsAreDone)` |
| `IntersolveVisaProofs!TransfersReachACardHolds` | `Reissues = {} => (Spec => TransfersReachACard)` |
| `IntersolveVisaProofs!ReportedMoneyWasTransferredHolds` | `Spec => []ReportedMoneyWasTransferred` |
| `IntersolveVisaProofs!NewestIsCurrentHolds` | without lost replies and crashes, `Spec => []NewestIsCurrent` |
| `IntersolveVisaProofs!PausedIsBlockedHolds` | `Spec => []PausedIsBlocked` |
| `CommercialBankEthiopiaProofs!TypeCorrect` | `Spec => []TypeOK` |
| `CommercialBankEthiopiaProofs!SuccessIsPaid` | `Spec => []SuccessMeansPaid` |
| `CommercialBankEthiopiaProofs!PaidOnce` | `~LateCrash => (Spec => []AtMostOnePayout)` |
| `CommercialBankEthiopiaProofs!PayoutsTraceable` | `Spec => []PayoutIsTraceable` |
| `CommercialBankEthiopiaProofs!SuccessIsFinal` | `Spec` implies that no step takes a shown success back while nothing has crashed |
| `IntersolveVouchersProofs!TypeCorrect` | `Spec => []TypeOK` |
| `IntersolveVouchersProofs!OneVoucher` | `Spec => []OneVoucherPerPayment` |
| `IntersolveVouchersProofs!VoucherIsValid` | `Spec => []LinkedVoucherIsValid` |
| `IntersolveVouchersProofs!ValidCardKnown` | `Spec => []ValidCardIsKnown` |
| `IntersolveVouchersProofs!ReportedHasVoucher` | `Spec => []ReportedPaymentHasVoucher` |
| `IntersolveVouchersProofs!UnsentIsReported` | `Spec => []UnsentVoucherIsReported` |
| `RegistrationsBulkProofs!TypeOKHolds` | `Spec => []TypeOK` |
| `RegistrationsBulkProofs!BulkChangeReachesAllHolds` | `Spec => []BulkChangeReachesAll` |
| `RegistrationsBulkProofs!DeletedHasNoAttributesHolds` | `Spec => []DeletedHasNoAttributes` |
| `RegistrationsBulkProofs!PaymentCountIsPaymentsMadeHolds` | `Spec => []PaymentCountIsPaymentsMade` |
| `WhatsappMessagesProofs!TypeCorrect` | `Spec => []TypeOK` |
| `WhatsappMessagesProofs!NothingLost` | `Spec => []NoMessageIsLost` |
| `WhatsappMessagesProofs!LatestKnown` | `Spec => []LatestMessageIsKnown` |
| `WhatsappMessagesProofs!FinalKept` | `Spec => [][…]_vars`, `FinalStatusIsKept` |

*Safaricom.* No safety property is inductive: each depends on where the worker
and the run stand. The inductive invariant `Inv` has four parts, proved one after
the other, each using the ones before:

1. `TransferInv`: types; a worker at or after the call has a transfer record
   (`TransferWhenCalling`); the transaction the worker has just created
   belongs to its job and no transfer has it yet (`TransactionOfJob`);
   `TransferOfOwnJob`.
2. `KnownHasTransfer`: a conversation Safaricom knows has a transfer record.
   This is where the order *save the transfer, then call* is used.
3. `CallbackIsTrue`: a callback tells what Safaricom did, or is a timeout of a
   paid transfer.
4. `SuccessMeansPaid`. A worker that repeats a job updates only the
   transaction of that job's transfer, and only to *error*; only a callback
   writes *success*, for the transaction of its conversation (1) and only if
   Safaricom paid (3).

The other properties need to know which jobs can still do what. `JobInv` adds to
`Inv`:

* `WorkerFacts`: what is stored of the job at hand when the worker is at each
  statement;
* `SetFacts`: a job out of the Redis set has a transfer record and reached
  Safaricom, unless its request was lost. `FreshFacts`: without a crash a
  queued job is in the set and has no record;
* `HiddenFacts`: a transaction newer than the latest one has a job in the set
  that has not saved its transfer: `HiddenTransactionMeansInProgress` with the job
  named.

`PayoutInv` adds what holds while reports are reliable. A job *may pay* if
Safaricom has its transfer, or if it is in the Redis set and Safaricom has not
taken it. `OneMayPay`: of a registration and payment only one job may pay, which
is `AtMostOnePayout` before the money moves. It is kept because a run chooses
only registrations of which no job may pay (`TodoCannotPay`): a failed one shows
an *error*, the error is that of the newest job (`NewestMayPay`), and an error is
not written for a transfer Safaricom has accepted (`NotFailed`, from what replies
and callbacks say: `ReplyTrue`, `CallbackTrue`).

`CountInv` follows payment counts. A retry has a latest transaction already
(`RetryFacts`), so only a first attempt changes the number of payments; its job
is the only one of its registration and payment in the set (`Distinct`) and read
the count before it (`CountFacts`, until a crash). For the status,
`CompletionFacts`: if a registration has had its maximum and is not completed, a
first attempt that has not saved its transfer is still to write it
(`WillCount`). That job stays through crashes, because Bull starts it again.

The refinement of `PayoutLedger` is proved for `QuietFaults`: callbacks may be
lost or repeated and the service may crash anywhere, but no request and no
answer is lost on its way. `LedgerInv` adds to `PayoutInv` that a completed
job has reached Safaricom, and that every earlier job of a registration and
payment has failed: before one is chosen again (`TodoIsFailed`), while its new job
has not reached Safaricom (`RetriedIsFailed`) and once a newer transaction is
shown (`OlderIsFailed`). With it, each step changes at most one entry of the
ledger (`LedgerMoves`, one lemma per kind of step): adding a job is an attempt,
showing its transaction reports *waiting*, settling pays out, and the worker and
the callbacks report. `LedgerStep` turns entries into the ledger's variables.
Two consequences are stated for the users: a payment that is over shows as a
success exactly when the money was paid (`SettledIsShown`), and a success stays.

`SafaricomProofs` starts with the lemmas about the statements they rest on:
what appending and updating a transaction leaves alone, that the payment count
is a natural number, that every statement keeps its table's type. Those the
other components need are in `TransactionStoringProofs`.

*PaymentInProgress.* `SequentialInv` says that until two requests have
overlapped, at most one is between its check and its `paymentFinished`, and that
while a run adds jobs the latest action is `paymentStarted`: `RunHidden` needs
nothing about queues and workers. `PendingInv` adds the jobs. A queue holds ids in
increasing order, behind that of its worker (`JobIdsInOrder`), so a worker that
removes its id removes that of no other job of its own queue; a pending job's id is
in the Redis set, or its run is still to put it there, or some other queue has
used the number and no longer has a job of it (`NamesakeDone`). That is
`JobHiddenOnlyByNamesake`; for the next theorem `NotedWithoutNamesake` says the
same until the first such removal. Neither needs `SequentialInv`: overlapping runs
draw different numbers from one queue.
`PayoutInv` adds who is paid, as long as `mishaps` is empty: whoever is to get a
job has none and was not paid, nor was anyone who has one, and nobody has two. It
holds where registrations are selected because nothing is pending between the
check and the selection (`CheckedIsQuiet`): the log is silent, so no run adds jobs,
and the set is empty, so no job waits.

*IntersolveVisaWallet.* All calls but the transfer leave the transfers, the
balance and the spending alone (`EffectsMoveNothing` and the three lemmas after
it), so both proofs are about few steps. `NamespaceInv` adds to
`TransferredOnce` that every transfer has the one namespace; an unused
`operationReference` then means an unused payment. `LimitInv` adds to
`WithinLimit` that the amount the worker carries *fits*, from its calculation
to its transfer: the balance is read before the spending, and in between and
afterwards the holder can only move money from one to the other and a new month
only lowers their sum. With an expiring reservation the balance can rise after
it was read and the argument fails, as does the property (section 5). Where the
service has no customer yet the calculation takes both numbers for 0, which is
right because nothing was ever transferred: the invariant says so too, and that
behind the provisioning of the customer there is one.

The other theorems rest on `WalletInv`. `MarkedStepsAreDone` alone is not
inductive, because `save()` writes an entity that was loaded long ago; so
`WalletInv` says of everything that holds one what it may claim:

1. `StoredInv`: what is stored claims nothing that Intersolve has not done.
2. `WorkerKnows`, `RefreshKnows`, `ReissueKnows`, `PauseKnows`: at each
   statement, the entity in hand is of the stored parent wallet or of the child
   wallet at its place (`KnownParent`, `KnownChild`), and claims nothing more;
   and the worker is behind the steps it has done or has found marked.
3. Intersolve takes nothing back and a wallet keeps its place and its token
   (`Kept`), so what was true of an entity when it was loaded stays true of it
   (`WorkerStays`, `RefreshStays`, ...). This is what makes a late write
   harmless.

What is linked is claimed only without reissues: section 5 has the reason, which
the proof brought to light. `MoneyReported` follows the amount of a transfer to
the transaction. `NewestInv` names who can still repair a newest wallet that is
substituted: a reissue between its substitution and its write; it needs that no
answer is lost there. `PausedInv` says that a token which anybody holds to be blocked (the tables, and
every entity the worker, a refresh, a reissue or a pausing has in hand) is blocked,
or that somebody who saw it blocked has asked to unblock it. Such a request stays
(`StillAsked`), also when it fails or the service crashes, and nothing else unblocks
a token: a substitution needs one that is not blocked, and a refresh that writes an
old entity writes what was blocked when it was read, or what Intersolve has just
answered.

*CommercialBankEthiopia.* The steps of the module are first sorted into a dozen
kinds (`Stepping`): what adds a job, what the worker does, what only stores, a
crash. Everything after the type invariant is proved over the kinds.

1. `StorerInv`: what is stored is the result of the job at hand, and its
   transaction is the newest of all; `LatestIsOwn`; `PaidInv`: a success that is
   stored, or about to be, was paid. `SuccessMeansPaid` follows.
2. `ReferenceInv`, `RetryInv`, `OwnReferences`: a transaction keeps a reference
   of a job of its own registration and payment, so a retry passes on one of
   its own, and two registrations never share one.
3. `SetInv`: as long as no crash has hit the worker between leaving the Redis
   set and completing its job (`Clean`), a job out of the set is completed.
   With it `ShownInv` (such a job has a latest transaction) and `HiddenInv` (a
   transaction that is newer than the latest one has a job in the set).
4. `FreshInv`: a run draws a fresh reference only for a registration without
   any job: one that has had a job shows a transaction, by 3. So jobs of one
   registration and payment share one reference (`OneReference`), and the bank
   pays a reference once: `AtMostOnePayout`.
5. `TraceInv`: without a crash the reference of a payout is in a transaction or
   on its way to one; with `ShownInv`, `PayoutIsTraceable`.
6. `FinalInv`: without a crash, of a registration and payment one job at most
   has yet to show a result (`ToStore`), and none if it shows as a success or if
   a run is about to add one. A run starts only with an empty Redis set, hence
   with no such job (`ToStoreInSet`), and then the newest transaction is the
   latest (3), so it cannot choose a success. `SuccessIsFinal`.

*IntersolveVouchers.* `TypeInv` is proved variable by variable. For the cards,
nine cases say what a step does to one. The core is `OwnCard`: from the answer
*nothing to reuse* on, the registration and payment at hand has no linked voucher
but the one about to be made. Hence `OneLinked`. `CardAtHand` carries what
Intersolve answered to the statement that links the card (`LinkedOk`), and
`NotCancelled` says that the cron job touches only what is to be cancelled.
`Known` is `ValidCardIsKnown` with the worker's card named exactly.
`ReportInv` follows a linked voucher through everything that stores a result:
the worker, the replies that were read, queued and taken, the storers.
`UnsentInv` says why a voucher nobody has asked for is never forgotten: its job
is queued, or at hand and not past its transaction (`WillStore`), or has made its
transaction the latest (`PayerStores`, `SavedIsOwn`). Only a claimed voucher lets
a job end without a transaction, and before anybody has answered that is a paper
voucher which was used (`SentIsUsed`): neither the worker nor the refresh of the
balances, both of which write what they read, can forget the use.

*RegistrationsBulk.* The types, with `ExcelTypeOK`, are proved action by action:
payments and imports, bulk changes, crashes. They say more than that a variable
has its set: the configuration an import is at exists, its results are as many
as the rows of the file, each has one registration at most.

`BulkChangeReachesAll` follows from `SelectionInv`: as long as nothing else
changes a registration, each one that was selected is changed or can still be
found by the filter of the request, and the latter fit the pages that are left.
No change leads from a status to itself (`NoChangeToItself`), so whatever a page
has changed no longer meets the filter (`ApplicableAfterUpdate`), and each page
takes its size away from what is to be done or is the last (`PageFits`);
`PagesSuffice` is the division at the start. The order of the pages plays no
part. That reading the first page over and over reaches everybody thus depends
only on no change leading to its own status and on nobody interfering.

`DeletedHasNoAttributes` is inductive with the types. What stores a transaction
writes back whole registrations, but only *completed* ones
(`ExcelNeverDeletes`); a status *deleted* is set by a deletion only, and the
page of that deletion loses its data, and then its numbers, before it leaves the
page (`RequestRemoves`). A number that a payment writes back comes with the status
*completed* (`NumberOfCompleted`).

`PaymentCountIsPaymentsMade` needs two facts about imports (`PaidInv`): a latest
transaction is one of its own key, and whatever an import has found has been
paid before. So an import never makes a first transaction of a payment, which
is why it need not count. `CountInv` then says that each count is right but
that of the registration at hand between its transaction and its count
(`Uncounted`), and that the count which completing is to write is the current
one. Transactions of imports may be stored in between
(`CountByImport`), and a bulk change writes only the status it changes
(`CountByRequest`).

*WhatsappMessages.* Every step is of one of a few kinds (`Step`), and none takes
away what `Kept` lists: accepted messages, rows, pending messages (deleted or
not), the content of jobs.

1. `OriginInv`: a job is the first of its message, a reply with a pending message
   of its own, or sends a row again; `ResendInv`: only what Twilio called faulty
   is sent again, so never a row that was read.
2. `RowInv`: a row with a sid has the text Twilio knows, and says *read* only if
   the message was read. With 1, a final status is not overwritten when the
   message is sent again: `FinalStatusIsKept`.
3. `SenderInv`: what a sender has done by its statement: Twilio has its text, or
   there is a pending message or a row that failed.
4. `PendingInv`: a deleted pending message was sent or deleted for another one;
   `LostInv`: as long as nobody has to do a job for a message, one of these is
   left. `NoMessageIsLost`.
5. `LatestInv`: a registration with a row has a latest message or a first job
   that is not through `InsertLatestMessage` yet; losing the race for the unique
   index also means that there is one.

*Model-checked only.* Every invariant and action property of the passing runs
has a theorem; the theorems of the table that name no such property say more than
the runs. `EveryJobResolves` is a liveness property under fairness, which is
out of the prover's reach, as are `ENABLED` and induction over data. The
hypotheses in the table are circumstances of the system; section 5 says what goes
wrong outside them.

## 8. What is not modelled

* Most of the repository's lines: the portals, controllers, validators, DTOs,
  metrics, the import and pagination of registrations, users, programs,
  configurations, notes, activities, exports. They read, check or write a row at
  a time and keep no state between requests that another part relies on; a
  model of them would repeat their lines. What they share with the payments (the
  status and the payment count of a registration, its configuration) is in the
  modules.
* Visa: the status of the physical card, dates, contact data (and its update
  before a reissue), several registrations (the cronjob goes through all
  customers and stops at the first that fails), answers without a balance.
* Vouchers: exports, reminders (they send the same template again), the removal
  of balances, several programs in one cron job, and a second crash.
* The bank: the validation of account numbers, which writes a table that no
  payment reads.
* Excel: amounts, the export of instructions, the template.
* Bulk changes: the messages they queue (`WhatsappMessages` starts with such a
  message), dry runs.
* Messages: `tryWhatsapp`, for which no code creates a job any more, numbers
  that belong to several registrations, e-mails.
* More than one payment number in `PaymentInProgress`.
* Two workers on one Bull job (a lock that expires while the event loop is
  blocked), the retry of failed jobs on start-up, several instances of the
  service.
* FSP loops that throw while others add jobs (`Promise.all`); the bank's module
  has a loop that throws, alone.
* Clocks: two actions with equal timestamps.
* Scripts, seeds, migrations, mocks and tests. `PROJECT.json` lists every part
  with its status and every hazard with the properties that cover it.
