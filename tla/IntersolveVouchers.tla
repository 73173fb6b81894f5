----------------------- MODULE IntersolveVouchers -----------------------
(***************************************************************************)
(* Payments with Intersolve vouchers, on paper or over WhatsApp.           *)
(*                                                                         *)
(*   payment worker -> issues a card at Intersolve, records the request,   *)
(*                     stores the voucher and links it to the registration *)
(*                     by an image, queues a WhatsApp template and stores  *)
(*                     a "waiting" transaction (paper: "success")          *)
(*   message worker -> sends the template, links it to the transaction     *)
(*   registrant     -> answers; every linked voucher not sent yet becomes  *)
(*                     a job of the reply queue                            *)
(*   reply worker   -> sends the voucher, marks it, stores a "success"     *)
(*   Twilio         -> may report later that a message failed              *)
(*   cron jobs      -> cancel the cards of failed requests at Intersolve,  *)
(*                     and refresh the balances of the vouchers            *)
(*                                                                         *)
(* A card is the number of its issue request (its refPos).  Intersolve,    *)
(* Twilio and Bull are not in the repository.  The service may crash once: *)
(* Bull hands out a job again the first time it stalls.                    *)
(***************************************************************************)
EXTENDS TransactionStoring

CONSTANTS
    Repliers,      \* the workers of the reply queue
    Payer,         \* the worker of the payment queue
    Whatsapp,      \* whether vouchers go over WhatsApp or are exported
    MaxJobs,       \* bound on the payment jobs
    MaxCards,      \* bound on the issue requests
    MaxIncoming,   \* bound on the messages of the registrants
    MaxCrashes,    \* bound on the crashes
    MaxEvents,     \* bound on the crashes and balance refreshes together
    LostAnswers    \* whether an answer of Intersolve may be lost

ASSUME StorersAssumption == Payer \notin Repliers /\ Storers = Repliers \cup {Payer}
ASSUME SettingsAssumption == Whatsapp \in BOOLEAN /\ LostAnswers \in BOOLEAN
ASSUME RegistrationsAssumption == IsFiniteSet(Registrations)
ASSUME CountsAssumption ==
    /\ MaxJobs \in Nat /\ MaxCards \in Nat /\ MaxIncoming \in Nat
    /\ MaxEvents \in Nat
    /\ MaxCrashes \in 0..1

VARIABLES
    queue,      \* the (registration, payment)s with a queued payment job
    worker,     \* the payment worker
    cards,      \* what is known of each issue request, here and at Intersolve
    templates,  \* template messages queued for each (registration, payment)
    incoming,   \* the handler of incoming messages: cards it has to reply with
    replies,    \* the reply queue
    repliers,   \* the workers of the reply queue
    balance,    \* the voucher whose balance is being refreshed, as read
    jobCount, incomingCount, refreshes, crashes

voucherVars == <<cards, templates, incoming, replies, repliers, balance>>
counts == <<jobCount, incomingCount, refreshes, crashes>>
vars == <<storingVars, queue, worker, voucherVars, counts>>

Cards == 1..MaxCards
NoCard == 0

\* A request row is to be cancelled (toCancel), or the cron job is done with it:
\* the card was cancelled (isCancelled) or a result code said to stop.
RequestState == {"none", "ok", "toCancel", "cancelled", "refused"}

\* issued, cancelled: at Intersolve.  request: the intersolve_issue_voucher_
\* request row; age: how long ago it was updated.  voucher, send: the
\* intersolve_voucher row, linked when an image row points at it.
Card == [key : Key, issued : BOOLEAN, cancelled : BOOLEAN,
         request : RequestState,
         age : {"fresh", "due", "expired"},
         voucher : {"none", "stored", "linked"}, send : BOOLEAN]

WorkerPc == {"idle", "reuse", "resave", "issue", "request", "mark", "voucher", "image",
             "message", "store", "storing", "remove"}
\* claimed: whether the voucher found had been sent when it was read.
Worker == [pc : WorkerPc, key : Key, card : {NoCard} \cup Cards,
           status : TransactionStatus, claimed : BOOLEAN]

Reply == [card : Cards, incoming : 1..MaxIncoming]
Replier == [pc : {"idle", "send", "sent", "user", "storing"},
            card : {NoCard} \cup Cards, message : BOOLEAN]

TypeOK ==
    /\ StoringTypeOK
    /\ queue \subseteq Key
    /\ worker \in Worker
    /\ cards \in Seq(Card) /\ Len(cards) <= MaxCards
    /\ templates \in [Key -> Nat]
    /\ incoming \subseteq DOMAIN cards
    /\ replies \subseteq Reply
    /\ repliers \in [Repliers -> Replier]
    /\ balance \in [card : {NoCard} \cup Cards, send : BOOLEAN]
    /\ jobCount \in 0..MaxJobs /\ incomingCount \in 0..MaxIncoming
    /\ refreshes \in 0..MaxEvents /\ crashes \in 0..MaxCrashes

NoBalance == [card |-> NoCard, send |-> FALSE]
IdleReplier == [pc |-> "idle", card |-> NoCard, message |-> FALSE]
Idle(k) == [pc |-> "idle", key |-> k, card |-> NoCard, status |-> "waiting",
            claimed |-> FALSE]

Init ==
    /\ StoringInit
    /\ queue = {}
    /\ worker \in {Idle(k) : k \in Key}
    /\ cards = << >>
    /\ templates = [k \in Key |-> 0]
    /\ incoming = {}
    /\ replies = {}
    /\ repliers = [w \in Repliers |-> IdleReplier]
    /\ balance = NoBalance
    /\ jobCount = 0 /\ incomingCount = 0 /\ refreshes = 0 /\ crashes = 0

Linked(k) ==
    {c \in DOMAIN cards : cards[c].key = k /\ cards[c].voucher = "linked"}

-----------------------------------------------------------------------------
(* The user.                                                               *)

IsPaymentInProgress == queue # {} \/ worker.pc # "idle"

StartRun(p, chosen) ==
    /\ ~IsPaymentInProgress
    /\ chosen # {}
    /\ jobCount + Cardinality(chosen) <= MaxJobs
    /\ queue' = chosen \X {p}
    /\ jobCount' = jobCount + Cardinality(chosen)
    /\ UNCHANGED <<storingVars, worker, voucherVars, incomingCount, refreshes,
                   crashes>>

PostPayment(p) ==
    \E chosen \in SUBSET PayableRegistrations(p) : StartRun(p, chosen)

RetryPayment(p) ==
    \/ StartRun(p, FailedRegistrations(p))
    \/ \E chosen \in SUBSET Registrations :
         /\ \A r \in chosen : NewestTransactionFailed(<<r, p>>)
         /\ StartRun(p, chosen)

-----------------------------------------------------------------------------
(* The payment worker: processQueuedPayment.                               *)

unchangedByWorker ==
    <<templates, incoming, replies, repliers, balance, counts>>

Go(next) == worker' = [worker EXCEPT !.pc = next]

TakeJob(k) ==
    /\ worker.pc = "idle"
    /\ k \in queue
    /\ queue' = queue \ {k}
    /\ worker' = [Idle(k) EXCEPT !.pc = "reuse"]
    /\ UNCHANGED <<storingVars, cards, unchangedByWorker>>

MissCredentials ==
    /\ worker.pc = "reuse"
    /\ worker' = [worker EXCEPT !.pc = "store", !.status = "error"]
    /\ UNCHANGED <<storingVars, queue, cards, unchangedByWorker>>

\* A voucher of an earlier attempt is used again; the query finds it by its
\* image.
GetReusableVoucherFrom(vouchers) ==
    /\ worker.pc = "reuse"
    /\ \/ vouchers = {} /\ Go("issue")
       \/ \E c \in vouchers :
            worker' = [worker EXCEPT !.pc = "resave", !.card = c,
                                     !.claimed = cards[c].send]
    /\ UNCHANGED <<storingVars, queue, cards, unchangedByWorker>>

GetUnsentVoucher_Wrong ==
    GetReusableVoucherFrom({c \in Linked(worker.key) : ~cards[c].send})

GetReusableVoucher == GetReusableVoucherFrom(Linked(worker.key))

\* The voucher is saved as it was read.  One that was claimed ends the job
\* without any transaction.
SaveReusableVoucherOr(skip) ==
    /\ worker.pc = "resave"
    /\ cards' = [cards EXCEPT ![worker.card].send = worker.claimed]
    /\ worker' = [worker EXCEPT
         !.pc = IF skip THEN "remove" ELSE IF Whatsapp THEN "message" ELSE "store",
         !.status = "success"]
    /\ UNCHANGED <<storingVars, queue, unchangedByWorker>>

SkipFoundVoucher_Wrong == SaveReusableVoucherOr(TRUE)

SaveReusableVoucher == SaveReusableVoucherOr(worker.claimed)

\* What Intersolve did, and whether the service hears that it went well.
IssueCard ==
    /\ worker.pc = "issue"
    /\ Len(cards) < MaxCards
    /\ \E issued, heard \in BOOLEAN :
         /\ issued /\ ~heard => LostAnswers
         /\ cards' = Append(cards,
              [key |-> worker.key, issued |-> issued, cancelled |-> FALSE,
               request |-> "none", age |-> "fresh", voucher |-> "none",
               send |-> FALSE])
         /\ worker' = [worker EXCEPT
              !.pc = "request", !.card = Len(cards) + 1,
              !.status = IF issued /\ heard THEN "success" ELSE "error"]
    /\ UNCHANGED <<storingVars, queue, unchangedByWorker>>

SaveRequestAs(request) ==
    /\ worker.pc = "request"
    /\ cards' = [cards EXCEPT ![worker.card].request = request]
    /\ Go(IF worker.status = "success" THEN "voucher" ELSE "mark")
    /\ UNCHANGED <<storingVars, queue, unchangedByWorker>>

SaveRequestToCancel_Wrong == SaveRequestAs("toCancel")

SaveRequest ==
    SaveRequestAs(IF worker.status = "success" THEN "ok" ELSE "toCancel")

MarkVoucherAsToCancel ==
    /\ worker.pc = "mark"
    /\ cards' = [cards EXCEPT ![worker.card].request = "toCancel",
                              ![worker.card].age = "fresh"]
    /\ Go("store")
    /\ UNCHANGED <<storingVars, queue, unchangedByWorker>>

StoreVoucherDataThen(next) ==
    /\ worker.pc = "voucher"
    /\ cards' = [cards EXCEPT ![worker.card].voucher = "stored"]
    /\ Go(next)
    /\ UNCHANGED <<storingVars, queue, unchangedByWorker>>

StoreVoucherDataOnly_Wrong == StoreVoucherDataThen("store")

StoreVoucherData == StoreVoucherDataThen("image")

CreateVoucherImage ==
    /\ worker.pc = "image"
    /\ cards' = [cards EXCEPT ![worker.card].voucher = "linked"]
    /\ Go(IF Whatsapp THEN "message" ELSE "store")
    /\ UNCHANGED <<storingVars, queue, unchangedByWorker>>

\* The template is queued before the transaction it belongs to is stored.
SendVoucherWhatsapp ==
    /\ worker.pc = "message"
    /\ templates' = [templates EXCEPT ![worker.key] = @ + 1]
    /\ worker' = [worker EXCEPT !.pc = "store", !.status = "waiting"]
    /\ UNCHANGED <<storingVars, queue, cards, incoming, replies, repliers,
                   balance, counts>>

StoreTransactionResult ==
    /\ worker.pc = "store"
    /\ BeginStoring(Payer, worker.key, worker.status, FALSE)
    /\ Go("storing")
    /\ UNCHANGED <<queue, cards, unchangedByWorker>>

TransactionResultStored ==
    /\ worker.pc = "storing"
    /\ EndStoring(Payer)
    /\ Go("remove")
    /\ UNCHANGED <<queue, cards, unchangedByWorker>>

\* The job leaves the Redis set of the program.
RemoveJob ==
    /\ worker.pc = "remove"
    /\ worker' = Idle(worker.key)
    /\ UNCHANGED <<storingVars, queue, cards, unchangedByWorker>>

WorkerStep ==
    \/ \E k \in Key : TakeJob(k)
    \/ MissCredentials
    \/ GetReusableVoucher
    \/ SaveReusableVoucher
    \/ IssueCard
    \/ SaveRequest
    \/ MarkVoucherAsToCancel
    \/ StoreVoucherData
    \/ CreateVoucherImage
    \/ SendVoucherWhatsapp
    \/ StoreTransactionResult
    \/ TransactionResultStored
    \/ RemoveJob

-----------------------------------------------------------------------------
(* Messages.                                                               *)

\* Twilio accepts the template or not; the service then looks for a waiting
\* transaction, which need not be there yet.
SendTemplate(k) ==
    LET waiting == {i \in DOMAIN transactions :
                      KeyOf(i) = k /\ transactions[i].status = "waiting"}
    IN  /\ templates[k] > 0
        /\ templates' = [templates EXCEPT ![k] = @ - 1]
        /\ \/ waiting = {} /\ UNCHANGED <<transactions, linked>>
           \/ \E i \in waiting :
                \/ linked' = linked \cup {i} /\ UNCHANGED transactions
                \/ UpdateTransactionStatus(i, "error") /\ UNCHANGED linked
        /\ UNCHANGED <<latestTransactions, registrations, storing, statusEvents,
                       queue, worker, cards, incoming, replies, repliers,
                       balance, counts>>

\* Vouchers of at most two payments before the last one the program made.
LastPayment ==
    CHOOSE p \in Payments \cup {0} :
        /\ p = 0 \/ \E i \in DOMAIN transactions : transactions[i].payment = p
        /\ \A i \in DOMAIN transactions : transactions[i].payment <= p

OpenVouchers(r) ==
    {c \in DOMAIN cards : /\ cards[c].voucher = "linked"
                          /\ ~cards[c].send
                          /\ cards[c].key[1] = r
                          /\ cards[c].key[2] >= LastPayment - 2}

\* A registrant writes.  The vouchers are read once and then queued one by
\* one, two seconds apart.
ReceiveWhatsapp(r) ==
    /\ incoming = {}
    /\ incomingCount < MaxIncoming
    /\ OpenVouchers(r) # {}
    /\ incoming' = OpenVouchers(r)
    /\ incomingCount' = incomingCount + 1
    /\ UNCHANGED <<storingVars, queue, worker, cards, templates, replies,
                   repliers, balance, jobCount, refreshes, crashes>>

QueueReply(c) ==
    /\ c \in incoming
    /\ incoming' = incoming \ {c}
    /\ replies' = replies \cup {[card |-> c, incoming |-> incomingCount]}
    /\ UNCHANGED <<storingVars, queue, worker, cards, templates, repliers,
                   balance, counts>>

unchangedByReplier == <<queue, worker, templates, incoming, balance, counts>>

\* The voucher is sent, or the failure of Twilio is noted as a message.
SendPendingVoucher(w) ==
    /\ repliers[w].pc = "idle"
    /\ \E reply \in replies, accepted \in BOOLEAN :
         /\ replies' = replies \ {reply}
         /\ repliers' = [repliers EXCEPT ![w] =
              [pc |-> "sent", card |-> reply.card, message |-> accepted]]
    /\ UNCHANGED <<storingVars, cards, unchangedByReplier>>

MarkSent(w) ==
    /\ repliers[w].pc = "sent"
    /\ cards' = [cards EXCEPT ![repliers[w].card].send = TRUE]
    /\ repliers' = [repliers EXCEPT ![w].pc = "user"]
    /\ UNCHANGED <<storingVars, replies, unchangedByReplier>>

\* The user is taken from an earlier transaction; without one the job fails.
StoreReplyResult(w) ==
    LET k == cards[repliers[w].card].key
        known == \E i \in DOMAIN transactions : KeyOf(i) = k
    IN  /\ repliers[w].pc = "user"
        /\ \/ /\ known
              /\ BeginStoring(w, k, "success", repliers[w].message)
              /\ repliers' = [repliers EXCEPT ![w].pc = "storing"]
           \/ /\ ~known
              /\ repliers' = [repliers EXCEPT ![w] = IdleReplier]
              /\ UNCHANGED storingVars
        /\ UNCHANGED <<cards, replies, unchangedByReplier>>

ReplyResultStored(w) ==
    /\ repliers[w].pc = "storing"
    /\ EndStoring(w)
    /\ repliers' = [repliers EXCEPT ![w] = IdleReplier]
    /\ UNCHANGED <<cards, replies, unchangedByReplier>>

ReplierStep(w) ==
    \/ SendPendingVoucher(w)
    \/ MarkSent(w)
    \/ StoreReplyResult(w)
    \/ ReplyResultStored(w)

\* processStatus: a failed message makes its transaction fail, whatever has
\* happened since.  A delivered one changes nothing, because no transaction
\* ever has the step 2 it asks for.
ProcessFailedStatus(i) ==
    /\ i \in linked
    /\ UpdateTransactionStatus(i, "error")
    /\ UNCHANGED <<latestTransactions, registrations, storing, linked,
                   statusEvents, queue, worker, voucherVars, counts>>

-----------------------------------------------------------------------------
(* Cron jobs.                                                              *)

unchangedByCron ==
    <<storingVars, queue, worker, templates, incoming, replies, repliers,
      jobCount, incomingCount, crashes>>

\* The ten minutes, and then the two weeks, between which a request is tried.
RequestAges(c) ==
    /\ cards[c].request = "toCancel"
    /\ \/ /\ cards[c].age = "fresh"
          /\ cards' = [cards EXCEPT ![c].age = "due"]
       \/ /\ cards[c].age = "due"
          /\ cards' = [cards EXCEPT ![c].age = "expired"]
    /\ UNCHANGED <<balance, refreshes, unchangedByCron>>

RequestIsDue(c) ==
    /\ c \in DOMAIN cards
    /\ cards[c].request = "toCancel"
    /\ cards[c].age = "due"

CancelAnsweredWith(c, row) ==
    /\ RequestIsDue(c)
    /\ cards' = [cards EXCEPT ![c] = row]
    /\ UNCHANGED <<balance, refreshes, unchangedByCron>>

\* Result code Ok: Intersolve has cancelled what it had issued.
CancelAnswered(c) ==
    CancelAnsweredWith(c, [cards[c] EXCEPT !.request = "cancelled",
                                           !.cancelled = cards[c].issued])

CancelStoppedAsCancelled_Wrong(c) ==
    CancelAnsweredWith(c, [cards[c] EXCEPT !.request = "cancelled"])

\* InvalidOrUnknownRetailer or UnableToCancel: the card is left as it is, and the
\* cron job stops all the same, with isCancelled = false.
CancelStopped(c) ==
    CancelAnsweredWith(c, [cards[c] EXCEPT !.request = "refused"])

\* Any other code: the row is updated, and so waits another ten minutes.
CancelRefused(c) == CancelAnsweredWith(c, [cards[c] EXCEPT !.age = "fresh"])

\* Intersolve cancels the card but the answer is lost: the row stays.
CancelUnanswered(c) ==
    /\ RequestIsDue(c)
    /\ LostAnswers
    /\ cards' = [cards EXCEPT ![c].cancelled = cards[c].issued]
    /\ UNCHANGED <<balance, refreshes, unchangedByCron>>

\* getAndStoreBalance saves the voucher as it was read before the request to
\* Intersolve, with send as it was then unless the balance has changed.  Only
\* a voucher that was printed or sent can have been used.
ReadUnusedVoucher(c) ==
    /\ balance = NoBalance
    /\ crashes + refreshes < MaxEvents
    /\ cards[c].voucher = "linked"
    /\ refreshes' = refreshes + 1
    /\ balance' = [card |-> c, send |-> cards[c].send]
    /\ UNCHANGED <<cards, unchangedByCron>>

StoreBalance ==
    /\ balance # NoBalance
    /\ \E used \in BOOLEAN :
         /\ used => ~Whatsapp \/ incomingCount > 0
         /\ cards' = [cards EXCEPT ![balance.card].send = balance.send \/ used]
    /\ balance' = NoBalance
    /\ UNCHANGED <<refreshes, unchangedByCron>>

CronStep ==
    \/ \E c \in DOMAIN cards :
         \/ RequestAges(c)
         \/ CancelAnswered(c)
         \/ CancelStopped(c)
         \/ CancelRefused(c)
         \/ CancelUnanswered(c)
         \/ ReadUnusedVoucher(c)
    \/ StoreBalance

-----------------------------------------------------------------------------
\* Bull does the jobs that were being done again, from their start.
Crash ==
    /\ crashes < MaxCrashes
    /\ crashes + refreshes < MaxEvents
    /\ crashes' = crashes + 1
    /\ queue' = queue \cup IF worker.pc = "idle" THEN {} ELSE {worker.key}
    /\ worker' = Idle(worker.key)
    /\ replies' = replies \cup
         {[card |-> repliers[w].card, incoming |-> incomingCount] :
            w \in {v \in Repliers : repliers[v].pc # "idle"}}
    /\ repliers' = [w \in Repliers |-> IdleReplier]
    /\ incoming' = {}
    /\ balance' = NoBalance
    /\ StopStoring
    /\ UNCHANGED <<storeVars, linked, statusEvents, cards, templates, jobCount,
                   incomingCount, refreshes>>

StoreStep(s) ==
    StoringStep(s) /\ UNCHANGED <<queue, worker, voucherVars, counts>>

Next ==
    \/ \E p \in Payments : PostPayment(p) \/ RetryPayment(p)
    \/ WorkerStep
    \/ \E s \in Storers : StoreStep(s)
    \/ \E k \in Key : SendTemplate(k)
    \/ \E r \in Registrations : ReceiveWhatsapp(r)
    \/ \E c \in DOMAIN cards : QueueReply(c)
    \/ \E w \in Repliers : ReplierStep(w)
    \/ \E i \in DOMAIN transactions : ProcessFailedStatus(i)
    \/ CronStep
    \/ Crash

Spec == Init /\ [][Next]_vars

-----------------------------------------------------------------------------
(* Properties.                                                             *)

\* However often a payment is retried, answered by the registrant meanwhile,
\* or done again after a crash, the registration gets one voucher for it.
OneVoucherPerPayment == \A k \in Key : Cardinality(Linked(k)) <= 1

\* The voucher a registrant can get is a card Intersolve issued, and the
\* cron job that cancels the cards of failed requests never touches it.
LinkedVoucherIsValid ==
    \A c \in DOMAIN cards : cards[c].voucher = "linked" =>
        /\ cards[c].issued
        /\ ~cards[c].cancelled
        /\ cards[c].request = "ok"

\* A payment shown as waiting or successful has a voucher.
ReportedPaymentHasVoucher ==
    \A k \in Key : StatusOf(k) \in {"waiting", "success"} => Linked(k) # {}

\* As long as nothing crashes, a card that is valid at Intersolve is with the
\* registrant or in the worker's hands, or its request row says that it is open:
\* still to be cancelled, or refused by a code that stops the cron job.  No row
\* calls it cancelled, or issued in good order.  More is not promised: the cron
\* job gives up an open request after such a code, and two weeks after the last
\* answer it got.
ValidCardIsKnown ==
    crashes = 0 => \A c \in DOMAIN cards :
        cards[c].issued /\ ~cards[c].cancelled =>
            \/ cards[c].voucher = "linked"
            \/ cards[c].request \in {"toCancel", "refused"}
            \/ worker.card = c

\* Until the registrant writes, a linked voucher has a transaction or a job,
\* so that the payment is reported or can be retried, also after a crash; but
\* for a paper voucher that was used before its job was done again.
UnsentVoucherIsReported ==
    incomingCount = 0 => \A k \in Key : Linked(k) # {} =>
        \/ StatusOf(k) # "none" \/ IsPaymentInProgress
        \/ ~Whatsapp /\ \E c \in Linked(k) : cards[c].send

=============================================================================
