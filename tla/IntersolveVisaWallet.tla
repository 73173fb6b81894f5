---------------------- MODULE IntersolveVisaWallet ----------------------
(***************************************************************************)
(* One registration that is paid on an Intersolve Visa card.  A payment    *)
(* provisions what is still missing (customer, parent wallet, child        *)
(* wallet, card), one API call and one database write at a time, and then  *)
(* transfers money.  Next to it run the refreshes of the stored wallets    *)
(* (cronjob and wallet page), the reissue of a card and its pausing.       *)
(*                                                                         *)
(* Intersolve is external: what it keeps is the record intersolve, and a   *)
(* call may fail before or, with LostReplies, after it took effect.  The   *)
(* holder, the card's status and the date of last use are left out.        *)
(*                                                                         *)
(* Operators named _Wrong contain a deliberate mistake and belong to no    *)
(* specification.                                                          *)
(***************************************************************************)
EXTENDS Integers, Sequences, FiniteSets, SequencesExt

CONSTANTS
    Payments,         \* the payments the registration is included in
    Amount,           \* what each of them pays
    Limit,            \* what may be on the card or be spent in a month
    Refreshes,        \* refreshes of the stored wallets
    Reissues,         \* requests to reissue the card
    Pauses,           \* requests to pause or unpause a card
    MaxTokens,        \* bound on the tokens Intersolve issues
    MaxFaults,        \* bound on the API calls that fail
    MaxCrashes,       \* bound on the crashes of the service
    LostReplies,      \* may a call fail after it took effect?
    StableNamespace,  \* is INTERSOLVE_VISA_UUID_NAMESPACE set?
    Reversals         \* may a reservation on the card expire?

ASSUME AmountAssumption == Amount \in Nat \ {0} /\ Limit \in Nat
ASSUME BoundsAssumption ==
    MaxTokens \in Nat /\ MaxFaults \in Nat /\ MaxCrashes \in Nat
ASSUME SwitchAssumption ==
    LostReplies \in BOOLEAN /\ StableNamespace \in BOOLEAN /\ Reversals \in BOOLEAN

VARIABLES
    intersolve,   \* what Intersolve keeps
    customer,     \* is a customer stored?
    parent,       \* the parent wallet that is stored
    children,     \* the child wallets that are stored, the newest last
    transaction,  \* the latest transaction of each payment
    worker,       \* where the queue's worker is in its job
    refresh,      \* where each refresh is
    reissue,      \* where each reissue is
    pause,        \* where each pausing is
    faults,       \* the API calls that failed
    crashes       \* the crashes

requests == <<refresh, reissue, pause>>
stored == <<customer, parent, children>>
vars == <<intersolve, stored, transaction, worker, requests, faults, crashes>>

Tokens == 1 .. MaxTokens
Token == Tokens \cup {0}

Parent == [token : Token, linked : BOOLEAN]
NoParent == [token |-> 0, linked |-> FALSE]

Child == [token : Token, linked : BOOLEAN, card : BOOLEAN, blocked : BOOLEAN,
          substituted : BOOLEAN]
NewChild(token) == [token |-> token, linked |-> FALSE, card |-> FALSE,
                    blocked |-> FALSE, substituted |-> FALSE]
NoChild == NewChild(0)

Transfer == [payment : Payments, namespace : 0 .. MaxCrashes,
             amount : 1 .. Amount, to : Token]

Intersolve ==
    [issued      : Token,              \* the last token issued
     registered  : SUBSET Tokens,      \* tokens that have a holder
     parentOf    : [Tokens -> Token],  \* the parent a token is linked to
     substituted : SUBSET Tokens,
     blocked     : SUBSET Tokens,
     cards       : [Tokens -> Nat],    \* physical cards made for a token
     transfers   : SUBSET Transfer,
     balance     : Nat,
     spent       : Nat]                \* this month

\* The points where a job, a refresh, a reissue and a pausing can be.
WorkerPoints ==
    {"idle", "calculate", "balance", "spent", "saveParent", "getChild",
     "saveChild", "customer", "saveCustomer", "parent", "saveNewParent",
     "register", "saveRegistered", "child", "saveNewChild", "link",
     "saveLinked", "card", "saveCard", "transfer", "store", "thrown"}
RefreshPoints == {"idle", "get", "save", "done"}
ReissuePoints == {"idle", "unblock", "issue", "substitute", "saveNew", "saveOld",
                  "card", "saveCard", "done"}
PausePoints == {"idle", "block", "save", "done"}

Worker == [pc : WorkerPoints, payment : Payments \cup {0}, amount : 0 .. Amount,
           balance : Nat, token : Token, parent : Parent, wallets : Nat,
           child : Child, at : Nat]
Refresh == [pc : RefreshPoints, parent : Parent, children : Seq(Child),
            todo : Seq(Nat)]
Reissue == [pc : ReissuePoints, old : Child, oldAt : Nat, new : Child, newAt : Nat]
Pause == [pc : PausePoints, child : Child, at : Nat]

IdleWorker == [pc |-> "idle", payment |-> 0, amount |-> 0, balance |-> 0,
               token |-> 0, parent |-> NoParent, wallets |-> 0,
               child |-> NoChild, at |-> 0]
IdleRefresh == [pc |-> "idle", parent |-> NoParent, children |-> << >>,
                todo |-> << >>]
IdleReissue == [pc |-> "idle", old |-> NoChild, oldAt |-> 0, new |-> NoChild,
                newAt |-> 0]
IdlePause == [pc |-> "idle", child |-> NoChild, at |-> 0]

Init ==
    /\ intersolve = [issued |-> 0, registered |-> {},
                     parentOf |-> [t \in Tokens |-> 0], substituted |-> {},
                     blocked |-> {}, cards |-> [t \in Tokens |-> 0],
                     transfers |-> {}, balance |-> 0, spent |-> 0]
    /\ customer = FALSE
    /\ parent = NoParent
    /\ children = << >>
    /\ transaction = [p \in Payments |-> [status |-> "none", amount |-> 0]]
    /\ worker = IdleWorker
    /\ refresh = [r \in Refreshes |-> IdleRefresh]
    /\ reissue = [r \in Reissues |-> IdleReissue]
    /\ pause = [r \in Pauses |-> IdlePause]
    /\ faults = 0
    /\ crashes = 0

-----------------------------------------------------------------------------
(* Calls of the API.                                                       *)

\* A call whose effect at Intersolve is a new value of its record.
Call(effect, onAnswer, onError) ==
    /\ effect.issued <= MaxTokens
    /\ \/ intersolve' = effect /\ onAnswer /\ UNCHANGED faults
       \/ /\ faults < MaxFaults
          /\ faults' = faults + 1
          /\ intersolve' \in {intersolve} \cup IF LostReplies THEN {effect} ELSE {}
          /\ onError

Query(onAnswer, onError) == Call(intersolve, onAnswer, onError)

Refused(onError) == UNCHANGED <<intersolve, faults>> /\ onError

NextToken == intersolve.issued + 1

TokenIssued == [intersolve EXCEPT !.issued = NextToken]
HolderRegistered(t) == [intersolve EXCEPT !.registered = @ \cup {t}]
TokenLinked(p, c) == [intersolve EXCEPT !.parentOf[c] = p]
CardMade(t) == [intersolve EXCEPT !.cards[t] = @ + 1]
BlockedSet(t, blocked) ==
    [intersolve EXCEPT !.blocked = IF blocked THEN @ \cup {t} ELSE @ \ {t}]
TokenSubstituted(old, new) ==
    [intersolve EXCEPT !.substituted = @ \cup {old},
                       !.parentOf[new] = intersolve.parentOf[old]]

Newest == Len(children)

\* save() writes the whole entity that was loaded.  A parent wallet was loaded
\* with a list of its child wallets: save() takes a stored wallet that is not in
\* the list for removed, and fails because a child wallet needs a parent.
AllListed(wallets) == Newest <= wallets

SaveParent(entity, wallets, onSaved, onFailed) ==
    \/ AllListed(wallets) /\ parent' = entity /\ onSaved
    \/ ~AllListed(wallets) /\ UNCHANGED parent /\ onFailed

\* The wallet entity with what getToken said.
AsReported(child) ==
    [child EXCEPT !.blocked = child.token \in intersolve.blocked,
                  !.substituted = child.token \in intersolve.substituted]

-----------------------------------------------------------------------------
(* The job of a payment: the worker.                                       *)

unchangedByWorker == <<requests, crashes>>
At(pc) == worker.pc = pc
Goto(pc) == worker' = [worker EXCEPT !.pc = pc]

\* An API error ends the job with a transaction: of the original amount while
\* the amount is being calculated, of the calculated one afterwards ...
StoreTransaction(status, amount) ==
    /\ transaction' = [transaction EXCEPT ![worker.payment] =
                           [status |-> status, amount |-> amount]]
    /\ worker' = IdleWorker

StoreCalculationError == StoreTransaction("error", Amount) /\ UNCHANGED stored

StoreError == StoreTransaction("error", worker.amount) /\ UNCHANGED stored

\* ... and any other error ends it without.
Throw == Goto("thrown") /\ UNCHANGED <<intersolve, faults, transaction>>

Smaller(a, b) == IF a < b THEN a ELSE b

CalculateIgnoringBalance_Wrong(balance, spent) ==
    IF Limit - spent > 0 THEN Smaller(Limit - spent, Amount) ELSE 0

CalculateUncapped_Wrong(balance, spent) ==
    IF Limit - spent - balance > 0 THEN Limit - spent - balance ELSE 0

CalculateLimitedTransferAmount(balance, spent) ==
    IF Limit - spent - balance > 0 THEN Smaller(Limit - spent - balance, Amount)
    ELSE 0

StartJob(p) ==
    /\ At("idle")
    /\ transaction[p].status # "success"
    /\ worker' = [IdleWorker EXCEPT !.pc = "calculate", !.payment = p,
                                    !.amount = Amount]
    /\ UNCHANGED <<intersolve, stored, transaction, faults, unchangedByWorker>>

\* A customer without a parent wallet is a TypeError; a parent wallet without
\* child wallets becomes one later, at place 0.
LoadForCalculation ==
    /\ At("calculate")
    /\ UNCHANGED <<intersolve, faults, transaction, stored, unchangedByWorker>>
    /\ \/ /\ ~customer
          /\ worker' = [worker EXCEPT !.pc = "customer",
                            !.amount = CalculateLimitedTransferAmount(0, 0)]
       \/ customer /\ parent = NoParent /\ Goto("thrown")
       \/ /\ customer /\ parent # NoParent
          /\ \E i \in IF children = << >> THEN {0} ELSE DOMAIN children :
               worker' = [worker EXCEPT !.pc = "balance", !.parent = parent,
                             !.wallets = Newest, !.at = i,
                             !.child = IF i = 0 THEN NoChild ELSE children[i]]

GetBalance ==
    /\ At("balance")
    /\ Query(/\ worker' = [worker EXCEPT !.pc = "spent",
                                         !.balance = intersolve.balance]
             /\ UNCHANGED <<transaction, stored>>,
             StoreCalculationError)
    /\ UNCHANGED unchangedByWorker

GetSpentThisMonth ==
    /\ At("spent")
    /\ Query(/\ worker' = [worker EXCEPT !.pc = "saveParent", !.amount =
                   CalculateLimitedTransferAmount(worker.balance, intersolve.spent)]
             /\ UNCHANGED <<transaction, stored>>,
             StoreCalculationError)
    /\ UNCHANGED unchangedByWorker

SaveRefreshedParent ==
    /\ At("saveParent")
    /\ SaveParent(worker.parent, worker.wallets,
                  Goto(IF worker.at = 0 THEN "thrown" ELSE "getChild"),
                  Goto("thrown"))
    /\ UNCHANGED <<intersolve, faults, transaction, customer, children,
                   unchangedByWorker>>

GetChild ==
    /\ At("getChild")
    /\ Query(/\ worker' = [worker EXCEPT !.pc = "saveChild",
                                         !.child = AsReported(@)]
             /\ UNCHANGED <<transaction, stored>>,
             StoreCalculationError)
    /\ UNCHANGED unchangedByWorker

SaveRefreshedChild ==
    /\ At("saveChild")
    /\ children' = [children EXCEPT ![worker.at] = worker.child]
    /\ Goto("customer")
    /\ UNCHANGED <<intersolve, faults, transaction, customer, parent,
                   unchangedByWorker>>

EndThrown ==
    /\ At("thrown")
    /\ worker' = IdleWorker
    /\ UNCHANGED <<intersolve, faults, transaction, stored, unchangedByWorker>>

-----------------------------------------------------------------------------
(* doTransferOrIssueCard: each step is skipped when it was done before.    *)

GetCustomerOrCreate ==
    /\ At("customer")
    /\ UNCHANGED unchangedByWorker
    /\ \/ /\ customer
          /\ worker' = [worker EXCEPT !.pc = "parent", !.parent = parent,
                 !.at = Newest,
                 !.child = IF children = << >> THEN NoChild ELSE children[Newest]]
          /\ UNCHANGED <<intersolve, faults, transaction, stored>>
       \/ /\ ~customer
          /\ Query(Goto("saveCustomer") /\ UNCHANGED <<transaction, stored>>,
                   StoreError)

SaveCustomer ==
    /\ At("saveCustomer")
    /\ customer' = TRUE
    /\ Goto("parent")
    /\ UNCHANGED <<intersolve, faults, transaction, parent, children,
                   unchangedByWorker>>

\* What a step of the provisioning does: it is skipped, or it calls the API.
Provision(pc, done, next, effect, onAnswer) ==
    /\ At(pc)
    /\ UNCHANGED unchangedByWorker
    /\ \/ done /\ Goto(next) /\ UNCHANGED <<intersolve, faults, transaction, stored>>
       \/ /\ ~done
          /\ Call(effect, onAnswer /\ UNCHANGED <<transaction, stored>>, StoreError)

WithToken(pc) == worker' = [worker EXCEPT !.pc = pc, !.token = NextToken]

GetParentWalletOrCreate ==
    Provision("parent", worker.parent # NoParent, "register",
              TokenIssued, WithToken("saveNewParent"))

SaveNewParentAs(linked) ==
    /\ At("saveNewParent")
    /\ parent' = [token |-> worker.token, linked |-> linked]
    /\ worker' = [worker EXCEPT !.pc = "register", !.parent = parent']
    /\ UNCHANGED <<intersolve, faults, transaction, customer, children,
                   unchangedByWorker>>

SaveNewParentLinked_Wrong == SaveNewParentAs(TRUE)

SaveNewParent == SaveNewParentAs(FALSE)

LinkParentWalletToCustomerIfUnlinked ==
    Provision("register", worker.parent.linked, "child",
              HolderRegistered(worker.parent.token), Goto("saveRegistered"))

\* update() writes the named columns only.
SaveRegistered ==
    /\ At("saveRegistered")
    /\ parent' = [parent EXCEPT !.linked = TRUE]
    /\ Goto("child")
    /\ UNCHANGED <<intersolve, faults, transaction, customer, children,
                   unchangedByWorker>>

GetChildWalletsOrCreateOne ==
    Provision("child", worker.child # NoChild, "link",
              TokenIssued, WithToken("saveNewChild"))

SaveNewChild ==
    /\ At("saveNewChild")
    /\ children' = Append(children, NewChild(worker.token))
    /\ worker' = [worker EXCEPT !.pc = "link", !.at = Newest + 1,
                                !.child = NewChild(worker.token)]
    /\ UNCHANGED <<intersolve, faults, transaction, customer, parent,
                   unchangedByWorker>>

LinkChildWalletToParentWalletIfUnlinked ==
    Provision("link", worker.child.linked, "card",
              TokenLinked(worker.parent.token, worker.child.token),
              Goto("saveLinked"))

SaveLinked ==
    /\ At("saveLinked")
    /\ children' = [children EXCEPT ![worker.at].linked = TRUE]
    /\ Goto("card")
    /\ UNCHANGED <<intersolve, faults, transaction, customer, parent,
                   unchangedByWorker>>

CreateDebitCardNever_Wrong ==
    Provision("card", TRUE, "transfer",
              CardMade(worker.child.token), Goto("saveCard"))

CreateDebitCardIfNotExists ==
    Provision("card", worker.child.card, "transfer",
              CardMade(worker.child.token), Goto("saveCard"))

SaveCard ==
    /\ At("saveCard")
    /\ children' = [children EXCEPT ![worker.at].card = TRUE]
    /\ Goto("transfer")
    /\ UNCHANGED <<intersolve, faults, transaction, customer, parent,
                   unchangedByWorker>>

\* The operationReference of a transfer is made from the registration, the
\* payment and a namespace that is drawn at each start unless it is set.
Namespace == IF StableNamespace THEN 0 ELSE crashes

OperationReferenceUsed ==
    \E t \in intersolve.transfers :
        t.payment = worker.payment /\ t.namespace = Namespace

MoneyTransferred ==
    [intersolve EXCEPT
        !.balance = @ + worker.amount,
        !.transfers = @ \cup {[payment |-> worker.payment, namespace |-> Namespace,
                               amount |-> worker.amount,
                               to |-> worker.parent.token]}]

TransferUnless(used, onDuplicate) ==
    /\ At("transfer")
    /\ UNCHANGED unchangedByWorker
    /\ \/ /\ worker.amount = 0
          /\ Goto("store")
          /\ UNCHANGED <<intersolve, faults, transaction, stored>>
       \/ worker.amount > 0 /\ used /\ Refused(onDuplicate)
       \/ /\ worker.amount > 0 /\ ~used
          /\ Call(MoneyTransferred,
                  Goto("store") /\ UNCHANGED <<transaction, stored>>,
                  StoreError)

DoTransferWithoutKey_Wrong == TransferUnless(FALSE, StoreError)

DoTransferDuplicateSucceeds_Wrong ==
    TransferUnless(OperationReferenceUsed,
                   Goto("store") /\ UNCHANGED <<transaction, stored>>)

DoTransfer == TransferUnless(OperationReferenceUsed, StoreError)

StoreSuccess ==
    /\ At("store")
    /\ StoreTransaction("success", worker.amount)
    /\ UNCHANGED <<intersolve, faults, stored, unchangedByWorker>>

CalculateTransferAmountWithWalletRetrieval ==
    \/ LoadForCalculation
    \/ GetBalance
    \/ GetSpentThisMonth
    \/ SaveRefreshedParent
    \/ GetChild
    \/ SaveRefreshedChild

DoTransferOrIssueCard ==
    \/ GetCustomerOrCreate
    \/ SaveCustomer
    \/ GetParentWalletOrCreate
    \/ SaveNewParent
    \/ LinkParentWalletToCustomerIfUnlinked
    \/ SaveRegistered
    \/ GetChildWalletsOrCreateOne
    \/ SaveNewChild
    \/ LinkChildWalletToParentWalletIfUnlinked
    \/ SaveLinked
    \/ CreateDebitCardIfNotExists
    \/ SaveCard
    \/ DoTransfer

WorkerStep ==
    \/ \E p \in Payments : StartJob(p)
    \/ CalculateTransferAmountWithWalletRetrieval
    \/ DoTransferOrIssueCard
    \/ StoreSuccess
    \/ EndThrown

-----------------------------------------------------------------------------
(* A refresh: of the wallet page or of the cronjob.  It works on entities  *)
(* that it loads at the start.                                             *)

unchangedByRefresh ==
    <<customer, transaction, worker, reissue, pause, crashes>>

RefreshTo(r, pc) == refresh' = [refresh EXCEPT ![r].pc = pc]

\* The places of the child wallets that are not substituted, in the order the
\* query returned them, which is any; 0 stands for the parent wallet: the page
\* starts with it, the cronjob ends with it.
Places == {i \in DOMAIN children : ~children[i].substituted}

LoadWallets(r) ==
    /\ refresh[r].pc = "idle"
    /\ customer
    /\ \/ parent = NoParent /\ RefreshTo(r, "done")
       \/ /\ parent # NoParent
          /\ \E order \in SetToSeqs(Places) :
             \E todo \in {<<0>> \o order, order \o <<0>>} :
               refresh' = [refresh EXCEPT ![r] =
                   [pc |-> "get", parent |-> parent, children |-> children,
                    todo |-> todo]]
    /\ UNCHANGED <<intersolve, parent, children, faults, unchangedByRefresh>>

Reported(wallets, at) ==
    IF at = 0 THEN wallets ELSE [wallets EXCEPT ![at] = AsReported(@)]

GetWallet(r) ==
    LET at == Head(refresh[r].todo)
    IN  /\ refresh[r].pc = "get"
        /\ Query(refresh' = [refresh EXCEPT
                     ![r].pc = "save",
                     ![r].children = Reported(refresh[r].children, at)],
                 RefreshTo(r, "done"))
        /\ UNCHANGED <<parent, children, unchangedByRefresh>>

WalletSaved(r) ==
    refresh' = [refresh EXCEPT
        ![r].todo = Tail(@),
        ![r].pc = IF Len(refresh[r].todo) = 1 THEN "done" ELSE "get"]

SaveWallet(r) ==
    LET at == Head(refresh[r].todo)
    IN  /\ refresh[r].pc = "save"
        /\ \/ /\ at = 0
              /\ SaveParent(refresh[r].parent, Len(refresh[r].children),
                            WalletSaved(r), RefreshTo(r, "done"))
              /\ UNCHANGED children
           \/ /\ at > 0
              /\ children' = [children EXCEPT ![at] = refresh[r].children[at]]
              /\ UNCHANGED parent
              /\ WalletSaved(r)
        /\ UNCHANGED <<intersolve, faults, unchangedByRefresh>>

RefreshStep(r) == LoadWallets(r) \/ GetWallet(r) \/ SaveWallet(r)

-----------------------------------------------------------------------------
(* A request to reissue the card.  Any failure ends it.                    *)

unchangedByReissue ==
    <<customer, parent, transaction, worker, refresh, pause, crashes>>

ReissueTo(r, pc) == reissue' = [reissue EXCEPT ![r].pc = pc]

ReissueCall(r, effect, onAnswer) ==
    /\ Call(effect, onAnswer, ReissueTo(r, "done"))
    /\ UNCHANGED <<children, unchangedByReissue>>

StartReissue(r) ==
    /\ reissue[r].pc = "idle"
    /\ children # << >>
    /\ reissue' = [reissue EXCEPT
           ![r].pc = IF children[Newest].blocked THEN "unblock" ELSE "issue",
           ![r].old = children[Newest],
           ![r].oldAt = Newest]
    /\ UNCHANGED <<intersolve, children, faults, unchangedByReissue>>

Unblock(r) ==
    /\ reissue[r].pc = "unblock"
    /\ ReissueCall(r, BlockedSet(reissue[r].old.token, FALSE), ReissueTo(r, "issue"))

IssueNewToken(r) ==
    /\ reissue[r].pc = "issue"
    /\ ReissueCall(r, TokenIssued,
           reissue' = [reissue EXCEPT
               ![r].pc = "substitute",
               ![r].new = [NewChild(NextToken) EXCEPT !.linked = TRUE]])

\* Intersolve substitutes a token once, and not while it is blocked.
CanBeSubstituted(t) == t \notin intersolve.substituted \cup intersolve.blocked

Substitute(r, old, new) ==
    /\ reissue[r].pc = "substitute"
    /\ \/ /\ CanBeSubstituted(old)
          /\ ReissueCall(r, TokenSubstituted(old, new), ReissueTo(r, "saveNew"))
       \/ /\ ~CanBeSubstituted(old)
          /\ Refused(ReissueTo(r, "done"))
          /\ UNCHANGED <<children, unchangedByReissue>>

SubstituteSwapped_Wrong(r) ==
    Substitute(r, reissue[r].new.token, reissue[r].old.token)

SubstituteToken(r) == Substitute(r, reissue[r].old.token, reissue[r].new.token)

SaveSubstitute(r) ==
    /\ reissue[r].pc = "saveNew"
    /\ children' = Append(children, reissue[r].new)
    /\ reissue' = [reissue EXCEPT ![r].pc = "saveOld", ![r].newAt = Newest + 1]
    /\ UNCHANGED <<intersolve, faults, unchangedByReissue>>

SaveSubstituted(r) ==
    /\ reissue[r].pc = "saveOld"
    /\ children' = [children EXCEPT ![reissue[r].oldAt] =
                        [reissue[r].old EXCEPT !.substituted = TRUE]]
    /\ ReissueTo(r, "card")
    /\ UNCHANGED <<intersolve, faults, unchangedByReissue>>

CreateNewCard(r) ==
    /\ reissue[r].pc = "card"
    /\ ReissueCall(r, CardMade(reissue[r].new.token), ReissueTo(r, "saveCard"))

SaveNewCard(r) ==
    /\ reissue[r].pc = "saveCard"
    /\ children' = [children EXCEPT ![reissue[r].newAt] =
                        [reissue[r].new EXCEPT !.card = TRUE]]
    /\ ReissueTo(r, "done")
    /\ UNCHANGED <<intersolve, faults, unchangedByReissue>>

ReissueCard(r) ==
    \/ StartReissue(r)
    \/ Unblock(r)
    \/ IssueNewToken(r)
    \/ SubstituteToken(r)
    \/ SaveSubstitute(r)
    \/ SaveSubstituted(r)
    \/ CreateNewCard(r)
    \/ SaveNewCard(r)

-----------------------------------------------------------------------------
(* A request to pause or unpause a card that is not so already.            *)

unchangedByPause ==
    <<customer, parent, transaction, worker, refresh, reissue, crashes>>

StartPause(r) ==
    /\ pause[r].pc = "idle"
    /\ \E i \in DOMAIN children :
         pause' = [pause EXCEPT ![r] =
                       [pc |-> "block", child |-> children[i], at |-> i]]
    /\ UNCHANGED <<intersolve, children, faults, unchangedByPause>>

PauseTo(r, pc) == pause' = [pause EXCEPT ![r].pc = pc]

SetTokenBlockedOr(r, onError) ==
    /\ pause[r].pc = "block"
    /\ Call(BlockedSet(pause[r].child.token, ~pause[r].child.blocked),
            PauseTo(r, "save"), onError)
    /\ UNCHANGED <<children, unchangedByPause>>

SetTokenBlockedAnyway_Wrong(r) == SetTokenBlockedOr(r, PauseTo(r, "save"))

SetTokenBlocked(r) == SetTokenBlockedOr(r, PauseTo(r, "done"))

SavePaused(r) ==
    /\ pause[r].pc = "save"
    /\ children' = [children EXCEPT ![pause[r].at] =
                        [pause[r].child EXCEPT !.blocked = ~@]]
    /\ PauseTo(r, "done")
    /\ UNCHANGED <<intersolve, faults, unchangedByPause>>

PauseCardOrThrow(r) == StartPause(r) \/ SetTokenBlocked(r) \/ SavePaused(r)

-----------------------------------------------------------------------------
(* The holder of the card, the months and crashes.                         *)

unchangedByHolder == <<stored, transaction, worker, requests, faults, crashes>>

Spend ==
    /\ intersolve.balance > 0
    /\ intersolve' = [intersolve EXCEPT !.balance = @ - 1, !.spent = @ + 1]
    /\ UNCHANGED unchangedByHolder

\* A reservation of this month expires: it is no longer spent.
ExpireReservation ==
    /\ Reversals
    /\ intersolve.spent > 0
    /\ intersolve' = [intersolve EXCEPT !.balance = @ + 1, !.spent = @ - 1]
    /\ UNCHANGED unchangedByHolder

NewMonth ==
    /\ intersolve.spent > 0
    /\ intersolve' = [intersolve EXCEPT !.spent = 0]
    /\ UNCHANGED unchangedByHolder

Working(pc) == pc \notin {"idle", "done", "thrown"}

\* Bull runs the job in hand again; requests are gone.
Crash ==
    /\ crashes < MaxCrashes
    /\ crashes' = crashes + 1
    /\ worker' = IF At("idle") \/ At("thrown") THEN IdleWorker
                 ELSE [IdleWorker EXCEPT !.pc = "calculate",
                           !.payment = worker.payment, !.amount = Amount]
    /\ refresh' = [r \in Refreshes |->
           [refresh[r] EXCEPT !.pc = IF Working(@) THEN "done" ELSE @]]
    /\ reissue' = [r \in Reissues |->
           [reissue[r] EXCEPT !.pc = IF Working(@) THEN "done" ELSE @]]
    /\ pause' = [r \in Pauses |->
           [pause[r] EXCEPT !.pc = IF Working(@) THEN "done" ELSE @]]
    /\ UNCHANGED <<intersolve, stored, transaction, faults>>

HolderStep == Spend \/ ExpireReservation \/ NewMonth

Next ==
    \/ WorkerStep
    \/ \E r \in Refreshes : RefreshStep(r)
    \/ \E r \in Reissues : ReissueCard(r)
    \/ \E r \in Pauses : PauseCardOrThrow(r)
    \/ HolderStep
    \/ Crash

Spec == Init /\ [][Next]_vars

-----------------------------------------------------------------------------
(* Properties.                                                             *)

TypeOK ==
    /\ intersolve \in Intersolve
    /\ customer \in BOOLEAN
    /\ parent \in Parent
    /\ children \in Seq(Child)
    /\ transaction \in [Payments -> [status : {"none", "success", "error"},
                                     amount : 0 .. Amount]]
    /\ worker \in Worker
    /\ refresh \in [Refreshes -> Refresh]
    /\ reissue \in [Reissues -> Reissue]
    /\ pause \in [Pauses -> Pause]
    /\ faults \in 0 .. MaxFaults
    /\ crashes \in 0 .. MaxCrashes

\* What a stored wallet claims, Intersolve has done.
TrueOfParent(p) == p.linked => p.token \in intersolve.registered
TrueOfChild(c) ==
    /\ c.linked => intersolve.parentOf[c.token] = parent.token
    /\ c.card => intersolve.cards[c.token] > 0
    /\ c.substituted => c.token \in intersolve.substituted

\* Whatever fails, is lost, crashes or writes an entity it loaded long ago:
\* no step of the provisioning is marked as done that is not.  A later payment
\* skips exactly the marked ones.
MarkedStepsAreDone ==
    /\ parent # NoParent => customer /\ parent.token # 0
    /\ children # << >> => parent # NoParent
    /\ TrueOfParent(parent)
    /\ \A i \in DOMAIN children : TrueOfChild(children[i])

\* A payment is transferred once, however often its job is run again and the
\* payment is retried.
TransferredOnce ==
    \A s, t \in intersolve.transfers : s.payment = t.payment => s = t

\* What is on the card and what was spent this month stay within the limit.
WithinLimit == intersolve.balance + intersolve.spent <= Limit

\* Money only goes to the stored parent wallet, when it has a holder and a card
\* is linked to it.
ReachesCard(t) ==
    /\ t.to = parent.token
    /\ t.to \in intersolve.registered
    /\ \E c \in Tokens : intersolve.parentOf[c] = t.to /\ intersolve.cards[c] > 0

TransfersReachACard ==
    [][\A t \in intersolve'.transfers \ intersolve.transfers : ReachesCard(t)]_vars

\* A payment that is reported with an amount has transferred that amount.
TransferredFor(p) == {t \in intersolve.transfers : t.payment = p}

ReportedMoneyWasTransferred ==
    \A p \in Payments :
        transaction[p].status = "success" /\ transaction[p].amount > 0
            => \E t \in TransferredFor(p) : t.amount = transaction[p].amount

NobodyWorking ==
    /\ ~Working(worker.pc)
    /\ \A r \in Reissues : ~Working(reissue[r].pc)
    /\ \A r \in Refreshes : ~Working(refresh[r].pc)
    /\ \A r \in Pauses : ~Working(pause[r].pc)

\* Once all is done, the newest stored child wallet is the one in use.
NewestIsCurrent ==
    NobodyWorking /\ children # << >> =>
        children[Newest].token \notin intersolve.substituted

\* A card that is stored as paused is blocked, unless somebody has asked to
\* unpause or to reissue it since he saw it paused: no payment, no refresh that
\* writes a wallet it read before, no failing or lost call and no crash makes a
\* paused card usable.  A reissue does, if it fails before the old token is
\* substituted.
UnblockingAsked(t) ==
    \/ \E r \in Reissues : /\ reissue[r].pc \notin {"idle", "unblock"}
                            /\ reissue[r].old.token = t /\ reissue[r].old.blocked
    \/ \E r \in Pauses : /\ pause[r].pc \notin {"idle", "block"}
                          /\ pause[r].child.token = t /\ pause[r].child.blocked

PausedIsBlocked ==
    \A i \in DOMAIN children : children[i].blocked =>
        \/ children[i].token \in intersolve.blocked
        \/ UnblockingAsked(children[i].token)
=============================================================================
