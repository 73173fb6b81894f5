---------------------- MODULE IntersolveVisaProofs ----------------------
(***************************************************************************)
(* The wallet of a registration, for every number of payments, refreshes,  *)
(* reissues, pauses, crashes and failing calls.  First the money: a        *)
(* payment is transferred to the card once and the card stays within its   *)
(* limit.  Then the invariant of the wallets, WalletInv, and what follows  *)
(* from it: no step of the provisioning is marked that is not done, money  *)
(* reaches a card, what is reported was transferred.  Last the reissues    *)
(* and the pausings: the newest wallet is the one in use once all is done, *)
(* and what is stored as paused is blocked.                                *)
(***************************************************************************)
EXTENDS IntersolveVisaWallet, TLAPS, FiniteSetTheorems, SequenceTheorems

\* What Intersolve keeps has the transfers, the balance and what was spent
\* among its fields.
HasMoney(s) == {"transfers", "balance", "spent"} \subseteq DOMAIN s

\* Two of its states with the same money.
SameMoney(s, t) ==
    /\ HasMoney(s) /\ HasMoney(t)
    /\ s.transfers = t.transfers
    /\ s.balance = t.balance
    /\ s.spent = t.spent

\* While the namespace is the same at each start, every transfer has it.
NamespaceInv ==
    /\ HasMoney(intersolve)
    /\ \A t \in intersolve.transfers : t.namespace = 0
    /\ TransferredOnce

-----------------------------------------------------------------------------
(* Calls: all effects but the transfer's leave the money alone.            *)

\* Issuing, linking, making a card, blocking and substituting a token and
\* registering its holder move no money.
LEMMA EffectsMoveNothing ==
    ASSUME HasMoney(intersolve)
    PROVE  /\ SameMoney(intersolve, intersolve)
           /\ SameMoney(intersolve, TokenIssued)
           /\ \A t : SameMoney(intersolve, HolderRegistered(t))
           /\ \A p, c : SameMoney(intersolve, TokenLinked(p, c))
           /\ \A t : SameMoney(intersolve, CardMade(t))
           /\ \A t, b : SameMoney(intersolve, BlockedSet(t, b))
           /\ \A o, n : SameMoney(intersolve, TokenSubstituted(o, n))
  BY DEF HasMoney, SameMoney, TokenIssued, HolderRegistered,
         TokenLinked, CardMade, BlockedSet, TokenSubstituted

\* A step of the provisioning other than the transfer moves no money.
LEMMA ProvisioningMovesNothing ==
    ASSUME HasMoney(intersolve),
           \/ GetCustomerOrCreate
           \/ SaveCustomer
           \/ GetParentWalletOrCreate
           \/ SaveNewParent
           \/ LinkParentWalletToCustomerIfUnlinked
           \/ SaveRegistered
           \/ GetChildWalletsOrCreateOne
           \/ SaveNewChild
           \/ LinkChildWalletToParentWalletIfUnlinked
           \/ SaveLinked
           \/ CreateDebitCardIfNotExists
           \/ SaveCard
    PROVE  SameMoney(intersolve, intersolve')
<1> USE EffectsMoveNothing
<1>1. CASE GetCustomerOrCreate
  BY <1>1 DEF GetCustomerOrCreate, Query, Call
<1>2. CASE GetParentWalletOrCreate
  BY <1>2 DEF GetParentWalletOrCreate, Provision, Call
<1>3. CASE LinkParentWalletToCustomerIfUnlinked
  BY <1>3 DEF LinkParentWalletToCustomerIfUnlinked, Provision, Call
<1>4. CASE GetChildWalletsOrCreateOne
  BY <1>4 DEF GetChildWalletsOrCreateOne, Provision, Call
<1>5. CASE LinkChildWalletToParentWalletIfUnlinked
  BY <1>5 DEF LinkChildWalletToParentWalletIfUnlinked, Provision, Call
<1>6. CASE CreateDebitCardIfNotExists
  BY <1>6 DEF CreateDebitCardIfNotExists, Provision, Call
<1>7. CASE SaveCustomer \/ SaveNewParent \/ SaveRegistered \/ SaveNewChild
           \/ SaveLinked \/ SaveCard
  BY <1>7 DEF SaveCustomer, SaveNewParent, SaveNewParentAs, SaveRegistered,
              SaveNewChild, SaveLinked, SaveCard
<1>8. QED
  BY <1>1, <1>2, <1>3, <1>4, <1>5, <1>6, <1>7

\* The calculation of the amount moves no money.
LEMMA CalculationMovesNothing ==
    ASSUME HasMoney(intersolve), CalculateTransferAmountWithWalletRetrieval
    PROVE  SameMoney(intersolve, intersolve')
<1> USE EffectsMoveNothing
<1>1. CASE LoadForCalculation
  BY <1>1 DEF LoadForCalculation
<1>2. CASE GetBalance
  BY <1>2 DEF GetBalance, Query, Call
<1>3. CASE GetSpentThisMonth
  BY <1>3 DEF GetSpentThisMonth, Query, Call
<1>4. CASE SaveRefreshedParent
  BY <1>4 DEF SaveRefreshedParent
<1>5. CASE GetChild
  BY <1>5 DEF GetChild, Query, Call
<1>6. CASE SaveRefreshedChild
  BY <1>6 DEF SaveRefreshedChild
<1>7. QED
  BY <1>1, <1>2, <1>3, <1>4, <1>5, <1>6
     DEF CalculateTransferAmountWithWalletRetrieval

\* A refresh, a reissue and a pausing move no money.
LEMMA RequestsMoveNothing ==
    ASSUME HasMoney(intersolve),
           \/ \E r \in Refreshes : RefreshStep(r)
           \/ \E r \in Reissues : ReissueCard(r)
           \/ \E r \in Pauses : PauseCardOrThrow(r)
    PROVE  SameMoney(intersolve, intersolve')
<1> USE EffectsMoveNothing
<1>1. ASSUME NEW r \in Refreshes, RefreshStep(r)
      PROVE  SameMoney(intersolve, intersolve')
  <2>1. CASE LoadWallets(r)
    BY <2>1 DEF LoadWallets
  <2>2. CASE GetWallet(r)
    BY <2>2 DEF GetWallet, Query, Call
  <2>3. CASE SaveWallet(r)
    BY <2>3 DEF SaveWallet
  <2>4. QED
    BY <1>1, <2>1, <2>2, <2>3 DEF RefreshStep
<1>2. ASSUME NEW r \in Reissues, ReissueCard(r)
      PROVE  SameMoney(intersolve, intersolve')
  <2>1. CASE StartReissue(r) \/ SaveSubstitute(r) \/ SaveSubstituted(r)
             \/ SaveNewCard(r)
    BY <2>1 DEF StartReissue, SaveSubstitute, SaveSubstituted, SaveNewCard
  <2>2. CASE Unblock(r)
    BY <2>2 DEF Unblock, ReissueCall, Call
  <2>3. CASE IssueNewToken(r)
    BY <2>3 DEF IssueNewToken, ReissueCall, Call
  <2>4. CASE SubstituteToken(r)
    BY <2>4 DEF SubstituteToken, Substitute, Refused, ReissueCall, Call
  <2>5. CASE CreateNewCard(r)
    BY <2>5 DEF CreateNewCard, ReissueCall, Call
  <2>6. QED
    BY <1>2, <2>1, <2>2, <2>3, <2>4, <2>5 DEF ReissueCard
<1>3. ASSUME NEW r \in Pauses, PauseCardOrThrow(r)
      PROVE  SameMoney(intersolve, intersolve')
  <2>1. CASE StartPause(r) \/ SavePaused(r)
    BY <2>1 DEF StartPause, SavePaused
  <2>2. CASE SetTokenBlocked(r)
    BY <2>2 DEF SetTokenBlocked, SetTokenBlockedOr, Call
  <2>3. QED
    BY <1>3, <2>1, <2>2 DEF PauseCardOrThrow
<1>4. QED
  BY <1>1, <1>2, <1>3

-----------------------------------------------------------------------------
(* The transfer.                                                           *)

\* A step that leaves the money alone keeps the invariant.
LEMMA SameTransfersSuffice ==
    ASSUME NamespaceInv, HasMoney(intersolve'),
           intersolve'.transfers = intersolve.transfers
    PROVE  NamespaceInv'
  BY DEF NamespaceInv, TransferredOnce

\* A transfer is added only when its operationReference is new, which with a
\* stable namespace says that its payment is.
LEMMA TransferKeepsInv ==
    ASSUME StableNamespace, NamespaceInv, DoTransfer
    PROVE  NamespaceInv'
<1> DEFINE new == [payment |-> worker.payment, namespace |-> Namespace,
                   amount |-> worker.amount, to |-> worker.parent.token]
<1>1. HasMoney(intersolve)
  BY DEF NamespaceInv
<1>2. Namespace = 0
  BY DEF Namespace
<1>3. /\ HasMoney(MoneyTransferred)
      /\ MoneyTransferred.transfers = intersolve.transfers \cup {new}
  BY <1>1 DEF HasMoney, MoneyTransferred
<1>4. \/ intersolve' = intersolve
      \/ intersolve' = MoneyTransferred /\ ~OperationReferenceUsed
  BY DEF DoTransfer, TransferUnless, Refused, Call
<1>5. CASE intersolve' = intersolve
  BY <1>1, <1>5, SameTransfersSuffice
<1>6. CASE intersolve' = MoneyTransferred /\ ~OperationReferenceUsed
  <2>1. \A t \in intersolve.transfers : t.payment # worker.payment
    BY <1>2, <1>6 DEF NamespaceInv, OperationReferenceUsed
  <2>2. new.payment = worker.payment /\ new.namespace = 0
    BY <1>2
  <2>3. intersolve'.transfers = intersolve.transfers \cup {new}
    BY <1>3, <1>6
  <2>4. \A t \in intersolve'.transfers : t.namespace = 0
    BY <2>2, <2>3 DEF NamespaceInv
  <2>5. TransferredOnce'
    BY <2>1, <2>2, <2>3 DEF NamespaceInv, TransferredOnce
  <2>6. QED
    BY <1>3, <1>6, <2>4, <2>5 DEF NamespaceInv
<1>7. QED
  BY <1>4, <1>5, <1>6

\* Every other step leaves the transfers alone.
LEMMA StepKeepsInv ==
    ASSUME StableNamespace, NamespaceInv, [Next]_vars
    PROVE  NamespaceInv'
<1>1. HasMoney(intersolve)
  BY DEF NamespaceInv
<1>2. SameMoney(intersolve, intersolve)
  BY <1>1, EffectsMoveNothing
<1>3. CASE DoTransfer
  BY <1>3, TransferKeepsInv
<1>4. CASE DoTransferOrIssueCard /\ ~DoTransfer
  BY <1>1, <1>4, ProvisioningMovesNothing, SameTransfersSuffice
     DEF DoTransferOrIssueCard, SameMoney
<1>5. CASE CalculateTransferAmountWithWalletRetrieval
  BY <1>1, <1>5, CalculationMovesNothing, SameTransfersSuffice
     DEF SameMoney
<1>6. CASE (\E p \in Payments : StartJob(p)) \/ StoreSuccess \/ EndThrown
  BY <1>2, <1>6, SameTransfersSuffice DEF StartJob, StoreSuccess, EndThrown, SameMoney
<1>7. CASE \/ \E r \in Refreshes : RefreshStep(r)
           \/ \E r \in Reissues : ReissueCard(r)
           \/ \E r \in Pauses : PauseCardOrThrow(r)
  BY <1>1, <1>7, RequestsMoveNothing, SameTransfersSuffice DEF SameMoney
<1>8. CASE HolderStep
  <2>1. HasMoney(intersolve') /\ intersolve'.transfers = intersolve.transfers
    BY <1>1, <1>8 DEF HolderStep, Spend, ExpireReservation, NewMonth, HasMoney
  <2>2. QED
    BY <2>1, SameTransfersSuffice
<1>9. CASE Crash \/ UNCHANGED vars
  BY <1>2, <1>9, SameTransfersSuffice DEF Crash, vars, SameMoney
<1>10. QED
  BY <1>3, <1>4, <1>5, <1>6, <1>7, <1>8, <1>9 DEF Next, WorkerStep

-----------------------------------------------------------------------------
\* When INTERSOLVE_VISA_UUID_NAMESPACE is set, a payment is transferred once,
\* whatever fails, is lost, crashes or runs beside it: the operationReference is
\* made from the registration and the payment, and Intersolve refuses it the
\* second time.
THEOREM OneTransfer == StableNamespace => (Spec => []TransferredOnce)
<1> SUFFICES ASSUME StableNamespace
             PROVE  Spec => []TransferredOnce
  OBVIOUS
<1>1. Init => NamespaceInv
  BY DEF Init, NamespaceInv, HasMoney, TransferredOnce
<1>2. NamespaceInv /\ [Next]_vars => NamespaceInv'
  BY StepKeepsInv
<1>3. NamespaceInv => TransferredOnce
  BY DEF NamespaceInv
<1>4. QED
  BY <1>1, <1>2, <1>3, PTL DEF Spec

-----------------------------------------------------------------------------
(* The limit.                                                              *)

\* Where the worker may still transfer the amount that it has calculated ...
Behind == {"parent", "saveNewParent", "register", "saveRegistered", "child",
           "saveNewChild", "link", "saveLinked", "card", "saveCard", "transfer"}
Pending == {"saveParent", "getChild", "saveChild", "customer", "saveCustomer"}
               \cup Behind

\* ... the amount fits on the card.
Fits(amount) ==
    amount = 0 \/ amount + intersolve.balance + intersolve.spent <= Limit

Sane(w) ==
    /\ {"pc", "amount", "balance"} \subseteq DOMAIN w
    /\ w.amount \in Nat
    /\ w.balance \in Nat

LimitInv ==
    /\ HasMoney(intersolve)
    /\ intersolve.balance \in Nat
    /\ intersolve.spent \in Nat
    /\ WithinLimit
    /\ Sane(worker)
    /\ customer \/ intersolve.balance + intersolve.spent = 0
    /\ At("spent") => intersolve.balance <= worker.balance
    /\ worker.pc \in Pending => Fits(worker.amount)
    /\ worker.pc \in Behind => customer

\* The amount fits when it is calculated from what was spent and from a balance
\* that is not less than the one on the card.
LEMMA CalculatedAmountFits ==
    ASSUME NEW balance \in Nat, NEW spent \in Nat
    PROVE  /\ CalculateLimitedTransferAmount(balance, spent) \in Nat
           /\ \/ CalculateLimitedTransferAmount(balance, spent) = 0
              \/ CalculateLimitedTransferAmount(balance, spent) + balance + spent
                     <= Limit
  BY AmountAssumption DEF CalculateLimitedTransferAmount, Smaller

\* A step of the worker that leaves the money alone keeps the invariant when
\* the worker ends where it may be.
LEMMA QuietStepKeepsInv ==
    ASSUME LimitInv, SameMoney(intersolve, intersolve'), Sane(worker'),
           customer => customer',
           worker'.pc = "spent" => intersolve.balance <= worker'.balance,
           worker'.pc \in Pending => Fits(worker'.amount),
           worker'.pc \in Behind => customer'
    PROVE  LimitInv'
  BY DEF LimitInv, SameMoney, At, Fits, WithinLimit

\* The end of a job.
LEMMA IdleIsSane ==
    /\ Sane(IdleWorker)
    /\ IdleWorker.pc = "idle"
    /\ IdleWorker.pc \notin Pending
    /\ IdleWorker.pc # "spent"
  BY DEF Sane, IdleWorker, Pending, Behind

\* A step that goes on to pc with the amount calculated before.
LEMMA GotoIsSane ==
    ASSUME NEW pc, Sane(worker), Goto(pc)
    PROVE  /\ Sane(worker')
           /\ worker'.pc = pc
           /\ worker'.amount = worker.amount
           /\ worker'.balance = worker.balance
  BY DEF Goto, Sane

\* A step between two points where an amount is pending keeps the invariant.
LEMMA OnwardKeepsInv ==
    ASSUME LimitInv, SameMoney(intersolve, intersolve'), Sane(worker'),
           customer => customer',
           worker'.pc # "spent",
           \/ worker' = IdleWorker
           \/ /\ worker.pc \in Pending
              /\ worker'.amount = worker.amount
              /\ worker'.pc \in Behind => customer'
    PROVE  LimitInv'
<1>1. CASE worker' = IdleWorker
  BY <1>1, IdleIsSane, QuietStepKeepsInv DEF Pending
<1>2. CASE /\ worker.pc \in Pending
           /\ worker'.amount = worker.amount
           /\ worker'.pc \in Behind => customer'
  <2>1. Fits(worker'.amount)
    BY <1>2 DEF LimitInv
  <2>2. QED
    BY <1>2, <2>1, QuietStepKeepsInv
<1>3. QED
  BY <1>1, <1>2

\* An action that is a step of Provision goes on behind the customer.
LEMMA ProvisionKeepsLimit ==
    ASSUME NEW pc \in Behind, NEW done, NEW next \in Behind, NEW saved \in Behind,
           LimitInv, At(pc), SameMoney(intersolve, intersolve'),
           UNCHANGED stored,
           Goto(next) \/ Goto(saved) \/ WithToken(saved) \/ worker' = IdleWorker
    PROVE  LimitInv'
<1>1. /\ Sane(worker) /\ customer /\ customer'
      /\ worker.pc \in Pending
  BY DEF LimitInv, At, Pending, stored
<1>2. "spent" \notin Behind
  BY DEF Behind
<1>3. CASE worker' = IdleWorker
  BY <1>1, <1>3, IdleIsSane, OnwardKeepsInv
<1>4. CASE Goto(next) \/ Goto(saved)
  BY <1>1, <1>2, <1>4, GotoIsSane, OnwardKeepsInv
<1>5. CASE WithToken(saved)
  <2>1. /\ Sane(worker')
        /\ worker'.pc = saved
        /\ worker'.amount = worker.amount
    BY <1>1, <1>5 DEF WithToken, Sane
  <2>2. QED
    BY <1>1, <1>2, <2>1, OnwardKeepsInv
<1>6. QED
  BY <1>3, <1>4, <1>5

\* The provisioning keeps the invariant.
LEMMA ProvisioningKeepsLimit ==
    ASSUME LimitInv, DoTransferOrIssueCard, ~DoTransfer
    PROVE  LimitInv'
<1>1. SameMoney(intersolve, intersolve')
  BY ProvisioningMovesNothing DEF LimitInv, DoTransferOrIssueCard
<1>2. Sane(worker)
  BY DEF LimitInv
<1>3. CASE GetCustomerOrCreate
  <2>1. worker.pc \in Pending /\ (customer => customer')
    BY <1>3 DEF GetCustomerOrCreate, At, Pending, Query, Call, StoreError, stored
  <2>2. CASE customer /\ worker'.pc = "parent"
    <3>1. Sane(worker') /\ worker'.amount = worker.amount
      BY <1>2, <1>3, <2>2, IdleIsSane
         DEF GetCustomerOrCreate, Sane, Query, Call, Goto, StoreError,
             StoreTransaction
    <3>2. QED
      BY <1>1, <2>1, <2>2, <3>1, OnwardKeepsInv
  <2>3. CASE Goto("saveCustomer") \/ worker' = IdleWorker
    BY <1>1, <1>2, <2>1, <2>3, GotoIsSane, IdleIsSane, OnwardKeepsInv DEF Behind
  <2>4. QED
    BY <1>2, <1>3, <2>2, <2>3
       DEF GetCustomerOrCreate, Query, Call, StoreError, StoreTransaction, Sane
<1>4. CASE SaveCustomer
  BY <1>1, <1>2, <1>4, GotoIsSane, OnwardKeepsInv
     DEF SaveCustomer, At, Pending
<1>5. CASE GetParentWalletOrCreate
  BY <1>1, <1>5, ProvisionKeepsLimit
     DEF GetParentWalletOrCreate, Provision, Call, StoreError, StoreTransaction,
         Behind, stored
<1>6. CASE LinkParentWalletToCustomerIfUnlinked
  BY <1>1, <1>6, ProvisionKeepsLimit
     DEF LinkParentWalletToCustomerIfUnlinked, Provision, Call, StoreError,
         StoreTransaction, Behind, stored
<1>7. CASE GetChildWalletsOrCreateOne
  BY <1>1, <1>7, ProvisionKeepsLimit
     DEF GetChildWalletsOrCreateOne, Provision, Call, StoreError,
         StoreTransaction, Behind, stored
<1>8. CASE LinkChildWalletToParentWalletIfUnlinked
  BY <1>1, <1>8, ProvisionKeepsLimit
     DEF LinkChildWalletToParentWalletIfUnlinked, Provision, Call, StoreError,
         StoreTransaction, Behind, stored
<1>9. CASE CreateDebitCardIfNotExists
  BY <1>1, <1>9, ProvisionKeepsLimit
     DEF CreateDebitCardIfNotExists, Provision, Call, StoreError,
         StoreTransaction, Behind, stored
<1>10. CASE SaveNewParent \/ SaveRegistered \/ SaveNewChild \/ SaveLinked
            \/ SaveCard
  <2>1. /\ Sane(worker')
        /\ worker'.amount = worker.amount
        /\ worker'.pc \in Behind
        /\ worker.pc \in Behind
        /\ customer' = customer
    BY <1>2, <1>10
       DEF SaveNewParent, SaveNewParentAs, SaveRegistered, SaveNewChild,
           SaveLinked, SaveCard, Goto, Sane, At, Behind
  <2>2. QED
    BY <1>1, <2>1, OnwardKeepsInv DEF LimitInv, Pending, Behind
<1>11. QED
  BY <1>3, <1>4, <1>5, <1>6, <1>7, <1>8, <1>9, <1>10 DEF DoTransferOrIssueCard

\* The calculation of the amount keeps the invariant.  The balance is read
\* before what was spent; without reversals it can only have gone down since.
LEMMA CalculationKeepsLimit ==
    ASSUME LimitInv, CalculateTransferAmountWithWalletRetrieval
    PROVE  LimitInv'
<1>1. SameMoney(intersolve, intersolve')
  BY CalculationMovesNothing DEF LimitInv
<1>2. Sane(worker) /\ intersolve.balance \in Nat /\ intersolve.spent \in Nat
  BY DEF LimitInv
<1>3. CASE LoadForCalculation
  <2>1. customer' = customer
    BY <1>3 DEF LoadForCalculation, stored
  <2>2. CASE ~customer /\ worker' = [worker EXCEPT !.pc = "customer",
                            !.amount = CalculateLimitedTransferAmount(0, 0)]
    <3>1. /\ Sane(worker')
          /\ worker'.pc = "customer"
          /\ worker'.amount = CalculateLimitedTransferAmount(0, 0)
      BY <1>2, <2>2, CalculatedAmountFits DEF Sane
    <3>2. Fits(worker'.amount)
      BY <1>2, <2>2, <3>1, CalculatedAmountFits DEF LimitInv, Fits
    <3>3. QED
      BY <1>1, <2>1, <3>1, <3>2, QuietStepKeepsInv DEF Behind
  <2>3. CASE Goto("thrown")
    BY <1>1, <1>2, <2>1, <2>3, GotoIsSane, QuietStepKeepsInv
       DEF Pending, Behind
  <2>4. ASSUME NEW i, worker' = [worker EXCEPT !.pc = "balance",
                            !.parent = parent, !.wallets = Newest, !.at = i,
                            !.child = IF i = 0 THEN NoChild ELSE children[i]]
        PROVE  LimitInv'
    <3>1. Sane(worker') /\ worker'.pc = "balance"
      BY <1>2, <2>4 DEF Sane
    <3>2. QED
      BY <1>1, <2>1, <3>1, QuietStepKeepsInv DEF Pending, Behind
  <2>5. QED
    BY <1>3, <2>2, <2>3, <2>4 DEF LoadForCalculation
<1>4. CASE GetBalance
  <2>1. customer' = customer
    BY <1>4 DEF GetBalance, Query, Call, StoreCalculationError, stored
  <2>2. CASE worker' = [worker EXCEPT !.pc = "spent",
                                      !.balance = intersolve.balance]
    <3>1. /\ Sane(worker')
          /\ worker'.pc = "spent"
          /\ worker'.balance = intersolve.balance
      BY <1>2, <2>2 DEF Sane
    <3>2. QED
      BY <1>1, <1>2, <2>1, <3>1, QuietStepKeepsInv DEF Pending, Behind
  <2>3. CASE worker' = IdleWorker
    BY <1>1, <2>1, <2>3, IdleIsSane, OnwardKeepsInv
  <2>4. QED
    BY <1>4, <2>2, <2>3
       DEF GetBalance, Query, Call, StoreCalculationError, StoreTransaction
<1>5. CASE GetSpentThisMonth
  <2> DEFINE amount ==
               CalculateLimitedTransferAmount(worker.balance, intersolve.spent)
  <2>1. customer' = customer
    BY <1>5 DEF GetSpentThisMonth, Query, Call, StoreCalculationError, stored
  <2>2. CASE worker' = [worker EXCEPT !.pc = "saveParent", !.amount = amount]
    <3>1. amount \in Nat
      BY <1>2, CalculatedAmountFits DEF Sane
    <3>2. amount = 0 \/ amount + worker.balance + intersolve.spent <= Limit
      BY <1>2, CalculatedAmountFits DEF Sane
    <3>3. intersolve.balance <= worker.balance
      BY <1>5 DEF GetSpentThisMonth, LimitInv
    <3>4. worker.balance \in Nat
      BY <1>2 DEF Sane
    <3> HIDE DEF amount
    <3>5. Fits(amount)
      BY <1>2, <3>1, <3>2, <3>3, <3>4, AmountAssumption DEF Fits
    <3>6. /\ Sane(worker')
          /\ worker'.pc = "saveParent"
          /\ worker'.amount = amount
      BY <1>2, <2>2, <3>1 DEF Sane
    <3>7. QED
      BY <1>1, <2>1, <3>5, <3>6, QuietStepKeepsInv DEF Behind
  <2>3. CASE worker' = IdleWorker
    BY <1>1, <2>1, <2>3, IdleIsSane, OnwardKeepsInv
  <2>4. QED
    BY <1>5, <2>2, <2>3
       DEF GetSpentThisMonth, Query, Call, StoreCalculationError, StoreTransaction
<1>6. CASE SaveRefreshedParent
  <2>1. worker.pc \in Pending /\ customer' = customer
    BY <1>6 DEF SaveRefreshedParent, At, Pending
  <2>2. Goto("thrown") \/ Goto("getChild")
    BY <1>6 DEF SaveRefreshedParent, SaveParent
  <2>3. QED
    BY <1>1, <1>2, <2>1, <2>2, GotoIsSane, OnwardKeepsInv DEF Behind
<1>7. CASE GetChild
  <2>1. worker.pc \in Pending /\ customer' = customer
    BY <1>7 DEF GetChild, At, Pending, Query, Call, StoreCalculationError, stored
  <2>2. CASE worker' = IdleWorker
    BY <1>1, <2>1, <2>2, IdleIsSane, OnwardKeepsInv
  <2>3. CASE worker' # IdleWorker
    <3>1. worker' = [worker EXCEPT !.pc = "saveChild", !.child = AsReported(@)]
      BY <1>7, <2>3 DEF GetChild, Query, Call, StoreCalculationError, StoreTransaction
    <3>2. /\ Sane(worker')
          /\ worker'.pc = "saveChild"
          /\ worker'.amount = worker.amount
      BY <1>2, <3>1 DEF Sane
    <3>3. QED
      BY <1>1, <2>1, <3>2, OnwardKeepsInv DEF Behind
  <2>4. QED
    BY <2>2, <2>3
<1>8. CASE SaveRefreshedChild
  BY <1>1, <1>2, <1>8, GotoIsSane, OnwardKeepsInv
     DEF SaveRefreshedChild, At, Pending, Behind
<1>9. QED
  BY <1>3, <1>4, <1>5, <1>6, <1>7, <1>8
     DEF CalculateTransferAmountWithWalletRetrieval

\* The transfer keeps the invariant: the amount fits.
LEMMA TransferKeepsLimit ==
    ASSUME LimitInv, DoTransfer
    PROVE  LimitInv'
<1>1. /\ Sane(worker) /\ HasMoney(intersolve)
      /\ intersolve.balance \in Nat /\ intersolve.spent \in Nat
  BY DEF LimitInv
<1>2. worker.pc = "transfer" /\ customer /\ Fits(worker.amount)
  BY DEF DoTransfer, TransferUnless, At, LimitInv, Pending, Behind
<1>3. customer'
  BY <1>2 DEF DoTransfer, TransferUnless, Refused, Call, StoreError, stored
<1>4. Goto("store") \/ worker' = IdleWorker
  BY DEF DoTransfer, TransferUnless, Refused, Call, StoreError, StoreTransaction
<1>5. /\ Sane(worker')
      /\ worker'.pc \notin Pending
      /\ worker'.pc # "spent"
  BY <1>1, <1>4, GotoIsSane, IdleIsSane DEF Pending, Behind
<1>6. CASE intersolve' = intersolve
  BY <1>1, <1>3, <1>5, <1>6, QuietStepKeepsInv DEF SameMoney, Pending
<1>7. CASE intersolve' = MoneyTransferred /\ worker.amount > 0
  <2>1. /\ HasMoney(intersolve')
        /\ intersolve'.balance = intersolve.balance + worker.amount
        /\ intersolve'.spent = intersolve.spent
    BY <1>1, <1>7 DEF HasMoney, MoneyTransferred
  <2>2. worker.amount \in Nat
    BY <1>1 DEF Sane
  <2>3. worker.amount + intersolve.balance + intersolve.spent <= Limit
    BY <1>2, <1>7, <2>2 DEF Fits
  <2>4. WithinLimit' /\ intersolve'.balance \in Nat /\ intersolve'.spent \in Nat
    BY <1>1, <2>1, <2>2, <2>3, AmountAssumption DEF WithinLimit
  <2>5. QED
    BY <1>3, <1>5, <2>1, <2>4 DEF LimitInv, At, Pending
<1>8. QED
  BY <1>6, <1>7 DEF DoTransfer, TransferUnless, Refused, Call

\* A refresh, a reissue and a pausing leave the worker and the customer alone.
LEMMA RequestsKeepLimit ==
    ASSUME LimitInv,
           \/ \E r \in Refreshes : RefreshStep(r)
           \/ \E r \in Reissues : ReissueCard(r)
           \/ \E r \in Pauses : PauseCardOrThrow(r)
    PROVE  LimitInv'
<1>1. SameMoney(intersolve, intersolve')
  BY RequestsMoveNothing DEF LimitInv
<1>2. ASSUME NEW r \in Refreshes, RefreshStep(r)
      PROVE  worker' = worker /\ customer' = customer
  BY <1>2 DEF RefreshStep, LoadWallets, GetWallet, SaveWallet, unchangedByRefresh
<1>3. ASSUME NEW r \in Reissues, ReissueCard(r)
      PROVE  worker' = worker /\ customer' = customer
  BY <1>3 DEF ReissueCard, StartReissue, Unblock, IssueNewToken, SubstituteToken,
              Substitute, SaveSubstitute, SaveSubstituted, CreateNewCard,
              SaveNewCard, ReissueCall, unchangedByReissue
<1>4. ASSUME NEW r \in Pauses, PauseCardOrThrow(r)
      PROVE  worker' = worker /\ customer' = customer
  BY <1>4 DEF PauseCardOrThrow, StartPause, SetTokenBlocked, SetTokenBlockedOr,
              SavePaused, unchangedByPause
<1>5. worker' = worker /\ customer' = customer
  BY <1>2, <1>3, <1>4
<1>6. QED
  BY <1>1, <1>5, QuietStepKeepsInv DEF LimitInv, At

\* Spending leaves the sum of balance and spent as it is and the balance
\* smaller, a new month leaves both smaller or as they are.
LEMMA HolderKeepsLimit ==
    ASSUME ~Reversals, LimitInv, HolderStep
    PROVE  LimitInv'
<1>1. /\ HasMoney(intersolve)
      /\ intersolve.balance \in Nat /\ intersolve.spent \in Nat
      /\ Sane(worker)
  BY DEF LimitInv
<1>2. worker' = worker /\ customer' = customer
  BY DEF HolderStep, Spend, ExpireReservation, NewMonth, unchangedByHolder, stored
<1>3. /\ HasMoney(intersolve')
      /\ intersolve'.balance \in Nat /\ intersolve'.spent \in Nat
      /\ intersolve'.balance <= intersolve.balance
      /\ intersolve'.balance + intersolve'.spent
             <= intersolve.balance + intersolve.spent
  <2>1. CASE Spend
    BY <1>1, <2>1 DEF Spend, HasMoney
  <2>2. CASE NewMonth
    BY <1>1, <2>2 DEF NewMonth, HasMoney
  <2>3. QED
    BY <2>1, <2>2 DEF HolderStep, ExpireReservation
<1>4. worker.amount \in Nat /\ worker.balance \in Nat
  BY <1>1 DEF Sane
<1>5. WithinLimit'
  BY <1>1, <1>3, AmountAssumption DEF LimitInv, WithinLimit
<1>6. Fits(worker.amount) => Fits(worker.amount)'
  BY <1>1, <1>2, <1>3, <1>4, AmountAssumption DEF Fits
<1>7. At("spent") => intersolve'.balance <= worker.balance
  BY <1>1, <1>3, <1>4 DEF LimitInv
<1>8. customer \/ intersolve'.balance + intersolve'.spent = 0
  BY <1>1, <1>3 DEF LimitInv
<1>9. QED
  BY <1>1, <1>2, <1>3, <1>5, <1>6, <1>7, <1>8 DEF LimitInv, At

\* The job that a crash interrupted starts over: it calculates again.
LEMMA CrashKeepsLimit ==
    ASSUME LimitInv, Crash
    PROVE  LimitInv'
<1>1. intersolve' = intersolve /\ customer' = customer
  BY DEF Crash, stored
<1>2. /\ Sane(worker')
      /\ worker'.pc \notin Pending
      /\ worker'.pc # "spent"
  BY IdleIsSane, AmountAssumption
     DEF Crash, Sane, IdleWorker, Pending, Behind
<1>3. SameMoney(intersolve, intersolve')
  BY <1>1 DEF LimitInv, SameMoney
<1>4. QED
  BY <1>1, <1>2, <1>3, QuietStepKeepsInv DEF Pending

\* Starting and ending a job: nothing is pending then.
LEMMA JobKeepsLimit ==
    ASSUME LimitInv,
           (\E p \in Payments : StartJob(p)) \/ StoreSuccess \/ EndThrown
    PROVE  LimitInv'
<1>1. intersolve' = intersolve /\ customer' = customer
  BY DEF StartJob, StoreSuccess, EndThrown, stored
<1>2. /\ Sane(worker')
      /\ worker'.pc \notin Pending
      /\ worker'.pc # "spent"
  BY IdleIsSane, AmountAssumption
     DEF StartJob, StoreSuccess, StoreTransaction, EndThrown, Sane, IdleWorker,
         Pending, Behind
<1>3. SameMoney(intersolve, intersolve')
  BY <1>1 DEF LimitInv, SameMoney
<1>4. QED
  BY <1>1, <1>2, <1>3, QuietStepKeepsInv DEF Pending

-----------------------------------------------------------------------------
\* As long as no reservation expires, what is on the card and what was spent
\* this month stay within the limit: whatever the holder spends between the
\* question for the balance, the question for what was spent and the transfer,
\* and whichever of these calls fail, get lost or are made again by a crash.
THEOREM LimitHolds == ~Reversals => (Spec => []WithinLimit)
<1> SUFFICES ASSUME ~Reversals
             PROVE  Spec => []WithinLimit
  OBVIOUS
<1>1. Init => LimitInv
  BY IdleIsSane, AmountAssumption
     DEF Init, LimitInv, HasMoney, WithinLimit, At, Behind, Pending
<1>2. LimitInv /\ [Next]_vars => LimitInv'
  <2> SUFFICES ASSUME LimitInv, [Next]_vars
               PROVE  LimitInv'
    OBVIOUS
  <2>1. CASE DoTransferOrIssueCard
    BY <2>1, TransferKeepsLimit, ProvisioningKeepsLimit
  <2>2. CASE CalculateTransferAmountWithWalletRetrieval
    BY <2>2, CalculationKeepsLimit
  <2>3. CASE (\E p \in Payments : StartJob(p)) \/ StoreSuccess \/ EndThrown
    BY <2>3, JobKeepsLimit
  <2>4. CASE \/ \E r \in Refreshes : RefreshStep(r)
             \/ \E r \in Reissues : ReissueCard(r)
             \/ \E r \in Pauses : PauseCardOrThrow(r)
    BY <2>4, RequestsKeepLimit
  <2>5. CASE HolderStep
    BY <2>5, HolderKeepsLimit
  <2>6. CASE Crash
    BY <2>6, CrashKeepsLimit
  <2>7. CASE UNCHANGED vars
    BY <2>7 DEF vars, stored, LimitInv, HasMoney, WithinLimit, Sane, At, Fits
  <2>8. QED
    BY <2>1, <2>2, <2>3, <2>4, <2>5, <2>6, <2>7 DEF Next, WorkerStep
<1>3. LimitInv => WithinLimit
  BY DEF LimitInv
<1>4. QED
  BY <1>1, <1>2, <1>3, PTL DEF Spec

-----------------------------------------------------------------------------
(* What is known of the stored wallets and of the entities in hand.        *)

\* A child wallet claims nothing that Intersolve has not done.  That a new
\* wallet is linked holds only where no card is reissued: the reissue stores it
\* as linked without asking whether the wallet it replaces was.
ClaimsDone(c) ==
    /\ c.linked /\ Reissues = {} => intersolve.parentOf[c.token] = parent.token
    /\ c.card => intersolve.cards[c.token] > 0
    /\ c.substituted => c.token \in intersolve.substituted

\* An entity of the stored parent wallet, as it is or as it was.
KnownParent(p) ==
    /\ parent # NoParent
    /\ p.token = parent.token
    /\ p.linked => p.token \in intersolve.registered

\* An entity of the child wallet that is stored at place i.
KnownChild(c, i) ==
    /\ i \in DOMAIN children
    /\ c.token = children[i].token
    /\ ClaimsDone(c)

StoredInv ==
    /\ parent # NoParent => customer /\ parent.token # 0 /\ KnownParent(parent)
    /\ children # << >> => parent # NoParent
    /\ \A i \in DOMAIN children : children[i].token # 0 /\ ClaimsDone(children[i])

\* The points of the worker, in the order of the job.
Calculating == {"balance", "spent", "saveParent", "getChild", "saveChild"}
BeforeParent == {"parent", "saveNewParent"}
BeforeChild == BeforeParent \cup {"register", "saveRegistered", "child", "saveNewChild"}
WithChild == {"link", "saveLinked", "card", "saveCard", "transfer"}
Provisioning == BeforeChild \cup WithChild

\* What the worker has in hand at the point w.pc.
WorkerKnows(w) ==
    /\ w.pc \notin {"idle", "thrown"} => w.payment \in Payments
    /\ w.pc \in {"calculate", "saveCustomer"} \/ (w.pc = "customer" /\ ~customer)
           => w.parent = NoParent /\ w.child = NoChild
    /\ w.pc = "saveCustomer" => ~customer
    /\ w.pc \in Calculating =>
           KnownParent(w.parent) /\ (w.at = 0 \/ KnownChild(w.child, w.at))
    /\ w.pc \in {"getChild", "saveChild"} => w.at # 0
    /\ w.pc \in Provisioning => customer
    /\ w.pc \in BeforeParent =>
           (w.parent = NoParent /\ parent = NoParent) \/ KnownParent(w.parent)
    /\ w.pc = "saveNewParent" => parent = NoParent /\ w.token # 0
    /\ w.pc \in Provisioning \ BeforeParent => KnownParent(w.parent)
    /\ w.pc \in Provisioning \ (BeforeParent \cup {"register"}) =>
           w.parent.token \in intersolve.registered
    /\ w.pc \in BeforeChild =>
           (w.child = NoChild /\ children = << >>) \/ KnownChild(w.child, w.at)
    /\ w.pc = "saveNewChild" => children = << >> /\ w.token # 0
    /\ w.pc \in WithChild => KnownChild(w.child, w.at)
    /\ w.pc \in WithChild \ {"link"} /\ Reissues = {} =>
           intersolve.parentOf[w.child.token] = parent.token
    /\ w.pc \in {"saveCard", "transfer"} => intersolve.cards[w.child.token] > 0

\* What a refresh has in hand: all wallets as they were when it started, and
\* the places that are left.
RefreshKnows(f) ==
    f.pc \in {"get", "save"} =>
        /\ KnownParent(f.parent)
        /\ \A i \in DOMAIN f.children : KnownChild(f.children[i], i)
        /\ f.todo # << >>
        /\ \A k \in DOMAIN f.todo : f.todo[k] = 0 \/ f.todo[k] \in DOMAIN f.children

\* The points of a reissue.
Substituting == {"unblock", "issue", "substitute", "saveNew", "saveOld"}
Issued == {"substitute", "saveNew", "saveOld", "card", "saveCard"}

ReissueKnows(x) ==
    /\ x.pc \in Substituting => KnownChild(x.old, x.oldAt)
    /\ x.pc \in {"saveNew", "saveOld"} => x.old.token \in intersolve.substituted
    /\ x.pc \in Issued =>
           /\ x.new.token # 0
           /\ ~x.new.card /\ ~x.new.substituted /\ ~x.new.blocked
    /\ x.pc \in {"saveOld", "card", "saveCard"} => KnownChild(x.new, x.newAt)
    /\ x.pc = "saveCard" => intersolve.cards[x.new.token] > 0

PauseKnows(x) == x.pc \in {"block", "save"} => KnownChild(x.child, x.at)

\* All of it: no step of the provisioning is marked that is not done, neither in
\* the tables nor in an entity that someone may still write.
WalletInv ==
    /\ TypeOK
    /\ StoredInv
    /\ WorkerKnows(worker)
    /\ \A r \in Refreshes : RefreshKnows(refresh[r])
    /\ \A r \in Reissues : ReissueKnows(reissue[r])
    /\ \A r \in Pauses : PauseKnows(pause[r])

-----------------------------------------------------------------------------
(* What never comes undone.                                                *)

\* Intersolve in state t keeps what it had done in state s.
KeptBy(s, t) ==
    /\ t \in Intersolve
    /\ s.registered \subseteq t.registered
    /\ s.substituted \subseteq t.substituted
    /\ s.transfers \subseteq t.transfers
    /\ \A c \in Tokens : s.cards[c] > 0 => t.cards[c] > 0
    /\ Reissues = {} /\ parent # NoParent =>
           \A c \in Tokens : s.parentOf[c] = parent.token
                                 => t.parentOf[c] = parent.token

\* The tables keep the wallets and their tokens.
WalletsKept ==
    /\ customer' \in BOOLEAN
    /\ customer => customer'
    /\ parent' \in Parent
    /\ parent # NoParent => parent' # NoParent /\ parent'.token = parent.token
    /\ children' \in Seq(Child)
    /\ Len(children) <= Len(children')
    /\ \A i \in DOMAIN children : children'[i].token = children[i].token

Kept == KeptBy(intersolve, intersolve') /\ WalletsKept

\* Counting one more keeps a function of numbers.
LEMMA OneMore ==
    ASSUME NEW S, NEW f \in [S -> Nat], NEW t
    PROVE  /\ [f EXCEPT ![t] = @ + 1] \in [S -> Nat]
           /\ \A c \in S : f[c] > 0 => [f EXCEPT ![t] = @ + 1][c] > 0
<1> DEFINE g == [f EXCEPT ![t] = @ + 1]
<1>1. g = [c \in S |-> IF c = t THEN f[t] + 1 ELSE f[c]]
  OBVIOUS
<1>2. \A c \in S : g[c] = IF c = t THEN f[c] + 1 ELSE f[c]
  BY <1>1
<1>3. \A c \in S : g[c] \in Nat /\ (f[c] > 0 => g[c] > 0)
  BY <1>2
<1>4. QED
  BY <1>1, <1>3

\* Each call keeps what Intersolve had done.  A token is linked by the worker,
\* to the stored parent wallet; a substitution needs a reissue.
LEMMA EffectsKeep ==
    ASSUME TypeOK
    PROVE  /\ KeptBy(intersolve, intersolve)
           /\ NextToken <= MaxTokens => KeptBy(intersolve, TokenIssued)
           /\ \A t \in Tokens : KeptBy(intersolve, HolderRegistered(t))
           /\ \A p \in Token, c \in Token :
                  p = parent.token => KeptBy(intersolve, TokenLinked(p, c))
           /\ \A t \in Token : KeptBy(intersolve, CardMade(t))
           /\ \A t \in Tokens, b \in BOOLEAN : KeptBy(intersolve, BlockedSet(t, b))
           /\ Reissues # {} =>
                  \A o \in Tokens, n \in Tokens :
                      KeptBy(intersolve, TokenSubstituted(o, n))
<1> USE DEF TypeOK, KeptBy, Intersolve, Token, Tokens
<1>1. KeptBy(intersolve, intersolve)
  OBVIOUS
<1>2. NextToken <= MaxTokens => KeptBy(intersolve, TokenIssued)
  <2> SUFFICES ASSUME NextToken <= MaxTokens
               PROVE  KeptBy(intersolve, TokenIssued)
    OBVIOUS
  <2>1. NextToken \in Token
    BY BoundsAssumption DEF NextToken
  <2>2. TokenIssued \in Intersolve
    BY <2>1 DEF TokenIssued
  <2>3. QED
    BY <2>2 DEF TokenIssued
<1>3. \A t \in Tokens : KeptBy(intersolve, HolderRegistered(t))
  BY DEF HolderRegistered
<1>4. \A p \in Token, c \in Token :
          p = parent.token => KeptBy(intersolve, TokenLinked(p, c))
  BY DEF TokenLinked
<1>5. \A t \in Token : KeptBy(intersolve, CardMade(t))
  <2> SUFFICES ASSUME NEW t \in Token
               PROVE  KeptBy(intersolve, CardMade(t))
    OBVIOUS
  <2> DEFINE cards == [intersolve.cards EXCEPT ![t] = @ + 1]
  <2>1. intersolve.cards \in [Tokens -> Nat]
    OBVIOUS
  <2>2. /\ cards \in [Tokens -> Nat]
        /\ \A c \in Tokens : intersolve.cards[c] > 0 => cards[c] > 0
    BY <2>1, OneMore
  <2>4. CardMade(t) = [intersolve EXCEPT !.cards = cards]
    BY DEF CardMade
  <2> HIDE DEF cards
  <2>5. QED
    BY <2>2, <2>4
<1>6. \A t \in Tokens, b \in BOOLEAN : KeptBy(intersolve, BlockedSet(t, b))
  BY DEF BlockedSet
<1>7. Reissues # {} =>
          \A o \in Tokens, n \in Tokens :
              KeptBy(intersolve, TokenSubstituted(o, n))
  BY DEF TokenSubstituted
<1>8. QED
  BY <1>1, <1>2, <1>3, <1>4, <1>5, <1>6, <1>7

\* What is known of an entity stays known.
LEMMA KnownStays ==
    ASSUME TypeOK, StoredInv, Kept
    PROVE  /\ \A p : KnownParent(p) => KnownParent(p)'
           /\ \A c, i : KnownChild(c, i) => KnownChild(c, i)'
<1>1. ASSUME NEW p, KnownParent(p)
      PROVE  KnownParent(p)'
  BY <1>1 DEF KnownParent, Kept, KeptBy, WalletsKept
<1>2. ASSUME NEW c, NEW i, KnownChild(c, i)
      PROVE  KnownChild(c, i)'
  <2>1. i \in DOMAIN children /\ parent # NoParent
    BY <1>2 DEF KnownChild, StoredInv, TypeOK
  <2>2. c.token \in Tokens
    <3>1. children[i] \in Child
      BY <2>1 DEF TypeOK
    <3>2. children[i].token \in Token /\ children[i].token # 0
      BY <2>1, <3>1 DEF Child, StoredInv
    <3>3. QED
      BY <1>2, <3>2, BoundsAssumption DEF KnownChild, Token, Tokens
  <2>3. i \in DOMAIN children' /\ c.token = children'[i].token
    BY <1>2, <2>1 DEF KnownChild, TypeOK, Kept, WalletsKept
  <2>4. ClaimsDone(c)'
    BY <1>2, <2>1, <2>2 DEF KnownChild, ClaimsDone, Kept, KeptBy, WalletsKept
  <2>5. QED
    BY <2>3, <2>4 DEF KnownChild
<1>3. QED
  BY <1>1, <1>2

-----------------------------------------------------------------------------
(* Writes of the tables.                                                   *)

\* A call leaves the tables alone.
LEMMA CallKeeps ==
    ASSUME TypeOK, StoredInv, KeptBy(intersolve, intersolve'), UNCHANGED stored
    PROVE  Kept /\ StoredInv'
<1>1. customer' = customer /\ parent' = parent /\ children' = children
  BY DEF stored
<1>2. Kept
  BY <1>1 DEF Kept, WalletsKept, TypeOK
<1>3. \A p : KnownParent(p) => KnownParent(p)'
  BY <1>2, KnownStays
<1>4. \A c, i : KnownChild(c, i) => KnownChild(c, i)'
  BY <1>2, KnownStays
<1>5. parent # NoParent => KnownParent(parent)'
  BY <1>1, <1>2 DEF KnownParent, StoredInv, Kept, KeptBy
<1>6. ASSUME NEW i \in DOMAIN children
      PROVE  ClaimsDone(children[i])'
  <2> PICK c : c = children[i]
    OBVIOUS
  <2>1. KnownChild(c, i)
    BY <1>6 DEF KnownChild, StoredInv
  <2>2. KnownChild(c, i)'
    BY <2>1, <1>4
  <2>3. QED
    BY <1>1, <2>2 DEF KnownChild, ClaimsDone
<1>7. QED
  BY <1>1, <1>2, <1>5, <1>6 DEF StoredInv

\* A write that Intersolve does not see.
LEMMA WriteKeeps ==
    ASSUME TypeOK, intersolve' = intersolve, WalletsKept
    PROVE  Kept
  BY EffectsKeep DEF Kept

\* save() of an entity of the parent wallet, as it is or as it was.
LEMMA ParentSaved ==
    ASSUME TypeOK, StoredInv, UNCHANGED <<intersolve, customer, children>>,
           NEW p \in Parent, KnownParent(p), parent' = p
    PROVE  Kept /\ StoredInv'
<1>1. p # NoParent
  BY DEF KnownParent, StoredInv, NoParent
<1>2. WalletsKept
  BY <1>1 DEF WalletsKept, KnownParent, TypeOK
<1>3. \A i \in DOMAIN children : ClaimsDone(children[i])'
  BY DEF StoredInv, ClaimsDone, KnownParent
<1>4. QED
  BY <1>1, <1>2, <1>3, WriteKeeps DEF StoredInv, KnownParent

\* save() or update() of a child wallet: its place gets an entity that claims
\* nothing that is not done.
LEMMA ChildSaved ==
    ASSUME TypeOK, StoredInv, UNCHANGED <<intersolve, customer, parent>>,
           NEW c \in Child, NEW i, KnownChild(c, i),
           children' = [children EXCEPT ![i] = c]
    PROVE  Kept /\ StoredInv'
<1>1. /\ children \in Seq(Child)
      /\ i \in DOMAIN children
      /\ c.token = children[i].token
  BY DEF TypeOK, KnownChild
<1>2. /\ children' \in Seq(Child)
      /\ Len(children') = Len(children)
      /\ DOMAIN children' = DOMAIN children
      /\ \A j \in DOMAIN children :
             children'[j] = IF j = i THEN c ELSE children[j]
  BY <1>1
<1>3. WalletsKept
  BY <1>1, <1>2 DEF WalletsKept, TypeOK
<1>4. \A j \in DOMAIN children : children'[j].token # 0 /\ ClaimsDone(children[j])'
  <2> TAKE j \in DOMAIN children
  <2>1. children[j].token # 0 /\ ClaimsDone(children[j])
    BY DEF StoredInv
  <2>2. CASE j = i
    BY <1>1, <1>2, <2>1, <2>2 DEF KnownChild, ClaimsDone
  <2>3. CASE j # i
    BY <1>2, <2>1, <2>3 DEF ClaimsDone
  <2>4. QED
    BY <2>2, <2>3
<1>5. children # << >> /\ children' # << >>
  BY <1>1, <1>2
<1>6. QED
  BY <1>2, <1>3, <1>4, <1>5, WriteKeeps DEF StoredInv, KnownParent

\* The first save() of a new child wallet.
LEMMA ChildAdded ==
    ASSUME TypeOK, StoredInv, UNCHANGED <<intersolve, customer, parent>>,
           parent # NoParent,
           NEW c \in Child, c.token # 0, ClaimsDone(c),
           children' = Append(children, c)
    PROVE  /\ Kept /\ StoredInv'
           /\ Newest + 1 \in DOMAIN children'
           /\ children'[Newest + 1] = c
<1>1. children \in Seq(Child)
  BY DEF TypeOK
<1>2. /\ children' \in Seq(Child)
      /\ Len(children') = Len(children) + 1
      /\ DOMAIN children' = DOMAIN children \cup {Newest + 1}
      /\ children'[Newest + 1] = c
      /\ \A j \in DOMAIN children : children'[j] = children[j]
  BY <1>1 DEF Newest
<1>3. WalletsKept
  BY <1>1, <1>2 DEF WalletsKept, TypeOK
<1>4. \A j \in DOMAIN children' : children'[j].token # 0 /\ ClaimsDone(children[j])'
  <2> TAKE j \in DOMAIN children'
  <2>1. CASE j = Newest + 1
    BY <1>2, <2>1 DEF ClaimsDone
  <2>2. CASE j \in DOMAIN children
    BY <1>2, <2>2 DEF StoredInv, ClaimsDone
  <2>3. QED
    BY <1>2, <2>1, <2>2
<1>5. QED
  BY <1>2, <1>3, <1>4, WriteKeeps DEF StoredInv, KnownParent

-----------------------------------------------------------------------------
(* Who does nothing keeps what he knows.                                   *)

\* What the worker knows stays true while Intersolve is called and while the
\* others write.
LEMMA WorkerStays ==
    ASSUME TypeOK, StoredInv, Kept, customer' = customer,
           parent = NoParent => parent' = NoParent,
           children = << >> => children' = << >>,
           NEW w, WorkerKnows(w)
    PROVE  WorkerKnows(w)'
<1>1. WorkerKnows(w)
  OBVIOUS
<1>2. KnownParent(w.parent) => KnownParent(w.parent)'
  <2> PICK p : p = w.parent
    OBVIOUS
  <2> QED
    BY KnownStays
<1>3. KnownChild(w.child, w.at) => KnownChild(w.child, w.at)'
  <2> PICK c, i : c = w.child /\ i = w.at
    OBVIOUS
  <2> QED
    BY KnownStays
<1>4. intersolve.registered \subseteq intersolve'.registered
  BY DEF Kept, KeptBy
<1>5. KnownChild(w.child, w.at) =>
          w.child.token \in Tokens /\ parent # NoParent /\ parent'.token = parent.token
  <2> SUFFICES ASSUME KnownChild(w.child, w.at)
               PROVE  w.child.token \in Tokens /\ parent # NoParent
                          /\ parent'.token = parent.token
    OBVIOUS
  <2>1. w.at \in DOMAIN children /\ w.child.token = children[w.at].token
    BY DEF KnownChild
  <2>2. children[w.at] \in Child /\ children[w.at].token # 0
    BY <2>1 DEF TypeOK, StoredInv
  <2>3. w.child.token \in Tokens
    BY <2>1, <2>2 DEF Child, Token
  <2>4. QED
    BY <2>1, <2>3 DEF StoredInv, Kept, WalletsKept, TypeOK
<1>6. KnownChild(w.child, w.at) =>
          /\ intersolve.cards[w.child.token] > 0
                 => intersolve'.cards[w.child.token] > 0
          /\ Reissues = {} /\ intersolve.parentOf[w.child.token] = parent.token
                 => intersolve'.parentOf[w.child.token] = parent'.token
  BY <1>5 DEF Kept, KeptBy
<1>7. w.pc \in WithChild => KnownChild(w.child, w.at)
  BY <1>1 DEF WorkerKnows
<1>8. QED
  BY <1>1, <1>2, <1>3, <1>4, <1>6, <1>7 DEF WorkerKnows, WithChild

\* So does a request.
LEMMA RefreshStays ==
    ASSUME TypeOK, StoredInv, Kept, NEW f, RefreshKnows(f)
    PROVE  RefreshKnows(f)'
<1>1. KnownParent(f.parent) => KnownParent(f.parent)'
  <2> PICK p : p = f.parent
    OBVIOUS
  <2> QED
    BY KnownStays
<1>2. ASSUME NEW i \in DOMAIN f.children, KnownChild(f.children[i], i)
      PROVE  KnownChild(f.children[i], i)'
  <2> PICK c : c = f.children[i]
    OBVIOUS
  <2> QED
    BY <1>2, KnownStays
<1>3. QED
  BY <1>1, <1>2 DEF RefreshKnows

LEMMA ReissueStays ==
    ASSUME TypeOK, StoredInv, Kept, NEW x \in Reissue, ReissueKnows(x)
    PROVE  ReissueKnows(x)'
<1>1. KnownChild(x.old, x.oldAt) => KnownChild(x.old, x.oldAt)'
  <2> PICK c, i : c = x.old /\ i = x.oldAt
    OBVIOUS
  <2> QED
    BY KnownStays
<1>2. KnownChild(x.new, x.newAt) => KnownChild(x.new, x.newAt)'
  <2> PICK c, i : c = x.new /\ i = x.newAt
    OBVIOUS
  <2> QED
    BY KnownStays
<1>3. x.new.token # 0 => x.new.token \in Tokens
  BY DEF Reissue, Child, Token
<1>4. /\ intersolve.substituted \subseteq intersolve'.substituted
      /\ \A c \in Tokens : intersolve.cards[c] > 0 => intersolve'.cards[c] > 0
  BY DEF Kept, KeptBy
<1>5. QED
  BY <1>1, <1>2, <1>3, <1>4 DEF ReissueKnows, Issued

LEMMA PauseStays ==
    ASSUME TypeOK, StoredInv, Kept, NEW x, PauseKnows(x)
    PROVE  PauseKnows(x)'
<1>1. KnownChild(x.child, x.at) => KnownChild(x.child, x.at)'
  <2> PICK c, i : c = x.child /\ i = x.at
    OBVIOUS
  <2> QED
    BY KnownStays
<1>2. QED
  BY <1>1 DEF PauseKnows

\* All requests together.
RequestsKnow ==
    /\ \A r \in Refreshes : RefreshKnows(refresh[r])
    /\ \A r \in Reissues : ReissueKnows(reissue[r])
    /\ \A r \in Pauses : PauseKnows(pause[r])

LEMMA RequestsStay ==
    ASSUME TypeOK, StoredInv, Kept, RequestsKnow
    PROVE  /\ UNCHANGED refresh => \A r \in Refreshes : RefreshKnows(refresh[r])'
           /\ UNCHANGED reissue => \A r \in Reissues : ReissueKnows(reissue[r])'
           /\ UNCHANGED pause => \A r \in Pauses : PauseKnows(pause[r])'
<1>1. ASSUME UNCHANGED refresh, NEW r \in Refreshes
      PROVE  RefreshKnows(refresh[r])'
  <2> PICK f : f = refresh[r]
    OBVIOUS
  <2>1. RefreshKnows(f)'
    BY RefreshStays DEF RequestsKnow
  <2> QED
    BY <1>1, <2>1
<1>2. ASSUME UNCHANGED reissue, NEW r \in Reissues
      PROVE  ReissueKnows(reissue[r])'
  <2> PICK f : f = reissue[r]
    OBVIOUS
  <2>1. ReissueKnows(f)'
    BY ReissueStays DEF RequestsKnow, TypeOK
  <2> QED
    BY <1>2, <2>1
<1>3. ASSUME UNCHANGED pause, NEW r \in Pauses
      PROVE  PauseKnows(pause[r])'
  <2> PICK f : f = pause[r]
    OBVIOUS
  <2>1. PauseKnows(f)'
    BY PauseStays DEF RequestsKnow
  <2> QED
    BY <1>3, <2>1
<1>4. QED
  BY <1>1, <1>2, <1>3

-----------------------------------------------------------------------------
(* The steps of the worker.                                                *)

\* What a step of the worker has to establish.
WorkerDone ==
    /\ Kept
    /\ StoredInv'
    /\ WorkerKnows(worker)'
    /\ worker' \in Worker
    /\ transaction' \in [Payments -> [status : {"none", "success", "error"},
                                      amount : 0 .. Amount]]
    /\ faults' \in 0 .. MaxFaults

LEMMA WorkerDoneSuffices ==
    ASSUME WalletInv, UNCHANGED unchangedByWorker, WorkerDone
    PROVE  WalletInv'
<1>1. /\ TypeOK /\ StoredInv /\ RequestsKnow
      /\ UNCHANGED <<refresh, reissue, pause, crashes>>
  BY DEF WalletInv, RequestsKnow, unchangedByWorker, requests
<1>2. TypeOK'
  BY <1>1 DEF TypeOK, WorkerDone, Kept, KeptBy, WalletsKept
<1>3. /\ \A r \in Refreshes : RefreshKnows(refresh[r])'
      /\ \A r \in Reissues : ReissueKnows(reissue[r])'
      /\ \A r \in Pauses : PauseKnows(pause[r])'
  BY <1>1, RequestsStay DEF WorkerDone
<1>4. QED
  BY <1>2, <1>3 DEF WalletInv, WorkerDone

\* The end of a job.
LEMMA IdleKnows ==
    /\ IdleWorker \in Worker
    /\ WorkerKnows(IdleWorker)
    /\ WorkerKnows(IdleWorker)'
<1>1. IdleWorker \in Worker
  <2>1. NoParent \in Parent /\ NoChild \in Child
    BY DEF NoParent, Parent, NoChild, NewChild, Child, Token
  <2>2. 0 \in Token
    BY DEF Token
  <2>3. QED
    BY <2>1, <2>2, AmountAssumption DEF IdleWorker, Worker, WorkerPoints
<1>2. IdleWorker.pc = "idle"
  BY DEF IdleWorker
<1>3. QED
  BY <1>1, <1>2
     DEF WorkerKnows, Calculating, Provisioning, BeforeParent, BeforeChild,
         WithChild

\* A call that fails ends the job, whether it took effect or not.
LEMMA FailedCall ==
    ASSUME WalletInv, KeptBy(intersolve, intersolve'), UNCHANGED stored,
           NEW status \in {"success", "error"}, NEW amount \in {Amount, worker.amount},
           StoreTransaction(status, amount), faults' \in 0 .. MaxFaults
    PROVE  WorkerDone
<1>1. TypeOK /\ StoredInv
  BY DEF WalletInv
<1>2. worker' = IdleWorker
  BY DEF StoreTransaction
<1>3. WorkerKnows(worker)'
  BY <1>2, IdleKnows DEF WorkerKnows
<1>4. transaction' \in [Payments -> [status : {"none", "success", "error"},
                                     amount : 0 .. Amount]]
  <2>1. amount \in 0 .. Amount
    BY <1>1, AmountAssumption DEF TypeOK, Worker
  <2>2. [status |-> status, amount |-> amount]
            \in [status : {"none", "success", "error"}, amount : 0 .. Amount]
    BY <2>1
  <2>3. QED
    BY <1>1, <2>2 DEF StoreTransaction, TypeOK
<1>5. QED
  BY <1>1, <1>2, <1>3, <1>4, IdleKnows, CallKeeps DEF WorkerDone

\* What becomes of the failures.
LEMMA FaultsCounted ==
    ASSUME TypeOK,
           UNCHANGED faults \/ (faults < MaxFaults /\ faults' = faults + 1)
    PROVE  faults' \in 0 .. MaxFaults
  BY BoundsAssumption DEF TypeOK

\* A step that goes on to the next point.
LEMMA GotoMoves ==
    ASSUME TypeOK, NEW pc \in WorkerPoints, Goto(pc)
    PROVE  /\ worker' \in Worker
           /\ worker'.pc = pc
           /\ worker'.payment = worker.payment
           /\ worker'.amount = worker.amount
           /\ worker'.parent = worker.parent
           /\ worker'.child = worker.child
           /\ worker'.at = worker.at
           /\ worker'.token = worker.token
  BY DEF TypeOK, Worker, Goto

LEMMA WithTokenMoves ==
    ASSUME TypeOK, NextToken <= MaxTokens, NEW pc \in WorkerPoints, WithToken(pc)
    PROVE  /\ worker' \in Worker
           /\ worker'.pc = pc
           /\ worker'.payment = worker.payment
           /\ worker'.parent = worker.parent
           /\ worker'.child = worker.child
           /\ worker'.at = worker.at
           /\ worker'.token # 0
<1>1. NextToken \in Token /\ NextToken # 0
  BY BoundsAssumption DEF TypeOK, Intersolve, NextToken, Token, Tokens
<1>2. QED
  BY <1>1 DEF TypeOK, Worker, WithToken

\* A call that succeeds and whose step goes on.
LEMMA GoneOn ==
    ASSUME WalletInv, KeptBy(intersolve, intersolve'), UNCHANGED <<stored, transaction>>,
           faults' \in 0 .. MaxFaults, worker' \in Worker,
           WorkerKnows(worker)'
    PROVE  WorkerDone
  BY CallKeeps DEF WalletInv, WorkerDone, TypeOK

\* What the worker knew it still knows after a call.
LEMMA Remembered ==
    ASSUME WalletInv, KeptBy(intersolve, intersolve'), UNCHANGED stored
    PROVE  /\ Kept /\ StoredInv' /\ UNCHANGED <<customer, parent, children>>
           /\ \A w : WorkerKnows(w) => WorkerKnows(w)'
<1>1. TypeOK /\ StoredInv /\ UNCHANGED <<customer, parent, children>>
  BY DEF WalletInv, stored
<1>2. Kept /\ StoredInv'
  BY <1>1, CallKeeps
<1>3. QED
  BY <1>1, <1>2, WorkerStays

\* getParentWalletOrCreate
LEMMA ParentStep ==
    ASSUME WalletInv, GetParentWalletOrCreate
    PROVE  WorkerDone
<1> PICK w : w = worker
  OBVIOUS
<1>1. TypeOK /\ StoredInv /\ WorkerKnows(w) /\ w \in Worker /\ At("parent")
  BY DEF WalletInv, TypeOK, GetParentWalletOrCreate, Provision
<1>2. /\ KeptBy(intersolve, intersolve') /\ UNCHANGED stored
      /\ faults' \in 0 .. MaxFaults
  BY <1>1, EffectsKeep, FaultsCounted
     DEF GetParentWalletOrCreate, Provision, Call, StoreError, TokenIssued,
         TypeOK, Intersolve
<1>3. StoredInv' /\ WorkerKnows(w)' /\ UNCHANGED <<customer, parent, children>>
  BY <1>1, <1>2, Remembered
<1>4. CASE StoreTransaction("error", worker.amount)
  BY <1>2, <1>4, FailedCall
<1>5. CASE Goto("register") /\ UNCHANGED transaction /\ w.parent # NoParent
  <2>1. /\ worker' \in Worker /\ worker'.pc = "register"
        /\ worker'.payment = w.payment /\ worker'.parent = w.parent
        /\ worker'.child = w.child /\ worker'.at = w.at
    BY <1>1, <1>5, GotoMoves DEF WorkerPoints
  <2>2. WorkerKnows(worker)'
    BY <1>1, <1>3, <1>5, <2>1
       DEF At, WorkerKnows, Calculating, Provisioning, BeforeParent, BeforeChild,
           WithChild
  <2>3. QED
    BY <1>2, <1>5, <2>1, <2>2, GoneOn
<1>6. CASE /\ WithToken("saveNewParent") /\ NextToken <= MaxTokens
           /\ UNCHANGED transaction /\ w.parent = NoParent
  <2>1. /\ worker' \in Worker /\ worker'.pc = "saveNewParent"
        /\ worker'.payment = w.payment /\ worker'.parent = w.parent
        /\ worker'.child = w.child /\ worker'.at = w.at
        /\ worker'.token # 0
    BY <1>1, <1>6, WithTokenMoves DEF WorkerPoints
  <2>2. parent = NoParent
    BY <1>1, <1>6 DEF At, WorkerKnows, BeforeParent, KnownParent, StoredInv, NoParent
  <2>3. WorkerKnows(worker)'
    BY <1>1, <1>3, <1>6, <2>1, <2>2
       DEF At, WorkerKnows, Calculating, Provisioning, BeforeParent, BeforeChild,
           WithChild
  <2>4. QED
    BY <1>2, <1>6, <2>1, <2>3, GoneOn
<1>7. QED
  BY <1>4, <1>5, <1>6
     DEF GetParentWalletOrCreate, Provision, Call, StoreError, TokenIssued

\* linkParentWalletToCustomerIfUnlinked
LEMMA RegisterStep ==
    ASSUME WalletInv, LinkParentWalletToCustomerIfUnlinked
    PROVE  WorkerDone
<1> PICK w : w = worker
  OBVIOUS
<1>1. TypeOK /\ StoredInv /\ WorkerKnows(w) /\ w \in Worker /\ At("register")
  BY DEF WalletInv, TypeOK, LinkParentWalletToCustomerIfUnlinked, Provision
<1> w.parent.token \in Tokens
  BY <1>1 DEF At, WorkerKnows, Provisioning, BeforeParent, BeforeChild, KnownParent,
              StoredInv, TypeOK, Parent, Token
<1>2. /\ KeptBy(intersolve, intersolve') /\ UNCHANGED stored
      /\ faults' \in 0 .. MaxFaults
  BY <1>1, EffectsKeep, FaultsCounted
     DEF LinkParentWalletToCustomerIfUnlinked, Provision, Call, StoreError, TokenIssued,
         TypeOK, Intersolve
<1>3. StoredInv' /\ WorkerKnows(w)' /\ UNCHANGED <<customer, parent, children>>
  BY <1>1, <1>2, Remembered
<1>4. CASE StoreTransaction("error", worker.amount)
  BY <1>2, <1>4, FailedCall
<1>5. CASE Goto("child") /\ UNCHANGED transaction /\ w.parent.linked
  <2>1. /\ worker' \in Worker /\ worker'.pc = "child"
        /\ worker'.payment = w.payment /\ worker'.parent = w.parent
        /\ worker'.child = w.child /\ worker'.at = w.at
    BY <1>1, <1>5, GotoMoves DEF WorkerPoints
  <2>2. WorkerKnows(worker)'
    BY <1>1, <1>3, <1>5, <2>1
       DEF At, WorkerKnows, Calculating, Provisioning, BeforeParent, BeforeChild,
           WithChild, KnownParent, KnownChild, ClaimsDone, StoredInv
  <2>3. QED
    BY <1>2, <1>5, <2>1, <2>2, GoneOn
<1>6. CASE /\ Goto("saveRegistered") /\ intersolve' = HolderRegistered(w.parent.token)
           /\ UNCHANGED transaction
  <2>1. /\ worker' \in Worker /\ worker'.pc = "saveRegistered"
        /\ worker'.payment = w.payment /\ worker'.parent = w.parent
        /\ worker'.child = w.child /\ worker'.at = w.at
    BY <1>1, <1>6, GotoMoves DEF WorkerPoints
  <2>2. w.parent.token \in intersolve'.registered
    BY <1>1, <1>6 DEF HolderRegistered, TypeOK, Intersolve
  <2>3. WorkerKnows(worker)'
    BY <1>1, <1>3, <1>6, <2>1, <2>2
       DEF At, WorkerKnows, Calculating, Provisioning, BeforeParent, BeforeChild,
           WithChild
  <2>4. QED
    BY <1>2, <1>6, <2>1, <2>3, GoneOn
<1>7. QED
  BY <1>4, <1>5, <1>6
     DEF LinkParentWalletToCustomerIfUnlinked, Provision, Call, StoreError, HolderRegistered

\* getChildWalletsOrCreateOne
LEMMA ChildStep ==
    ASSUME WalletInv, GetChildWalletsOrCreateOne
    PROVE  WorkerDone
<1> PICK w : w = worker
  OBVIOUS
<1>1. TypeOK /\ StoredInv /\ WorkerKnows(w) /\ w \in Worker /\ At("child")
  BY DEF WalletInv, TypeOK, GetChildWalletsOrCreateOne, Provision
<1>2. /\ KeptBy(intersolve, intersolve') /\ UNCHANGED stored
      /\ faults' \in 0 .. MaxFaults
  BY <1>1, EffectsKeep, FaultsCounted
     DEF GetChildWalletsOrCreateOne, Provision, Call, StoreError, TokenIssued,
         TypeOK, Intersolve
<1>3. StoredInv' /\ WorkerKnows(w)' /\ UNCHANGED <<customer, parent, children>>
  BY <1>1, <1>2, Remembered
<1>4. CASE StoreTransaction("error", worker.amount)
  BY <1>2, <1>4, FailedCall
<1>5. CASE Goto("link") /\ UNCHANGED transaction /\ w.child # NoChild
  <2>1. /\ worker' \in Worker /\ worker'.pc = "link"
        /\ worker'.payment = w.payment /\ worker'.parent = w.parent
        /\ worker'.child = w.child /\ worker'.at = w.at
    BY <1>1, <1>5, GotoMoves DEF WorkerPoints
  <2>2. WorkerKnows(worker)'
    BY <1>1, <1>3, <1>5, <2>1
       DEF At, WorkerKnows, Calculating, Provisioning, BeforeParent, BeforeChild,
           WithChild, KnownParent, KnownChild, ClaimsDone, StoredInv
  <2>3. QED
    BY <1>2, <1>5, <2>1, <2>2, GoneOn
<1>6. CASE /\ WithToken("saveNewChild") /\ NextToken <= MaxTokens
           /\ UNCHANGED transaction /\ w.child = NoChild
  <2>1. /\ worker' \in Worker /\ worker'.pc = "saveNewChild"
        /\ worker'.payment = w.payment /\ worker'.parent = w.parent
        /\ worker'.child = w.child /\ worker'.at = w.at
        /\ worker'.token # 0
    BY <1>1, <1>6, WithTokenMoves DEF WorkerPoints
  <2>2. children = << >>
    <3>1. ~KnownChild(w.child, w.at)
      BY <1>1, <1>6 DEF KnownChild, StoredInv, NoChild, NewChild
    <3>2. QED
      BY <1>1, <3>1 DEF At, WorkerKnows, BeforeChild
  <2>3. WorkerKnows(worker)'
    BY <1>1, <1>3, <1>6, <2>1, <2>2
       DEF At, WorkerKnows, Calculating, Provisioning, BeforeParent, BeforeChild,
           WithChild
  <2>4. QED
    BY <1>2, <1>6, <2>1, <2>3, GoneOn
<1>7. QED
  BY <1>4, <1>5, <1>6
     DEF GetChildWalletsOrCreateOne, Provision, Call, StoreError, TokenIssued

\* linkChildWalletToParentWalletIfUnlinked
LEMMA LinkStep ==
    ASSUME WalletInv, LinkChildWalletToParentWalletIfUnlinked
    PROVE  WorkerDone
<1> PICK w : w = worker
  OBVIOUS
<1>1. TypeOK /\ StoredInv /\ WorkerKnows(w) /\ w \in Worker /\ At("link")
  BY DEF WalletInv, TypeOK, LinkChildWalletToParentWalletIfUnlinked, Provision
<1> /\ KnownParent(w.parent) /\ KnownChild(w.child, w.at)
    /\ w.parent.token \in Tokens /\ w.child.token \in Tokens
  <2>1. KnownParent(w.parent) /\ KnownChild(w.child, w.at)
    BY <1>1 DEF At, WorkerKnows, Provisioning, BeforeParent, WithChild
  <2>2. w.parent.token # 0 /\ w.child.token # 0
    BY <1>1, <2>1 DEF KnownParent, KnownChild, StoredInv
  <2>3. QED
    BY <1>1, <2>1, <2>2 DEF Worker, Parent, Child, Token
<1> KeptBy(intersolve, TokenLinked(w.parent.token, w.child.token))
  BY <1>1, EffectsKeep DEF KnownParent, Token
<1>2. /\ KeptBy(intersolve, intersolve') /\ UNCHANGED stored
      /\ faults' \in 0 .. MaxFaults
  BY <1>1, EffectsKeep, FaultsCounted
     DEF LinkChildWalletToParentWalletIfUnlinked, Provision, Call, StoreError
<1>3. StoredInv' /\ WorkerKnows(w)' /\ UNCHANGED <<customer, parent, children>>
  BY <1>1, <1>2, Remembered
<1>4. CASE StoreTransaction("error", worker.amount)
  BY <1>2, <1>4, FailedCall
<1>5. CASE Goto("card") /\ UNCHANGED transaction /\ w.child.linked
  <2>1. /\ worker' \in Worker /\ worker'.pc = "card"
        /\ worker'.payment = w.payment /\ worker'.parent = w.parent
        /\ worker'.child = w.child /\ worker'.at = w.at
    BY <1>1, <1>5, GotoMoves DEF WorkerPoints
  <2>2. WorkerKnows(worker)'
    BY <1>1, <1>3, <1>5, <2>1
       DEF At, WorkerKnows, Calculating, Provisioning, BeforeParent, BeforeChild,
           WithChild, KnownParent, KnownChild, ClaimsDone, StoredInv
  <2>3. QED
    BY <1>2, <1>5, <2>1, <2>2, GoneOn
<1>6. CASE /\ Goto("saveLinked") /\ intersolve' = TokenLinked(w.parent.token, w.child.token)
           /\ UNCHANGED transaction
  <2>1. /\ worker' \in Worker /\ worker'.pc = "saveLinked"
        /\ worker'.payment = w.payment /\ worker'.parent = w.parent
        /\ worker'.child = w.child /\ worker'.at = w.at
    BY <1>1, <1>6, GotoMoves DEF WorkerPoints
  <2>2. intersolve'.parentOf[w.child.token] = parent'.token
    BY <1>1, <1>3, <1>6 DEF TokenLinked, TypeOK, Intersolve, KnownParent
  <2>3. WorkerKnows(worker)'
    BY <1>1, <1>3, <1>6, <2>1, <2>2
       DEF At, WorkerKnows, Calculating, Provisioning, BeforeParent, BeforeChild,
           WithChild
  <2>4. QED
    BY <1>2, <1>6, <2>1, <2>3, GoneOn
<1>7. QED
  BY <1>4, <1>5, <1>6
     DEF LinkChildWalletToParentWalletIfUnlinked, Provision, Call, StoreError, TokenLinked

\* createDebitCardIfNotExists
LEMMA CardStep ==
    ASSUME WalletInv, CreateDebitCardIfNotExists
    PROVE  WorkerDone
<1> PICK w : w = worker
  OBVIOUS
<1>1. TypeOK /\ StoredInv /\ WorkerKnows(w) /\ w \in Worker /\ At("card")
  BY DEF WalletInv, TypeOK, CreateDebitCardIfNotExists, Provision
<1> /\ KnownParent(w.parent) /\ KnownChild(w.child, w.at)
    /\ w.parent.token \in Tokens /\ w.child.token \in Tokens
  <2>1. KnownParent(w.parent) /\ KnownChild(w.child, w.at)
    BY <1>1 DEF At, WorkerKnows, Provisioning, BeforeParent, WithChild
  <2>2. w.parent.token # 0 /\ w.child.token # 0
    BY <1>1, <2>1 DEF KnownParent, KnownChild, StoredInv
  <2>3. QED
    BY <1>1, <2>1, <2>2 DEF Worker, Parent, Child, Token
<1> KeptBy(intersolve, CardMade(w.child.token))
  BY <1>1, EffectsKeep DEF Token
<1>2. /\ KeptBy(intersolve, intersolve') /\ UNCHANGED stored
      /\ faults' \in 0 .. MaxFaults
  BY <1>1, EffectsKeep, FaultsCounted
     DEF CreateDebitCardIfNotExists, Provision, Call, StoreError
<1>3. StoredInv' /\ WorkerKnows(w)' /\ UNCHANGED <<customer, parent, children>>
  BY <1>1, <1>2, Remembered
<1>4. CASE StoreTransaction("error", worker.amount)
  BY <1>2, <1>4, FailedCall
<1>5. CASE Goto("transfer") /\ UNCHANGED transaction /\ w.child.card
  <2>1. /\ worker' \in Worker /\ worker'.pc = "transfer"
        /\ worker'.payment = w.payment /\ worker'.parent = w.parent
        /\ worker'.child = w.child /\ worker'.at = w.at
    BY <1>1, <1>5, GotoMoves DEF WorkerPoints
  <2>2. WorkerKnows(worker)'
    BY <1>1, <1>3, <1>5, <2>1
       DEF At, WorkerKnows, Calculating, Provisioning, BeforeParent, BeforeChild,
           WithChild, KnownParent, KnownChild, ClaimsDone, StoredInv
  <2>3. QED
    BY <1>2, <1>5, <2>1, <2>2, GoneOn
<1>6. CASE /\ Goto("saveCard") /\ intersolve' = CardMade(w.child.token)
           /\ UNCHANGED transaction
  <2>1. /\ worker' \in Worker /\ worker'.pc = "saveCard"
        /\ worker'.payment = w.payment /\ worker'.parent = w.parent
        /\ worker'.child = w.child /\ worker'.at = w.at
    BY <1>1, <1>6, GotoMoves DEF WorkerPoints
  <2>2. intersolve'.cards[w.child.token] > 0
    BY <1>1, <1>6 DEF CardMade, TypeOK, Intersolve
  <2>3. WorkerKnows(worker)'
    BY <1>1, <1>3, <1>6, <2>1, <2>2
       DEF At, WorkerKnows, Calculating, Provisioning, BeforeParent, BeforeChild,
           WithChild
  <2>4. QED
    BY <1>2, <1>6, <2>1, <2>3, GoneOn
<1>7. QED
  BY <1>4, <1>5, <1>6
     DEF CreateDebitCardIfNotExists, Provision, Call, StoreError, CardMade

\* The amount that is calculated is at most the amount of the payment.
LEMMA CalculatedAmountIsCapped ==
    ASSUME NEW balance \in Nat, NEW spent \in Nat
    PROVE  CalculateLimitedTransferAmount(balance, spent) \in 0 .. Amount
  BY AmountAssumption DEF CalculateLimitedTransferAmount, Smaller

\* A job starts with nothing in hand.
LEMMA IdleFields ==
    /\ IdleWorker \in Worker
    /\ IdleWorker.parent = NoParent
    /\ IdleWorker.child = NoChild
  BY IdleKnows DEF IdleWorker

\* What getToken reports changes nothing that a child wallet claims falsely.
LEMMA ReportedChild ==
    ASSUME NEW c \in Child
    PROVE  /\ AsReported(c) \in Child
           /\ AsReported(c).token = c.token
           /\ AsReported(c).linked = c.linked
           /\ AsReported(c).card = c.card
           /\ AsReported(c).substituted <=> c.token \in intersolve.substituted
           /\ AsReported(c).blocked <=> c.token \in intersolve.blocked
<1> PICK b \in BOOLEAN : b <=> c.token \in intersolve.blocked
  OBVIOUS
<1> PICK s \in BOOLEAN : s <=> c.token \in intersolve.substituted
  OBVIOUS
<1>1. (c.token \in intersolve.blocked) = b /\ (c.token \in intersolve.substituted) = s
  OBVIOUS
<1>2. AsReported(c) = [c EXCEPT !.blocked = b, !.substituted = s]
  BY <1>1 DEF AsReported
<1>3. QED
  BY <1>2 DEF Child

\* The start of a job.
LEMMA StartStep ==
    ASSUME WalletInv, NEW p \in Payments, StartJob(p)
    PROVE  WorkerDone
<1>1. TypeOK /\ StoredInv
  BY DEF WalletInv
<1>2. KeptBy(intersolve, intersolve') /\ UNCHANGED <<stored, transaction, faults>>
  BY <1>1, EffectsKeep DEF StartJob
<1>3. /\ worker' \in Worker /\ worker'.pc = "calculate"
      /\ worker'.payment = p
      /\ worker'.parent = NoParent /\ worker'.child = NoChild
  <2>1. Amount \in 0 .. Amount /\ p \in Payments \cup {0}
    BY AmountAssumption
  <2>2. worker' = [IdleWorker EXCEPT !.pc = "calculate", !.payment = p,
                                     !.amount = Amount]
    BY DEF StartJob
  <2>3. QED
    BY IdleFields, AmountAssumption, <2>1, <2>2 DEF Worker, WorkerPoints
<1>4. WorkerKnows(worker)'
  BY <1>3 DEF At, WorkerKnows, Calculating, Provisioning, BeforeParent, BeforeChild,
           WithChild
<1>5. QED
  BY <1>1, <1>2, <1>3, <1>4, GoneOn DEF TypeOK

\* calculateTransferAmountWithWalletRetrieval: the query.
LEMMA LoadStep ==
    ASSUME WalletInv, LoadForCalculation
    PROVE  WorkerDone
<1> PICK w : w = worker
  OBVIOUS
<1>1. TypeOK /\ StoredInv /\ WorkerKnows(w) /\ w \in Worker /\ At("calculate")
  BY DEF WalletInv, TypeOK, LoadForCalculation
<1>2. KeptBy(intersolve, intersolve') /\ UNCHANGED <<stored, transaction, faults>>
  BY <1>1, EffectsKeep DEF LoadForCalculation
<1>3. StoredInv' /\ WorkerKnows(w)' /\ UNCHANGED <<customer, parent, children>>
  BY <1>1, <1>2, Remembered
<1>4. CASE /\ ~customer
           /\ worker' = [worker EXCEPT !.pc = "customer",
                            !.amount = CalculateLimitedTransferAmount(0, 0)]
  <2>1. /\ worker' \in Worker /\ worker'.pc = "customer"
        /\ worker'.payment = w.payment /\ worker'.parent = w.parent
        /\ worker'.child = w.child /\ worker'.at = w.at
    BY <1>1, <1>4, CalculatedAmountIsCapped DEF Worker, WorkerPoints
  <2>2. WorkerKnows(worker)'
    BY <1>1, <1>3, <1>4, <2>1 DEF At, WorkerKnows, Calculating, Provisioning, BeforeParent, BeforeChild,
           WithChild
  <2>3. QED
    BY <1>1, <1>2, <2>1, <2>2, GoneOn DEF TypeOK
<1>5. CASE Goto("thrown")
  <2>1. /\ worker' \in Worker /\ worker'.pc = "thrown"
        /\ worker'.payment = w.payment /\ worker'.parent = w.parent
        /\ worker'.child = w.child /\ worker'.at = w.at
    BY <1>1, <1>5, GotoMoves DEF WorkerPoints
  <2>2. WorkerKnows(worker)'
    BY <1>1, <1>3, <2>1 DEF At, WorkerKnows, Calculating, Provisioning, BeforeParent, BeforeChild,
           WithChild
  <2>3. QED
    BY <1>1, <1>2, <2>1, <2>2, GoneOn DEF TypeOK
<1>6. ASSUME customer, parent # NoParent,
             NEW i \in IF children = << >> THEN {0} ELSE DOMAIN children,
             worker' = [worker EXCEPT !.pc = "balance", !.parent = parent,
                           !.wallets = Newest, !.at = i,
                           !.child = IF i = 0 THEN NoChild ELSE children[i]]
      PROVE  WorkerDone
  <2>1. children \in Seq(Child) /\ parent \in Parent
    BY <1>1 DEF TypeOK
  <2>2. Newest \in Nat /\ i \in Nat /\ (i # 0 => i \in DOMAIN children)
    <3>1. CASE children = << >>
      BY <1>6, <2>1, <3>1 DEF Newest
    <3>2. CASE children # << >>
      <4>1. i \in DOMAIN children
        BY <1>6, <3>2
      <4>2. QED
        BY <2>1, <4>1 DEF Newest
    <3>3. QED
      BY <3>1, <3>2
  <2>3. (IF i = 0 THEN NoChild ELSE children[i]) \in Child
    <3>1. NoChild \in Child
      BY DEF NoChild, NewChild, Child, Token
    <3>2. i # 0 => children[i] \in Child
      BY <2>1, <2>2
    <3>3. QED
      BY <3>1, <3>2
  <2>4. /\ worker' \in Worker /\ worker'.pc = "balance"
        /\ worker'.payment = w.payment /\ worker'.parent = parent
        /\ worker'.at = i /\ (i # 0 => worker'.child = children[i])
    BY <1>1, <1>6, <2>1, <2>2, <2>3 DEF Worker, WorkerPoints
  <2>5. KnownParent(parent)'
    BY <1>3, <1>6 DEF StoredInv
  <2>6. i # 0 => i \in DOMAIN children /\ ClaimsDone(children[i])'
    BY <1>3, <2>2 DEF StoredInv
  <2>7. KnownParent(worker.parent)'
    BY <1>3, <2>4, <2>5 DEF KnownParent
  <2>8. i # 0 => KnownChild(worker.child, worker.at)'
    BY <1>3, <2>4, <2>6 DEF KnownChild, ClaimsDone
  <2>9. WorkerKnows(worker)'
    BY <1>1, <1>3, <1>6, <2>4, <2>7, <2>8 DEF At, WorkerKnows, Calculating, Provisioning, BeforeParent, BeforeChild,
           WithChild
  <2>10. QED
    BY <1>1, <1>2, <2>4, <2>9, GoneOn DEF TypeOK
<1>7. QED
  BY <1>4, <1>5, <1>6 DEF LoadForCalculation

\* getToken of the parent wallet: its balance.
LEMMA BalanceStep ==
    ASSUME WalletInv, GetBalance
    PROVE  WorkerDone
<1> PICK w : w = worker
  OBVIOUS
<1>1. TypeOK /\ StoredInv /\ WorkerKnows(w) /\ w \in Worker /\ At("balance")
  BY DEF WalletInv, TypeOK, GetBalance
<1>2. /\ KeptBy(intersolve, intersolve') /\ UNCHANGED stored
      /\ faults' \in 0 .. MaxFaults
  BY <1>1, EffectsKeep, FaultsCounted DEF GetBalance, Query, Call, StoreCalculationError
<1>3. StoredInv' /\ WorkerKnows(w)' /\ UNCHANGED <<customer, parent, children>>
  BY <1>1, <1>2, Remembered
<1>4. CASE StoreTransaction("error", Amount)
  BY <1>2, <1>4, FailedCall
<1>5. CASE /\ UNCHANGED transaction /\ intersolve' = intersolve
           /\ worker' = [worker EXCEPT !.pc = "spent", !.balance = intersolve.balance]
  <2>1. /\ worker' \in Worker /\ worker'.pc = "spent"
        /\ worker'.payment = w.payment /\ worker'.parent = w.parent
        /\ worker'.child = w.child /\ worker'.at = w.at
    BY <1>1, <1>5 DEF Worker, WorkerPoints, TypeOK, Intersolve
  <2>2. WorkerKnows(worker)'
    BY <1>1, <1>3, <2>1
       DEF At, WorkerKnows, Calculating, Provisioning, BeforeParent, BeforeChild,
           WithChild
  <2>3. QED
    BY <1>2, <1>5, <2>1, <2>2, GoneOn
<1>6. QED
  BY <1>4, <1>5 DEF GetBalance, Query, Call, StoreCalculationError

\* getTransactionInformation: what was spent.
LEMMA SpentStep ==
    ASSUME WalletInv, GetSpentThisMonth
    PROVE  WorkerDone
<1> PICK w : w = worker
  OBVIOUS
<1>1. TypeOK /\ StoredInv /\ WorkerKnows(w) /\ w \in Worker /\ At("spent")
  BY DEF WalletInv, TypeOK, GetSpentThisMonth
<1>2. /\ KeptBy(intersolve, intersolve') /\ UNCHANGED stored
      /\ faults' \in 0 .. MaxFaults
  BY <1>1, EffectsKeep, FaultsCounted DEF GetSpentThisMonth, Query, Call, StoreCalculationError
<1>3. StoredInv' /\ WorkerKnows(w)' /\ UNCHANGED <<customer, parent, children>>
  BY <1>1, <1>2, Remembered
<1>4. CASE StoreTransaction("error", Amount)
  BY <1>2, <1>4, FailedCall
<1>5. CASE /\ UNCHANGED transaction /\ intersolve' = intersolve
           /\ worker' = [worker EXCEPT !.pc = "saveParent", !.amount =
                  CalculateLimitedTransferAmount(worker.balance, intersolve.spent)]
  <2> intersolve.spent \in Nat /\ worker.balance \in Nat
    BY <1>1 DEF TypeOK, Intersolve, Worker
  <2>1. /\ worker' \in Worker /\ worker'.pc = "saveParent"
        /\ worker'.payment = w.payment /\ worker'.parent = w.parent
        /\ worker'.child = w.child /\ worker'.at = w.at
    BY <1>1, <1>5, CalculatedAmountIsCapped DEF Worker, WorkerPoints
  <2>2. WorkerKnows(worker)'
    BY <1>1, <1>3, <2>1
       DEF At, WorkerKnows, Calculating, Provisioning, BeforeParent, BeforeChild,
           WithChild
  <2>3. QED
    BY <1>2, <1>5, <2>1, <2>2, GoneOn
<1>6. QED
  BY <1>4, <1>5 DEF GetSpentThisMonth, Query, Call, StoreCalculationError

\* getToken of the child wallet.
LEMMA GetChildStep ==
    ASSUME WalletInv, GetChild
    PROVE  WorkerDone
<1> PICK w : w = worker
  OBVIOUS
<1>1. TypeOK /\ StoredInv /\ WorkerKnows(w) /\ w \in Worker /\ At("getChild")
  BY DEF WalletInv, TypeOK, GetChild
<1>2. /\ KeptBy(intersolve, intersolve') /\ UNCHANGED stored
      /\ faults' \in 0 .. MaxFaults
  BY <1>1, EffectsKeep, FaultsCounted DEF GetChild, Query, Call, StoreCalculationError
<1>3. StoredInv' /\ WorkerKnows(w)' /\ UNCHANGED <<customer, parent, children>>
  BY <1>1, <1>2, Remembered
<1>4. CASE StoreTransaction("error", Amount)
  BY <1>2, <1>4, FailedCall
<1>5. CASE /\ UNCHANGED transaction /\ intersolve' = intersolve
           /\ worker' = [worker EXCEPT !.pc = "saveChild", !.child = AsReported(@)]
  <2> DEFINE c == AsReported(w.child)
  <2>1. /\ c \in Child /\ c.token = w.child.token
        /\ c.linked = w.child.linked /\ c.card = w.child.card
        /\ c.substituted => c.token \in intersolve.substituted
    BY <1>1, ReportedChild DEF Worker
  <2>2. KnownChild(w.child, w.at) /\ KnownParent(w.parent)
    BY <1>1 DEF At, WorkerKnows, Calculating
  <2>3. KnownChild(c, w.at)
    BY <2>1, <2>2 DEF KnownChild, ClaimsDone
  <2> HIDE DEF c
  <2>4. worker' = [worker EXCEPT !.pc = "saveChild", !.child = c]
    BY <1>5 DEF c
  <2>5. /\ worker' \in Worker /\ worker'.pc = "saveChild"
        /\ worker'.payment = w.payment /\ worker'.parent = w.parent
        /\ worker'.child = c /\ worker'.at = w.at
    BY <1>1, <2>1, <2>4 DEF Worker, WorkerPoints
  <2>6. KnownChild(worker.child, worker.at)'
    BY <1>3, <1>5, <2>3, <2>5 DEF KnownChild, ClaimsDone
  <2>7. WorkerKnows(worker)'
    BY <1>1, <1>3, <2>5, <2>6
       DEF At, WorkerKnows, Calculating, Provisioning, BeforeParent, BeforeChild,
           WithChild
  <2>8. QED
    BY <1>2, <1>5, <2>5, <2>7, GoneOn
<1>6. QED
  BY <1>4, <1>5 DEF GetChild, Query, Call, StoreCalculationError

\* A write of the worker.
LEMMA Written ==
    ASSUME WalletInv, Kept, StoredInv', UNCHANGED <<transaction, faults>>,
           worker' \in Worker, WorkerKnows(worker)'
    PROVE  WorkerDone
  BY DEF WalletInv, WorkerDone, TypeOK

\* retrieveAndUpdateParentWallet: save.
LEMMA RefreshedParentStep ==
    ASSUME WalletInv, SaveRefreshedParent
    PROVE  WorkerDone
<1> PICK w : w = worker
  OBVIOUS
<1>1. TypeOK /\ StoredInv /\ WorkerKnows(w) /\ w \in Worker /\ At("saveParent")
  BY DEF WalletInv, TypeOK, SaveRefreshedParent
<1>2. KnownParent(w.parent) /\ parent # NoParent /\ children' = children
      /\ intersolve' = intersolve /\ customer' = customer
  BY <1>1 DEF SaveRefreshedParent, At, WorkerKnows, Calculating, KnownParent
<1>3. Kept /\ StoredInv'
  <2>1. CASE parent' = parent
    BY <1>1, <1>2, <2>1, EffectsKeep, CallKeeps DEF stored
  <2>2. CASE parent' = w.parent
    BY <1>1, <1>2, <2>2, ParentSaved DEF Worker
  <2>3. QED
    BY <2>1, <2>2 DEF SaveRefreshedParent, SaveParent
<1>4. WorkerKnows(w)'
  BY <1>1, <1>2, <1>3, WorkerStays
<1>5. ASSUME NEW next \in {"thrown", "getChild"}, Goto(next),
             next = "getChild" => w.at # 0
      PROVE  WorkerDone
  <2>1. /\ worker' \in Worker /\ worker'.pc = next
        /\ worker'.payment = w.payment /\ worker'.parent = w.parent
        /\ worker'.child = w.child /\ worker'.at = w.at
    BY <1>1, <1>5, GotoMoves DEF WorkerPoints
  <2>2. WorkerKnows(worker)'
    BY <1>1, <1>4, <1>5, <2>1
       DEF At, WorkerKnows, Calculating, Provisioning, BeforeParent, BeforeChild,
           WithChild
  <2>3. QED
    BY <1>3, <2>1, <2>2, Written DEF SaveRefreshedParent
<1>6. QED
  BY <1>5 DEF SaveRefreshedParent, SaveParent

\* retrieveAndUpdateChildWallet: save.
LEMMA RefreshedChildStep ==
    ASSUME WalletInv, SaveRefreshedChild
    PROVE  WorkerDone
<1> PICK w : w = worker
  OBVIOUS
<1>1. TypeOK /\ StoredInv /\ WorkerKnows(w) /\ w \in Worker /\ At("saveChild")
  BY DEF WalletInv, TypeOK, SaveRefreshedChild
<1>2. /\ worker' \in Worker /\ worker'.pc = "customer"
      /\ worker'.payment = w.payment /\ worker'.parent = w.parent
      /\ worker'.child = w.child /\ worker'.at = w.at
  BY <1>1, GotoMoves DEF SaveRefreshedChild, WorkerPoints
<1>3. KnownChild(w.child, w.at) /\ children # << >> /\ children' # << >>
      /\ UNCHANGED <<intersolve, customer, parent>>
      /\ children' = [children EXCEPT ![w.at] = w.child]
  BY <1>1 DEF SaveRefreshedChild, At, WorkerKnows, Calculating, KnownChild, TypeOK
<1>4. Kept /\ StoredInv'
  BY <1>1, <1>3, ChildSaved DEF Worker
<1>5. WorkerKnows(w)'
  BY <1>1, <1>3, <1>4, WorkerStays
<1>6. customer'
  BY <1>1, <1>3 DEF StoredInv
<1>7. WorkerKnows(worker)'
  BY <1>1, <1>2, <1>5, <1>6
     DEF At, WorkerKnows, Calculating, Provisioning, BeforeParent, BeforeChild,
           WithChild
<1>8. QED
  BY <1>2, <1>4, <1>7, Written DEF SaveRefreshedChild

\* The end of a job that threw.
LEMMA EndThrownStep ==
    ASSUME WalletInv, EndThrown
    PROVE  WorkerDone
<1>1. TypeOK /\ StoredInv /\ worker' = IdleWorker
      /\ UNCHANGED <<intersolve, faults, transaction, stored>>
  BY DEF WalletInv, EndThrown
<1>2. KeptBy(intersolve, intersolve')
  BY <1>1, EffectsKeep
<1>3. WorkerKnows(worker)'
  BY <1>1, IdleKnows DEF WorkerKnows
<1>4. QED
  BY <1>1, <1>2, <1>3, IdleKnows, GoneOn DEF TypeOK

\* The transaction of a payment that went well.
LEMMA StoreSuccessStep ==
    ASSUME WalletInv, StoreSuccess
    PROVE  WorkerDone
  BY EffectsKeep, FailedCall DEF WalletInv, StoreSuccess, TypeOK

\* getCustomerOrCreate
LEMMA CustomerStep ==
    ASSUME WalletInv, GetCustomerOrCreate
    PROVE  WorkerDone
<1> PICK w : w = worker
  OBVIOUS
<1>1. TypeOK /\ StoredInv /\ WorkerKnows(w) /\ w \in Worker /\ At("customer")
  BY DEF WalletInv, TypeOK, GetCustomerOrCreate
<1>2. /\ KeptBy(intersolve, intersolve') /\ UNCHANGED stored
      /\ faults' \in 0 .. MaxFaults
  BY <1>1, EffectsKeep, FaultsCounted
     DEF GetCustomerOrCreate, Query, Call, StoreError, TypeOK
<1>3. StoredInv' /\ WorkerKnows(w)' /\ UNCHANGED <<customer, parent, children>>
  BY <1>1, <1>2, Remembered
<1>4. CASE StoreTransaction("error", worker.amount)
  BY <1>2, <1>4, FailedCall
<1>5. CASE Goto("saveCustomer") /\ UNCHANGED transaction /\ ~customer
  <2>1. /\ worker' \in Worker /\ worker'.pc = "saveCustomer"
        /\ worker'.payment = w.payment /\ worker'.parent = w.parent
        /\ worker'.child = w.child /\ worker'.at = w.at
    BY <1>1, <1>5, GotoMoves DEF WorkerPoints
  <2>2. WorkerKnows(worker)'
    BY <1>1, <1>3, <1>5, <2>1
       DEF At, WorkerKnows, Calculating, Provisioning, BeforeParent, BeforeChild,
           WithChild
  <2>3. QED
    BY <1>2, <1>5, <2>1, <2>2, GoneOn
<1>6. CASE /\ UNCHANGED transaction /\ customer
           /\ worker' = [worker EXCEPT !.pc = "parent", !.parent = parent,
                 !.at = Newest,
                 !.child = IF children = << >> THEN NoChild ELSE children[Newest]]
  <2> DEFINE c == IF children = << >> THEN NoChild ELSE children[Newest]
  <2>1. children \in Seq(Child) /\ parent \in Parent
    BY <1>1 DEF TypeOK
  <2>2. Newest \in Nat /\ (children # << >> => Newest \in DOMAIN children)
    BY <2>1 DEF Newest
  <2>3. c \in Child
    <3>1. NoChild \in Child
      BY DEF NoChild, NewChild, Child, Token
    <3>2. QED
      BY <2>1, <2>2, <3>1
  <2> HIDE DEF c
  <2>4. /\ worker' \in Worker /\ worker'.pc = "parent"
        /\ worker'.payment = w.payment /\ worker'.parent = parent
        /\ worker'.at = Newest /\ worker'.child = c
    BY <1>1, <1>6, <2>1, <2>2, <2>3 DEF Worker, WorkerPoints, c
  <2>5. parent # NoParent => KnownParent(parent)'
    BY <1>3 DEF StoredInv
  <2>6. parent # NoParent => KnownParent(worker.parent)'
    BY <1>3, <2>4, <2>5 DEF KnownParent
  <2>7. children # << >> => KnownChild(worker.child, worker.at)'
    <3>1. children # << >> => c = children[Newest] /\ Newest \in DOMAIN children
      BY <2>2 DEF c
    <3>2. children # << >> => ClaimsDone(children[Newest])'
      <4> SUFFICES ASSUME children # << >>
                   PROVE  ClaimsDone(children[Newest])'
        OBVIOUS
      <4> PICK i : i = Newest /\ i \in DOMAIN children /\ i \in DOMAIN children'
        BY <1>3, <2>2
      <4>1. ClaimsDone(children[i])'
        BY <1>3 DEF StoredInv
      <4>2. Newest' = i
        BY <1>3 DEF Newest
      <4>3. QED
        BY <4>1, <4>2 DEF ClaimsDone
    <3>3. Newest' = Newest
      BY <1>3 DEF Newest
    <3>4. QED
      BY <1>3, <2>4, <3>1, <3>2, <3>3 DEF KnownChild, ClaimsDone
  <2>8. children = << >> => worker'.child = NoChild
    BY <2>4 DEF c
  <2>9. WorkerKnows(worker)'
    BY <1>1, <1>3, <1>6, <2>4, <2>6, <2>7, <2>8
       DEF At, WorkerKnows, Calculating, Provisioning, BeforeParent, BeforeChild,
           WithChild
  <2>10. QED
    BY <1>2, <1>6, <2>4, <2>9, GoneOn
<1>7. QED
  BY <1>4, <1>5, <1>6 DEF GetCustomerOrCreate, Query, Call, StoreError

\* The customer is stored.
LEMMA SaveCustomerStep ==
    ASSUME WalletInv, SaveCustomer
    PROVE  WorkerDone
<1> PICK w : w = worker
  OBVIOUS
<1>1. TypeOK /\ StoredInv /\ WorkerKnows(w) /\ w \in Worker /\ At("saveCustomer")
  BY DEF WalletInv, TypeOK, SaveCustomer
<1>2. /\ worker' \in Worker /\ worker'.pc = "parent"
      /\ worker'.payment = w.payment /\ worker'.parent = w.parent
      /\ worker'.child = w.child /\ worker'.at = w.at
  BY <1>1, GotoMoves DEF SaveCustomer, WorkerPoints
<1>3. UNCHANGED <<intersolve, parent, children>> /\ customer' = TRUE
  BY DEF SaveCustomer
<1>4. ~customer /\ parent = NoParent /\ children = << >>
      /\ w.parent = NoParent /\ w.child = NoChild
  BY <1>1 DEF At, WorkerKnows, StoredInv
<1>5. WalletsKept /\ StoredInv'
  BY <1>1, <1>3, <1>4 DEF WalletsKept, TypeOK, StoredInv
<1>6. Kept
  BY <1>1, <1>3, <1>5, WriteKeeps
<1>7. WorkerKnows(worker)'
  BY <1>1, <1>2, <1>3, <1>4
     DEF At, WorkerKnows, Calculating, Provisioning, BeforeParent, BeforeChild,
           WithChild
<1>8. QED
  BY <1>2, <1>5, <1>6, <1>7, Written DEF SaveCustomer

\* The first save() of the parent wallet.
LEMMA NewParentStep ==
    ASSUME WalletInv, SaveNewParent
    PROVE  WorkerDone
<1> PICK w : w = worker
  OBVIOUS
<1>1. TypeOK /\ StoredInv /\ WorkerKnows(w) /\ w \in Worker /\ At("saveNewParent")
  BY DEF WalletInv, TypeOK, SaveNewParent, SaveNewParentAs
<1> DEFINE p == [token |-> w.token, linked |-> FALSE]
<1>2. parent = NoParent /\ w.token # 0 /\ children = << >> /\ customer
      /\ w.child = NoChild
  BY <1>1 DEF At, WorkerKnows, BeforeChild, BeforeParent, Provisioning, StoredInv,
              KnownChild
<1>3. /\ UNCHANGED <<intersolve, customer, children, transaction, faults>>
      /\ parent' = p /\ worker' = [worker EXCEPT !.pc = "register", !.parent = p]
  BY DEF SaveNewParent, SaveNewParentAs
<1>4. p \in Parent /\ p.token = w.token /\ ~p.linked /\ p # NoParent
  BY <1>1, <1>2 DEF Worker, Parent, NoParent
<1> HIDE DEF p
<1>5. WalletsKept
  BY <1>1, <1>2, <1>3, <1>4 DEF WalletsKept, TypeOK
<1>6. Kept
  BY <1>1, <1>3, <1>5, WriteKeeps
<1>7. KnownParent(parent)' /\ parent'.token # 0
  BY <1>2, <1>3, <1>4 DEF KnownParent
<1>8. StoredInv'
  BY <1>1, <1>2, <1>3, <1>7 DEF StoredInv
<1>9. /\ worker' \in Worker /\ worker'.pc = "register"
      /\ worker'.payment = w.payment /\ worker'.parent = parent'
      /\ worker'.child = w.child /\ worker'.at = w.at
  BY <1>1, <1>3, <1>4 DEF Worker, WorkerPoints
<1>10. KnownParent(worker.parent)'
  BY <1>7, <1>9 DEF KnownParent
<1>11. WorkerKnows(worker)'
  BY <1>1, <1>2, <1>3, <1>9, <1>10
     DEF At, WorkerKnows, Calculating, Provisioning, BeforeParent, BeforeChild,
           WithChild
<1>12. QED
  BY <1>3, <1>6, <1>8, <1>9, <1>11, Written

\* The holder is registered: update of the parent wallet.
LEMMA RegisteredStep ==
    ASSUME WalletInv, SaveRegistered
    PROVE  WorkerDone
<1> PICK w : w = worker
  OBVIOUS
<1>1. TypeOK /\ StoredInv /\ WorkerKnows(w) /\ w \in Worker /\ At("saveRegistered")
  BY DEF WalletInv, TypeOK, SaveRegistered
<1>2. /\ worker' \in Worker /\ worker'.pc = "child"
      /\ worker'.payment = w.payment /\ worker'.parent = w.parent
      /\ worker'.child = w.child /\ worker'.at = w.at
  BY <1>1, GotoMoves DEF SaveRegistered, WorkerPoints
<1> DEFINE p == [parent EXCEPT !.linked = TRUE]
<1>3. KnownParent(w.parent) /\ w.parent.token \in intersolve.registered
  BY <1>1 DEF At, WorkerKnows, Provisioning, BeforeParent, BeforeChild
<1>4. p \in Parent /\ p.token = parent.token
  BY <1>1 DEF TypeOK, Parent
<1> HIDE DEF p
<1>5. KnownParent(p)
  BY <1>3, <1>4 DEF KnownParent
<1>6. /\ UNCHANGED <<intersolve, customer, children, transaction, faults>>
      /\ parent' = p
  BY DEF SaveRegistered, p
<1>7. Kept /\ StoredInv'
  BY <1>1, <1>4, <1>5, <1>6, ParentSaved
<1>8. WorkerKnows(w)'
  BY <1>1, <1>3, <1>6, <1>7, WorkerStays DEF KnownParent
<1>9. WorkerKnows(worker)'
  BY <1>1, <1>2, <1>3, <1>6, <1>8
     DEF At, WorkerKnows, Calculating, Provisioning, BeforeParent, BeforeChild,
           WithChild
<1>10. QED
  BY <1>2, <1>6, <1>7, <1>9, Written

\* The first save() of the child wallet.
LEMMA NewChildStep ==
    ASSUME WalletInv, SaveNewChild
    PROVE  WorkerDone
<1> PICK w : w = worker
  OBVIOUS
<1>1. TypeOK /\ StoredInv /\ WorkerKnows(w) /\ w \in Worker /\ At("saveNewChild")
  BY DEF WalletInv, TypeOK, SaveNewChild
<1> DEFINE c == NewChild(w.token)
<1>2. /\ children = << >> /\ w.token # 0 /\ customer
      /\ KnownParent(w.parent)
      /\ w.parent.token \in intersolve.registered
  BY <1>1 DEF At, WorkerKnows, BeforeChild, BeforeParent, Provisioning
<1>3. /\ UNCHANGED <<intersolve, customer, parent, transaction, faults>>
      /\ children' = Append(children, c)
      /\ worker' = [worker EXCEPT !.pc = "link", !.at = Newest + 1, !.child = c]
  BY DEF SaveNewChild
<1>4. c \in Child /\ c.token = w.token /\ ~c.linked /\ ~c.card /\ ~c.substituted
  BY <1>1 DEF Worker, Child, NewChild
<1> HIDE DEF c
<1>5. ClaimsDone(c)
  BY <1>4 DEF ClaimsDone
<1>6. /\ Kept /\ StoredInv'
      /\ Newest + 1 \in DOMAIN children'
      /\ children'[Newest + 1] = c
  BY <1>1, <1>2, <1>3, <1>4, <1>5, ChildAdded DEF KnownParent
<1>7. PICK n \in Nat : n = Newest + 1
  BY <1>1 DEF TypeOK, Newest
<1>8. /\ worker' \in Worker /\ worker'.pc = "link"
      /\ worker'.payment = w.payment /\ worker'.parent = w.parent
      /\ worker'.child = c /\ worker'.at = n
  <2>1. worker' = [w EXCEPT !.pc = "link", !.at = n, !.child = c]
    BY <1>3, <1>7
  <2>2. QED
    BY <1>1, <1>4, <1>7, <2>1 DEF Worker, WorkerPoints
<1>9. KnownChild(worker.child, worker.at)'
  BY <1>3, <1>5, <1>6, <1>7, <1>8 DEF KnownChild, ClaimsDone
<1>10. KnownParent(worker.parent)'
  BY <1>2, <1>3, <1>8 DEF KnownParent
<1>11. WorkerKnows(worker)'
  BY <1>1, <1>2, <1>3, <1>8, <1>9, <1>10
     DEF At, WorkerKnows, Calculating, Provisioning, BeforeParent, BeforeChild,
           WithChild
<1>12. QED
  BY <1>3, <1>6, <1>8, <1>11, Written

\* The child wallet is linked: save.
LEMMA LinkedStep ==
    ASSUME WalletInv, SaveLinked
    PROVE  WorkerDone
<1> PICK w : w = worker
  OBVIOUS
<1>1. TypeOK /\ StoredInv /\ WorkerKnows(w) /\ w \in Worker /\ At("saveLinked")
  BY DEF WalletInv, TypeOK, SaveLinked
<1>2. /\ worker' \in Worker /\ worker'.pc = "card"
      /\ worker'.payment = w.payment /\ worker'.parent = w.parent
      /\ worker'.child = w.child /\ worker'.at = w.at
  BY <1>1, GotoMoves DEF SaveLinked, WorkerPoints
<1>3. KnownChild(w.child, w.at) /\ children \in Seq(Child)
      /\ (Reissues = {} => intersolve.parentOf[w.child.token] = parent.token)
  BY <1>1 DEF At, WorkerKnows, WithChild, TypeOK
<1> DEFINE c == [children[w.at] EXCEPT !.linked = TRUE]
<1>4. /\ UNCHANGED <<intersolve, customer, parent, transaction, faults>>
      /\ children' = [children EXCEPT ![w.at] = c]
  BY DEF SaveLinked
<1>5. /\ w.at \in DOMAIN children /\ children[w.at] \in Child
      /\ children[w.at].token = w.child.token /\ ClaimsDone(children[w.at])
  BY <1>1, <1>3 DEF KnownChild, StoredInv
<1>6. c \in Child /\ c.token = w.child.token
  BY <1>5 DEF Child
<1>7. KnownChild(c, w.at)
  BY <1>3, <1>5 DEF KnownChild, ClaimsDone, Child
<1> HIDE DEF c
<1>8. Kept /\ StoredInv'
  BY <1>1, <1>4, <1>6, <1>7, ChildSaved
<1>9. children # << >>
  BY <1>5
<1>10. WorkerKnows(w)'
  BY <1>1, <1>4, <1>8, <1>9, WorkerStays
<1>11. WorkerKnows(worker)'
  BY <1>1, <1>2, <1>4, <1>10
     DEF At, WorkerKnows, Calculating, Provisioning, BeforeParent, BeforeChild,
           WithChild
<1>12. QED
  BY <1>2, <1>4, <1>8, <1>11, Written

\* The card is made: save.
LEMMA CardMadeStep ==
    ASSUME WalletInv, SaveCard
    PROVE  WorkerDone
<1> PICK w : w = worker
  OBVIOUS
<1>1. TypeOK /\ StoredInv /\ WorkerKnows(w) /\ w \in Worker /\ At("saveCard")
  BY DEF WalletInv, TypeOK, SaveCard
<1>2. /\ worker' \in Worker /\ worker'.pc = "transfer"
      /\ worker'.payment = w.payment /\ worker'.parent = w.parent
      /\ worker'.child = w.child /\ worker'.at = w.at
  BY <1>1, GotoMoves DEF SaveCard, WorkerPoints
<1>3. KnownChild(w.child, w.at) /\ children \in Seq(Child)
      /\ intersolve.cards[w.child.token] > 0
  BY <1>1 DEF At, WorkerKnows, WithChild, TypeOK
<1> DEFINE c == [children[w.at] EXCEPT !.card = TRUE]
<1>4. /\ UNCHANGED <<intersolve, customer, parent, transaction, faults>>
      /\ children' = [children EXCEPT ![w.at] = c]
  BY DEF SaveCard
<1>5. /\ w.at \in DOMAIN children /\ children[w.at] \in Child
      /\ children[w.at].token = w.child.token /\ ClaimsDone(children[w.at])
  BY <1>1, <1>3 DEF KnownChild, StoredInv
<1>6. c \in Child /\ c.token = w.child.token
  BY <1>5 DEF Child
<1>7. KnownChild(c, w.at)
  BY <1>3, <1>5 DEF KnownChild, ClaimsDone, Child
<1> HIDE DEF c
<1>8. Kept /\ StoredInv'
  BY <1>1, <1>4, <1>6, <1>7, ChildSaved
<1>9. children # << >>
  BY <1>5
<1>10. WorkerKnows(w)'
  BY <1>1, <1>4, <1>8, <1>9, WorkerStays
<1>11. WorkerKnows(worker)'
  BY <1>1, <1>2, <1>4, <1>10
     DEF At, WorkerKnows, Calculating, Provisioning, BeforeParent, BeforeChild,
           WithChild
<1>12. QED
  BY <1>2, <1>4, <1>8, <1>11, Written

\* The transfer.
LEMMA TransferStep ==
    ASSUME WalletInv, DoTransfer
    PROVE  WorkerDone
<1> PICK w : w = worker
  OBVIOUS
<1>1. TypeOK /\ StoredInv /\ WorkerKnows(w) /\ w \in Worker /\ At("transfer")
  BY DEF WalletInv, TypeOK, DoTransfer, TransferUnless
<1>2. KeptBy(intersolve, intersolve)
  BY <1>1, EffectsKeep
<1>3. worker.amount > 0 => KeptBy(intersolve, MoneyTransferred)
  <2> DEFINE t == [payment |-> worker.payment, namespace |-> Namespace,
                   amount |-> worker.amount, to |-> worker.parent.token]
  <2> SUFFICES ASSUME worker.amount > 0
               PROVE  KeptBy(intersolve, MoneyTransferred)
    OBVIOUS
  <2>1. worker.payment \in Payments /\ worker.parent.token \in Token
    BY <1>1 DEF At, WorkerKnows, Worker, Parent
  <2>2. worker.amount \in 1 .. Amount
    BY <1>1, AmountAssumption DEF Worker
  <2>3. Namespace \in 0 .. MaxCrashes
    BY <1>1, BoundsAssumption DEF TypeOK, Namespace
  <2>4. t \in Transfer
    BY <2>1, <2>2, <2>3 DEF Transfer
  <2> HIDE DEF t
  <2>5. MoneyTransferred = [intersolve EXCEPT !.balance = @ + worker.amount,
                                              !.transfers = @ \cup {t}]
    BY DEF MoneyTransferred, t
  <2>6. intersolve \in Intersolve /\ intersolve.balance + worker.amount \in Nat
    BY <1>1, <2>2 DEF TypeOK, Intersolve
  <2>7. MoneyTransferred \in Intersolve
    BY <2>4, <2>5, <2>6 DEF Intersolve
  <2>8. QED
    BY <2>5, <2>6, <2>7 DEF KeptBy, Intersolve
<1>4. /\ KeptBy(intersolve, intersolve') /\ UNCHANGED stored
      /\ faults' \in 0 .. MaxFaults
  BY <1>1, <1>2, <1>3, FaultsCounted
     DEF DoTransfer, TransferUnless, Refused, Call, StoreError, TypeOK
<1>5. StoredInv' /\ WorkerKnows(w)' /\ UNCHANGED <<customer, parent, children>>
  BY <1>1, <1>4, Remembered
<1>6. CASE StoreTransaction("error", worker.amount)
  BY <1>4, <1>6, FailedCall
<1>7. CASE Goto("store") /\ UNCHANGED transaction
  <2>1. /\ worker' \in Worker /\ worker'.pc = "store"
        /\ worker'.payment = w.payment /\ worker'.parent = w.parent
        /\ worker'.child = w.child /\ worker'.at = w.at
    BY <1>1, <1>7, GotoMoves DEF WorkerPoints
  <2>2. WorkerKnows(worker)'
    BY <1>1, <1>5, <2>1
       DEF At, WorkerKnows, Calculating, Provisioning, BeforeParent, BeforeChild,
           WithChild
  <2>3. QED
    BY <1>4, <1>7, <2>1, <2>2, GoneOn
<1>8. QED
  BY <1>6, <1>7 DEF DoTransfer, TransferUnless, Refused, Call, StoreError

\* Every step of the worker keeps the invariant.
LEMMA WorkerKeepsWallets ==
    ASSUME WalletInv, WorkerStep
    PROVE  WalletInv'
<1>1. CASE \E p \in Payments : StartJob(p)
  BY <1>1, StartStep, WorkerDoneSuffices DEF StartJob
<1>2. CASE CalculateTransferAmountWithWalletRetrieval
  <2>1. WorkerDone
    BY <1>2, LoadStep, BalanceStep, SpentStep, RefreshedParentStep, GetChildStep,
       RefreshedChildStep DEF CalculateTransferAmountWithWalletRetrieval
  <2>2. UNCHANGED unchangedByWorker
    BY <1>2 DEF CalculateTransferAmountWithWalletRetrieval, LoadForCalculation,
                GetBalance, GetSpentThisMonth, SaveRefreshedParent, GetChild,
                SaveRefreshedChild
  <2>3. QED
    BY <2>1, <2>2, WorkerDoneSuffices
<1>3. CASE DoTransferOrIssueCard
  <2>1. WorkerDone
    BY <1>3, CustomerStep, SaveCustomerStep, ParentStep, NewParentStep,
       RegisterStep, RegisteredStep, ChildStep, NewChildStep, LinkStep, LinkedStep,
       CardStep, CardMadeStep, TransferStep DEF DoTransferOrIssueCard
  <2>2. UNCHANGED unchangedByWorker
    BY <1>3 DEF DoTransferOrIssueCard, GetCustomerOrCreate, SaveCustomer,
                GetParentWalletOrCreate, SaveNewParent, SaveNewParentAs,
                LinkParentWalletToCustomerIfUnlinked, SaveRegistered,
                GetChildWalletsOrCreateOne, SaveNewChild,
                LinkChildWalletToParentWalletIfUnlinked, SaveLinked,
                CreateDebitCardIfNotExists, SaveCard, DoTransfer, TransferUnless,
                Provision
  <2>3. QED
    BY <2>1, <2>2, WorkerDoneSuffices
<1>4. CASE StoreSuccess \/ EndThrown
  BY <1>4, StoreSuccessStep, EndThrownStep, WorkerDoneSuffices
     DEF StoreSuccess, EndThrown
<1>5. QED
  BY <1>1, <1>2, <1>3, <1>4 DEF WorkerStep

-----------------------------------------------------------------------------
(* The steps of the requests.                                              *)

\* What a step of a request has to establish about the tables.
TablesDone ==
    /\ Kept
    /\ StoredInv'
    /\ UNCHANGED <<customer, transaction, worker, crashes>>
    /\ faults' \in 0 .. MaxFaults
    /\ parent = NoParent => parent' = NoParent
    /\ children = << >> => children' = << >>

LEMMA TablesDoneSuffices ==
    ASSUME WalletInv, TablesDone, RequestsKnow',
           refresh' \in [Refreshes -> Refresh], reissue' \in [Reissues -> Reissue],
           pause' \in [Pauses -> Pause]
    PROVE  WalletInv'
<1>1. /\ TypeOK /\ StoredInv /\ WorkerKnows(worker) /\ worker' = worker
      /\ Kept /\ customer' = customer
  BY DEF WalletInv, TablesDone
<1>2. TypeOK'
  BY <1>1 DEF TypeOK, TablesDone, Kept, KeptBy, WalletsKept
<1>3. WorkerKnows(worker)'
  <2> PICK w : w = worker
    OBVIOUS
  <2>1. WorkerKnows(w)'
    BY <1>1, WorkerStays DEF TablesDone
  <2>2. QED
    BY <1>1, <2>1
<1>4. QED
  BY <1>2, <1>3 DEF WalletInv, TablesDone, RequestsKnow

\* One refresh, one reissue or one pausing is somewhere else.
LEMMA RefreshDone ==
    ASSUME WalletInv, TablesDone, UNCHANGED <<reissue, pause>>,
           NEW r \in Refreshes, NEW f \in Refresh, RefreshKnows(f)',
           refresh' = [refresh EXCEPT ![r] = f]
    PROVE  WalletInv'
<1>1. TypeOK /\ StoredInv /\ RequestsKnow /\ Kept
  BY DEF WalletInv, TablesDone, RequestsKnow
<1>2. refresh' \in [Refreshes -> Refresh]
  BY <1>1 DEF TypeOK
<1>3. ASSUME NEW q \in Refreshes
      PROVE  RefreshKnows(refresh[q])'
  <2> PICK g : g = refresh[q]
    OBVIOUS
  <2>1. CASE q = r
    BY <1>1, <2>1 DEF TypeOK
  <2>2. CASE q # r
    <3>1. RefreshKnows(g)'
      BY <1>1, RefreshStays DEF RequestsKnow
    <3>2. QED
      BY <1>1, <2>2, <3>1 DEF TypeOK
  <2>3. QED
    BY <2>1, <2>2
<1>4. RequestsKnow'
  BY <1>1, <1>3, RequestsStay DEF RequestsKnow
<1>5. QED
  BY <1>1, <1>2, <1>4, TablesDoneSuffices DEF TypeOK

LEMMA ReissueDone ==
    ASSUME WalletInv, TablesDone, UNCHANGED <<refresh, pause>>,
           NEW r \in Reissues, NEW x \in Reissue, ReissueKnows(x)',
           reissue' = [reissue EXCEPT ![r] = x]
    PROVE  WalletInv'
<1>1. TypeOK /\ StoredInv /\ RequestsKnow /\ Kept
  BY DEF WalletInv, TablesDone, RequestsKnow
<1>2. reissue' \in [Reissues -> Reissue]
  BY <1>1 DEF TypeOK
<1>3. ASSUME NEW q \in Reissues
      PROVE  ReissueKnows(reissue[q])'
  <2> PICK g : g = reissue[q]
    OBVIOUS
  <2>1. CASE q = r
    BY <1>1, <2>1 DEF TypeOK
  <2>2. CASE q # r
    <3>1. ReissueKnows(g)'
      BY <1>1, ReissueStays DEF RequestsKnow, TypeOK
    <3>2. QED
      BY <1>1, <2>2, <3>1 DEF TypeOK
  <2>3. QED
    BY <2>1, <2>2
<1>4. RequestsKnow'
  BY <1>1, <1>3, RequestsStay DEF RequestsKnow
<1>5. QED
  BY <1>1, <1>2, <1>4, TablesDoneSuffices DEF TypeOK

LEMMA PauseDone ==
    ASSUME WalletInv, TablesDone, UNCHANGED <<refresh, reissue>>,
           NEW r \in Pauses, NEW x \in Pause, PauseKnows(x)',
           pause' = [pause EXCEPT ![r] = x]
    PROVE  WalletInv'
<1>1. TypeOK /\ StoredInv /\ RequestsKnow /\ Kept
  BY DEF WalletInv, TablesDone, RequestsKnow
<1>2. pause' \in [Pauses -> Pause]
  BY <1>1 DEF TypeOK
<1>3. ASSUME NEW q \in Pauses
      PROVE  PauseKnows(pause[q])'
  <2> PICK g : g = pause[q]
    OBVIOUS
  <2>1. CASE q = r
    BY <1>1, <2>1 DEF TypeOK
  <2>2. CASE q # r
    <3>1. PauseKnows(g)'
      BY <1>1, PauseStays DEF RequestsKnow
    <3>2. QED
      BY <1>1, <2>2, <3>1 DEF TypeOK
  <2>3. QED
    BY <2>1, <2>2
<1>4. RequestsKnow'
  BY <1>1, <1>3, RequestsStay DEF RequestsKnow
<1>5. QED
  BY <1>1, <1>2, <1>4, TablesDoneSuffices DEF TypeOK

\* A call of a request.
LEMMA CallDone ==
    ASSUME WalletInv, KeptBy(intersolve, intersolve'), UNCHANGED stored,
           UNCHANGED <<transaction, worker, crashes>>, faults' \in 0 .. MaxFaults
    PROVE  TablesDone
<1>1. TypeOK /\ StoredInv /\ UNCHANGED <<customer, parent, children>>
  BY DEF WalletInv, stored
<1>2. QED
  BY <1>1, CallKeeps DEF TablesDone

-----------------------------------------------------------------------------
(* A refresh.                                                              *)

LEMMA RefreshEnds ==
    ASSUME WalletInv, TablesDone, UNCHANGED <<reissue, pause>>,
           NEW r \in Refreshes, RefreshTo(r, "done")
    PROVE  WalletInv'
<1> PICK f : f = [refresh[r] EXCEPT !.pc = "done"]
  OBVIOUS
<1>1. refresh[r] \in Refresh
  BY DEF WalletInv, TypeOK
<1>2. f \in Refresh /\ f.pc = "done"
  BY <1>1 DEF Refresh, RefreshPoints
<1>3. refresh' = [refresh EXCEPT ![r] = f]
  BY DEF RefreshTo
<1>4. RefreshKnows(f)'
  BY <1>2 DEF RefreshKnows
<1>5. QED
  BY <1>2, <1>3, <1>4, RefreshDone

\* What a refresh has to do are places of stored wallets.
LEMMA TodoIsKnown ==
    ASSUME TypeOK, NEW order \in SetToSeqs(Places),
           NEW todo \in {<< 0 >> \o order, order \o << 0 >>}
    PROVE  /\ todo \in Seq(Nat) /\ todo # << >>
           /\ \A k \in DOMAIN todo : todo[k] = 0 \/ todo[k] \in DOMAIN children
<1>1. children \in Seq(Child) /\ DOMAIN children = 1 .. Len(children)
      /\ Len(children) \in Nat
  BY DEF TypeOK
<1>2. Places \in SUBSET (1 .. Len(children))
  BY <1>1 DEF Places
<1>3. IsFiniteSet(1 .. Len(children))
  BY <1>1, FS_Interval
<1>4. IsFiniteSet(Places)
  BY <1>2, <1>3, FS_Subset
<1>5. PICK n \in Nat : n = Cardinality(Places)
  BY <1>4, FS_CardinalityType
<1>6. order \in [1 .. n -> Places]
  BY <1>5 DEF SetToSeqs
<1>7. order \in Seq(Nat)
  <2>1. \A i \in 1 .. Len(children) : i \in Nat
    BY <1>1
  <2>2. order \in [1 .. n -> Nat]
    BY <1>2, <1>6, <2>1
  <2>3. QED
    BY <2>2
<1>8. Len(order) = n
  BY <1>5, <1>6, <1>7
<1>9. \A k \in 1 .. Len(order) : order[k] \in DOMAIN children
  BY <1>1, <1>2, <1>6, <1>8
<1> HIDE DEF TypeOK
<1>10. CASE todo = << 0 >> \o order
  BY <1>7, <1>9, <1>10
<1>11. CASE todo = order \o << 0 >>
  BY <1>7, <1>9, <1>11
<1>12. QED
  BY <1>10, <1>11

LEMMA LoadWalletsStep ==
    ASSUME WalletInv, NEW r \in Refreshes, LoadWallets(r)
    PROVE  WalletInv'
<1>1. TypeOK /\ StoredInv
  BY DEF WalletInv
<1>2. TablesDone /\ UNCHANGED <<reissue, pause, intersolve, parent, children>>
  <2>1. KeptBy(intersolve, intersolve)
    BY <1>1, EffectsKeep
  <2>2. QED
    BY <1>1, <2>1, CallDone DEF LoadWallets, unchangedByRefresh, stored, TypeOK
<1>3. CASE RefreshTo(r, "done")
  BY <1>2, <1>3, RefreshEnds
<1>4. ASSUME parent # NoParent,
             NEW order \in SetToSeqs(Places),
             NEW todo \in {<< 0 >> \o order, order \o << 0 >>},
             refresh' = [refresh EXCEPT ![r] =
                 [pc |-> "get", parent |-> parent, children |-> children,
                  todo |-> todo]]
      PROVE  WalletInv'
  <2> PICK p, cs : p = parent /\ cs = children
    OBVIOUS
  <2> DEFINE f == [pc |-> "get", parent |-> p, children |-> cs, todo |-> todo]
  <2>1. /\ todo \in Seq(Nat) /\ todo # << >>
        /\ \A k \in DOMAIN todo : todo[k] = 0 \/ todo[k] \in DOMAIN children
    BY <1>1, TodoIsKnown
  <2>2. f \in Refresh
    BY <1>1, <2>1 DEF TypeOK, Refresh, RefreshPoints
  <2>3. refresh' = [refresh EXCEPT ![r] = f]
    BY <1>4
  <2>4. KnownParent(p)
    BY <1>1, <1>4 DEF StoredInv
  <2>5. \A i \in DOMAIN cs : KnownChild(cs[i], i)
    BY <1>1 DEF StoredInv, KnownChild
  <2>6. RefreshKnows(f)
    BY <2>1, <2>4, <2>5 DEF RefreshKnows
  <2> HIDE DEF f
  <2>7. RefreshKnows(f)'
    BY <1>1, <1>2, <2>6, RefreshStays DEF TablesDone
  <2>8. QED
    BY <1>2, <2>2, <2>3, <2>7, RefreshDone
<1>5. QED
  BY <1>3, <1>4 DEF LoadWallets

LEMMA GetWalletStep ==
    ASSUME WalletInv, NEW r \in Refreshes, GetWallet(r)
    PROVE  WalletInv'
<1> PICK f : f = refresh[r]
  OBVIOUS
<1> DEFINE at == Head(f.todo)
<1>1. TypeOK /\ StoredInv /\ f \in Refresh /\ RefreshKnows(f) /\ f.pc = "get"
  BY DEF WalletInv, TypeOK, GetWallet
<1>2. TablesDone /\ UNCHANGED <<reissue, pause, parent, children>>
  <2>1. KeptBy(intersolve, intersolve') /\ faults' \in 0 .. MaxFaults
    BY <1>1, EffectsKeep, FaultsCounted DEF GetWallet, Query, Call
  <2>2. QED
    BY <2>1, CallDone DEF GetWallet, unchangedByRefresh, stored
<1>3. CASE RefreshTo(r, "done")
  BY <1>2, <1>3, RefreshEnds
<1>4. CASE refresh' = [refresh EXCEPT
                 ![r].pc = "save",
                 ![r].children = Reported(refresh[r].children, at)]
  <2> DEFINE cs == Reported(f.children, at)
  <2>1. /\ f.children \in Seq(Child)
        /\ at = 0 \/ at \in DOMAIN f.children
    BY <1>1 DEF RefreshKnows, Refresh
  <2>2. ASSUME NEW i \in DOMAIN f.children
        PROVE  /\ f.children[i] \in Child
               /\ AsReported(f.children[i]) \in Child
               /\ KnownChild(f.children[i], i)
               /\ KnownChild(AsReported(f.children[i]), i)
    <3> PICK c : c = f.children[i]
      OBVIOUS
    <3>1. c \in Child /\ KnownChild(c, i)
      BY <1>1, <2>1 DEF RefreshKnows
    <3>2. /\ AsReported(c) \in Child /\ AsReported(c).token = c.token
          /\ AsReported(c).linked = c.linked /\ AsReported(c).card = c.card
          /\ AsReported(c).substituted => c.token \in intersolve.substituted
      BY <3>1, ReportedChild
    <3>3. KnownChild(AsReported(c), i)
      BY <3>1, <3>2 DEF KnownChild, ClaimsDone
    <3>4. QED
      BY <3>1, <3>2, <3>3
  <2>3. /\ cs \in Seq(Child) /\ DOMAIN cs = DOMAIN f.children
        /\ \A i \in DOMAIN cs : KnownChild(cs[i], i)
    BY <2>1, <2>2 DEF Reported
  <2> PICK ds : ds = cs
    OBVIOUS
  <2> PICK g : g = [f EXCEPT !.pc = "save", !.children = ds]
    OBVIOUS
  <2>4. refresh' = [refresh EXCEPT ![r] = g]
    <3>1. refresh' = [refresh EXCEPT ![r].pc = "save", ![r].children = ds]
      BY <1>4
    <3>2. QED
      BY <1>1, <3>1 DEF TypeOK, Refresh
  <2> HIDE DEF cs
  <2>5. /\ g \in Refresh /\ g.pc = "save" /\ g.parent = f.parent
        /\ g.todo = f.todo /\ g.children = ds
    BY <1>1, <2>3 DEF Refresh, RefreshPoints
  <2>6. RefreshKnows(g)
    BY <1>1, <2>3, <2>5 DEF RefreshKnows
  <2>7. RefreshKnows(g)'
    BY <1>1, <1>2, <2>6, RefreshStays DEF TablesDone
  <2>8. QED
    BY <1>2, <2>4, <2>5, <2>7, RefreshDone
<1>5. QED
  BY <1>3, <1>4 DEF GetWallet, Query, Call

\* A wallet of the refresh is stored: it goes on with the next.
LEMMA WalletSavedDone ==
    ASSUME WalletInv, TablesDone, UNCHANGED <<reissue, pause>>,
           NEW r \in Refreshes, refresh[r].pc = "save", WalletSaved(r)
    PROVE  WalletInv'
<1> PICK f : f = refresh[r]
  OBVIOUS
<1>1. TypeOK /\ StoredInv /\ f \in Refresh /\ RefreshKnows(f) /\ f.pc = "save"
  BY DEF WalletInv, TypeOK
<1> PICK pc : pc = IF Len(f.todo) = 1 THEN "done" ELSE "get"
  OBVIOUS
<1> PICK todo : todo = Tail(f.todo)
  OBVIOUS
<1> PICK g : g = [f EXCEPT !.todo = todo, !.pc = pc]
  OBVIOUS
<1>2. f.todo \in Seq(Nat) /\ f.todo # << >>
  BY <1>1 DEF Refresh, RefreshKnows
<1>3. /\ todo \in Seq(Nat)
      /\ Len(f.todo) # 1 => todo # << >>
      /\ \A k \in DOMAIN todo : k + 1 \in DOMAIN f.todo /\ todo[k] = f.todo[k + 1]
  <2>1. /\ todo \in Seq(Nat)
        /\ Len(todo) = Len(f.todo) - 1
        /\ \A k \in 1 .. Len(todo) : todo[k] = f.todo[k + 1]
    BY <1>2, HeadTailProperties
  <2>2. Len(f.todo) \in Nat /\ DOMAIN todo = 1 .. Len(todo)
        /\ DOMAIN f.todo = 1 .. Len(f.todo)
    BY <1>2, <2>1
  <2>3. Len(f.todo) # 1 => todo # << >>
    <3>1. todo = << >> => Len(todo) = 0
      OBVIOUS
    <3>2. QED
      BY <2>1, <2>2, <3>1
  <2>4. \A k \in 1 .. Len(todo) : k + 1 \in 1 .. Len(f.todo)
    BY <2>1, <2>2
  <2>5. QED
    BY <2>1, <2>2, <2>3, <2>4
<1>4. refresh' = [refresh EXCEPT ![r] = g]
  <2>1. refresh' = [refresh EXCEPT ![r].todo = Tail(@), ![r].pc = pc]
    BY DEF WalletSaved
  <2>2. QED
    BY <1>1, <2>1 DEF TypeOK, Refresh
<1>5. /\ g \in Refresh /\ g.pc = pc /\ g.parent = f.parent /\ g.todo = todo
      /\ g.children = f.children
  BY <1>1, <1>3 DEF Refresh, RefreshPoints
<1>6. RefreshKnows(g)
  BY <1>1, <1>3, <1>5 DEF RefreshKnows
<1>7. RefreshKnows(g)'
  BY <1>1, <1>6, RefreshStays DEF TablesDone
<1>8. QED
  BY <1>4, <1>5, <1>7, RefreshDone

LEMMA SaveWalletStep ==
    ASSUME WalletInv, NEW r \in Refreshes, SaveWallet(r)
    PROVE  WalletInv'
<1> PICK f, at : f = refresh[r] /\ at = Head(f.todo)
  OBVIOUS
<1>1. TypeOK /\ StoredInv /\ f \in Refresh /\ RefreshKnows(f) /\ f.pc = "save"
  BY DEF WalletInv, TypeOK, SaveWallet
<1>2. /\ UNCHANGED <<intersolve, customer, transaction, worker, crashes, faults>>
      /\ UNCHANGED <<reissue, pause>>
  BY DEF SaveWallet, unchangedByRefresh
<1>3. at = 0 \/ at \in DOMAIN f.children
  BY <1>1 DEF RefreshKnows, Refresh
<1>4. KeptBy(intersolve, intersolve') /\ faults' \in 0 .. MaxFaults
  BY <1>1, <1>2, EffectsKeep DEF TypeOK
<1>5. CASE UNCHANGED <<parent, children>>
  <2>1. TablesDone
    BY <1>2, <1>4, <1>5, CallDone DEF stored
  <2>2. QED
    BY <1>1, <1>2, <2>1, RefreshEnds, WalletSavedDone DEF SaveWallet, SaveParent
<1>6. CASE parent' = f.parent /\ UNCHANGED children
  <2>1. f.parent \in Parent /\ KnownParent(f.parent)
    BY <1>1 DEF Refresh, RefreshKnows
  <2>2. TablesDone
    BY <1>1, <1>2, <1>4, <1>6, <2>1, ParentSaved DEF TablesDone, KnownParent
  <2>3. QED
    BY <1>1, <1>2, <2>2, RefreshEnds, WalletSavedDone DEF SaveWallet, SaveParent
<1>7. CASE /\ at \in DOMAIN f.children /\ UNCHANGED parent
           /\ children' = [children EXCEPT ![at] = f.children[at]]
  <2>1. f.children[at] \in Child /\ KnownChild(f.children[at], at)
    BY <1>1, <1>7 DEF Refresh, RefreshKnows
  <2>2. Kept /\ StoredInv'
    BY <1>1, <1>2, <1>7, <2>1, ChildSaved
  <2>3. children # << >>
    BY <2>1 DEF KnownChild
  <2>4. TablesDone
    BY <1>2, <1>4, <1>7, <2>2, <2>3 DEF TablesDone
  <2>5. QED
    BY <1>1, <1>2, <2>4, RefreshEnds, WalletSavedDone DEF SaveWallet, SaveParent
<1>8. QED
  BY <1>3, <1>5, <1>6, <1>7 DEF SaveWallet, SaveParent

LEMMA RefreshKeepsWallets ==
    ASSUME WalletInv, NEW r \in Refreshes, RefreshStep(r)
    PROVE  WalletInv'
  BY LoadWalletsStep, GetWalletStep, SaveWalletStep DEF RefreshStep

-----------------------------------------------------------------------------
(* A reissue.                                                              *)

\* The entity of a stored child wallet has a token.
LEMMA KnownToken ==
    ASSUME TypeOK, StoredInv, NEW c \in Child, NEW i, KnownChild(c, i)
    PROVE  c.token \in Tokens /\ parent # NoParent /\ children # << >>
<1>1. i \in DOMAIN children /\ c.token = children[i].token /\ c.token # 0
  BY DEF KnownChild, StoredInv
<1>2. children # << >>
  BY <1>1 DEF TypeOK
<1>3. QED
  BY <1>1, <1>2 DEF Child, Token, StoredInv

\* A step of a reissue that goes on to the point pc with the same wallets.
LEMMA ReissueMoves ==
    ASSUME WalletInv, TablesDone, UNCHANGED <<refresh, pause>>,
           NEW r \in Reissues, NEW pc \in ReissuePoints, ReissueTo(r, pc),
           \A y \in Reissue :
               y.pc = pc /\ y.old = reissue[r].old /\ y.oldAt = reissue[r].oldAt
               /\ y.new = reissue[r].new /\ y.newAt = reissue[r].newAt
                   => ReissueKnows(y)'
    PROVE  WalletInv'
<1> PICK y : y = [reissue[r] EXCEPT !.pc = pc]
  OBVIOUS
<1>1. reissue[r] \in Reissue
  BY DEF WalletInv, TypeOK
<1>2. /\ y \in Reissue /\ y.pc = pc
      /\ y.old = reissue[r].old /\ y.oldAt = reissue[r].oldAt
      /\ y.new = reissue[r].new /\ y.newAt = reissue[r].newAt
  BY <1>1 DEF Reissue
<1>3. ReissueKnows(y)'
  BY <1>2
<1>4. reissue' = [reissue EXCEPT ![r] = y]
  BY DEF ReissueTo
<1>5. QED
  BY <1>2, <1>3, <1>4, ReissueDone

LEMMA ReissueEnds ==
    ASSUME WalletInv, TablesDone, UNCHANGED <<refresh, pause>>,
           NEW r \in Reissues, ReissueTo(r, "done")
    PROVE  WalletInv'
<1>1. \A y \in Reissue : y.pc = "done" => ReissueKnows(y)'
  BY DEF ReissueKnows, Substituting, Issued
<1>2. QED
  BY <1>1, ReissueMoves DEF ReissuePoints

\* A call of a reissue, when its effect keeps what was done.
LEMMA ReissueCallDone ==
    ASSUME WalletInv, NEW r \in Reissues, NEW effect, NEW onAnswer \in BOOLEAN,
           ReissueCall(r, effect, onAnswer),
           effect.issued <= MaxTokens => KeptBy(intersolve, effect),
           onAnswer /\ TablesDone /\ UNCHANGED <<refresh, pause>>
               /\ intersolve' = effect /\ effect.issued <= MaxTokens => WalletInv'
    PROVE  WalletInv'
<1>1. TypeOK /\ KeptBy(intersolve, intersolve)
  BY EffectsKeep DEF WalletInv
<1>2. /\ KeptBy(intersolve, intersolve') /\ faults' \in 0 .. MaxFaults
      /\ UNCHANGED <<stored, transaction, worker, crashes, refresh, pause>>
  BY <1>1, FaultsCounted DEF ReissueCall, Call, unchangedByReissue, stored
<1>3. TablesDone
  BY <1>2, CallDone
<1>4. CASE ReissueTo(r, "done")
  BY <1>2, <1>3, <1>4, ReissueEnds
<1>5. CASE onAnswer /\ intersolve' = effect /\ effect.issued <= MaxTokens
  BY <1>2, <1>3, <1>5
<1>6. QED
  BY <1>4, <1>5 DEF ReissueCall, Call

LEMMA StartReissueStep ==
    ASSUME WalletInv, NEW r \in Reissues, StartReissue(r)
    PROVE  WalletInv'
<1>1. TypeOK /\ StoredInv /\ KeptBy(intersolve, intersolve)
  BY EffectsKeep DEF WalletInv
<1>2. TablesDone /\ UNCHANGED <<refresh, pause>>
  BY <1>1, CallDone DEF StartReissue, unchangedByReissue, stored, TypeOK
<1> PICK c, i : c = children[Newest] /\ i = Newest
  OBVIOUS
<1> PICK pc : pc = IF c.blocked THEN "unblock" ELSE "issue"
  OBVIOUS
<1> PICK y : y = [reissue[r] EXCEPT !.pc = pc, !.old = c, !.oldAt = i]
  OBVIOUS
<1>3. i \in DOMAIN children /\ c \in Child /\ i \in Nat
  BY <1>1 DEF StartReissue, TypeOK, Newest
<1>4. KnownChild(c, i)
  BY <1>1, <1>3 DEF KnownChild, StoredInv
<1>5. reissue' = [reissue EXCEPT ![r] = y]
  <2>1. reissue' = [reissue EXCEPT ![r].pc = pc, ![r].old = c, ![r].oldAt = i]
    BY DEF StartReissue
  <2>2. QED
    BY <1>1, <2>1 DEF TypeOK, Reissue
<1>6. reissue[r] \in Reissue /\ pc \in {"unblock", "issue"}
  BY <1>1 DEF TypeOK
<1>7. y \in Reissue /\ y.pc = pc /\ y.old = c /\ y.oldAt = i
  BY <1>3, <1>6 DEF Reissue, ReissuePoints
<1>8. ReissueKnows(y)
  BY <1>4, <1>6, <1>7 DEF ReissueKnows, Substituting, Issued
<1>9. ReissueKnows(y)'
  BY <1>1, <1>2, <1>7, <1>8, ReissueStays DEF TablesDone
<1>10. QED
  BY <1>2, <1>5, <1>7, <1>9, ReissueDone

LEMMA UnblockStep ==
    ASSUME WalletInv, NEW r \in Reissues, Unblock(r)
    PROVE  WalletInv'
<1> PICK x : x = reissue[r]
  OBVIOUS
<1>1. TypeOK /\ StoredInv /\ x \in Reissue /\ ReissueKnows(x) /\ x.pc = "unblock"
  BY DEF WalletInv, TypeOK, Unblock
<1>2. x.old \in Child /\ KnownChild(x.old, x.oldAt)
  BY <1>1 DEF Reissue, ReissueKnows, Substituting
<1>3. KeptBy(intersolve, BlockedSet(x.old.token, FALSE))
  BY <1>1, <1>2, KnownToken, EffectsKeep
<1>4. ASSUME ReissueTo(r, "issue"), TablesDone, UNCHANGED <<refresh, pause>>
      PROVE  WalletInv'
  <2>1. ASSUME NEW y \in Reissue, y.pc = "issue", y.old = x.old, y.oldAt = x.oldAt
        PROVE  ReissueKnows(y)'
    <3>1. ReissueKnows(y)
      BY <1>2, <2>1 DEF ReissueKnows, Substituting, Issued
    <3>2. QED
      BY <1>1, <1>4, <3>1, ReissueStays DEF TablesDone
  <2>2. QED
    BY <1>4, <2>1, ReissueMoves DEF ReissuePoints
<1>5. PICK effect : effect = BlockedSet(x.old.token, FALSE)
  OBVIOUS
<1>6. PICK answered \in BOOLEAN : answered <=> ReissueTo(r, "issue")
  OBVIOUS
<1>7. ReissueCall(r, effect, answered)
  BY <1>5, <1>6 DEF Unblock, ReissueCall, Call
<1>8. QED
  BY <1>3, <1>4, <1>5, <1>6, <1>7, ReissueCallDone

LEMMA IssueNewTokenStep ==
    ASSUME WalletInv, NEW r \in Reissues, IssueNewToken(r)
    PROVE  WalletInv'
<1> PICK x, n : x = reissue[r] /\ n = NextToken
  OBVIOUS
<1> PICK c : c = [NewChild(n) EXCEPT !.linked = TRUE]
  OBVIOUS
<1>1. TypeOK /\ StoredInv /\ x \in Reissue /\ ReissueKnows(x) /\ x.pc = "issue"
  BY DEF WalletInv, TypeOK, IssueNewToken
<1>2. KnownChild(x.old, x.oldAt)
  BY <1>1 DEF ReissueKnows, Substituting
<1>3. PICK effect : effect = TokenIssued
  OBVIOUS
<1>4. effect.issued = n
  BY <1>1, <1>3 DEF TokenIssued, TypeOK, Intersolve
<1>5. effect.issued <= MaxTokens => KeptBy(intersolve, effect)
  BY <1>1, <1>3, <1>4, EffectsKeep
<1>6. ASSUME reissue' = [reissue EXCEPT ![r].pc = "substitute", ![r].new = c],
             TablesDone, UNCHANGED <<refresh, pause>>, effect.issued <= MaxTokens
      PROVE  WalletInv'
  <2>1. n \in Token /\ n # 0
    BY <1>1, <1>4, <1>6, BoundsAssumption
       DEF NextToken, TypeOK, Intersolve, Token, Tokens
  <2>2. /\ c \in Child /\ c.token = n /\ ~c.card /\ ~c.substituted /\ ~c.blocked
    BY <2>1 DEF NewChild, Child
  <2> PICK y : y = [x EXCEPT !.pc = "substitute", !.new = c]
    OBVIOUS
  <2>3. /\ y \in Reissue /\ y.pc = "substitute" /\ y.old = x.old
        /\ y.oldAt = x.oldAt /\ y.new = c
    BY <1>1, <2>2 DEF Reissue, ReissuePoints
  <2>4. reissue' = [reissue EXCEPT ![r] = y]
    BY <1>1, <1>6 DEF TypeOK, Reissue
  <2>5. ReissueKnows(y)
    BY <1>2, <2>1, <2>2, <2>3 DEF ReissueKnows, Substituting, Issued
  <2>6. ReissueKnows(y)'
    BY <1>1, <1>6, <2>3, <2>5, ReissueStays DEF TablesDone
  <2>7. QED
    BY <1>6, <2>3, <2>4, <2>6, ReissueDone
<1>7. PICK answered \in BOOLEAN :
          answered <=> reissue' = [reissue EXCEPT ![r].pc = "substitute", ![r].new = c]
  OBVIOUS
<1>8. ReissueCall(r, effect, answered)
  BY <1>3, <1>7 DEF IssueNewToken, ReissueCall, Call
<1>9. QED
  BY <1>5, <1>6, <1>7, <1>8, ReissueCallDone

LEMMA SubstituteTokenStep ==
    ASSUME WalletInv, NEW r \in Reissues, SubstituteToken(r)
    PROVE  WalletInv'
<1> PICK x : x = reissue[r]
  OBVIOUS
<1>1. TypeOK /\ StoredInv /\ x \in Reissue /\ ReissueKnows(x) /\ x.pc = "substitute"
  BY DEF WalletInv, TypeOK, SubstituteToken, Substitute
<1>2. /\ x.old \in Child /\ KnownChild(x.old, x.oldAt)
      /\ x.new.token \in Tokens
      /\ ~x.new.card /\ ~x.new.substituted /\ ~x.new.blocked
  BY <1>1 DEF Reissue, ReissueKnows, Substituting, Issued, Child, Token
<1>3. x.old.token \in Tokens
  BY <1>1, <1>2, KnownToken
<1>4. PICK effect : effect = TokenSubstituted(x.old.token, x.new.token)
  OBVIOUS
<1>5. KeptBy(intersolve, effect)
  BY <1>1, <1>2, <1>3, <1>4, EffectsKeep
<1>6. ASSUME ReissueTo(r, "saveNew"), TablesDone, UNCHANGED <<refresh, pause>>,
             intersolve' = effect
      PROVE  WalletInv'
  <2>1. x.old.token \in intersolve'.substituted
    BY <1>1, <1>4, <1>6 DEF TokenSubstituted, TypeOK, Intersolve
  <2>2. KnownChild(x.old, x.oldAt)'
    <3> PICK c, i : c = x.old /\ i = x.oldAt
      OBVIOUS
    <3> QED
      BY <1>1, <1>2, <1>6, KnownStays DEF TablesDone
  <2>3. ASSUME NEW y \in Reissue, y.pc = "saveNew", y.old = x.old,
               y.oldAt = x.oldAt, y.new = x.new
        PROVE  ReissueKnows(y)'
    <3>1. 0 \notin Tokens
      BY DEF Tokens
    <3>2. KnownChild(y.old, y.oldAt)'
      BY <2>2, <2>3
    <3>3. QED
      BY <1>2, <2>1, <2>3, <3>1, <3>2 DEF ReissueKnows, Substituting, Issued
  <2>4. QED
    BY <1>6, <2>3, ReissueMoves DEF ReissuePoints
<1>7. PICK answered \in BOOLEAN : answered <=> ReissueTo(r, "saveNew")
  OBVIOUS
<1>8. CASE ReissueCall(r, effect, answered)
  BY <1>5, <1>6, <1>7, <1>8, ReissueCallDone
<1>9. CASE /\ Refused(ReissueTo(r, "done"))
           /\ UNCHANGED <<children, unchangedByReissue>>
  <2>1. KeptBy(intersolve, intersolve)
    BY <1>1, EffectsKeep
  <2>2. TablesDone /\ UNCHANGED <<refresh, pause>>
    BY <1>1, <1>9, <2>1, CallDone DEF Refused, unchangedByReissue, stored, TypeOK
  <2>3. QED
    BY <1>9, <2>2, ReissueEnds DEF Refused
<1>10. QED
  BY <1>4, <1>7, <1>8, <1>9 DEF SubstituteToken, Substitute, ReissueCall, Call

LEMMA SaveSubstituteStep ==
    ASSUME WalletInv, NEW r \in Reissues, SaveSubstitute(r)
    PROVE  WalletInv'
<1> PICK x : x = reissue[r]
  OBVIOUS
<1>1. TypeOK /\ StoredInv /\ x \in Reissue /\ ReissueKnows(x) /\ x.pc = "saveNew"
  BY DEF WalletInv, TypeOK, SaveSubstitute
<1>2. /\ x.old \in Child /\ KnownChild(x.old, x.oldAt)
      /\ x.old.token \in intersolve.substituted
      /\ x.new \in Child /\ x.new.token # 0
      /\ ~x.new.card /\ ~x.new.substituted /\ ~x.new.blocked
  BY <1>1 DEF Reissue, ReissueKnows, Substituting, Issued
<1>3. parent # NoParent /\ children # << >>
  BY <1>1, <1>2, KnownToken
<1>4. ClaimsDone(x.new)
  BY <1>2 DEF ClaimsDone
<1>5. /\ UNCHANGED <<intersolve, customer, parent, faults>>
      /\ UNCHANGED <<transaction, worker, refresh, pause, crashes>>
      /\ children' = Append(children, x.new)
  BY DEF SaveSubstitute, unchangedByReissue
<1>6. /\ Kept /\ StoredInv'
      /\ Newest + 1 \in DOMAIN children'
      /\ children'[Newest + 1] = x.new
  BY <1>1, <1>2, <1>3, <1>4, <1>5, ChildAdded
<1>7. TablesDone
  BY <1>1, <1>3, <1>5, <1>6 DEF TablesDone, TypeOK
<1>8. PICK n \in Nat : n = Newest + 1
  BY <1>1 DEF TypeOK, Newest
<1> PICK y : y = [x EXCEPT !.pc = "saveOld", !.newAt = n]
  OBVIOUS
<1>9. /\ y \in Reissue /\ y.pc = "saveOld" /\ y.old = x.old
      /\ y.oldAt = x.oldAt /\ y.new = x.new /\ y.newAt = n
  BY <1>1, <1>8 DEF Reissue, ReissuePoints
<1>10. reissue' = [reissue EXCEPT ![r] = y]
  <2>1. reissue' = [reissue EXCEPT ![r].pc = "saveOld", ![r].newAt = n]
    BY <1>8 DEF SaveSubstitute
  <2>2. QED
    BY <1>1, <2>1 DEF TypeOK, Reissue
<1>11. KnownChild(y.old, y.oldAt)'
  <2> PICK c, i : c = y.old /\ i = y.oldAt
    OBVIOUS
  <2> QED
    BY <1>1, <1>2, <1>6, <1>9, KnownStays
<1>12. KnownChild(y.new, y.newAt)'
  BY <1>2, <1>5, <1>6, <1>8, <1>9 DEF KnownChild, ClaimsDone
<1>13. ReissueKnows(y)'
  BY <1>2, <1>5, <1>9, <1>11, <1>12 DEF ReissueKnows, Substituting, Issued
<1>14. QED
  BY <1>5, <1>7, <1>9, <1>10, <1>13, ReissueDone

LEMMA SaveSubstitutedStep ==
    ASSUME WalletInv, NEW r \in Reissues, SaveSubstituted(r)
    PROVE  WalletInv'
<1> PICK x : x = reissue[r]
  OBVIOUS
<1> PICK c : c = [x.old EXCEPT !.substituted = TRUE]
  OBVIOUS
<1>1. TypeOK /\ StoredInv /\ x \in Reissue /\ ReissueKnows(x) /\ x.pc = "saveOld"
  BY DEF WalletInv, TypeOK, SaveSubstituted
<1>2. /\ x.old \in Child /\ KnownChild(x.old, x.oldAt)
      /\ x.old.token \in intersolve.substituted
      /\ KnownChild(x.new, x.newAt)
      /\ x.new.token # 0
      /\ ~x.new.card /\ ~x.new.substituted /\ ~x.new.blocked
  BY <1>1 DEF Reissue, ReissueKnows, Substituting, Issued
<1>3. c \in Child /\ KnownChild(c, x.oldAt)
  BY <1>2 DEF Child, KnownChild, ClaimsDone
<1>4. /\ UNCHANGED <<intersolve, customer, parent, faults>>
      /\ UNCHANGED <<transaction, worker, refresh, pause, crashes>>
      /\ children' = [children EXCEPT ![x.oldAt] = c]
  BY DEF SaveSubstituted, unchangedByReissue
<1>5. Kept /\ StoredInv'
  BY <1>1, <1>3, <1>4, ChildSaved
<1>6. TablesDone
  BY <1>1, <1>3, <1>4, <1>5, KnownToken DEF TablesDone, TypeOK
<1>7. ASSUME NEW y \in Reissue, y.pc = "card", y.new = x.new, y.newAt = x.newAt
      PROVE  ReissueKnows(y)'
  <2>1. ReissueKnows(y)
    BY <1>2, <1>7 DEF ReissueKnows, Substituting, Issued
  <2>2. QED
    BY <1>1, <1>5, <2>1, ReissueStays
<1>8. QED
  BY <1>4, <1>6, <1>7, ReissueMoves DEF SaveSubstituted, ReissuePoints

LEMMA CreateNewCardStep ==
    ASSUME WalletInv, NEW r \in Reissues, CreateNewCard(r)
    PROVE  WalletInv'
<1> PICK x : x = reissue[r]
  OBVIOUS
<1>1. TypeOK /\ StoredInv /\ x \in Reissue /\ ReissueKnows(x) /\ x.pc = "card"
  BY DEF WalletInv, TypeOK, CreateNewCard
<1>2. /\ x.new \in Child /\ KnownChild(x.new, x.newAt) /\ x.new.token # 0
      /\ ~x.new.card /\ ~x.new.substituted /\ ~x.new.blocked
  BY <1>1 DEF Reissue, ReissueKnows, Issued
<1>3. x.new.token \in Tokens
  BY <1>1, <1>2, KnownToken
<1>4. PICK effect : effect = CardMade(x.new.token)
  OBVIOUS
<1>5. KeptBy(intersolve, effect)
  BY <1>1, <1>3, <1>4, EffectsKeep DEF Token
<1>6. ASSUME ReissueTo(r, "saveCard"), TablesDone, UNCHANGED <<refresh, pause>>,
             intersolve' = effect
      PROVE  WalletInv'
  <2>1. intersolve'.cards[x.new.token] > 0
    BY <1>1, <1>3, <1>4, <1>6 DEF CardMade, TypeOK, Intersolve
  <2>2. KnownChild(x.new, x.newAt)'
    <3> PICK c, i : c = x.new /\ i = x.newAt
      OBVIOUS
    <3> QED
      BY <1>1, <1>2, <1>6, KnownStays DEF TablesDone
  <2>3. ASSUME NEW y \in Reissue, y.pc = "saveCard", y.new = x.new, y.newAt = x.newAt
        PROVE  ReissueKnows(y)'
    <3>1. KnownChild(y.new, y.newAt)'
      BY <2>2, <2>3
    <3>2. QED
      BY <1>2, <2>1, <2>3, <3>1 DEF ReissueKnows, Substituting, Issued
  <2>4. QED
    BY <1>6, <2>3, ReissueMoves DEF ReissuePoints
<1>7. PICK answered \in BOOLEAN : answered <=> ReissueTo(r, "saveCard")
  OBVIOUS
<1>8. ReissueCall(r, effect, answered)
  BY <1>4, <1>7 DEF CreateNewCard, ReissueCall, Call
<1>9. QED
  BY <1>5, <1>6, <1>7, <1>8, ReissueCallDone

LEMMA SaveNewCardStep ==
    ASSUME WalletInv, NEW r \in Reissues, SaveNewCard(r)
    PROVE  WalletInv'
<1> PICK x : x = reissue[r]
  OBVIOUS
<1> PICK c : c = [x.new EXCEPT !.card = TRUE]
  OBVIOUS
<1>1. TypeOK /\ StoredInv /\ x \in Reissue /\ ReissueKnows(x) /\ x.pc = "saveCard"
  BY DEF WalletInv, TypeOK, SaveNewCard
<1>2. /\ x.new \in Child /\ KnownChild(x.new, x.newAt)
      /\ intersolve.cards[x.new.token] > 0
  BY <1>1 DEF Reissue, ReissueKnows
<1>3. c \in Child /\ KnownChild(c, x.newAt)
  BY <1>2 DEF Child, KnownChild, ClaimsDone
<1>4. /\ UNCHANGED <<intersolve, customer, parent, faults>>
      /\ UNCHANGED <<transaction, worker, refresh, pause, crashes>>
      /\ children' = [children EXCEPT ![x.newAt] = c]
  BY DEF SaveNewCard, unchangedByReissue
<1>5. Kept /\ StoredInv'
  BY <1>1, <1>3, <1>4, ChildSaved
<1>6. TablesDone
  BY <1>1, <1>3, <1>4, <1>5, KnownToken DEF TablesDone, TypeOK
<1>7. QED
  BY <1>4, <1>6, ReissueEnds DEF SaveNewCard

LEMMA ReissueKeepsWallets ==
    ASSUME WalletInv, NEW r \in Reissues, ReissueCard(r)
    PROVE  WalletInv'
  BY StartReissueStep, UnblockStep, IssueNewTokenStep, SubstituteTokenStep,
     SaveSubstituteStep, SaveSubstitutedStep, CreateNewCardStep, SaveNewCardStep
     DEF ReissueCard

-----------------------------------------------------------------------------
(* A pausing.                                                              *)

\* A step of a pausing that goes on to the point pc with the same wallet.
LEMMA PauseMoves ==
    ASSUME WalletInv, TablesDone, UNCHANGED <<refresh, reissue>>,
           NEW r \in Pauses, NEW pc \in {"save", "done"},
           pause' = [pause EXCEPT ![r].pc = pc],
           pc = "save" => KnownChild(pause[r].child, pause[r].at)
    PROVE  WalletInv'
<1> PICK x : x = pause[r]
  OBVIOUS
<1> PICK y : y = [x EXCEPT !.pc = pc]
  OBVIOUS
<1>1. TypeOK /\ StoredInv /\ x \in Pause
  BY DEF WalletInv, TypeOK
<1>2. y \in Pause /\ y.pc = pc /\ y.child = x.child /\ y.at = x.at
  BY <1>1 DEF Pause, PausePoints
<1>3. PauseKnows(y)
  BY <1>2 DEF PauseKnows
<1>4. PauseKnows(y)'
  BY <1>1, <1>3, PauseStays DEF TablesDone
<1>5. QED
  BY <1>2, <1>4, PauseDone

LEMMA StartPauseStep ==
    ASSUME WalletInv, NEW r \in Pauses, StartPause(r)
    PROVE  WalletInv'
<1>1. TypeOK /\ StoredInv /\ KeptBy(intersolve, intersolve)
  BY EffectsKeep DEF WalletInv
<1>2. TablesDone /\ UNCHANGED <<refresh, reissue>>
  BY <1>1, CallDone DEF StartPause, unchangedByPause, stored, TypeOK
<1>3. PICK i \in DOMAIN children :
          pause' = [pause EXCEPT ![r] =
                        [pc |-> "block", child |-> children[i], at |-> i]]
  BY DEF StartPause
<1> PICK c : c = children[i]
  OBVIOUS
<1> PICK y : y = [pc |-> "block", child |-> c, at |-> i]
  OBVIOUS
<1>4. c \in Child /\ i \in Nat
  BY <1>1 DEF TypeOK
<1>5. y \in Pause /\ y.child = c /\ y.at = i
  BY <1>4 DEF Pause, PausePoints
<1>6. PauseKnows(y)
  BY <1>1, <1>5 DEF PauseKnows, KnownChild, StoredInv
<1>7. PauseKnows(y)'
  BY <1>1, <1>2, <1>6, PauseStays DEF TablesDone
<1>8. QED
  BY <1>2, <1>3, <1>5, <1>7, PauseDone

LEMMA SetTokenBlockedStep ==
    ASSUME WalletInv, NEW r \in Pauses, SetTokenBlocked(r)
    PROVE  WalletInv'
<1> PICK x : x = pause[r]
  OBVIOUS
<1>1. TypeOK /\ StoredInv /\ x \in Pause /\ PauseKnows(x) /\ x.pc = "block"
  BY DEF WalletInv, TypeOK, SetTokenBlocked, SetTokenBlockedOr
<1>2. x.child \in Child /\ KnownChild(x.child, x.at)
  BY <1>1 DEF Pause, PauseKnows
<1>3. PICK b \in BOOLEAN : b = ~x.child.blocked
  BY <1>2 DEF Child
<1>4. PICK effect : effect = BlockedSet(x.child.token, b)
  OBVIOUS
<1>5. KeptBy(intersolve, effect) /\ KeptBy(intersolve, intersolve)
  BY <1>1, <1>2, <1>4, KnownToken, EffectsKeep
<1>6. /\ Call(effect, pause' = [pause EXCEPT ![r].pc = "save"],
                      pause' = [pause EXCEPT ![r].pc = "done"])
      /\ UNCHANGED <<children, unchangedByPause>>
  BY <1>3, <1>4 DEF SetTokenBlocked, SetTokenBlockedOr, PauseTo, Call
<1>7. KeptBy(intersolve, intersolve') /\ faults' \in 0 .. MaxFaults
  BY <1>1, <1>5, <1>6, FaultsCounted DEF Call
<1>8. TablesDone /\ UNCHANGED <<refresh, reissue>>
  BY <1>6, <1>7, CallDone DEF unchangedByPause, stored
<1>9. PICK pc \in {"save", "done"} : pause' = [pause EXCEPT ![r].pc = pc]
  BY <1>6 DEF Call
<1>10. QED
  BY <1>2, <1>8, <1>9, PauseMoves

LEMMA SavePausedStep ==
    ASSUME WalletInv, NEW r \in Pauses, SavePaused(r)
    PROVE  WalletInv'
<1> PICK x : x = pause[r]
  OBVIOUS
<1> PICK c : c = [x.child EXCEPT !.blocked = ~@]
  OBVIOUS
<1>1. TypeOK /\ StoredInv /\ x \in Pause /\ PauseKnows(x) /\ x.pc = "save"
  BY DEF WalletInv, TypeOK, SavePaused
<1>2. x.child \in Child /\ KnownChild(x.child, x.at)
  BY <1>1 DEF Pause, PauseKnows
<1>3. c \in Child /\ KnownChild(c, x.at)
  <2>1. (~x.child.blocked) \in BOOLEAN
    BY <1>2 DEF Child
  <2>2. c \in Child /\ c.token = x.child.token /\ c.linked = x.child.linked
        /\ c.card = x.child.card /\ c.substituted = x.child.substituted
    BY <1>2, <2>1 DEF Child
  <2>3. QED
    BY <1>2, <2>2 DEF KnownChild, ClaimsDone
<1>4. /\ UNCHANGED <<intersolve, customer, parent, faults>>
      /\ UNCHANGED <<transaction, worker, refresh, reissue, crashes>>
      /\ children' = [children EXCEPT ![x.at] = c]
  BY DEF SavePaused, unchangedByPause
<1>5. Kept /\ StoredInv'
  BY <1>1, <1>3, <1>4, ChildSaved
<1>6. TablesDone
  BY <1>1, <1>3, <1>4, <1>5, KnownToken DEF TablesDone, TypeOK
<1>7. QED
  BY <1>4, <1>6, PauseMoves DEF SavePaused, PauseTo

LEMMA PauseKeepsWallets ==
    ASSUME WalletInv, NEW r \in Pauses, PauseCardOrThrow(r)
    PROVE  WalletInv'
  BY StartPauseStep, SetTokenBlockedStep, SavePausedStep DEF PauseCardOrThrow

-----------------------------------------------------------------------------
(* The holder, crashes and all steps together.                             *)

LEMMA HolderKeepsWallets ==
    ASSUME WalletInv, HolderStep
    PROVE  WalletInv'
<1>1. TypeOK /\ StoredInv
  BY DEF WalletInv
<1>2. KeptBy(intersolve, intersolve')
  <2> intersolve \in Intersolve
    BY <1>1 DEF TypeOK
  <2>1. CASE Spend
    <3>1. PICK b \in Nat, s \in Nat : b = intersolve.balance - 1 /\ s = intersolve.spent + 1
      BY <2>1 DEF Spend, Intersolve
    <3>2. intersolve' = [intersolve EXCEPT !.balance = b, !.spent = s]
      BY <2>1, <3>1 DEF Spend, Intersolve
    <3>3. QED
      BY <3>2 DEF Intersolve, KeptBy
  <2>2. CASE ExpireReservation
    <3>1. PICK b \in Nat, s \in Nat : b = intersolve.balance + 1 /\ s = intersolve.spent - 1
      BY <2>2 DEF ExpireReservation, Intersolve
    <3>2. intersolve' = [intersolve EXCEPT !.balance = b, !.spent = s]
      BY <2>2, <3>1 DEF ExpireReservation, Intersolve
    <3>3. QED
      BY <3>2 DEF Intersolve, KeptBy
  <2>3. CASE NewMonth
    BY <2>3 DEF NewMonth, Intersolve, KeptBy
  <2>4. QED
    BY <2>1, <2>2, <2>3 DEF HolderStep
<1>3. UNCHANGED <<stored, transaction, worker, requests, faults, crashes>>
  BY DEF HolderStep, Spend, ExpireReservation, NewMonth, unchangedByHolder
<1>4. TablesDone /\ UNCHANGED <<refresh, reissue, pause>>
  BY <1>1, <1>2, <1>3, CallDone DEF TypeOK, requests
<1>5. RequestsKnow'
  BY <1>1, <1>4, RequestsStay DEF TablesDone, RequestsKnow, WalletInv
<1>6. QED
  BY <1>1, <1>4, <1>5, TablesDoneSuffices DEF TypeOK

\* A crash ends the requests and starts the job in hand again.
LEMMA CrashKeepsWallets ==
    ASSUME WalletInv, Crash
    PROVE  WalletInv'
<1>1. /\ TypeOK /\ StoredInv /\ WorkerKnows(worker)
      /\ UNCHANGED <<intersolve, customer, parent, children, transaction, faults>>
  BY DEF WalletInv, Crash, stored
<1>2. StoredInv'
  BY <1>1 DEF StoredInv, KnownParent, ClaimsDone
<1>3. crashes' \in 0 .. MaxCrashes
  BY <1>1, BoundsAssumption DEF Crash, TypeOK
<1>4. worker' \in Worker /\ WorkerKnows(worker)'
  <2>1. CASE worker' = IdleWorker
    BY <2>1, IdleKnows DEF WorkerKnows
  <2>2. CASE /\ worker.pc \notin {"idle", "thrown"}
             /\ worker' = [IdleWorker EXCEPT !.pc = "calculate",
                               !.payment = worker.payment, !.amount = Amount]
    <3>1. worker.payment \in Payments
      BY <1>1, <2>2 DEF WorkerKnows
    <3>2. Amount \in 0 .. Amount
      BY AmountAssumption
    <3>3. /\ worker' \in Worker /\ worker'.pc = "calculate"
          /\ worker'.payment \in Payments
          /\ worker'.parent = NoParent /\ worker'.child = NoChild
      BY <2>2, <3>1, <3>2, IdleFields DEF Worker, WorkerPoints
    <3>4. QED
      BY <3>3
         DEF WorkerKnows, Calculating, Provisioning, BeforeParent, BeforeChild,
             WithChild
  <2>3. QED
    BY <2>1, <2>2 DEF Crash, At
<1>5. refresh' \in [Refreshes -> Refresh]
      /\ \A r \in Refreshes : refresh'[r].pc \in {"idle", "done"}
  <2>1. ASSUME NEW f \in Refresh
        PROVE  /\ [f EXCEPT !.pc = IF Working(@) THEN "done" ELSE @] \in Refresh
               /\ [f EXCEPT !.pc = IF Working(@) THEN "done" ELSE @].pc
                      \in {"idle", "done"}
    BY DEF Refresh, RefreshPoints, Working
  <2>2. refresh' = [r \in Refreshes |->
            [refresh[r] EXCEPT !.pc = IF Working(@) THEN "done" ELSE @]]
    BY DEF Crash
  <2>3. QED
    BY <1>1, <2>1, <2>2 DEF TypeOK
<1>6. reissue' \in [Reissues -> Reissue]
      /\ \A r \in Reissues : reissue'[r].pc \in {"idle", "done"}
  <2>1. ASSUME NEW x \in Reissue
        PROVE  /\ [x EXCEPT !.pc = IF Working(@) THEN "done" ELSE @] \in Reissue
               /\ [x EXCEPT !.pc = IF Working(@) THEN "done" ELSE @].pc
                      \in {"idle", "done"}
    BY DEF Reissue, ReissuePoints, Working
  <2>2. reissue' = [r \in Reissues |->
            [reissue[r] EXCEPT !.pc = IF Working(@) THEN "done" ELSE @]]
    BY DEF Crash
  <2>3. QED
    BY <1>1, <2>1, <2>2 DEF TypeOK
<1>7. pause' \in [Pauses -> Pause]
      /\ \A r \in Pauses : pause'[r].pc \in {"idle", "done"}
  <2>1. ASSUME NEW x \in Pause
        PROVE  /\ [x EXCEPT !.pc = IF Working(@) THEN "done" ELSE @] \in Pause
               /\ [x EXCEPT !.pc = IF Working(@) THEN "done" ELSE @].pc
                      \in {"idle", "done"}
    BY DEF Pause, PausePoints, Working
  <2>2. pause' = [r \in Pauses |->
            [pause[r] EXCEPT !.pc = IF Working(@) THEN "done" ELSE @]]
    BY DEF Crash
  <2>3. QED
    BY <1>1, <2>1, <2>2 DEF TypeOK
<1>8. TypeOK'
  BY <1>1, <1>3, <1>4, <1>5, <1>6, <1>7 DEF TypeOK
<1>9. RequestsKnow'
  BY <1>5, <1>6, <1>7
     DEF RequestsKnow, RefreshKnows, ReissueKnows, PauseKnows, Substituting, Issued
<1>10. QED
  BY <1>2, <1>4, <1>8, <1>9 DEF WalletInv, RequestsKnow

LEMMA InitWallets == Init => WalletInv
<1> SUFFICES ASSUME Init
             PROVE  WalletInv
  OBVIOUS
<1>1. /\ parent = NoParent /\ children = << >> /\ worker = IdleWorker
      /\ refresh = [r \in Refreshes |-> IdleRefresh]
      /\ reissue = [r \in Reissues |-> IdleReissue]
      /\ pause = [r \in Pauses |-> IdlePause]
  BY DEF Init
<1>2. /\ NoParent \in Parent /\ ~NoParent.linked
      /\ NoChild \in Child
  BY DEF NoParent, Parent, NoChild, NewChild, Child, Token
<1>3. IdleRefresh \in Refresh /\ IdleRefresh.pc = "idle"
  BY <1>2 DEF IdleRefresh, Refresh, RefreshPoints
<1>4. IdleReissue \in Reissue /\ IdleReissue.pc = "idle"
  BY <1>2 DEF IdleReissue, Reissue, ReissuePoints
<1>5. IdlePause \in Pause /\ IdlePause.pc = "idle"
  BY <1>2 DEF IdlePause, Pause, PausePoints
<1>6. intersolve \in Intersolve
  BY DEF Init, Intersolve, Token
<1>7. transaction \in [Payments -> [status : {"none", "success", "error"},
                                    amount : 0 .. Amount]]
  BY AmountAssumption DEF Init
<1>8. TypeOK
  <2>1. /\ refresh \in [Refreshes -> Refresh]
        /\ reissue \in [Reissues -> Reissue]
        /\ pause \in [Pauses -> Pause]
    BY <1>1, <1>3, <1>4, <1>5
  <2>2. children \in Seq(Child) /\ parent \in Parent /\ worker \in Worker
    BY <1>1, <1>2, IdleKnows
  <2>3. /\ faults \in 0 .. MaxFaults /\ crashes \in 0 .. MaxCrashes
        /\ customer \in BOOLEAN
    <3>1. faults = 0 /\ crashes = 0 /\ customer = FALSE
      BY DEF Init
    <3>2. 0 \in 0 .. MaxFaults /\ 0 \in 0 .. MaxCrashes
      BY BoundsAssumption
    <3>3. QED
      BY <3>1, <3>2
  <2>4. QED
    BY <1>6, <1>7, <2>1, <2>2, <2>3 DEF TypeOK
<1>9. StoredInv
  BY <1>1 DEF StoredInv
<1>10. WorkerKnows(worker)
  BY <1>1, IdleKnows
<1>11. RequestsKnow
  BY <1>1, <1>3, <1>4, <1>5
     DEF RequestsKnow, RefreshKnows, ReissueKnows, PauseKnows, Substituting, Issued
<1>12. QED
  BY <1>8, <1>9, <1>10, <1>11 DEF WalletInv, RequestsKnow

LEMMA NextKeepsWallets == WalletInv /\ [Next]_vars => WalletInv'
<1> SUFFICES ASSUME WalletInv, [Next]_vars
             PROVE  WalletInv'
  OBVIOUS
<1>1. CASE WorkerStep
  BY <1>1, WorkerKeepsWallets
<1>2. CASE \E r \in Refreshes : RefreshStep(r)
  BY <1>2, RefreshKeepsWallets
<1>3. CASE \E r \in Reissues : ReissueCard(r)
  BY <1>3, ReissueKeepsWallets
<1>4. CASE \E r \in Pauses : PauseCardOrThrow(r)
  BY <1>4, PauseKeepsWallets
<1>5. CASE HolderStep
  BY <1>5, HolderKeepsWallets
<1>6. CASE Crash
  BY <1>6, CrashKeepsWallets
<1>7. CASE UNCHANGED vars
  BY <1>7
     DEF vars, stored, requests, WalletInv, TypeOK, StoredInv, WorkerKnows,
         RefreshKnows, ReissueKnows, PauseKnows, KnownParent, KnownChild, ClaimsDone
<1>8. QED
  BY <1>1, <1>2, <1>3, <1>4, <1>5, <1>6, <1>7 DEF Next

\* Whatever fails, is lost, crashes or writes an old entity, the tables and the
\* entities in hand claim no step of the provisioning that is not done.
THEOREM WalletInvHolds == Spec => []WalletInv
  BY InitWallets, NextKeepsWallets, PTL DEF Spec

\* Every variable of the wallets has its type.
THEOREM TypeOKHolds == Spec => []TypeOK
<1>1. WalletInv => TypeOK
  BY DEF WalletInv
<1>2. QED
  BY <1>1, WalletInvHolds, PTL

\* A step that is marked as done is done at Intersolve, unless cards are
\* reissued: a reissue stores the new wallet as linked without asking whether
\* the wallet it replaces was.
THEOREM MarkedStepsAreDoneHolds == Reissues = {} => (Spec => []MarkedStepsAreDone)
<1> SUFFICES ASSUME Reissues = {}
             PROVE  Spec => []MarkedStepsAreDone
  OBVIOUS
<1>1. WalletInv => MarkedStepsAreDone
  BY DEF WalletInv, StoredInv, MarkedStepsAreDone, TrueOfParent, TrueOfChild,
         KnownParent, ClaimsDone, NoParent
<1>2. QED
  BY <1>1, WalletInvHolds, PTL

-----------------------------------------------------------------------------
(* What is transferred and what is reported.                               *)

\* Only the transfer adds transfers.
LEMMA OnlyTransferTransfers ==
    ASSUME HasMoney(intersolve), [Next]_vars
    PROVE  intersolve'.transfers = intersolve.transfers \/ DoTransfer
<1>1. SameMoney(intersolve, intersolve)
  BY EffectsMoveNothing
<1>2. CASE DoTransferOrIssueCard /\ ~DoTransfer
  BY <1>2, ProvisioningMovesNothing DEF DoTransferOrIssueCard, SameMoney
<1>3. CASE CalculateTransferAmountWithWalletRetrieval
  BY <1>3, CalculationMovesNothing DEF SameMoney
<1>4. CASE (\E p \in Payments : StartJob(p)) \/ StoreSuccess \/ EndThrown
  BY <1>4 DEF StartJob, StoreSuccess, EndThrown
<1>5. CASE \/ \E r \in Refreshes : RefreshStep(r)
           \/ \E r \in Reissues : ReissueCard(r)
           \/ \E r \in Pauses : PauseCardOrThrow(r)
  BY <1>5, RequestsMoveNothing DEF SameMoney
<1>6. CASE HolderStep
  BY <1>6 DEF HolderStep, Spend, ExpireReservation, NewMonth, HasMoney
<1>7. CASE Crash \/ UNCHANGED vars
  BY <1>7 DEF Crash, vars
<1>8. QED
  BY <1>2, <1>3, <1>4, <1>5, <1>6, <1>7 DEF Next, WorkerStep

\* What a step of the transfer adds.
LEMMA TransferAdds ==
    ASSUME TypeOK, DoTransfer
    PROVE  /\ HasMoney(intersolve)
           /\ \/ intersolve'.transfers = intersolve.transfers
              \/ /\ worker.amount > 0
                 /\ intersolve'.transfers = intersolve.transfers \cup
                        {[payment |-> worker.payment, namespace |-> Namespace,
                          amount |-> worker.amount, to |-> worker.parent.token]}
<1>1. HasMoney(intersolve)
  BY DEF TypeOK, Intersolve, HasMoney
<1>2. MoneyTransferred.transfers = intersolve.transfers \cup
          {[payment |-> worker.payment, namespace |-> Namespace,
            amount |-> worker.amount, to |-> worker.parent.token]}
  BY <1>1 DEF HasMoney, MoneyTransferred
<1>3. intersolve' = intersolve \/ (intersolve' = MoneyTransferred /\ worker.amount > 0)
  BY DEF DoTransfer, TransferUnless, Refused, Call
<1>4. QED
  BY <1>1, <1>2, <1>3

\* Money is transferred to the stored parent wallet, and only when it has a
\* holder and a card linked to it, whatever fails, is lost or crashes; no card
\* being reissued (see MarkedStepsAreDoneHolds).
THEOREM TransfersReachACardHolds == Reissues = {} => (Spec => TransfersReachACard)
<1> SUFFICES ASSUME Reissues = {}
             PROVE  Spec => TransfersReachACard
  OBVIOUS
<1>1. ASSUME WalletInv, [Next]_vars,
             NEW t \in intersolve'.transfers \ intersolve.transfers
      PROVE  ReachesCard(t)
  <2> PICK w : w = worker
    OBVIOUS
  <2>1. TypeOK /\ StoredInv /\ WorkerKnows(w) /\ w \in Worker /\ HasMoney(intersolve)
    BY <1>1 DEF WalletInv, TypeOK, Intersolve, HasMoney
  <2>2. DoTransfer
    BY <1>1, <2>1, OnlyTransferTransfers
  <2>3. t.to = w.parent.token
    BY <1>1, <2>1, <2>2, TransferAdds
  <2>4. w.pc = "transfer"
    BY <2>2 DEF DoTransfer, TransferUnless, At
  <2>5. /\ KnownParent(w.parent) /\ KnownChild(w.child, w.at)
        /\ w.parent.token \in intersolve.registered
        /\ intersolve.parentOf[w.child.token] = parent.token
        /\ intersolve.cards[w.child.token] > 0
    BY <2>1, <2>4 DEF WorkerKnows, WithChild, BeforeChild, BeforeParent, Provisioning
  <2>6. w.child.token \in Tokens
    BY <2>1, <2>5, KnownToken DEF Worker
  <2>7. QED
    BY <2>3, <2>5, <2>6 DEF ReachesCard, KnownParent
<1>2. WalletInv /\ [Next]_vars
          => [\A t \in intersolve'.transfers \ intersolve.transfers : ReachesCard(t)]_vars
  BY <1>1
<1>3. QED
  BY <1>2, WalletInvHolds, PTL DEF Spec, TransfersReachACard

\* What is about to be reported has been transferred.
MoneyReported ==
    /\ ReportedMoneyWasTransferred
    /\ worker.pc = "store" /\ worker.amount > 0 =>
           \E t \in TransferredFor(worker.payment) : t.amount = worker.amount

\* A step that reports nothing keeps this ...
LEMMA NothingReported ==
    ASSUME MoneyReported, intersolve.transfers \subseteq intersolve'.transfers,
           UNCHANGED transaction,
           \/ worker' = worker
           \/ worker'.pc # "store"
    PROVE  MoneyReported'
  BY DEF MoneyReported, ReportedMoneyWasTransferred, TransferredFor

\* ... as does a job that ends with an error or with what it transferred.
LEMMA JobReported ==
    ASSUME WalletInv, MoneyReported,
           intersolve.transfers \subseteq intersolve'.transfers,
           \/ \E amount : StoreTransaction("error", amount)
           \/ At("store") /\ StoreTransaction("success", worker.amount)
    PROVE  MoneyReported'
<1>1. /\ worker' = IdleWorker /\ IdleWorker.pc = "idle"
      /\ TypeOK
  BY DEF StoreTransaction, IdleWorker, WalletInv
<1>2. PICK status \in {"error", "success"} : \E amount :
          /\ transaction' = [transaction EXCEPT ![worker.payment] =
                                 [status |-> status, amount |-> amount]]
          /\ status = "success" => worker.pc = "store" /\ amount = worker.amount
  BY DEF StoreTransaction, At
<1>3. PICK amount :
          /\ transaction' = [transaction EXCEPT ![worker.payment] =
                                 [status |-> status, amount |-> amount]]
          /\ status = "success" => worker.pc = "store" /\ amount = worker.amount
  BY <1>2
<1>4. ASSUME NEW p \in Payments, transaction'[p].status = "success",
             transaction'[p].amount > 0
      PROVE  \E t \in TransferredFor(p)' : t.amount = transaction'[p].amount
  <2>1. CASE p = worker.payment
    <3>1. transaction'[p] = [status |-> status, amount |-> amount]
      BY <1>1, <1>3, <2>1 DEF TypeOK
    <3>2. status = "success" /\ amount > 0
      BY <1>4, <3>1
    <3>3. worker.pc = "store" /\ amount = worker.amount /\ worker.amount > 0
      BY <1>3, <3>2
    <3>4. PICK t \in TransferredFor(worker.payment) : t.amount = worker.amount
      BY <3>3 DEF MoneyReported
    <3>5. QED
      BY <2>1, <3>1, <3>3, <3>4 DEF TransferredFor
  <2>2. CASE p # worker.payment
    <3>1. transaction'[p] = transaction[p]
      BY <1>1, <1>3, <2>2 DEF TypeOK
    <3>2. PICK t \in TransferredFor(p) : t.amount = transaction[p].amount
      BY <1>4, <3>1 DEF MoneyReported, ReportedMoneyWasTransferred
    <3>3. QED
      BY <3>1, <3>2 DEF TransferredFor
  <2>3. QED
    BY <2>1, <2>2
<1>5. QED
  BY <1>1, <1>4 DEF MoneyReported, ReportedMoneyWasTransferred

\* A step of the worker but the transfer and the end of the job reports nothing
\* or an error.
LEMMA WorkerReports ==
    ASSUME TypeOK, WorkerStep, ~DoTransfer, ~StoreSuccess
    PROVE  \/ \E amount : StoreTransaction("error", amount)
           \/ UNCHANGED transaction /\ worker'.pc # "store"
<1>1. CASE \E p \in Payments : StartJob(p)
  BY <1>1 DEF StartJob, IdleWorker
<1>2. CASE CalculateTransferAmountWithWalletRetrieval
  BY <1>2 DEF TypeOK, Worker, CalculateTransferAmountWithWalletRetrieval,
              LoadForCalculation, GetBalance, GetSpentThisMonth,
              SaveRefreshedParent, SaveParent, GetChild, SaveRefreshedChild, Query,
              Call, StoreCalculationError, Goto
<1>3. CASE GetCustomerOrCreate \/ SaveCustomer
  BY <1>3 DEF TypeOK, Worker, GetCustomerOrCreate, SaveCustomer, Query, Call,
              StoreError, Goto
<1>4. CASE GetParentWalletOrCreate \/ SaveNewParent
  BY <1>4 DEF TypeOK, Worker, GetParentWalletOrCreate, SaveNewParent,
              SaveNewParentAs, Provision, Call, StoreError, Goto, WithToken
<1>5. CASE LinkParentWalletToCustomerIfUnlinked \/ SaveRegistered
  BY <1>5 DEF TypeOK, Worker, LinkParentWalletToCustomerIfUnlinked, SaveRegistered,
              Provision, Call, StoreError, Goto
<1>6. CASE GetChildWalletsOrCreateOne \/ SaveNewChild
  BY <1>6 DEF TypeOK, Worker, GetChildWalletsOrCreateOne, SaveNewChild, Provision,
              Call, StoreError, Goto, WithToken
<1>7. CASE LinkChildWalletToParentWalletIfUnlinked \/ SaveLinked
  BY <1>7 DEF TypeOK, Worker, LinkChildWalletToParentWalletIfUnlinked, SaveLinked,
              Provision, Call, StoreError, Goto
<1>8. CASE CreateDebitCardIfNotExists \/ SaveCard
  BY <1>8 DEF TypeOK, Worker, CreateDebitCardIfNotExists, SaveCard, Provision, Call,
              StoreError, Goto
<1>9. CASE EndThrown
  BY <1>9 DEF EndThrown, IdleWorker
<1>10. QED
  BY <1>1, <1>2, <1>3, <1>4, <1>5, <1>6, <1>7, <1>8, <1>9
     DEF WorkerStep, DoTransferOrIssueCard

LEMMA TransferReports ==
    ASSUME WalletInv, MoneyReported, DoTransfer
    PROVE  MoneyReported'
<1>1. TypeOK /\ worker \in Worker /\ HasMoney(intersolve)
  BY DEF WalletInv, TypeOK, Intersolve, HasMoney
<1>2. intersolve.transfers \subseteq intersolve'.transfers
  BY <1>1, TransferAdds
<1>3. CASE StoreTransaction("error", worker.amount)
  BY <1>2, <1>3, JobReported
<1>4. CASE /\ Goto("store") /\ UNCHANGED transaction
           /\ worker.amount > 0 => intersolve' = MoneyTransferred
  <2>1. /\ worker'.payment = worker.payment /\ worker'.amount = worker.amount
    BY <1>1, <1>4, GotoMoves DEF WorkerPoints
  <2>2. ASSUME worker.amount > 0
        PROVE  \E t \in intersolve'.transfers :
                   t.payment = worker.payment /\ t.amount = worker.amount
    <3> DEFINE t == [payment |-> worker.payment, namespace |-> Namespace,
                     amount |-> worker.amount, to |-> worker.parent.token]
    <3>1. t \in MoneyTransferred.transfers
      BY <1>1 DEF MoneyTransferred, HasMoney
    <3>2. t.payment = worker.payment /\ t.amount = worker.amount
      OBVIOUS
    <3>3. QED
      BY <1>4, <2>2, <3>1, <3>2
  <2>3. ReportedMoneyWasTransferred'
    BY <1>2, <1>4 DEF MoneyReported, ReportedMoneyWasTransferred, TransferredFor
  <2>4. QED
    BY <2>1, <2>2, <2>3 DEF MoneyReported, TransferredFor
<1>5. QED
  BY <1>3, <1>4 DEF DoTransfer, TransferUnless, Refused, Call, StoreError

\* A payment that is reported with an amount has transferred that amount,
\* whatever fails, is lost, crashes or runs beside it.
THEOREM ReportedMoneyWasTransferredHolds == Spec => []ReportedMoneyWasTransferred
<1>1. Init => MoneyReported
  BY DEF Init, MoneyReported, ReportedMoneyWasTransferred, IdleWorker
<1>2. WalletInv /\ MoneyReported /\ [Next]_vars => MoneyReported'
  <2> SUFFICES ASSUME WalletInv, MoneyReported, [Next]_vars
               PROVE  MoneyReported'
    OBVIOUS
  <2>1. TypeOK /\ HasMoney(intersolve)
    BY DEF WalletInv, TypeOK, Intersolve, HasMoney
  <2>2. CASE DoTransfer
    BY <2>2, TransferReports
  <2>3. CASE ~DoTransfer /\ WorkerStep
    <3>1. intersolve.transfers \subseteq intersolve'.transfers
      BY <2>1, <2>3, OnlyTransferTransfers
    <3>2. CASE StoreSuccess
      BY <3>1, <3>2, JobReported DEF StoreSuccess
    <3>3. CASE ~StoreSuccess
      BY <2>1, <2>3, <3>1, <3>3, WorkerReports, JobReported, NothingReported
    <3>4. QED
      BY <3>2, <3>3
  <2>4. CASE ~DoTransfer /\ ~WorkerStep
    <3>1. intersolve.transfers \subseteq intersolve'.transfers
      BY <2>1, <2>4, OnlyTransferTransfers
    <3>2. CASE Crash
      <4>1. UNCHANGED transaction /\ worker'.pc # "store"
        BY <3>2 DEF Crash, IdleWorker
      <4>2. QED
        BY <3>1, <4>1, NothingReported
    <3>3. CASE ~Crash
      <4>1. UNCHANGED <<worker, transaction>>
        BY <2>4, <3>3
           DEF Next, RefreshStep, LoadWallets, GetWallet, SaveWallet,
               unchangedByRefresh, ReissueCard, StartReissue, Unblock, IssueNewToken,
               SubstituteToken, Substitute, SaveSubstitute, SaveSubstituted,
               CreateNewCard, SaveNewCard, ReissueCall, unchangedByReissue,
               PauseCardOrThrow, StartPause, SetTokenBlocked, SetTokenBlockedOr,
               SavePaused, unchangedByPause, HolderStep, Spend, ExpireReservation,
               NewMonth, unchangedByHolder, vars
      <4>2. QED
        BY <3>1, <4>1, NothingReported
    <3>4. QED
      BY <3>2, <3>3
  <2>5. QED
    BY <2>2, <2>3, <2>4
<1>3. MoneyReported => ReportedMoneyWasTransferred
  BY DEF MoneyReported
<1>4. QED
  BY <1>1, <1>2, <1>3, WalletInvHolds, PTL DEF Spec

-----------------------------------------------------------------------------
(* The newest stored wallet is the one in use.                             *)

StoredToken(t) == \E i \in DOMAIN children : children[i].token = t

\* A reissue has a new token that is not stored yet.
Fresh(r) == reissue[r].pc \in {"substitute", "saveNew"}

\* Every token in use was issued; a new token is stored nowhere, is not
\* substituted and belongs to one reissue; the newest wallet is only
\* substituted while a reissue is about to store the next.
NewestInv ==
    /\ \A i \in DOMAIN children : children[i].token <= intersolve.issued
    /\ worker.token <= intersolve.issued
    /\ \A t \in intersolve.substituted : t <= intersolve.issued
    /\ children = << >> => intersolve.substituted = {}
    /\ \A r \in Reissues : Fresh(r) =>
           /\ reissue[r].new.token <= intersolve.issued
           /\ reissue[r].new.token \notin intersolve.substituted
           /\ ~StoredToken(reissue[r].new.token)
           /\ \A s \in Reissues \ {r} :
                  Fresh(s) => reissue[s].new.token # reissue[r].new.token
    /\ children # << >> /\ children[Newest].token \in intersolve.substituted
           => \E r \in Reissues : reissue[r].pc = "saveNew"

\* The wallets stay at their places.
SameTokens ==
    /\ children' \in Seq(Child)
    /\ Len(children') = Len(children)
    /\ \A i \in DOMAIN children : children'[i].token = children[i].token

NothingSubstituted ==
    /\ intersolve'.issued \in Nat
    /\ intersolve.issued <= intersolve'.issued
    /\ intersolve'.substituted = intersolve.substituted

\* A step is quiet when no wallet is substituted, stored or replaced in it.
Quiet ==
    /\ NothingSubstituted
    /\ SameTokens
    /\ worker'.token <= intersolve'.issued
    /\ \A r \in Reissues :
           /\ Fresh(r)' => Fresh(r) /\ reissue'[r].new = reissue[r].new
           /\ reissue[r].pc = "saveNew" => reissue'[r].pc = "saveNew"

LEMMA TokensAreNumbers == Token \subseteq Nat /\ Tokens \subseteq Nat
  BY BoundsAssumption DEF Token, Tokens

LEMMA QuietKeepsNewest ==
    ASSUME TypeOK, TypeOK', NewestInv, Quiet
    PROVE  NewestInv'
<1>1. /\ children \in Seq(Child) /\ children' \in Seq(Child)
      /\ DOMAIN children' = DOMAIN children /\ Len(children') = Len(children)
      /\ \A i \in DOMAIN children : children'[i].token = children[i].token
  BY DEF TypeOK, Quiet, SameTokens
<1>2. /\ intersolve.issued \in Nat /\ intersolve'.issued \in Nat
      /\ intersolve.issued <= intersolve'.issued
      /\ intersolve.substituted \subseteq Nat
      /\ intersolve'.substituted = intersolve.substituted
  BY DEF TypeOK, Intersolve, Quiet, NothingSubstituted, Token, Tokens
<1>3. \A i \in DOMAIN children : children'[i].token <= intersolve'.issued
  <2> TAKE i \in DOMAIN children
  <2>1. children[i].token \in Nat
    <3>1. children[i] \in Child
      BY <1>1
    <3>2. QED
      BY <3>1, TokensAreNumbers DEF Child
  <2>2. QED
    BY <1>1, <1>2, <2>1 DEF NewestInv
<1>4. worker'.token <= intersolve'.issued
  BY DEF Quiet
<1>5. \A t \in intersolve'.substituted : t <= intersolve'.issued
  BY <1>2 DEF NewestInv
<1>6. children' = << >> => intersolve'.substituted = {}
  BY <1>1, <1>2 DEF NewestInv
<1>7. \A t : StoredToken(t)' <=> StoredToken(t)
  BY <1>1 DEF StoredToken
<1>8. ASSUME NEW r \in Reissues, Fresh(r)'
      PROVE  /\ reissue'[r].new.token <= intersolve'.issued
             /\ reissue'[r].new.token \notin intersolve'.substituted
             /\ ~StoredToken(reissue[r].new.token)'
             /\ \A s \in Reissues \ {r} :
                    Fresh(s)' => reissue'[s].new.token # reissue'[r].new.token
  <2>1. Fresh(r) /\ reissue'[r].new = reissue[r].new
    BY <1>8 DEF Quiet
  <2>2. PICK t : t = reissue[r].new.token
    OBVIOUS
  <2>3. t \in Nat /\ t <= intersolve.issued
    BY <2>1, <2>2 DEF NewestInv, TypeOK, Reissue, Child, Token, Tokens
  <2>4. t <= intersolve'.issued
    BY <1>2, <2>3
  <2>5. t \notin intersolve'.substituted /\ ~StoredToken(t)'
    BY <1>2, <1>7, <2>1, <2>2 DEF NewestInv
  <2>6. ASSUME NEW s \in Reissues \ {r}, Fresh(s)'
        PROVE  reissue'[s].new.token # reissue'[r].new.token
    BY <2>1, <2>6 DEF NewestInv, Quiet
  <2>7. QED
    BY <2>1, <2>2, <2>4, <2>5, <2>6
<1>9. children' # << >> /\ children'[Len(children')].token \in intersolve'.substituted
          => \E r \in Reissues : reissue'[r].pc = "saveNew"
  <2> SUFFICES ASSUME children' # << >>,
                      children'[Len(children')].token \in intersolve'.substituted
               PROVE  \E r \in Reissues : reissue'[r].pc = "saveNew"
    OBVIOUS
  <2>1. children # << >> /\ Len(children) \in DOMAIN children
    BY <1>1
  <2>2. children[Newest].token \in intersolve.substituted
    BY <1>1, <1>2, <2>1 DEF Newest
  <2>3. QED
    BY <2>1, <2>2 DEF NewestInv, Quiet
<1>10. QED
  BY <1>1, <1>3, <1>4, <1>5, <1>6, <1>8, <1>9 DEF NewestInv, Newest

\* A write of an entity that is stored at its place.
LEMMA SavedInPlace ==
    ASSUME TypeOK, NEW c \in Child, NEW i, KnownChild(c, i),
           children' = [children EXCEPT ![i] = c]
    PROVE  SameTokens
  BY DEF TypeOK, KnownChild, SameTokens

LEMMA NothingSaved ==
    ASSUME TypeOK, UNCHANGED children
    PROVE  SameTokens
  BY DEF TypeOK, SameTokens

\* No call but the substitution substitutes.
LEMMA EffectsSubstituteNothing ==
    ASSUME TypeOK
    PROVE  \A effect :
              \/ effect \in {intersolve, TokenIssued, MoneyTransferred}
              \/ \E t : effect \in {HolderRegistered(t), CardMade(t)}
              \/ \E p, c : effect = TokenLinked(p, c)
              \/ \E t, b : effect = BlockedSet(t, b)
              => /\ effect.issued \in Nat /\ intersolve.issued <= effect.issued
                 /\ effect.substituted = intersolve.substituted
<1>1. intersolve \in Intersolve /\ intersolve.issued \in Nat
  BY DEF TypeOK, Intersolve, Token, Tokens
<1>2. /\ intersolve.issued <= intersolve.issued /\ intersolve.issued <= NextToken
      /\ NextToken \in Nat
  BY <1>1 DEF NextToken
<1>3. QED
  BY <1>1, <1>2
     DEF Intersolve, TokenIssued, MoneyTransferred, HolderRegistered, CardMade,
         TokenLinked, BlockedSet

\* The calls of the worker.
LEMMA WorkerEffects ==
    ASSUME WorkerStep
    PROVE  \/ intersolve' \in {intersolve, TokenIssued, MoneyTransferred}
           \/ \E t : intersolve' \in {HolderRegistered(t), CardMade(t)}
           \/ \E p, c : intersolve' = TokenLinked(p, c)
<1>1. CASE (\E p \in Payments : StartJob(p)) \/ StoreSuccess \/ EndThrown
  BY <1>1 DEF StartJob, StoreSuccess, EndThrown
<1>2. CASE CalculateTransferAmountWithWalletRetrieval
  BY <1>2 DEF CalculateTransferAmountWithWalletRetrieval, LoadForCalculation,
            GetBalance, GetSpentThisMonth, SaveRefreshedParent, GetChild,
            SaveRefreshedChild, Query, Call
<1>3. CASE DoTransferOrIssueCard
  BY <1>3 DEF DoTransferOrIssueCard, GetCustomerOrCreate, SaveCustomer,
            GetParentWalletOrCreate, SaveNewParent, SaveNewParentAs,
            LinkParentWalletToCustomerIfUnlinked, SaveRegistered,
            GetChildWalletsOrCreateOne, SaveNewChild,
            LinkChildWalletToParentWalletIfUnlinked, SaveLinked,
            CreateDebitCardIfNotExists, SaveCard, DoTransfer, TransferUnless,
            Refused, Provision, Query, Call
<1>4. QED
  BY <1>1, <1>2, <1>3 DEF WorkerStep

LEMMA WorkerSubstitutesNothing ==
    ASSUME TypeOK, WorkerStep
    PROVE  NothingSubstituted
  BY WorkerEffects, EffectsSubstituteNothing DEF NothingSubstituted

\* The token in the worker's hand was issued.
LEMMA WorkerTokenIssued ==
    ASSUME TypeOK, TypeOK', WorkerStep, worker.token <= intersolve.issued
    PROVE  worker'.token <= intersolve'.issued
<1>1. /\ intersolve.issued \in Nat /\ intersolve'.issued \in Nat
      /\ worker.token \in Nat /\ intersolve.issued <= intersolve'.issued
      /\ worker \in Worker
  BY TokensAreNumbers, WorkerSubstitutesNothing
     DEF TypeOK, Intersolve, Worker, NothingSubstituted
<1>2. CASE worker' = IdleWorker
  BY <1>1, <1>2 DEF IdleWorker
<1>3. CASE worker'.token = worker.token
  BY <1>1, <1>3
<1>4. CASE worker'.token = 0
  BY <1>1, <1>4
<1>5. CASE worker'.token = NextToken /\ intersolve' = TokenIssued
  BY <1>1, <1>5 DEF TokenIssued, TypeOK, Intersolve
<1>6. \/ worker' = IdleWorker \/ worker'.token = worker.token \/ worker'.token = 0
      \/ worker'.token = NextToken /\ intersolve' = TokenIssued
  <2>1. CASE \E p \in Payments : StartJob(p)
    BY <2>1 DEF StartJob, IdleWorker
  <2>2. CASE StoreSuccess \/ EndThrown
    BY <2>2 DEF StoreSuccess, EndThrown, StoreTransaction
  <2>3. CASE CalculateTransferAmountWithWalletRetrieval
    BY <1>1, <2>3
       DEF CalculateTransferAmountWithWalletRetrieval, LoadForCalculation,
           GetBalance, GetSpentThisMonth, SaveRefreshedParent, SaveParent, GetChild,
           SaveRefreshedChild, Query, Call, StoreCalculationError,
           StoreTransaction, Goto, Worker
  <2>4. CASE GetParentWalletOrCreate \/ GetChildWalletsOrCreateOne
    BY <1>1, <2>4
       DEF GetParentWalletOrCreate, GetChildWalletsOrCreateOne, Provision, Call,
           StoreError, StoreTransaction, Goto, WithToken, Worker
  <2>5. CASE SaveNewParent \/ SaveNewChild
    BY <1>1, <2>5 DEF SaveNewParent, SaveNewParentAs, SaveNewChild, Worker
  <2>6. CASE GetCustomerOrCreate \/ SaveCustomer \/ SaveRegistered \/ SaveLinked
             \/ SaveCard
    BY <1>1, <2>6
       DEF GetCustomerOrCreate, SaveCustomer, SaveRegistered, SaveLinked, SaveCard,
           Query, Call, StoreError, StoreTransaction, Goto, Worker
  <2>7. CASE LinkParentWalletToCustomerIfUnlinked
             \/ LinkChildWalletToParentWalletIfUnlinked \/ CreateDebitCardIfNotExists
    BY <1>1, <2>7
       DEF LinkParentWalletToCustomerIfUnlinked,
           LinkChildWalletToParentWalletIfUnlinked, CreateDebitCardIfNotExists,
           Provision, Call, StoreError, StoreTransaction, Goto, Worker
  <2>8. CASE DoTransfer
    BY <1>1, <2>8
       DEF DoTransfer, TransferUnless, Refused, Call, StoreError, StoreTransaction,
           Goto, Worker
  <2>9. QED
    BY <2>1, <2>2, <2>3, <2>4, <2>5, <2>6, <2>7, <2>8
       DEF WorkerStep, DoTransferOrIssueCard
<1>7. QED
  BY <1>2, <1>3, <1>4, <1>5, <1>6

\* Where the worker writes child wallets, and what it leaves alone.
LEMMA WorkerWrites ==
    ASSUME WorkerStep
    PROVE  \/ UNCHANGED children
           \/ SaveNewChild \/ SaveRefreshedChild \/ SaveLinked \/ SaveCard
<1>1. CASE (\E p \in Payments : StartJob(p)) \/ StoreSuccess \/ EndThrown
  BY <1>1 DEF StartJob, StoreSuccess, EndThrown, stored
<1>2. CASE CalculateTransferAmountWithWalletRetrieval
  BY <1>2
     DEF CalculateTransferAmountWithWalletRetrieval, LoadForCalculation,
         GetBalance, GetSpentThisMonth, SaveRefreshedParent, GetChild, Query,
         Call, StoreCalculationError, stored
<1>3. CASE DoTransferOrIssueCard
  BY <1>3
     DEF DoTransferOrIssueCard, GetCustomerOrCreate, SaveCustomer,
         GetParentWalletOrCreate, SaveNewParent, SaveNewParentAs,
         LinkParentWalletToCustomerIfUnlinked, SaveRegistered,
         GetChildWalletsOrCreateOne, LinkChildWalletToParentWalletIfUnlinked,
         CreateDebitCardIfNotExists, DoTransfer, TransferUnless, Refused,
         Provision, Query, Call, StoreError, stored
<1>4. QED
  BY <1>1, <1>2, <1>3 DEF WorkerStep

LEMMA WorkerLeavesRequests == WorkerStep => UNCHANGED <<refresh, reissue, pause>>
  BY DEF WorkerStep, StartJob, CalculateTransferAmountWithWalletRetrieval,
         LoadForCalculation, GetBalance, GetSpentThisMonth, SaveRefreshedParent,
         GetChild, SaveRefreshedChild, DoTransferOrIssueCard, GetCustomerOrCreate,
         SaveCustomer, GetParentWalletOrCreate, SaveNewParent, SaveNewParentAs,
         LinkParentWalletToCustomerIfUnlinked, SaveRegistered,
         GetChildWalletsOrCreateOne, SaveNewChild,
         LinkChildWalletToParentWalletIfUnlinked, SaveLinked,
         CreateDebitCardIfNotExists, SaveCard, DoTransfer, TransferUnless,
         Provision, StoreSuccess, EndThrown, unchangedByWorker, requests

\* The worker writes child wallets at their places, but for a first one.
LEMMA WorkerSavesInPlace ==
    ASSUME WalletInv, WorkerStep, ~SaveNewChild
    PROVE  SameTokens
<1> PICK w : w = worker
  OBVIOUS
<1>1. TypeOK /\ StoredInv /\ WorkerKnows(w) /\ w \in Worker
  BY DEF WalletInv, TypeOK
<1>2. CASE SaveRefreshedChild
  <2>1. KnownChild(w.child, w.at)
    BY <1>1, <1>2 DEF SaveRefreshedChild, At, WorkerKnows, Calculating
  <2>2. QED
    BY <1>1, <1>2, <2>1, SavedInPlace DEF SaveRefreshedChild, Worker
<1>3. CASE SaveLinked
  <2> PICK c : c = [children[w.at] EXCEPT !.linked = TRUE]
    OBVIOUS
  <2>1. children' = [children EXCEPT ![w.at] = c]
    BY <1>3 DEF SaveLinked
  <2>2. w.at \in DOMAIN children
    BY <1>1, <1>3 DEF SaveLinked, At, WorkerKnows, WithChild, KnownChild
  <2>3. c \in Child /\ c.token = children[w.at].token
    <3>1. children[w.at] \in Child
      BY <1>1, <2>2 DEF TypeOK
    <3>2. QED
      BY <3>1 DEF Child
  <2>4. QED
    BY <1>1, <2>1, <2>2, <2>3 DEF TypeOK, SameTokens
<1>4. CASE SaveCard
  <2> PICK c : c = [children[w.at] EXCEPT !.card = TRUE]
    OBVIOUS
  <2>1. children' = [children EXCEPT ![w.at] = c]
    BY <1>4 DEF SaveCard
  <2>2. w.at \in DOMAIN children
    BY <1>1, <1>4 DEF SaveCard, At, WorkerKnows, WithChild, KnownChild
  <2>3. c \in Child /\ c.token = children[w.at].token
    <3>1. children[w.at] \in Child
      BY <1>1, <2>2 DEF TypeOK
    <3>2. QED
      BY <3>1 DEF Child
  <2>4. QED
    BY <1>1, <2>1, <2>2, <2>3 DEF TypeOK, SameTokens
<1>5. CASE UNCHANGED children
  BY <1>1, <1>5, NothingSaved
<1>6. QED
  BY <1>2, <1>3, <1>4, <1>5, WorkerWrites

LEMMA WorkerKeepsNewest ==
    ASSUME WalletInv, NewestInv, WorkerStep
    PROVE  NewestInv'
<1>1. TypeOK /\ TypeOK' /\ NothingSubstituted /\ worker'.token <= intersolve'.issued
  BY WorkerKeepsWallets, WorkerSubstitutesNothing, WorkerTokenIssued
     DEF WalletInv, NewestInv
<1>2. UNCHANGED reissue
  BY WorkerLeavesRequests
<1>3. CASE ~SaveNewChild
  <2>1. Quiet
    BY <1>1, <1>2, <1>3, WorkerSavesInPlace DEF Quiet, Fresh
  <2>2. QED
    BY <1>1, <2>1, QuietKeepsNewest
<1>4. CASE SaveNewChild
  <2> PICK w : w = worker
    OBVIOUS
  <2> PICK c : c = NewChild(w.token)
    OBVIOUS
  <2>1. /\ children = << >> /\ StoredInv /\ w \in Worker
    BY <1>1, <1>4 DEF SaveNewChild, At, WalletInv, WorkerKnows, TypeOK
  <2>2. children' = <<c>> /\ c.token = w.token /\ UNCHANGED intersolve
    BY <1>4, <2>1 DEF SaveNewChild, NewChild
  <2>3. \A r \in Reissues : ~Fresh(r) /\ ~Fresh(r)'
    <3>1. \A r \in Reissues : Fresh(r) => KnownChild(reissue[r].old, reissue[r].oldAt)
      BY DEF WalletInv, ReissueKnows, Fresh, Substituting
    <3>2. \A r \in Reissues : ~Fresh(r)
      BY <2>1, <3>1 DEF KnownChild
    <3>3. QED
      BY <1>2, <3>2 DEF Fresh
  <2>4. intersolve'.substituted = {} /\ c.token <= intersolve'.issued
    BY <2>1, <2>2 DEF NewestInv
  <2>5. /\ DOMAIN children' = {1} /\ children'[1] = c /\ children' # << >>
    BY <2>2
  <2>6. QED
    BY <1>1, <2>3, <2>4, <2>5 DEF NewestInv
<1>5. QED
  BY <1>3, <1>4

\* Refreshes, pausings and the holder are quiet.
LEMMA RefreshIsQuiet ==
    ASSUME WalletInv, NewestInv, NEW r \in Refreshes, RefreshStep(r)
    PROVE  Quiet
<1> PICK f, at : f = refresh[r] /\ at = Head(f.todo)
  OBVIOUS
<1>1. TypeOK /\ f \in Refresh /\ RefreshKnows(f) /\ intersolve.issued \in Nat
  BY TokensAreNumbers DEF WalletInv, TypeOK, Intersolve
<1>2. /\ UNCHANGED <<worker, reissue>>
      /\ intersolve' = intersolve
  BY DEF RefreshStep, LoadWallets, GetWallet, SaveWallet, Query, Call,
         unchangedByRefresh
<1>3. SameTokens
  <2>1. CASE UNCHANGED children
    BY <1>1, <2>1, NothingSaved
  <2>2. CASE /\ SaveWallet(r) /\ at > 0
             /\ children' = [children EXCEPT ![at] = f.children[at]]
    <3>1. f.todo \in Seq(Nat) /\ f.todo # << >> /\ f.pc = "save"
      BY <1>1, <2>2 DEF SaveWallet, RefreshKnows, Refresh
    <3>2. at \in DOMAIN f.children
      BY <1>1, <2>2, <3>1 DEF RefreshKnows
    <3>3. f.children[at] \in Child /\ KnownChild(f.children[at], at)
      BY <1>1, <3>1, <3>2 DEF RefreshKnows, Refresh
    <3>4. QED
      BY <1>1, <2>2, <3>3, SavedInPlace
  <2>3. QED
    BY <2>1, <2>2 DEF RefreshStep, LoadWallets, GetWallet, SaveWallet
<1>4. QED
  BY <1>1, <1>2, <1>3 DEF Quiet, NothingSubstituted, Fresh, NewestInv

LEMMA PauseIsQuiet ==
    ASSUME WalletInv, NewestInv, NEW r \in Pauses, PauseCardOrThrow(r)
    PROVE  Quiet
<1> PICK x : x = pause[r]
  OBVIOUS
<1>1. TypeOK /\ x \in Pause /\ PauseKnows(x) /\ intersolve.issued \in Nat
  BY TokensAreNumbers DEF WalletInv, TypeOK, Intersolve
<1>2. UNCHANGED <<worker, reissue>>
  BY DEF PauseCardOrThrow, StartPause, SetTokenBlocked, SetTokenBlockedOr,
         SavePaused, unchangedByPause
<1>3. NothingSubstituted /\ intersolve'.issued = intersolve.issued
  <2>1. /\ intersolve'.issued = intersolve.issued
        /\ intersolve'.substituted = intersolve.substituted
    BY <1>1 DEF PauseCardOrThrow, StartPause, SetTokenBlocked, SetTokenBlockedOr,
                SavePaused, Call, BlockedSet, TypeOK, Intersolve
  <2>2. QED
    BY <1>1, <2>1 DEF NothingSubstituted
<1>4. SameTokens
  <2>1. CASE UNCHANGED children
    BY <1>1, <2>1, NothingSaved
  <2>2. CASE SavePaused(r)
    <3> PICK c : c = [x.child EXCEPT !.blocked = ~@]
      OBVIOUS
    <3>1. KnownChild(x.child, x.at) /\ x.child \in Child
      BY <1>1, <2>2 DEF SavePaused, PauseKnows, Pause
    <3>2. (~x.child.blocked) \in BOOLEAN
      BY <3>1 DEF Child
    <3>3. c \in Child /\ c.token = x.child.token
      BY <3>1, <3>2 DEF Child
    <3>4. children' = [children EXCEPT ![x.at] = c]
      BY <2>2 DEF SavePaused
    <3>5. QED
      BY <1>1, <3>1, <3>3, <3>4 DEF TypeOK, KnownChild, SameTokens
  <2>3. QED
    BY <2>1, <2>2
       DEF PauseCardOrThrow, StartPause, SetTokenBlocked, SetTokenBlockedOr
<1>5. QED
  BY <1>1, <1>2, <1>3, <1>4 DEF Quiet, Fresh, NewestInv

LEMMA HolderIsQuiet ==
    ASSUME WalletInv, NewestInv, HolderStep
    PROVE  Quiet
<1>1. TypeOK /\ intersolve.issued \in Nat
  BY TokensAreNumbers DEF WalletInv, TypeOK, Intersolve
<1>2. UNCHANGED <<worker, reissue, children>>
  BY DEF HolderStep, Spend, ExpireReservation, NewMonth, unchangedByHolder, stored,
         requests
<1>3. NothingSubstituted /\ intersolve'.issued = intersolve.issued
  <2>1. /\ intersolve'.issued = intersolve.issued
        /\ intersolve'.substituted = intersolve.substituted
    BY <1>1 DEF HolderStep, Spend, ExpireReservation, NewMonth, TypeOK, Intersolve
  <2>2. QED
    BY <1>1, <2>1 DEF NothingSubstituted
<1>4. QED
  BY <1>1, <1>2, <1>3, NothingSaved DEF Quiet, Fresh, NewestInv

\* So is a reissue that stores no wallet and is not about to.
LEMMA ReissueIsQuiet ==
    ASSUME WalletInv, NewestInv, NEW r \in Reissues, NEW y \in Reissue,
           reissue' = [reissue EXCEPT ![r] = y],
           y.pc \notin {"substitute", "saveNew"}, reissue[r].pc # "saveNew",
           UNCHANGED worker, NothingSubstituted, SameTokens
    PROVE  Quiet
<1>1. worker'.token <= intersolve'.issued
  <2>1. intersolve.issued \in Nat /\ worker.token \in Nat
    BY TokensAreNumbers DEF WalletInv, TypeOK, Intersolve, Worker
  <2>2. QED
    BY <2>1 DEF NewestInv, NothingSubstituted
<1>2. ASSUME NEW s \in Reissues
      PROVE  /\ Fresh(s)' => Fresh(s) /\ reissue'[s].new = reissue[s].new
             /\ reissue[s].pc = "saveNew" => reissue'[s].pc = "saveNew"
  <2>1. CASE s = r
    BY <2>1 DEF WalletInv, TypeOK, Fresh
  <2>2. CASE s # r
    BY <2>2 DEF WalletInv, TypeOK, Fresh
  <2>3. QED
    BY <2>1, <2>2
<1>3. QED
  BY <1>1, <1>2 DEF Quiet

LEMMA ReissueToIsQuiet ==
    ASSUME WalletInv, NewestInv, NEW r \in Reissues,
           NEW pc \in ReissuePoints \ {"substitute", "saveNew"}, ReissueTo(r, pc),
           reissue[r].pc # "saveNew",
           UNCHANGED worker, NothingSubstituted, SameTokens
    PROVE  Quiet
<1> PICK y : y = [reissue[r] EXCEPT !.pc = pc]
  OBVIOUS
<1>1. y \in Reissue /\ y.pc = pc /\ reissue' = [reissue EXCEPT ![r] = y]
  BY DEF WalletInv, TypeOK, Reissue, ReissueTo
<1>2. QED
  BY <1>1, ReissueIsQuiet

\* A call of a reissue that fails, when a failing call has no effect.
LEMMA FailedReissueIsQuiet ==
    ASSUME WalletInv, NewestInv, NEW r \in Reissues, ReissueTo(r, "done"),
           reissue[r].pc # "saveNew", UNCHANGED <<intersolve, worker, children>>
    PROVE  Quiet
<1>1. TypeOK /\ intersolve.issued \in Nat
  BY TokensAreNumbers DEF WalletInv, TypeOK, Intersolve
<1>2. NothingSubstituted
  BY <1>1 DEF NothingSubstituted
<1>3. QED
  BY <1>1, <1>2, NothingSaved, ReissueToIsQuiet DEF ReissuePoints

\* Most steps of a reissue are quiet.
LEMMA QuietReissues ==
    ASSUME WalletInv, NewestInv, NEW r \in Reissues,
           \/ StartReissue(r) \/ Unblock(r) \/ SaveSubstituted(r)
           \/ CreateNewCard(r) \/ SaveNewCard(r)
    PROVE  Quiet
<1> PICK x : x = reissue[r]
  OBVIOUS
<1>1. /\ TypeOK /\ StoredInv /\ x \in Reissue /\ ReissueKnows(x)
      /\ intersolve.issued \in Nat
  BY TokensAreNumbers DEF WalletInv, TypeOK, Intersolve
<1>2. UNCHANGED worker
  BY DEF StartReissue, Unblock, SaveSubstituted, CreateNewCard, SaveNewCard,
         ReissueCall, unchangedByReissue
<1>3. UNCHANGED intersolve => NothingSubstituted
  BY <1>1 DEF NothingSubstituted
<1>4. CASE StartReissue(r)
  <2> PICK c, i : c = children[Newest] /\ i = Newest
    OBVIOUS
  <2> PICK pc \in {"unblock", "issue"} : pc = IF c.blocked THEN "unblock" ELSE "issue"
    OBVIOUS
  <2> PICK y : y = [x EXCEPT !.pc = pc, !.old = c, !.oldAt = i]
    OBVIOUS
  <2>1. c \in Child /\ i \in Nat
    BY <1>1, <1>4 DEF StartReissue, TypeOK, Newest
  <2>2. reissue' = [reissue EXCEPT ![r] = y]
    <3>1. reissue' = [reissue EXCEPT ![r].pc = pc, ![r].old = c, ![r].oldAt = i]
      BY <1>4 DEF StartReissue
    <3>2. QED
      BY <1>1, <3>1 DEF TypeOK, Reissue
  <2>3. y \in Reissue /\ y.pc = pc
    BY <1>1, <2>1 DEF Reissue, ReissuePoints
  <2>4. x.pc = "idle" /\ UNCHANGED <<intersolve, children>>
    BY <1>4 DEF StartReissue
  <2>5. QED
    BY <1>1, <1>2, <1>3, <2>2, <2>3, <2>4, NothingSaved, ReissueIsQuiet
<1>5. CASE Unblock(r)
  <2>1. /\ x.pc = "unblock" /\ UNCHANGED children
        /\ ReissueTo(r, "issue") \/ ReissueTo(r, "done")
    BY <1>5 DEF Unblock, ReissueCall, Call
  <2>2. NothingSubstituted
    <3>1. intersolve' = intersolve \/ \E t, b : intersolve' = BlockedSet(t, b)
      BY <1>5 DEF Unblock, ReissueCall, Call
    <3>2. QED
      BY <1>1, <3>1, EffectsSubstituteNothing DEF NothingSubstituted
  <2>3. QED
    BY <1>1, <1>2, <2>1, <2>2, NothingSaved, ReissueToIsQuiet DEF ReissuePoints
<1>6. CASE CreateNewCard(r)
  <2>1. /\ x.pc = "card" /\ UNCHANGED children
        /\ ReissueTo(r, "saveCard") \/ ReissueTo(r, "done")
    BY <1>6 DEF CreateNewCard, ReissueCall, Call
  <2>2. NothingSubstituted
    <3>1. intersolve' = intersolve \/ \E t : intersolve' = CardMade(t)
      BY <1>6 DEF CreateNewCard, ReissueCall, Call
    <3>2. QED
      BY <1>1, <3>1, EffectsSubstituteNothing DEF NothingSubstituted
  <2>3. QED
    BY <1>1, <1>2, <2>1, <2>2, NothingSaved, ReissueToIsQuiet DEF ReissuePoints
<1>7. CASE SaveSubstituted(r)
  <2> PICK c : c = [x.old EXCEPT !.substituted = TRUE]
    OBVIOUS
  <2>1. /\ x.pc = "saveOld" /\ UNCHANGED intersolve /\ ReissueTo(r, "card")
        /\ children' = [children EXCEPT ![x.oldAt] = c]
    BY <1>7 DEF SaveSubstituted
  <2>2. x.old \in Child /\ KnownChild(x.old, x.oldAt)
    BY <1>1, <2>1 DEF Reissue, ReissueKnows, Substituting
  <2>3. c \in Child /\ c.token = x.old.token
    BY <2>2 DEF Child
  <2>4. SameTokens
    BY <1>1, <2>1, <2>2, <2>3 DEF TypeOK, KnownChild, SameTokens
  <2>5. QED
    BY <1>2, <1>3, <2>1, <2>4, ReissueToIsQuiet DEF ReissuePoints
<1>8. CASE SaveNewCard(r)
  <2> PICK c : c = [x.new EXCEPT !.card = TRUE]
    OBVIOUS
  <2>1. /\ x.pc = "saveCard" /\ UNCHANGED intersolve /\ ReissueTo(r, "done")
        /\ children' = [children EXCEPT ![x.newAt] = c]
    BY <1>8 DEF SaveNewCard
  <2>2. x.new \in Child /\ KnownChild(x.new, x.newAt)
    BY <1>1, <2>1 DEF Reissue, ReissueKnows
  <2>3. c \in Child /\ c.token = x.new.token
    BY <2>2 DEF Child
  <2>4. SameTokens
    BY <1>1, <2>1, <2>2, <2>3 DEF TypeOK, KnownChild, SameTokens
  <2>5. QED
    BY <1>2, <1>3, <2>1, <2>4, ReissueToIsQuiet DEF ReissuePoints
<1>9. QED
  BY <1>4, <1>5, <1>6, <1>7, <1>8

\* A reissue gets a token of its own.
LEMMA IssueKeepsNewest ==
    ASSUME WalletInv, NewestInv, ~LostReplies, NEW r \in Reissues, IssueNewToken(r)
    PROVE  NewestInv'
<1> PICK x, n : x = reissue[r] /\ n = NextToken
  OBVIOUS
<1> PICK c : c = [NewChild(n) EXCEPT !.linked = TRUE]
  OBVIOUS
<1>1. /\ TypeOK /\ TypeOK' /\ x \in Reissue /\ ReissueKnows(x) /\ x.pc = "issue"
      /\ intersolve.issued \in Nat /\ n = intersolve.issued + 1
      /\ UNCHANGED <<children, worker>>
  BY ReissueKeepsWallets, TokensAreNumbers
     DEF WalletInv, TypeOK, Intersolve, NextToken, IssueNewToken, ReissueCard,
         ReissueCall, unchangedByReissue
<1>2. CASE intersolve' = intersolve /\ ReissueTo(r, "done")
  <2>1. Quiet
    BY <1>1, <1>2, FailedReissueIsQuiet
  <2>2. QED
    BY <1>1, <2>1, QuietKeepsNewest
<1>3. CASE /\ intersolve' = TokenIssued
           /\ reissue' = [reissue EXCEPT ![r].pc = "substitute", ![r].new = c]
  <2>1. /\ intersolve'.issued = n
        /\ intersolve'.substituted = intersolve.substituted
    BY <1>1, <1>3 DEF TokenIssued, TypeOK, Intersolve
  <2>2. c.token = n
    BY DEF NewChild
  <2>3. /\ reissue'[r].pc = "substitute" /\ reissue'[r].new = c
        /\ \A s \in Reissues \ {r} : reissue'[s] = reissue[s]
    BY <1>1, <1>3 DEF TypeOK, Reissue
  <2>4. \A t \in Token : t <= intersolve.issued => t <= n /\ t # n
    BY <1>1, TokensAreNumbers
  <2>5. /\ \A i \in DOMAIN children : children[i].token \in Token
        /\ intersolve.substituted \subseteq Token
        /\ \A s \in Reissues : reissue[s].new.token \in Token
        /\ worker.token \in Token
    <3>1. \A i \in DOMAIN children : children[i] \in Child
      BY <1>1 DEF TypeOK
    <3>2. QED
      BY <1>1, <3>1 DEF TypeOK, Child, Intersolve, Reissue, Worker, Token
  <2>6. /\ \A i \in DOMAIN children :
               children[i].token <= n /\ children[i].token # n
        /\ \A t \in intersolve.substituted : t <= n /\ t # n
        /\ worker.token <= n
        /\ n <= n
    BY <1>1, <2>4, <2>5 DEF NewestInv
  <2>7. ~StoredToken(n) /\ \A t : StoredToken(t)' <=> StoredToken(t)
    BY <1>1, <2>6 DEF StoredToken
  <2>8. ASSUME NEW s \in Reissues \ {r}, Fresh(s)'
        PROVE  /\ Fresh(s)
               /\ reissue[s].new.token <= n /\ reissue[s].new.token # n
               /\ reissue[s].new.token \notin intersolve.substituted
               /\ ~StoredToken(reissue[s].new.token)
    <3>1. Fresh(s)
      BY <2>3, <2>8 DEF Fresh
    <3>2. QED
      BY <2>4, <2>5, <3>1 DEF NewestInv
  <2>9. ASSUME NEW s \in Reissues, Fresh(s)'
        PROVE  /\ reissue'[s].new.token <= intersolve'.issued
               /\ reissue'[s].new.token \notin intersolve'.substituted
               /\ ~StoredToken(reissue[s].new.token)'
               /\ \A u \in Reissues \ {s} :
                      Fresh(u)' => reissue'[u].new.token # reissue'[s].new.token
    <3>1. CASE s = r
      <4>1. reissue'[s].new.token = n
        BY <2>2, <2>3, <3>1
      <4>2. \A u \in Reissues \ {s} : Fresh(u)' => reissue'[u].new.token # n
        BY <2>3, <2>8, <3>1
      <4>3. QED
        BY <2>1, <2>6, <2>7, <4>1, <4>2
    <3>2. CASE s # r
      <4>1. s \in Reissues \ {r} /\ reissue'[s] = reissue[s]
        BY <2>3, <3>2
      <4>2. /\ Fresh(s)
            /\ reissue[s].new.token <= n /\ reissue[s].new.token # n
            /\ reissue[s].new.token \notin intersolve.substituted
            /\ ~StoredToken(reissue[s].new.token)
        BY <2>8, <2>9, <4>1
      <4>3. ASSUME NEW u \in Reissues \ {s}, Fresh(u)'
            PROVE  reissue'[u].new.token # reissue'[s].new.token
        <5>1. CASE u = r
          BY <2>2, <2>3, <4>1, <4>2, <5>1
        <5>2. CASE u # r
          BY <2>3, <2>8, <4>1, <4>2, <4>3, <5>2 DEF NewestInv
        <5>3. QED
          BY <5>1, <5>2
      <4>4. QED
        BY <2>1, <2>7, <4>1, <4>2, <4>3
    <3>3. QED
      BY <3>1, <3>2
  <2>10. children # << >> /\ children[Newest].token \in intersolve.substituted
             => \E s \in Reissues : reissue'[s].pc = "saveNew"
    BY <1>1, <2>3 DEF NewestInv
  <2>11. QED
    BY <1>1, <2>1, <2>6, <2>9, <2>10 DEF NewestInv, Newest
<1>4. QED
  BY <1>2, <1>3 DEF IssueNewToken, ReissueCall, Call

\* The new token of a reissue is in use before it is stored; until then the
\* newest stored wallet is the substituted one.
LEMMA SubstituteKeepsNewest ==
    ASSUME WalletInv, NewestInv, ~LostReplies, NEW r \in Reissues, SubstituteToken(r)
    PROVE  NewestInv'
<1> PICK x : x = reissue[r]
  OBVIOUS
<1>1. /\ TypeOK /\ TypeOK' /\ x \in Reissue /\ ReissueKnows(x)
      /\ x.pc = "substitute" /\ UNCHANGED <<children, worker>>
  BY ReissueKeepsWallets
     DEF WalletInv, TypeOK, SubstituteToken, Substitute, ReissueCard, ReissueCall,
         unchangedByReissue
<1>2. CASE intersolve' = intersolve /\ ReissueTo(r, "done")
  <2>1. Quiet
    BY <1>1, <1>2, FailedReissueIsQuiet
  <2>2. QED
    BY <1>1, <2>1, QuietKeepsNewest
<1>3. CASE /\ intersolve' = TokenSubstituted(x.old.token, x.new.token)
           /\ ReissueTo(r, "saveNew")
  <2>1. /\ intersolve'.issued = intersolve.issued
        /\ intersolve'.substituted = intersolve.substituted \cup {x.old.token}
    BY <1>1, <1>3 DEF TokenSubstituted, TypeOK, Intersolve
  <2>2. /\ x.oldAt \in DOMAIN children /\ children[x.oldAt].token = x.old.token
        /\ children # << >>
    <3>1. KnownChild(x.old, x.oldAt)
      BY <1>1 DEF ReissueKnows, Substituting
    <3>2. QED
      BY <1>1, <3>1 DEF KnownChild, TypeOK
  <2>3. StoredToken(x.old.token) /\ x.old.token <= intersolve.issued
    BY <2>2 DEF StoredToken, NewestInv
  <2>4. /\ reissue'[r].pc = "saveNew"
        /\ \A s \in Reissues : /\ Fresh(s)' <=> Fresh(s)
                               /\ reissue'[s].new = reissue[s].new
    BY <1>1, <1>3 DEF ReissueTo, TypeOK, Reissue, Fresh
  <2>5. \A t : StoredToken(t)' <=> StoredToken(t)
    BY <1>1 DEF StoredToken
  <2>6. ASSUME NEW s \in Reissues, Fresh(s)'
        PROVE  /\ reissue'[s].new.token <= intersolve'.issued
               /\ reissue'[s].new.token \notin intersolve'.substituted
               /\ ~StoredToken(reissue[s].new.token)'
               /\ \A u \in Reissues \ {s} :
                      Fresh(u)' => reissue'[u].new.token # reissue'[s].new.token
    <3>1. Fresh(s) /\ reissue'[s].new = reissue[s].new
      BY <2>4, <2>6
    <3>2. reissue[s].new.token # x.old.token
      BY <2>3, <3>1 DEF NewestInv
    <3>3. QED
      BY <2>1, <2>4, <2>5, <3>1, <3>2 DEF NewestInv
  <2>7. QED
    BY <1>1, <2>1, <2>2, <2>3, <2>4, <2>6 DEF NewestInv
<1>4. QED
  BY <1>2, <1>3 DEF SubstituteToken, Substitute, Refused, ReissueCall, Call

\* Then the new wallet is the newest.
LEMMA SaveSubstituteKeepsNewest ==
    ASSUME WalletInv, NewestInv, NEW r \in Reissues, SaveSubstitute(r)
    PROVE  NewestInv'
<1> PICK x, c : x = reissue[r] /\ c = reissue[r].new
  OBVIOUS
<1>1. /\ TypeOK /\ TypeOK' /\ x \in Reissue /\ x.pc = "saveNew" /\ c \in Child
      /\ UNCHANGED <<intersolve, worker>>
  BY ReissueKeepsWallets
     DEF WalletInv, TypeOK, SaveSubstitute, ReissueCard, unchangedByReissue, Reissue
<1>2. /\ children' \in Seq(Child) /\ children' # << >>
      /\ Len(children') = Len(children) + 1
      /\ DOMAIN children' = DOMAIN children \cup {Len(children')}
      /\ children'[Len(children')] = c
      /\ \A i \in DOMAIN children : children'[i] = children[i]
  BY <1>1 DEF SaveSubstitute, TypeOK
<1>3. PICK n \in Nat : n = Newest + 1
  BY <1>1 DEF TypeOK, Newest
<1>4. reissue' = [reissue EXCEPT ![r].pc = "saveOld", ![r].newAt = n]
  BY <1>3 DEF SaveSubstitute
<1>5. /\ reissue'[r].pc = "saveOld"
      /\ \A s \in Reissues \ {r} : reissue'[s] = reissue[s]
  BY <1>1, <1>4 DEF TypeOK, Reissue
<1>6. /\ Fresh(r) /\ c.token <= intersolve.issued
      /\ c.token \notin intersolve.substituted
  BY <1>1 DEF Fresh, NewestInv
<1>7. \A t : StoredToken(t)' => StoredToken(t) \/ t = c.token
  BY <1>2 DEF StoredToken
<1>8. ASSUME NEW s \in Reissues, Fresh(s)'
      PROVE  /\ reissue'[s].new.token <= intersolve'.issued
             /\ reissue'[s].new.token \notin intersolve'.substituted
             /\ ~StoredToken(reissue[s].new.token)'
             /\ \A u \in Reissues \ {s} :
                    Fresh(u)' => reissue'[u].new.token # reissue'[s].new.token
  <2>1. s # r
    BY <1>5, <1>8 DEF Fresh
  <2>2. reissue'[s] = reissue[s] /\ Fresh(s)
    BY <1>5, <1>8, <2>1 DEF Fresh
  <2>3. reissue[s].new.token # c.token
    BY <1>6, <2>1, <2>2 DEF NewestInv
  <2>4. \A u \in Reissues : Fresh(u)' => Fresh(u) /\ reissue'[u] = reissue[u]
    BY <1>5 DEF Fresh
  <2>5. QED
    BY <1>1, <1>7, <2>2, <2>3, <2>4 DEF NewestInv
<1>9. QED
  BY <1>1, <1>2, <1>6, <1>8 DEF NewestInv, Newest

\* Once all is done, the newest stored wallet is the one in use: when no answer
\* is lost and the service does not crash.  Faults may interrupt a reissue, and
\* reissues, refreshes, payments and pausings may overlap.
THEOREM NewestIsCurrentHolds ==
    ~LostReplies /\ MaxCrashes = 0 => (Spec => []NewestIsCurrent)
<1> SUFFICES ASSUME ~LostReplies, MaxCrashes = 0
             PROVE  Spec => []NewestIsCurrent
  OBVIOUS
<1>1. Init => NewestInv
  <2> SUFFICES ASSUME Init
               PROVE  NewestInv
    OBVIOUS
  <2>1. /\ children = << >> /\ worker = IdleWorker /\ intersolve.issued = 0
        /\ intersolve.substituted = {}
        /\ \A r \in Reissues : reissue[r].pc = "idle"
    BY DEF Init, IdleReissue
  <2>2. worker.token = 0 /\ 0 <= 0
    BY <2>1 DEF IdleWorker
  <2>3. QED
    BY <2>1, <2>2 DEF NewestInv, Fresh
<1>2. WalletInv /\ NewestInv /\ [Next]_vars => NewestInv'
  <2> SUFFICES ASSUME WalletInv, NewestInv, [Next]_vars
               PROVE  NewestInv'
    OBVIOUS
  <2>1. TypeOK /\ TypeOK'
    BY NextKeepsWallets DEF WalletInv
  <2>2. CASE WorkerStep
    BY <2>2, WorkerKeepsNewest
  <2>3. CASE \E r \in Refreshes : RefreshStep(r)
    BY <2>1, <2>3, RefreshIsQuiet, QuietKeepsNewest
  <2>4. CASE \E r \in Pauses : PauseCardOrThrow(r)
    BY <2>1, <2>4, PauseIsQuiet, QuietKeepsNewest
  <2>5. CASE HolderStep
    BY <2>1, <2>5, HolderIsQuiet, QuietKeepsNewest
  <2>6. ASSUME NEW r \in Reissues, ReissueCard(r)
        PROVE  NewestInv'
    BY <2>1, <2>6, IssueKeepsNewest, SubstituteKeepsNewest,
       SaveSubstituteKeepsNewest, QuietReissues, QuietKeepsNewest DEF ReissueCard
  <2>7. ~Crash
    BY <2>1 DEF Crash, TypeOK
  <2>8. CASE UNCHANGED vars
    BY <2>8 DEF vars, stored, requests, NewestInv, StoredToken, Fresh, Newest
  <2>9. QED
    BY <2>2, <2>3, <2>4, <2>5, <2>6, <2>7, <2>8 DEF Next
<1>3. NewestInv => NewestIsCurrent
  BY DEF NewestInv, NewestIsCurrent, NobodyWorking, Working
<1>4. QED
  BY <1>1, <1>2, <1>3, WalletInvHolds, PTL DEF Spec

-----------------------------------------------------------------------------
(* What is stored as paused is blocked.                                    *)

\* A token is blocked, or somebody who saw it blocked asked to unblock it.
BlockedOrAsked(t) == t \in intersolve.blocked \/ UnblockingAsked(t)

PauseIsTrue(c) == c.blocked => BlockedOrAsked(c.token)

\* What a refresh, a reissue or a pausing may still write.
RefreshPaused(f) == \A i \in DOMAIN f.children : PauseIsTrue(f.children[i])
ReissuePaused(x) == PauseIsTrue(x.old) /\ (x.pc = "unblock" => x.old.blocked)
PausePaused(x) == x.pc = "save" => BlockedOrAsked(x.child.token)

PausedInv ==
    /\ \A i \in DOMAIN children : PauseIsTrue(children[i])
    /\ PauseIsTrue(worker.child)
    /\ \A r \in Refreshes : RefreshPaused(refresh[r])
    /\ \A r \in Reissues : ReissuePaused(reissue[r])
    /\ \A p \in Pauses : PausePaused(pause[p])

\* A step after which who asked still has asked ...
StillAsked ==
    /\ \A r \in Reissues : reissue[r].pc \notin {"idle", "unblock"} =>
           /\ reissue'[r].pc \notin {"idle", "unblock"}
           /\ reissue'[r].old = reissue[r].old
    /\ \A p \in Pauses : pause[p].pc \notin {"idle", "block"} =>
           /\ pause'[p].pc \notin {"idle", "block"}
           /\ pause'[p].child = pause[p].child

\* ... and that unblocks what somebody asks to unblock, and nothing else.
Tame == \A t : BlockedOrAsked(t) => BlockedOrAsked(t)'

LEMMA AskedStays ==
    ASSUME StillAsked
    PROVE  \A t : UnblockingAsked(t) => UnblockingAsked(t)'
<1> SUFFICES ASSUME NEW t, UnblockingAsked(t)
             PROVE  UnblockingAsked(t)'
  OBVIOUS
<1>1. CASE \E r \in Reissues :
               /\ reissue[r].pc \notin {"idle", "unblock"}
               /\ reissue[r].old.token = t /\ reissue[r].old.blocked
  BY <1>1 DEF StillAsked, UnblockingAsked
<1>2. CASE \E r \in Pauses :
               /\ pause[r].pc \notin {"idle", "block"}
               /\ pause[r].child.token = t /\ pause[r].child.blocked
  BY <1>2 DEF StillAsked, UnblockingAsked
<1>3. QED
  BY <1>1, <1>2 DEF UnblockingAsked

LEMMA TameStep ==
    ASSUME StillAsked,
           \A t \in intersolve.blocked :
               t \in intersolve'.blocked \/ UnblockingAsked(t)'
    PROVE  Tame
  BY AskedStays DEF Tame, BlockedOrAsked

\* What was true stays true.
LEMMA TruthStays ==
    ASSUME Tame
    PROVE  /\ \A c : PauseIsTrue(c) => PauseIsTrue(c)'
           /\ \A f : RefreshPaused(f) => RefreshPaused(f)'
           /\ \A x : ReissuePaused(x) => ReissuePaused(x)'
           /\ \A x : PausePaused(x) => PausePaused(x)'
<1>1. ASSUME NEW c, PauseIsTrue(c)
      PROVE  PauseIsTrue(c)'
  BY <1>1 DEF Tame, PauseIsTrue
<1>2. ASSUME NEW f, RefreshPaused(f)
      PROVE  RefreshPaused(f)'
  <2>1. ASSUME NEW i \in DOMAIN f.children
        PROVE  PauseIsTrue(f.children[i])'
    <3> PICK c : c = f.children[i]
      OBVIOUS
    <3>1. PauseIsTrue(c)'
      BY <1>1, <1>2 DEF RefreshPaused
    <3>2. QED
      BY <3>1
  <2>2. QED
    BY <2>1 DEF RefreshPaused
<1>3. ASSUME NEW x, ReissuePaused(x)
      PROVE  ReissuePaused(x)'
  BY <1>1, <1>3 DEF ReissuePaused
<1>4. ASSUME NEW x, PausePaused(x)
      PROVE  PausePaused(x)'
  BY <1>4 DEF Tame, PausePaused
<1>5. QED
  BY <1>1, <1>2, <1>3, <1>4

LEMMA UnchangedStays ==
    ASSUME PausedInv, Tame
    PROVE  /\ UNCHANGED worker => PauseIsTrue(worker.child)'
           /\ UNCHANGED refresh => \A r \in Refreshes : RefreshPaused(refresh[r])'
           /\ UNCHANGED reissue => \A r \in Reissues : ReissuePaused(reissue[r])'
           /\ UNCHANGED pause => \A p \in Pauses : PausePaused(pause[p])'
<1>1. ASSUME UNCHANGED worker
      PROVE  PauseIsTrue(worker.child)'
  <2> PICK c : c = worker.child
    OBVIOUS
  <2>1. PauseIsTrue(c)'
    BY TruthStays DEF PausedInv
  <2>2. QED
    BY <1>1, <2>1
<1>2. ASSUME UNCHANGED refresh, NEW r \in Refreshes
      PROVE  RefreshPaused(refresh[r])'
  <2> PICK f : f = refresh[r]
    OBVIOUS
  <2>1. RefreshPaused(f)'
    BY TruthStays DEF PausedInv
  <2>2. QED
    BY <1>2, <2>1
<1>3. ASSUME UNCHANGED reissue, NEW r \in Reissues
      PROVE  ReissuePaused(reissue[r])'
  <2> PICK x : x = reissue[r]
    OBVIOUS
  <2>1. ReissuePaused(x)'
    BY TruthStays DEF PausedInv
  <2>2. QED
    BY <1>3, <2>1
<1>4. ASSUME UNCHANGED pause, NEW p \in Pauses
      PROVE  PausePaused(pause[p])'
  <2> PICK x : x = pause[p]
    OBVIOUS
  <2>1. PausePaused(x)'
    BY TruthStays DEF PausedInv
  <2>2. QED
    BY <1>4, <2>1
<1>5. QED
  BY <1>1, <1>2, <1>3, <1>4

\* At most one wallet is stored.
OneSaved(c) ==
    \/ UNCHANGED children
    \/ children' = Append(children, c)
    \/ \E i : children' = [children EXCEPT ![i] = c]

LEMMA StoredIsTrue ==
    ASSUME TypeOK, PausedInv, Tame, NEW c, PauseIsTrue(c), OneSaved(c)
    PROVE  \A j \in DOMAIN children' : PauseIsTrue(children[j])'
<1> TAKE j \in DOMAIN children'
<1> PICK d : d = children'[j]
  OBVIOUS
<1>1. d = c \/ (j \in DOMAIN children /\ d = children[j])
  <2>1. CASE children' = Append(children, c)
    BY <2>1 DEF TypeOK
  <2>2. CASE \E i : children' = [children EXCEPT ![i] = c]
    BY <2>2 DEF TypeOK
  <2>3. QED
    BY <2>1, <2>2 DEF OneSaved
<1>2. PauseIsTrue(d)
  BY <1>1 DEF PausedInv
<1>3. PauseIsTrue(d)'
  BY <1>2, TruthStays
<1>4. QED
  BY <1>3

LEMMA NothingStored == PauseIsTrue(NoChild) /\ \A t : PauseIsTrue(NewChild(t))
  BY DEF PauseIsTrue, NoChild, NewChild

\* What getToken says of a token is true.
LEMMA ReportedIsTrue ==
    ASSUME NEW c \in Child
    PROVE  PauseIsTrue(AsReported(c))
  BY ReportedChild DEF PauseIsTrue, BlockedOrAsked

LEMMA WorkerBlocksNothing ==
    ASSUME TypeOK, WorkerStep
    PROVE  /\ intersolve'.blocked = intersolve.blocked
           /\ intersolve'.substituted = intersolve.substituted
  BY WorkerEffects
     DEF TypeOK, Intersolve, TokenIssued, MoneyTransferred, HolderRegistered,
         CardMade, TokenLinked

\* The worker writes what it was told of a wallet, or a part of a stored one.
LEMMA WorkerSavesTruth ==
    ASSUME WalletInv, PausedInv, WorkerStep
    PROVE  \E c : PauseIsTrue(c) /\ OneSaved(c)
<1> PICK w : w = worker
  OBVIOUS
<1>1. TypeOK /\ StoredInv /\ WorkerKnows(w) /\ w \in Worker
  BY DEF WalletInv, TypeOK
<1>2. CASE UNCHANGED children
  BY <1>2, NothingStored DEF OneSaved
<1>3. CASE SaveNewChild
  BY <1>3, NothingStored DEF SaveNewChild, OneSaved
<1>4. CASE SaveRefreshedChild
  BY <1>4 DEF SaveRefreshedChild, PausedInv, OneSaved
<1>5. CASE SaveLinked \/ SaveCard
  <2> PICK c : \/ c = [children[w.at] EXCEPT !.linked = TRUE] /\ SaveLinked
               \/ c = [children[w.at] EXCEPT !.card = TRUE] /\ SaveCard
    BY <1>5
  <2>1. children' = [children EXCEPT ![w.at] = c]
    BY DEF SaveLinked, SaveCard
  <2>2. w.at \in DOMAIN children
    BY <1>1, <1>5 DEF SaveLinked, SaveCard, At, WorkerKnows, WithChild, KnownChild
  <2>3. c.token = children[w.at].token /\ c.blocked = children[w.at].blocked
    <3>1. children[w.at] \in Child
      BY <1>1, <2>2 DEF TypeOK
    <3>2. QED
      BY <3>1 DEF Child
  <2>4. PauseIsTrue(c)
    BY <2>2, <2>3 DEF PausedInv, PauseIsTrue
  <2>5. QED
    BY <2>1, <2>4 DEF OneSaved
<1>6. QED
  BY <1>2, <1>3, <1>4, <1>5, WorkerWrites

\* The wallet in the worker's hand.
LEMMA WorkerHolds ==
    ASSUME TypeOK, WorkerStep
    PROVE  \/ worker'.child \in {worker.child, NoChild, AsReported(worker.child)}
           \/ \E t : worker'.child = NewChild(t)
           \/ \E i \in DOMAIN children : worker'.child = children[i]
<1> PICK w : w = worker
  OBVIOUS
<1>1. w \in Worker /\ IdleWorker.child = NoChild
  BY DEF TypeOK, IdleWorker
<1>2. ASSUME StoreTransaction("error", worker.amount)
      PROVE  worker'.child = NoChild
  BY <1>1, <1>2 DEF StoreTransaction
<1>3. ASSUME NEW pc, Goto(pc) \/ WithToken(pc)
      PROVE  worker'.child = worker.child
  BY <1>1, <1>3 DEF Goto, WithToken, Worker
<1>4. CASE (\E p \in Payments : StartJob(p)) \/ StoreSuccess \/ EndThrown
  BY <1>1, <1>4 DEF StartJob, StoreSuccess, EndThrown, StoreTransaction, IdleWorker
<1>5. CASE LoadForCalculation
  <2>1. CASE worker'.child = NoChild
    BY <2>1
  <2>2. CASE worker' = [worker EXCEPT !.pc = "customer",
                            !.amount = CalculateLimitedTransferAmount(0, 0)]
    BY <1>1, <2>2 DEF Worker
  <2>3. ASSUME NEW i \in DOMAIN children \cup {0},
               worker' = [worker EXCEPT !.pc = "balance", !.parent = parent,
                              !.wallets = Newest, !.at = i,
                              !.child = IF i = 0 THEN NoChild ELSE children[i]]
        PROVE  worker'.child = NoChild \/ \E j \in DOMAIN children :
                                              worker'.child = children[j]
    BY <1>1, <2>3 DEF Worker
  <2>4. QED
    BY <1>3, <1>5, <2>2, <2>3 DEF LoadForCalculation
<1>6. CASE GetBalance \/ GetSpentThisMonth
  BY <1>1, <1>6 DEF GetBalance, GetSpentThisMonth, Query, Call,
                    StoreCalculationError, StoreTransaction, Worker
<1>7. CASE SaveRefreshedParent \/ SaveRefreshedChild
  BY <1>3, <1>7 DEF SaveRefreshedParent, SaveParent, SaveRefreshedChild
<1>8. CASE GetChild
  <2> PICK c : c = AsReported(worker.child)
    OBVIOUS
  <2>1. \/ worker' = [worker EXCEPT !.pc = "saveChild", !.child = c]
        \/ worker' = IdleWorker
    BY <1>8 DEF GetChild, Query, Call, StoreCalculationError, StoreTransaction
  <2>2. QED
    BY <1>1, <2>1 DEF Worker
<1>9. CASE GetCustomerOrCreate
  <2>1. CASE worker' = [worker EXCEPT !.pc = "parent", !.parent = parent,
                 !.at = Newest,
                 !.child = IF children = << >> THEN NoChild ELSE children[Newest]]
    <3>1. children = << >> \/ Newest \in DOMAIN children
      BY DEF TypeOK, Newest
    <3>2. QED
      BY <1>1, <2>1, <3>1 DEF Worker
  <2>2. QED
    BY <1>2, <1>3, <1>9, <2>1 DEF GetCustomerOrCreate, Query, Call, StoreError
<1>10. CASE SaveCustomer \/ SaveRegistered \/ SaveLinked \/ SaveCard
  BY <1>3, <1>10 DEF SaveCustomer, SaveRegistered, SaveLinked, SaveCard
<1>11. CASE SaveNewParent \/ SaveNewChild
  BY <1>1, <1>11 DEF SaveNewParent, SaveNewParentAs, SaveNewChild, Worker
<1>12. CASE GetParentWalletOrCreate \/ GetChildWalletsOrCreateOne
  BY <1>2, <1>3, <1>12 DEF GetParentWalletOrCreate, GetChildWalletsOrCreateOne,
                           Provision, Call, StoreError
<1>13. CASE LinkParentWalletToCustomerIfUnlinked
            \/ LinkChildWalletToParentWalletIfUnlinked \/ CreateDebitCardIfNotExists
  BY <1>2, <1>3, <1>13
     DEF LinkParentWalletToCustomerIfUnlinked, CreateDebitCardIfNotExists,
         LinkChildWalletToParentWalletIfUnlinked, Provision, Call, StoreError
<1>14. CASE DoTransfer
  BY <1>2, <1>3, <1>14 DEF DoTransfer, TransferUnless, Refused, Call, StoreError
<1>15. QED
  BY <1>4, <1>5, <1>6, <1>7, <1>8, <1>9, <1>10, <1>11, <1>12, <1>13, <1>14
     DEF WorkerStep, DoTransferOrIssueCard, CalculateTransferAmountWithWalletRetrieval

LEMMA WorkerKeepsPaused ==
    ASSUME WalletInv, PausedInv, WorkerStep
    PROVE  PausedInv'
<1> PICK d : d = worker'.child
  OBVIOUS
<1>1. TypeOK /\ worker \in Worker /\ UNCHANGED <<refresh, reissue, pause>>
  BY WorkerLeavesRequests DEF WalletInv, TypeOK
<1>2. Tame
  BY <1>1, WorkerBlocksNothing, TameStep DEF StillAsked
<1>3. \A i \in DOMAIN children' : PauseIsTrue(children[i])'
  BY <1>1, <1>2, WorkerSavesTruth, StoredIsTrue
<1>4. PauseIsTrue(d)
  <2>1. worker.child \in Child
    BY <1>1 DEF Worker
  <2>2. QED
    BY <1>1, <2>1, WorkerHolds, NothingStored, ReportedIsTrue DEF PausedInv
<1>5. PauseIsTrue(d)'
  BY <1>2, <1>4, TruthStays
<1>6. QED
  BY <1>1, <1>2, <1>3, <1>5, UnchangedStays DEF PausedInv

LEMMA RefreshKeepsPaused ==
    ASSUME WalletInv, PausedInv, NEW r \in Refreshes, RefreshStep(r)
    PROVE  PausedInv'
<1> PICK f : f = refresh[r]
  OBVIOUS
<1> PICK at : at = Head(f.todo)
  OBVIOUS
<1>1. TypeOK /\ f \in Refresh /\ RefreshKnows(f) /\ RefreshPaused(f)
  BY DEF WalletInv, TypeOK, PausedInv
<1>2. UNCHANGED <<worker, reissue, pause>> /\ intersolve' = intersolve
  BY DEF RefreshStep, LoadWallets, GetWallet, SaveWallet, unchangedByRefresh,
         Query, Call
<1>3. Tame
  BY <1>2, TameStep DEF StillAsked
<1>4. \E c : PauseIsTrue(c) /\ OneSaved(c)
  <2>1. CASE UNCHANGED children
    BY <2>1, NothingStored DEF OneSaved
  <2>2. CASE /\ f.pc = "save" /\ at > 0
             /\ children' = [children EXCEPT ![at] = refresh[r].children[at]]
    <3>1. at \in DOMAIN f.children
      <4>1. /\ f.todo # << >> /\ f.todo \in Seq(Nat)
            /\ \A k \in DOMAIN f.todo : f.todo[k] = 0 \/ f.todo[k] \in DOMAIN f.children
        BY <1>1, <2>2 DEF RefreshKnows, Refresh
      <4>2. 1 \in DOMAIN f.todo /\ at = f.todo[1]
        BY <4>1
      <4>3. QED
        BY <2>2, <4>1, <4>2
    <3>2. PauseIsTrue(f.children[at])
      BY <1>1, <3>1 DEF RefreshPaused
    <3>3. QED
      BY <2>2, <3>2 DEF OneSaved
  <2>3. QED
    BY <2>1, <2>2 DEF RefreshStep, LoadWallets, GetWallet, SaveWallet
<1>5. \A i \in DOMAIN children' : PauseIsTrue(children[i])'
  BY <1>1, <1>3, <1>4, StoredIsTrue
<1>6. \E g : /\ refresh' = [refresh EXCEPT ![r] = g]
             /\ g.children \in {f.children, children, Reported(f.children, at)}
  <2>1. ASSUME NEW pc, RefreshTo(r, pc)
        PROVE  \E g : refresh' = [refresh EXCEPT ![r] = g] /\ g.children = f.children
    <3> WITNESS [f EXCEPT !.pc = pc]
    <3>1. QED
      BY <1>1, <2>1 DEF RefreshTo, TypeOK, Refresh
  <2>2. CASE WalletSaved(r)
    <3> PICK pc, todo : /\ pc = IF Len(f.todo) = 1 THEN "done" ELSE "get"
                        /\ todo = Tail(f.todo)
      OBVIOUS
    <3>1. refresh' = [refresh EXCEPT ![r].todo = todo, ![r].pc = pc]
      BY <2>2 DEF WalletSaved
    <3> WITNESS [f EXCEPT !.todo = todo, !.pc = pc]
    <3>2. QED
      BY <1>1, <3>1 DEF TypeOK, Refresh
  <2>3. CASE refresh' = [refresh EXCEPT
                 ![r].pc = "save",
                 ![r].children = Reported(refresh[r].children, at)]
    <3> PICK cs : cs = Reported(f.children, at)
      OBVIOUS
    <3>1. refresh' = [refresh EXCEPT ![r].pc = "save", ![r].children = cs]
      BY <2>3
    <3> WITNESS [f EXCEPT !.pc = "save", !.children = cs]
    <3>2. QED
      BY <1>1, <3>1 DEF TypeOK, Refresh
  <2>4. CASE LoadWallets(r)
    BY <2>1, <2>4 DEF LoadWallets
  <2>5. CASE GetWallet(r)
    BY <2>1, <2>3, <2>5 DEF GetWallet, Query, Call
  <2>6. CASE SaveWallet(r)
    BY <2>1, <2>2, <2>6 DEF SaveWallet, SaveParent
  <2>7. QED
    BY <2>4, <2>5, <2>6 DEF RefreshStep
<1>7. PICK g : /\ refresh' = [refresh EXCEPT ![r] = g]
               /\ g.children \in {f.children, children, Reported(f.children, at)}
  BY <1>6
<1>8. RefreshPaused(g)
  <2>1. CASE g.children = f.children
    BY <1>1, <2>1 DEF RefreshPaused
  <2>2. CASE g.children = children
    BY <2>2 DEF RefreshPaused, PausedInv
  <2>3. CASE g.children = Reported(f.children, at) /\ at # 0
    <3>1. f.children \in Seq(Child)
      BY <1>1 DEF Refresh
    <3>2. ASSUME NEW i \in DOMAIN g.children
          PROVE  PauseIsTrue(g.children[i])
      <4>1. /\ i \in DOMAIN f.children /\ f.children[i] \in Child
            /\ g.children[i] = IF i = at THEN AsReported(f.children[i])
                               ELSE f.children[i]
        BY <2>3, <3>1, <3>2 DEF Reported
      <4>2. QED
        BY <1>1, <4>1, ReportedIsTrue DEF RefreshPaused
    <3>3. QED
      BY <3>2 DEF RefreshPaused
  <2>4. QED
    BY <1>7, <2>1, <2>2, <2>3 DEF Reported
<1>9. RefreshPaused(g)'
  BY <1>3, <1>8, TruthStays
<1>10. ASSUME NEW q \in Refreshes
       PROVE  RefreshPaused(refresh[q])'
  <2> PICK h : h = refresh[q]
    OBVIOUS
  <2>1. RefreshPaused(h)'
    BY <1>3, TruthStays DEF PausedInv
  <2>2. refresh'[q] = IF q = r THEN g ELSE h
    BY <1>1, <1>7 DEF TypeOK
  <2>3. QED
    BY <1>9, <2>1, <2>2
<1>11. QED
  BY <1>2, <1>3, <1>5, <1>10, UnchangedStays DEF PausedInv

\* A reissue that goes on or ends, unblocks at most the token that it asked to
\* unblock and stores at most one wallet, as it is.
LEMMA ReissueMovesPaused ==
    ASSUME TypeOK, PausedInv, UNCHANGED <<worker, refresh, pause>>,
           NEW r \in Reissues, NEW y, reissue' = [reissue EXCEPT ![r] = y],
           y.pc # "idle", ReissuePaused(y),
           reissue[r].pc \notin {"idle", "unblock"} =>
               y.pc # "unblock" /\ y.old = reissue[r].old,
           \A t \in intersolve.blocked :
               \/ t \in intersolve'.blocked
               \/ y.pc # "unblock" /\ y.old.blocked /\ t = y.old.token,
           NEW c, PauseIsTrue(c), OneSaved(c)
    PROVE  PausedInv'
<1>1. \A q \in Reissues : reissue'[q] = IF q = r THEN y ELSE reissue[q]
  BY DEF TypeOK
<1>2. StillAsked
  BY <1>1 DEF StillAsked
<1>3. y.pc # "unblock" /\ y.old.blocked => UnblockingAsked(y.old.token)'
  BY <1>1 DEF UnblockingAsked
<1>4. Tame
  BY <1>2, <1>3, TameStep
<1>5. \A i \in DOMAIN children' : PauseIsTrue(children[i])'
  BY <1>4, StoredIsTrue
<1>6. ASSUME NEW q \in Reissues
      PROVE  ReissuePaused(reissue[q])'
  <2> PICK h : h = reissue[q]
    OBVIOUS
  <2>1. ReissuePaused(h)' /\ ReissuePaused(y)'
    BY <1>4, TruthStays DEF PausedInv
  <2>2. reissue'[q] = IF q = r THEN y ELSE h
    BY <1>1
  <2>3. QED
    BY <2>1, <2>2
<1>7. QED
  BY <1>4, <1>5, <1>6, UnchangedStays DEF PausedInv

LEMMA StartReissuePaused ==
    ASSUME WalletInv, PausedInv, NEW r \in Reissues, StartReissue(r)
    PROVE  PausedInv'
<1> PICK c, at : c = children[Newest] /\ at = Newest
  OBVIOUS
<1> PICK x : x = reissue[r]
  OBVIOUS
<1> PICK pc : pc = IF c.blocked THEN "unblock" ELSE "issue"
  OBVIOUS
<1> PICK y : y = [x EXCEPT !.pc = pc, !.old = c, !.oldAt = at]
  OBVIOUS
<1>1. TypeOK /\ x \in Reissue /\ x.pc = "idle" /\ at \in DOMAIN children
  BY DEF WalletInv, TypeOK, StartReissue, Newest
<1>2. /\ UNCHANGED <<intersolve, children, worker, refresh, pause>>
      /\ reissue' = [reissue EXCEPT ![r] = y]
  <2>1. reissue' = [reissue EXCEPT ![r].pc = pc, ![r].old = c, ![r].oldAt = at]
    BY DEF StartReissue
  <2>2. QED
    BY <1>1, <2>1 DEF StartReissue, unchangedByReissue, TypeOK, Reissue
<1>3. y.old = c /\ y.pc = pc
  BY <1>1 DEF Reissue
<1>4. ReissuePaused(y)
  BY <1>1, <1>3 DEF ReissuePaused, PausedInv
<1>5. OneSaved(NoChild)
  BY <1>2 DEF OneSaved
<1>6. y.pc # "idle" /\ ~(reissue[r].pc \notin {"idle", "unblock"})
  BY <1>1, <1>3
<1>7. \A t \in intersolve.blocked : t \in intersolve'.blocked
  BY <1>2
<1>8. TypeOK /\ UNCHANGED <<worker, refresh, pause>> /\ PauseIsTrue(NoChild)
  BY <1>1, <1>2, NothingStored
<1>9. reissue' = [reissue EXCEPT ![r] = y]
  BY <1>2
<1>10. QED
  BY <1>4, <1>5, <1>6, <1>7, <1>8, <1>9, ReissueMovesPaused

\* Where the other steps of a reissue go.
LEMMA ReissueGoesOn ==
    ASSUME TypeOK, NEW r \in Reissues, ReissueCard(r), ~StartReissue(r)
    PROVE  \E y : /\ reissue' = [reissue EXCEPT ![r] = y]
                  /\ y.pc \notin {"idle", "unblock"}
                  /\ y.old = reissue[r].old
<1> PICK x : x = reissue[r]
  OBVIOUS
<1>1. x \in Reissue
  BY DEF TypeOK
<1> DEFINE goes == \E y : /\ reissue' = [reissue EXCEPT ![r] = y]
                          /\ y.pc \notin {"idle", "unblock"}
                          /\ y.old = reissue[r].old
<1>2. ASSUME NEW pc \in ReissuePoints \ {"idle", "unblock"}, ReissueTo(r, pc)
      PROVE  goes
  <2> WITNESS [x EXCEPT !.pc = pc]
  <2>1. QED
    BY <1>1, <1>2 DEF ReissueTo, TypeOK, Reissue
<1>3. ASSUME NEW c, reissue' = [reissue EXCEPT ![r].pc = "substitute", ![r].new = c]
      PROVE  goes
  <2> WITNESS [x EXCEPT !.pc = "substitute", !.new = c]
  <2>1. QED
    BY <1>1, <1>3 DEF TypeOK, Reissue
<1>4. ASSUME NEW at, reissue' = [reissue EXCEPT ![r].pc = "saveOld", ![r].newAt = at]
      PROVE  goes
  <2> WITNESS [x EXCEPT !.pc = "saveOld", !.newAt = at]
  <2>1. QED
    BY <1>1, <1>4 DEF TypeOK, Reissue
<1>5. CASE Unblock(r)
  BY <1>2, <1>5 DEF Unblock, ReissueCall, Call, ReissuePoints
<1>6. CASE IssueNewToken(r)
  <2> PICK c : c = [NewChild(NextToken) EXCEPT !.linked = TRUE]
    OBVIOUS
  <2>1. \/ reissue' = [reissue EXCEPT ![r].pc = "substitute", ![r].new = c]
        \/ ReissueTo(r, "done")
    BY <1>6 DEF IssueNewToken, ReissueCall, Call
  <2>2. QED
    BY <1>2, <1>3, <2>1 DEF ReissuePoints
<1>7. CASE SubstituteToken(r)
  BY <1>2, <1>7
     DEF SubstituteToken, Substitute, ReissueCall, Call, Refused, ReissuePoints
<1>8. CASE SaveSubstitute(r)
  BY <1>4, <1>8 DEF SaveSubstitute
<1>9. CASE SaveSubstituted(r)
  BY <1>2, <1>9 DEF SaveSubstituted, ReissuePoints
<1>10. CASE CreateNewCard(r)
  BY <1>2, <1>10 DEF CreateNewCard, ReissueCall, Call, ReissuePoints
<1>11. CASE SaveNewCard(r)
  BY <1>2, <1>11 DEF SaveNewCard, ReissuePoints
<1>12. QED
  BY <1>5, <1>6, <1>7, <1>8, <1>9, <1>10, <1>11 DEF ReissueCard

\* What a reissue unblocks: the token of a wallet that was paused.
LEMMA ReissueUnblocks ==
    ASSUME WalletInv, PausedInv, NEW r \in Reissues, ReissueCard(r)
    PROVE  \A t \in intersolve.blocked :
               \/ t \in intersolve'.blocked
               \/ reissue[r].old.blocked /\ t = reissue[r].old.token
<1>1. TypeOK /\ intersolve \in Intersolve
  BY DEF WalletInv, TypeOK
<1>2. CASE Unblock(r)
  <2>1. reissue[r].old.blocked
    BY <1>2 DEF Unblock, PausedInv, ReissuePaused
  <2>2. intersolve' = intersolve \/ intersolve' = BlockedSet(reissue[r].old.token, FALSE)
    BY <1>2 DEF Unblock, ReissueCall, Call
  <2>3. BlockedSet(reissue[r].old.token, FALSE).blocked =
            intersolve.blocked \ {reissue[r].old.token}
    BY <1>1 DEF BlockedSet, Intersolve
  <2>4. QED
    BY <2>1, <2>2, <2>3
<1>3. CASE IssueNewToken(r)
  BY <1>1, <1>3 DEF IssueNewToken, ReissueCall, Call, TokenIssued, Intersolve
<1>4. CASE SubstituteToken(r)
  BY <1>1, <1>4
     DEF SubstituteToken, Substitute, ReissueCall, Call, Refused,
         TokenSubstituted, Intersolve
<1>5. CASE CreateNewCard(r)
  BY <1>1, <1>5 DEF CreateNewCard, ReissueCall, Call, CardMade, Intersolve
<1>6. CASE StartReissue(r) \/ SaveSubstitute(r) \/ SaveSubstituted(r) \/ SaveNewCard(r)
  BY <1>6 DEF StartReissue, SaveSubstitute, SaveSubstituted, SaveNewCard
<1>7. QED
  BY <1>2, <1>3, <1>4, <1>5, <1>6 DEF ReissueCard

\* What it stores: the new wallet, which is not paused, and the old one.
LEMMA ReissueSavesTruth ==
    ASSUME WalletInv, PausedInv, NEW r \in Reissues, ReissueCard(r)
    PROVE  \E c : PauseIsTrue(c) /\ OneSaved(c)
<1> PICK x : x = reissue[r]
  OBVIOUS
<1>1. x \in Reissue /\ ReissueKnows(x) /\ x.old \in Child /\ x.new \in Child
  BY DEF WalletInv, TypeOK, Reissue
<1>2. CASE UNCHANGED children
  BY <1>2, NothingStored DEF OneSaved
<1>3. CASE SaveSubstitute(r)
  <2>1. PauseIsTrue(x.new)
    BY <1>1, <1>3 DEF SaveSubstitute, ReissueKnows, Issued, PauseIsTrue
  <2>2. QED
    BY <1>3, <2>1 DEF SaveSubstitute, OneSaved
<1>4. CASE SaveSubstituted(r)
  <2> PICK c : c = [x.old EXCEPT !.substituted = TRUE]
    OBVIOUS
  <2>1. c.token = x.old.token /\ c.blocked = x.old.blocked
    BY <1>1 DEF Child
  <2>2. PauseIsTrue(c)
    BY <2>1 DEF PausedInv, ReissuePaused, PauseIsTrue
  <2>3. children' = [children EXCEPT ![x.oldAt] = c]
    BY <1>4 DEF SaveSubstituted
  <2>4. QED
    BY <2>2, <2>3 DEF OneSaved
<1>5. CASE SaveNewCard(r)
  <2> PICK c : c = [x.new EXCEPT !.card = TRUE]
    OBVIOUS
  <2>1. ~c.blocked
    BY <1>1, <1>5 DEF SaveNewCard, ReissueKnows, Issued, Child
  <2>2. children' = [children EXCEPT ![x.newAt] = c]
    BY <1>5 DEF SaveNewCard
  <2>3. QED
    BY <2>1, <2>2 DEF PauseIsTrue, OneSaved
<1>6. QED
  BY <1>2, <1>3, <1>4, <1>5
     DEF ReissueCard, StartReissue, Unblock, IssueNewToken, SubstituteToken,
         Substitute, CreateNewCard, ReissueCall

LEMMA ReissueKeepsPaused ==
    ASSUME WalletInv, PausedInv, NEW r \in Reissues, ReissueCard(r)
    PROVE  PausedInv'
<1>1. CASE StartReissue(r)
  BY <1>1, StartReissuePaused
<1>2. CASE ~StartReissue(r)
  <2>1. TypeOK
    BY DEF WalletInv
  <2>2. UNCHANGED <<worker, refresh, pause>>
    BY DEF ReissueCard, StartReissue, Unblock, IssueNewToken, SubstituteToken,
           Substitute, SaveSubstitute, SaveSubstituted, CreateNewCard, SaveNewCard,
           ReissueCall, unchangedByReissue
  <2>3. PICK y : /\ reissue' = [reissue EXCEPT ![r] = y]
                 /\ y.pc \notin {"idle", "unblock"}
                 /\ y.old = reissue[r].old
    BY <1>2, <2>1, ReissueGoesOn
  <2>4. ReissuePaused(y)
    BY <2>3 DEF PausedInv, ReissuePaused
  <2>5. PICK c : PauseIsTrue(c) /\ OneSaved(c)
    BY ReissueSavesTruth
  <2>6. \A t \in intersolve.blocked :
            \/ t \in intersolve'.blocked
            \/ y.pc # "unblock" /\ y.old.blocked /\ t = y.old.token
    BY <2>3, ReissueUnblocks
  <2>7. QED
    BY <2>1, <2>2, <2>3, <2>4, <2>5, <2>6, ReissueMovesPaused
<1>3. QED
  BY <1>1, <1>2

\* The same for a pausing.
LEMMA PauseMovesPaused ==
    ASSUME TypeOK, PausedInv, UNCHANGED <<worker, refresh, reissue>>,
           NEW r \in Pauses, NEW y, pause' = [pause EXCEPT ![r] = y], y.pc # "idle",
           pause[r].pc \notin {"idle", "block"} =>
               y.pc # "block" /\ y.child = pause[r].child,
           \A t \in intersolve.blocked :
               \/ t \in intersolve'.blocked
               \/ y.pc # "block" /\ y.child.blocked /\ t = y.child.token,
           y.pc = "save" =>
               \/ y.child.blocked
               \/ y.child.token \in intersolve'.blocked,
           NEW c, PauseIsTrue(c), OneSaved(c)
    PROVE  PausedInv'
<1>1. \A q \in Pauses : pause'[q] = IF q = r THEN y ELSE pause[q]
  BY DEF TypeOK
<1>2. StillAsked
  BY <1>1 DEF StillAsked
<1>3. y.pc # "block" /\ y.child.blocked => UnblockingAsked(y.child.token)'
  BY <1>1 DEF UnblockingAsked
<1>4. Tame
  BY <1>2, <1>3, TameStep
<1>5. \A i \in DOMAIN children' : PauseIsTrue(children[i])'
  BY <1>4, StoredIsTrue
<1>6. PausePaused(y)'
  BY <1>3 DEF PausePaused, BlockedOrAsked
<1>7. ASSUME NEW q \in Pauses
      PROVE  PausePaused(pause[q])'
  <2> PICK h : h = pause[q]
    OBVIOUS
  <2>1. PausePaused(h)'
    BY <1>4, TruthStays DEF PausedInv
  <2>2. pause'[q] = IF q = r THEN y ELSE h
    BY <1>1
  <2>3. QED
    BY <1>6, <2>1, <2>2
<1>8. QED
  BY <1>4, <1>5, <1>7, UnchangedStays DEF PausedInv

LEMMA StartPausePaused ==
    ASSUME WalletInv, PausedInv, NEW r \in Pauses, StartPause(r)
    PROVE  PausedInv'
<1>1. PICK i \in DOMAIN children :
          pause' = [pause EXCEPT ![r] =
                        [pc |-> "block", child |-> children[i], at |-> i]]
  BY DEF StartPause
<1> PICK y : y = [pc |-> "block", child |-> children[i], at |-> i]
  OBVIOUS
<1>2. /\ TypeOK /\ pause[r].pc = "idle" /\ y.pc = "block"
      /\ UNCHANGED <<intersolve, children, worker, refresh, reissue>>
      /\ pause' = [pause EXCEPT ![r] = y]
  BY <1>1 DEF WalletInv, StartPause, unchangedByPause
<1>3. OneSaved(NoChild)
  BY <1>2 DEF OneSaved
<1>4. QED
  BY <1>2, <1>3, NothingStored, PauseMovesPaused

\* The call blocks the token or it unblocks one that was seen blocked, answered
\* or not.
LEMMA SetTokenBlockedPaused ==
    ASSUME WalletInv, PausedInv, NEW r \in Pauses, SetTokenBlocked(r)
    PROVE  PausedInv'
<1> PICK x : x = pause[r]
  OBVIOUS
<1>1. TypeOK /\ x \in Pause /\ x.child \in Child /\ x.pc = "block"
  BY DEF WalletInv, TypeOK, Pause, SetTokenBlocked, SetTokenBlockedOr
<1>2. /\ UNCHANGED <<children, worker, refresh, reissue>>
      /\ \/ /\ intersolve' = BlockedSet(x.child.token, ~x.child.blocked)
            /\ PauseTo(r, "save")
         \/ /\ intersolve' \in {intersolve,
                                BlockedSet(x.child.token, ~x.child.blocked)}
            /\ PauseTo(r, "done")
  BY DEF SetTokenBlocked, SetTokenBlockedOr, Call, unchangedByPause
<1>3. PICK pc \in {"save", "done"} :
          /\ PauseTo(r, pc)
          /\ pc = "save" => intersolve' = BlockedSet(x.child.token, ~x.child.blocked)
          /\ intersolve' \in {intersolve, BlockedSet(x.child.token, ~x.child.blocked)}
  BY <1>2
<1> PICK y : y = [x EXCEPT !.pc = pc]
  OBVIOUS
<1>4. pause' = [pause EXCEPT ![r] = y] /\ y.pc = pc /\ y.child = x.child
  BY <1>1, <1>3 DEF PauseTo, TypeOK, Pause
<1>5. BlockedSet(x.child.token, ~x.child.blocked).blocked =
          IF x.child.blocked THEN intersolve.blocked \ {x.child.token}
          ELSE intersolve.blocked \cup {x.child.token}
  BY <1>1 DEF BlockedSet, TypeOK, Intersolve
<1>6. \A t \in intersolve.blocked :
          \/ t \in intersolve'.blocked
          \/ y.pc # "block" /\ y.child.blocked /\ t = y.child.token
  BY <1>3, <1>4, <1>5
<1>7. y.pc = "save" => y.child.blocked \/ y.child.token \in intersolve'.blocked
  BY <1>3, <1>4, <1>5
<1>8. OneSaved(NoChild) /\ y.pc # "idle"
  BY <1>2, <1>3, <1>4 DEF OneSaved
<1>9. QED
  BY <1>1, <1>2, <1>4, <1>6, <1>7, <1>8, NothingStored, PauseMovesPaused

LEMMA SavePausedPaused ==
    ASSUME WalletInv, PausedInv, NEW r \in Pauses, SavePaused(r)
    PROVE  PausedInv'
<1> PICK x : x = pause[r]
  OBVIOUS
<1> PICK c : c = [x.child EXCEPT !.blocked = ~@]
  OBVIOUS
<1> PICK y : y = [x EXCEPT !.pc = "done"]
  OBVIOUS
<1>1. TypeOK /\ x \in Pause /\ x.pc = "save" /\ PausePaused(x)
  BY DEF WalletInv, TypeOK, PausedInv, SavePaused
<1>2. /\ UNCHANGED <<intersolve, worker, refresh, reissue>>
      /\ children' = [children EXCEPT ![x.at] = c]
      /\ pause' = [pause EXCEPT ![r] = y]
  BY DEF SavePaused, PauseTo, unchangedByPause, WalletInv, TypeOK
<1>3. y.pc = "done" /\ y.child = x.child /\ c.token = x.child.token
  BY <1>1 DEF Pause, Child
<1>4. PauseIsTrue(c) /\ OneSaved(c)
  BY <1>1, <1>2, <1>3 DEF PausePaused, PauseIsTrue, OneSaved
<1>5. QED
  BY <1>1, <1>2, <1>3, <1>4, PauseMovesPaused

\* Requests that end keep what they had in hand.
LEMMA CrashKeepsPaused ==
    ASSUME WalletInv, PausedInv, Crash
    PROVE  PausedInv'
<1>1. TypeOK /\ UNCHANGED <<intersolve, children>>
  BY DEF WalletInv, Crash, stored
<1>2. ASSUME NEW r \in Reissues
      PROVE  /\ reissue'[r].old = reissue[r].old
             /\ reissue'[r].pc \in {reissue[r].pc, "done"}
  <2> PICK x : x = reissue[r]
    OBVIOUS
  <2> PICK pc : pc = IF Working(x.pc) THEN "done" ELSE x.pc
    OBVIOUS
  <2>1. x \in Reissue
    BY <1>1 DEF TypeOK
  <2>2. reissue'[r] = [x EXCEPT !.pc = pc]
    BY <2>1 DEF Crash, Reissue
  <2>3. QED
    BY <2>1, <2>2 DEF Reissue
<1>3. ASSUME NEW r \in Pauses
      PROVE  /\ pause'[r].child = pause[r].child
             /\ pause'[r].pc \in {pause[r].pc, "done"}
  <2> PICK x : x = pause[r]
    OBVIOUS
  <2> PICK pc : pc = IF Working(x.pc) THEN "done" ELSE x.pc
    OBVIOUS
  <2>1. x \in Pause
    BY <1>1 DEF TypeOK
  <2>2. pause'[r] = [x EXCEPT !.pc = pc]
    BY <2>1 DEF Crash, Pause
  <2>3. QED
    BY <2>1, <2>2 DEF Pause
<1>4. ASSUME NEW r \in Refreshes
      PROVE  refresh'[r].children = refresh[r].children
  <2> PICK x : x = refresh[r]
    OBVIOUS
  <2> PICK pc : pc = IF Working(x.pc) THEN "done" ELSE x.pc
    OBVIOUS
  <2>1. x \in Refresh
    BY <1>1 DEF TypeOK
  <2>2. refresh'[r] = [x EXCEPT !.pc = pc]
    BY <2>1 DEF Crash, Refresh
  <2>3. QED
    BY <2>1, <2>2 DEF Refresh
<1>5. Tame
  BY <1>1, <1>2, <1>3, TameStep DEF StillAsked
<1>6. \A i \in DOMAIN children' : PauseIsTrue(children[i])'
  BY <1>1, <1>5, NothingStored, StoredIsTrue DEF OneSaved
<1>7. PauseIsTrue(worker.child)'
  BY DEF Crash, IdleWorker, PauseIsTrue, NoChild, NewChild
<1>8. ASSUME NEW r \in Refreshes
      PROVE  RefreshPaused(refresh[r])'
  <2> PICK f : f = refresh[r]
    OBVIOUS
  <2>1. RefreshPaused(f)'
    BY <1>5, TruthStays DEF PausedInv
  <2>2. QED
    BY <1>4, <2>1 DEF RefreshPaused
<1>9. ASSUME NEW r \in Reissues
      PROVE  ReissuePaused(reissue[r])'
  <2> PICK x : x = reissue[r]
    OBVIOUS
  <2>1. ReissuePaused(x)'
    BY <1>5, TruthStays DEF PausedInv
  <2>2. QED
    BY <1>2, <2>1 DEF ReissuePaused
<1>10. ASSUME NEW r \in Pauses
       PROVE  PausePaused(pause[r])'
  <2> PICK x : x = pause[r]
    OBVIOUS
  <2>1. PausePaused(x)'
    BY <1>5, TruthStays DEF PausedInv
  <2>2. QED
    BY <1>3, <2>1 DEF PausePaused
<1>11. QED
  BY <1>6, <1>7, <1>8, <1>9, <1>10 DEF PausedInv

\* Who neither asks nor stores.
LEMMA OthersKeepPaused ==
    ASSUME PausedInv, TypeOK,
           UNCHANGED <<children, worker, refresh, reissue, pause>>,
           intersolve'.blocked = intersolve.blocked
    PROVE  PausedInv'
<1>1. Tame
  BY TameStep DEF StillAsked
<1>2. \A i \in DOMAIN children' : PauseIsTrue(children[i])'
  BY <1>1, NothingStored, StoredIsTrue DEF OneSaved
<1>3. QED
  BY <1>1, <1>2, UnchangedStays DEF PausedInv

LEMMA NextKeepsPaused ==
    ASSUME WalletInv, PausedInv, [Next]_vars
    PROVE  PausedInv'
<1>1. CASE WorkerStep
  BY <1>1, WorkerKeepsPaused
<1>2. CASE \E r \in Refreshes : RefreshStep(r)
  BY <1>2, RefreshKeepsPaused
<1>3. CASE \E r \in Reissues : ReissueCard(r)
  BY <1>3, ReissueKeepsPaused
<1>4. CASE \E r \in Pauses : PauseCardOrThrow(r)
  BY <1>4, StartPausePaused, SetTokenBlockedPaused, SavePausedPaused
     DEF PauseCardOrThrow
<1>5. CASE HolderStep
  <2>1. /\ TypeOK /\ UNCHANGED <<children, worker, refresh, reissue, pause>>
        /\ intersolve'.blocked = intersolve.blocked
    BY <1>5
       DEF HolderStep, Spend, ExpireReservation, NewMonth, unchangedByHolder,
           stored, requests, WalletInv, TypeOK, Intersolve
  <2>2. QED
    BY <2>1, OthersKeepPaused
<1>6. CASE Crash
  BY <1>6, CrashKeepsPaused
<1>7. CASE UNCHANGED vars
  <2>1. TypeOK /\ UNCHANGED <<intersolve, children, worker, refresh, reissue, pause>>
    BY <1>7 DEF vars, stored, requests, WalletInv
  <2>2. QED
    BY <2>1, OthersKeepPaused
<1>8. QED
  BY <1>1, <1>2, <1>3, <1>4, <1>5, <1>6, <1>7 DEF Next

\* A card that is stored as paused is blocked, unless somebody has asked to
\* unpause or to reissue it since he saw it paused: for every number of payments,
\* refreshes, reissues and pausings, whatever fails, is lost or crashes.
THEOREM PausedIsBlockedHolds == Spec => []PausedIsBlocked
<1>1. Init => PausedInv
  <2> SUFFICES ASSUME Init
               PROVE  PausedInv
    OBVIOUS
  <2>1. /\ children = << >> /\ worker.child = NoChild
        /\ \A r \in Refreshes : refresh[r].children = << >>
        /\ \A r \in Reissues : reissue[r].pc = "idle" /\ reissue[r].old = NoChild
        /\ \A p \in Pauses : pause[p].pc = "idle"
    BY DEF Init, IdleWorker, IdleRefresh, IdleReissue, IdlePause
  <2>2. QED
    BY <2>1, NothingStored
       DEF PausedInv, RefreshPaused, ReissuePaused, PausePaused
<1>2. WalletInv /\ PausedInv /\ [Next]_vars => PausedInv'
  BY NextKeepsPaused
<1>3. PausedInv => PausedIsBlocked
  BY DEF PausedInv, PausedIsBlocked, PauseIsTrue, BlockedOrAsked
<1>4. QED
  BY <1>1, <1>2, <1>3, WalletInvHolds, PTL DEF Spec
=============================================================================
