-------------------- MODULE IntersolveVouchersProofs --------------------
(***************************************************************************)
(* Proofs about IntersolveVouchers, for every number of registrations,     *)
(* payments, jobs, cards, reply workers and incoming messages.             *)
(***************************************************************************)
EXTENDS IntersolveVouchers, TransactionStoringProofs

-----------------------------------------------------------------------------
(* Types, one part for each of the actors.                                 *)

WorkerTyped ==
    /\ queue \subseteq Key /\ worker \in Worker
    /\ worker.pc \in {"resave", "request", "mark", "voucher", "image"} =>
         worker.card \in DOMAIN cards

CardsTyped == cards \in Seq(Card) /\ Len(cards) <= MaxCards

\* Whoever replies has a message of a registrant to reply to.
RepliesTyped ==
    /\ templates \in [Key -> Nat]
    /\ incoming \subseteq DOMAIN cards
    /\ replies \subseteq [card : DOMAIN cards, incoming : 1..MaxIncoming]
    /\ repliers \in [Repliers -> Replier]
    /\ \A w \in Repliers : repliers[w].pc # "idle" => repliers[w].card \in DOMAIN cards
    /\ incomingCount \in 0..MaxIncoming
    /\ incoming # {} \/ replies # {} \/ (\E w \in Repliers : repliers[w].pc # "idle") =>
         incomingCount # 0

BalanceTyped ==
    /\ balance \in [card : {NoCard} \cup Cards, send : BOOLEAN]
    /\ balance = NoBalance \/ balance.card \in DOMAIN cards

CountsTyped ==
    /\ jobCount \in 0..MaxJobs
    /\ refreshes \in 0..MaxEvents /\ crashes \in 0..MaxCrashes

TypeInv ==
    /\ StoringTypeOK /\ WorkerTyped /\ CardsTyped /\ RepliesTyped /\ BalanceTyped
    /\ CountsTyped

\* Cards stay where they are; there may be one more.
CardsKept == CardsTyped' /\ DOMAIN cards \subseteq DOMAIN cards'

LEMMA CardsUnchanged == CardsTyped /\ UNCHANGED cards => CardsKept
BY DEF CardsTyped, CardsKept

LEMMA WorkerUnchanged ==
    WorkerTyped /\ CardsKept /\ UNCHANGED <<queue, worker>> => WorkerTyped'
BY DEF WorkerTyped, CardsKept

LEMMA RepliesUnchanged ==
    RepliesTyped /\ CardsKept
    /\ UNCHANGED <<templates, incoming, replies, repliers, incomingCount>>
      => RepliesTyped'
BY DEF RepliesTyped, CardsKept

LEMMA BalanceUnchanged ==
    BalanceTyped /\ CardsKept /\ UNCHANGED balance => BalanceTyped'
BY DEF BalanceTyped, CardsKept, NoBalance

LEMMA CountsUnchanged ==
    CountsTyped /\ UNCHANGED <<jobCount, refreshes, crashes>> => CountsTyped'
BY DEF CountsTyped

LEMMA CardFacts ==
    ASSUME CardsTyped, NEW c \in DOMAIN cards
    PROVE  cards[c] \in Card /\ cards[c].key \in Key /\ c \in 1..Len(cards) /\ c \in Cards
<1>1. cards \in Seq(Card) /\ Len(cards) \in Nat /\ Len(cards) <= MaxCards
  BY DEF CardsTyped
<1>2. c \in 1..Len(cards) /\ cards[c] \in Card
  BY <1>1
<1>3. cards[c].key \in Key
  BY <1>2, Zenon DEF Card
<1> QED
  BY <1>1, <1>2, <1>3, CountsAssumption DEF Cards

\* One card changes.
Replaced(c, new) ==
    /\ CardsKept
    /\ Len(cards') = Len(cards) /\ DOMAIN cards' = DOMAIN cards
    /\ cards'[c] = new
    /\ \A d \in DOMAIN cards \ {c} : cards'[d] = cards[d]

LEMMA CardReplaced ==
    ASSUME CardsTyped, NEW c \in DOMAIN cards, NEW new \in Card,
           cards' = [cards EXCEPT ![c] = new]
    PROVE  Replaced(c, new)
<1>1. cards \in Seq(Card) /\ c \in 1..Len(cards) /\ Len(cards) <= MaxCards
  BY DEF CardsTyped
<1>2. /\ cards' \in Seq(Card) /\ Len(cards') = Len(cards)
      /\ \A d \in 1..Len(cards) : d # c => cards'[d] = cards[d]
      /\ cards'[c] = new
  BY <1>1, ExceptSeq
<1> QED
  BY <1>1, <1>2 DEF CardsTyped, CardsKept, Replaced

-----------------------------------------------------------------------------
(* The user and the payment worker.                                        *)

LEMMA StartRunType ==
    ASSUME TypeInv, NEW p \in Payments, NEW chosen \in SUBSET Registrations,
           StartRun(p, chosen)
    PROVE  TypeInv'
<1>1. Cardinality(chosen) \in Nat
  BY RegistrationsAssumption, FS_Subset, FS_CardinalityType
<1>2. /\ queue' = chosen \X {p} /\ jobCount' = jobCount + Cardinality(chosen)
      /\ jobCount' <= MaxJobs
      /\ UNCHANGED <<storingVars, worker, voucherVars, incomingCount, refreshes,
                     crashes>>
  BY DEF StartRun
<1>3. CountsTyped'
  BY <1>1, <1>2, CountsAssumption DEF TypeInv, CountsTyped
<1>4. CardsKept
  BY <1>2, CardsUnchanged DEF TypeInv, voucherVars
<1>5. queue' \subseteq Key
  BY <1>2 DEF Key
<1>6. WorkerTyped'
  BY <1>2, <1>4, <1>5 DEF TypeInv, WorkerTyped, CardsKept
<1> QED
  BY <1>2, <1>3, <1>4, <1>6, StoringUnchanged, RepliesUnchanged, BalanceUnchanged
     DEF TypeInv, voucherVars, CardsKept

\* The worker goes on, with its cards or without.
LEMMA WorkerType ==
    ASSUME TypeInv, StoringTypeOK', CardsKept, WorkerTyped', UNCHANGED unchangedByWorker
    PROVE  TypeInv'
BY RepliesUnchanged, BalanceUnchanged, CountsUnchanged
   DEF TypeInv, CardsKept, unchangedByWorker, counts

\* The step of the worker keeps its job, and its card unless it says so.
WorkerTo(pc, card, status) ==
    /\ worker' \in Worker
    /\ worker'.pc = pc /\ worker'.key = worker.key
    /\ worker'.card = card /\ worker'.status = status

LEMMA WorkerGoes ==
    ASSUME TypeInv, NEW pc \in WorkerPc, Go(pc)
    PROVE  WorkerTo(pc, worker.card, worker.status) /\ worker'.claimed = worker.claimed
BY DEF TypeInv, WorkerTyped, Worker, WorkerTo, Go

LEMMA WorkerGoesWith ==
    ASSUME TypeInv, NEW pc \in WorkerPc, NEW status \in TransactionStatus,
           worker' = [worker EXCEPT !.pc = pc, !.status = status]
    PROVE  WorkerTo(pc, worker.card, status) /\ worker'.claimed = worker.claimed
<1> DEFINE mid == [worker EXCEPT !.pc = pc]
<1>1. /\ mid \in Worker /\ mid.pc = pc /\ mid.key = worker.key
      /\ mid.card = worker.card /\ mid.claimed = worker.claimed
  BY DEF TypeInv, WorkerTyped, Worker
<1>2. worker' = [mid EXCEPT !.status = status]
  OBVIOUS
<1> HIDE DEF mid
<1> QED
  BY <1>1, <1>2 DEF Worker, WorkerTo

LEMMA IdleType ==
    ASSUME NEW k \in Key
    PROVE  Idle(k) \in Worker /\ Idle(k).pc = "idle" /\ Idle(k).key = k
           /\ Idle(k).card = NoCard
BY DEF Idle, Worker, WorkerPc, TransactionStatus

LEMMA WorkerFacts ==
    ASSUME TypeInv
    PROVE  /\ worker.pc \in WorkerPc /\ worker.key \in Key
           /\ worker.status \in TransactionStatus
BY DEF TypeInv, WorkerTyped, Worker

LEMMA TakeJobFacts ==
    ASSUME TypeInv, NEW k \in Key, TakeJob(k)
    PROVE  /\ TypeInv'
           /\ worker.pc = "idle" /\ worker'.pc = "reuse" /\ worker'.key = k
           /\ worker'.card = NoCard
           /\ k \in queue /\ queue' = queue \ {k}
           /\ UNCHANGED <<storingVars, cards, unchangedByWorker>>
<1>1. /\ worker.pc = "idle" /\ k \in queue /\ queue' = queue \ {k}
      /\ worker' = [Idle(k) EXCEPT !.pc = "reuse"]
      /\ UNCHANGED <<storingVars, cards, unchangedByWorker>>
  BY DEF TakeJob
<1>2. /\ worker' \in Worker /\ worker'.pc = "reuse" /\ worker'.key = k
      /\ worker'.card = NoCard
  BY <1>1, IdleType DEF Worker, WorkerPc
<1>3. CardsKept
  BY <1>1, CardsUnchanged DEF TypeInv
<1>4. WorkerTyped'
  BY <1>1, <1>2 DEF TypeInv, WorkerTyped
<1> QED
  BY <1>1, <1>2, <1>3, <1>4, StoringUnchanged, WorkerType DEF TypeInv

\* A step of the worker on its job that leaves the cards alone.
LEMMA WorkerOnlyType ==
    ASSUME TypeInv, worker' \in Worker,
           worker'.pc \in {"resave", "request", "mark", "voucher", "image"} =>
             worker'.card \in DOMAIN cards,
           UNCHANGED <<queue, cards, unchangedByWorker>>, StoringTypeOK'
    PROVE  TypeInv'
<1>1. CardsKept
  BY CardsUnchanged DEF TypeInv
<1>2. WorkerTyped'
  BY DEF TypeInv, WorkerTyped
<1> QED
  BY <1>1, <1>2, WorkerType

LEMMA MissCredentialsFacts ==
    ASSUME TypeInv, MissCredentials
    PROVE  /\ TypeInv'
           /\ worker.pc = "reuse" /\ WorkerTo("store", worker.card, "error")
           /\ UNCHANGED <<storingVars, queue, cards, unchangedByWorker>>
<1>1. /\ worker.pc = "reuse"
      /\ worker' = [worker EXCEPT !.pc = "store", !.status = "error"]
      /\ UNCHANGED <<storingVars, queue, cards, unchangedByWorker>>
  BY DEF MissCredentials
<1>2. "store" \in WorkerPc /\ "error" \in TransactionStatus
  BY DEF WorkerPc, TransactionStatus
<1>3. WorkerTo("store", worker.card, "error")
  BY <1>1, <1>2, WorkerGoesWith
<1>4. StoringTypeOK'
  BY <1>1, StoringUnchanged DEF TypeInv
<1> QED
  BY <1>1, <1>3, <1>4, WorkerOnlyType DEF WorkerTo

LEMMA GetReusableVoucherFacts ==
    ASSUME TypeInv, GetReusableVoucher
    PROVE  /\ TypeInv'
           /\ worker.pc = "reuse"
           /\ \/ /\ Linked(worker.key) = {}
                 /\ WorkerTo("issue", worker.card, worker.status)
              \/ \E c \in Linked(worker.key) :
                   /\ WorkerTo("resave", c, worker.status)
                   /\ worker'.claimed = cards[c].send
           /\ UNCHANGED <<storingVars, queue, cards, unchangedByWorker>>
<1>1. /\ worker.pc = "reuse"
      /\ UNCHANGED <<storingVars, queue, cards, unchangedByWorker>>
  BY DEF GetReusableVoucher, GetReusableVoucherFrom
<1>2. StoringTypeOK'
  BY <1>1, StoringUnchanged DEF TypeInv
<1>3. CASE Linked(worker.key) = {} /\ Go("issue")
  <2>1. "issue" \in WorkerPc
    BY DEF WorkerPc
  <2>2. WorkerTo("issue", worker.card, worker.status)
    BY <1>3, <2>1, WorkerGoes
  <2>3. TypeInv'
    BY <1>1, <1>2, <2>2, WorkerOnlyType DEF WorkerTo
  <2> QED
    BY <1>1, <1>3, <2>2, <2>3
<1>4. ASSUME NEW c \in Linked(worker.key),
             worker' = [worker EXCEPT !.pc = "resave", !.card = c,
                                      !.claimed = cards[c].send]
      PROVE  /\ TypeInv'
             /\ WorkerTo("resave", c, worker.status)
             /\ worker'.claimed = cards[c].send
  <2>1. c \in DOMAIN cards /\ cards[c] \in Card /\ c \in Cards
    BY CardFacts DEF TypeInv, Linked
  <2>2. cards[c].send \in BOOLEAN
    BY <2>1, Zenon DEF Card
  <2> DEFINE one == [worker EXCEPT !.pc = "resave"]
             two == [one EXCEPT !.card = c]
             send == cards[c].send
  <2>3. /\ one \in Worker /\ one.pc = "resave" /\ one.key = worker.key
        /\ one.status = worker.status
    BY DEF TypeInv, WorkerTyped, Worker, WorkerPc
  <2> HIDE DEF one
  <2>4. /\ two \in Worker /\ two.pc = "resave" /\ two.key = worker.key
        /\ two.status = worker.status /\ two.card = c
    BY <2>1, <2>3 DEF Worker
  <2>5. worker' = [two EXCEPT !.claimed = send]
    BY <1>4 DEF one
  <2> HIDE DEF two, send
  <2>6. send \in BOOLEAN
    BY <2>2 DEF send
  <2>7. worker' \in Worker
    BY <2>4, <2>5, <2>6, Zenon DEF Worker
  <2>8. /\ worker'.pc = two.pc /\ worker'.key = two.key
        /\ worker'.card = two.card /\ worker'.status = two.status
    BY <2>4, <2>5 DEF Worker
  <2>9. worker'.claimed = send
    BY <2>4, <2>5 DEF Worker
  <2>10. WorkerTo("resave", c, worker.status)
    BY <2>4, <2>7, <2>8 DEF WorkerTo
  <2> QED
    BY <1>1, <1>2, <2>1, <2>9, <2>10, WorkerOnlyType DEF WorkerTo, send
<1>5. \/ Linked(worker.key) = {} /\ Go("issue")
      \/ \E c \in Linked(worker.key) :
           worker' = [worker EXCEPT !.pc = "resave", !.card = c,
                                    !.claimed = cards[c].send]
  BY DEF GetReusableVoucher, GetReusableVoucherFrom
<1> QED
  BY <1>1, <1>3, <1>4, <1>5

\* No card gets a voucher, and only a card that is to be cancelled changes at
\* Intersolve.
QuietCards ==
    /\ CardsKept /\ DOMAIN cards' = DOMAIN cards
    /\ \A c \in DOMAIN cards :
         /\ cards'[c].key = cards[c].key /\ cards'[c].issued = cards[c].issued
         /\ cards'[c].voucher = cards[c].voucher
         /\ \/ /\ cards'[c].request = cards[c].request
               /\ cards'[c].cancelled = cards[c].cancelled
            \/ /\ cards[c].request = "toCancel"
               /\ \/ cards'[c].request \in {"toCancel", "refused"}
                  \/ /\ cards'[c].request = "cancelled"
                     /\ cards'[c].cancelled = cards[c].issued

LEMMA QuietUnchanged == TypeInv /\ UNCHANGED cards => QuietCards
BY CardsUnchanged DEF TypeInv, QuietCards

\* No voucher is marked, none unmarked.
SendsKept ==
    \A c \in DOMAIN cards' :
        \/ c \in DOMAIN cards /\ cards'[c].send = cards[c].send
        \/ c \notin DOMAIN cards /\ cards'[c].send = FALSE

\* One is.
SendBecomes(c, send) ==
    /\ DOMAIN cards' = DOMAIN cards /\ cards'[c].send = send
    /\ \A d \in DOMAIN cards \ {c} : cards'[d].send = cards[d].send

LEMMA SendChanges ==
    ASSUME TypeInv, NEW c \in DOMAIN cards, NEW send \in BOOLEAN,
           cards' = [cards EXCEPT ![c].send = send]
    PROVE  QuietCards /\ SendBecomes(c, send)
<1> DEFINE card == cards[c]
           new == [card EXCEPT !.send = send]
<1>1. card \in Card /\ CardsTyped
  BY CardFacts DEF TypeInv
<1>2. cards' = [cards EXCEPT ![c] = new]
  OBVIOUS
<1> HIDE DEF card
<1>3. new \in Card
  BY <1>1, Zenon DEF Card
<1>4. /\ new.key = card.key /\ new.issued = card.issued
      /\ new.voucher = card.voucher /\ new.request = card.request
      /\ new.cancelled = card.cancelled /\ new.send = send
  BY <1>1 DEF Card
<1> HIDE DEF new
<1>5. Replaced(c, new)
  BY <1>1, <1>2, <1>3, CardReplaced
<1> QED
  BY <1>4, <1>5 DEF card, QuietCards, Replaced, SendBecomes

LEMMA SaveReusableVoucherFacts ==
    ASSUME TypeInv, SaveReusableVoucher
    PROVE  /\ TypeInv' /\ QuietCards /\ SendBecomes(worker.card, worker.claimed)
           /\ worker.pc = "resave"
           /\ WorkerTo(worker'.pc, worker.card, "success")
           /\ \/ worker'.pc = "remove" /\ worker.claimed
              \/ worker'.pc \in {"message", "store"}
           /\ UNCHANGED <<storingVars, queue, unchangedByWorker>>
<1> DEFINE claimed == worker.claimed
           next == IF claimed THEN "remove" ELSE IF Whatsapp THEN "message" ELSE "store"
<1>1. /\ worker.pc = "resave"
      /\ cards' = [cards EXCEPT ![worker.card].send = worker.claimed]
      /\ worker' = [worker EXCEPT !.pc = next, !.status = "success"]
      /\ UNCHANGED <<storingVars, queue, unchangedByWorker>>
  BY DEF SaveReusableVoucher, SaveReusableVoucherOr
<1>2. worker.card \in DOMAIN cards
  BY <1>1 DEF TypeInv, WorkerTyped
<1>3. worker.claimed \in BOOLEAN
  BY Zenon DEF TypeInv, WorkerTyped, Worker
<1>4. QuietCards /\ SendBecomes(worker.card, worker.claimed)
  BY <1>1, <1>2, <1>3, SendChanges
<1>5. next \in WorkerPc /\ "success" \in TransactionStatus
  BY DEF WorkerPc, TransactionStatus
<1>6. (next = "remove" /\ claimed) \/ next \in {"message", "store"}
  BY Zenon
<1> HIDE DEF next
<1>7. WorkerTo(next, worker.card, "success")
  BY <1>1, <1>5, WorkerGoesWith
<1>8. WorkerTyped'
  BY <1>1, <1>6, <1>7, <1>4 DEF TypeInv, WorkerTyped, WorkerTo
<1>9. StoringTypeOK' /\ CardsKept
  BY <1>1, <1>4, StoringUnchanged DEF TypeInv, QuietCards
<1>10. TypeInv'
  BY <1>1, <1>8, <1>9, WorkerType
<1>11. WorkerTo(worker'.pc, worker.card, "success") /\ worker'.pc = next
  BY <1>7 DEF WorkerTo
<1> QED
  BY <1>1, <1>4, <1>6, <1>10, <1>11

\* A card is asked for: the payment succeeds only if Intersolve issued it.
Issuing ==
    LET new == Len(cards) + 1
    IN  /\ CardsKept /\ DOMAIN cards' = DOMAIN cards \cup {new}
        /\ new \notin DOMAIN cards
        /\ \A c \in DOMAIN cards : cards'[c] = cards[c]
        /\ cards'[new].key = worker.key /\ cards'[new].voucher = "none"
        /\ cards'[new].request = "none" /\ cards'[new].cancelled = FALSE
        /\ cards'[new].send = FALSE
        /\ \/ WorkerTo("request", new, "success") /\ cards'[new].issued = TRUE
           \/ WorkerTo("request", new, "error")
        /\ worker.pc = "issue"
        /\ UNCHANGED <<storingVars, queue, unchangedByWorker>>

LEMMA IssueCardFacts ==
    ASSUME TypeInv, IssueCard
    PROVE  TypeInv' /\ Issuing
<1>1. PICK issued \in BOOLEAN, heard \in BOOLEAN :
        /\ cards' = Append(cards,
              [key |-> worker.key, issued |-> issued, cancelled |-> FALSE,
               request |-> "none", age |-> "fresh", voucher |-> "none",
               send |-> FALSE])
        /\ worker' = [worker EXCEPT
              !.pc = "request", !.card = Len(cards) + 1,
              !.status = IF issued /\ heard THEN "success" ELSE "error"]
  BY Zenon DEF IssueCard
<1>2. /\ worker.pc = "issue" /\ Len(cards) < MaxCards
      /\ UNCHANGED <<storingVars, queue, unchangedByWorker>>
  BY DEF IssueCard
<1> DEFINE card == [key |-> worker.key, issued |-> issued, cancelled |-> FALSE,
                    request |-> "none", age |-> "fresh", voucher |-> "none",
                    send |-> FALSE]
           status == IF issued /\ heard THEN "success" ELSE "error"
           new == Len(cards) + 1
<1>3. card \in Card
  BY WorkerFacts, Zenon DEF Card, RequestState
<1>4. /\ card.key = worker.key /\ card.voucher = "none" /\ card.request = "none"
      /\ card.cancelled = FALSE /\ card.issued = issued /\ card.send = FALSE
  OBVIOUS
<1>5. (status = "success" /\ issued = TRUE) \/ status = "error"
  BY Zenon
<1>6. status \in TransactionStatus
  BY <1>5 DEF TransactionStatus
<1>7. cards' = Append(cards, card) /\ cards \in Seq(Card) /\ Len(cards) \in Nat
  BY <1>1 DEF TypeInv, CardsTyped
<1>8. new \in Cards /\ new \notin DOMAIN cards
  BY <1>2, <1>7, CountsAssumption DEF Cards
<1> HIDE DEF card, status
<1>9. /\ cards' \in Seq(Card) /\ Len(cards') = new
      /\ \A c \in 1..Len(cards) : cards'[c] = cards[c]
      /\ cards'[new] = card
  BY <1>3, <1>7, AppendProperties
<1>10. CardsKept /\ DOMAIN cards' = DOMAIN cards \cup {new}
       /\ \A c \in DOMAIN cards : cards'[c] = cards[c]
  BY <1>2, <1>7, <1>9, CountsAssumption DEF CardsKept, CardsTyped
<1> HIDE DEF new
<1>11. WorkerTo("request", new, status)
  <2> DEFINE one == [worker EXCEPT !.pc = "request"]
             two == [one EXCEPT !.card = new]
  <2>1. /\ one \in Worker /\ one.pc = "request" /\ one.key = worker.key
    BY DEF TypeInv, WorkerTyped, Worker, WorkerPc
  <2> HIDE DEF one
  <2>2. /\ two \in Worker /\ two.pc = "request" /\ two.key = worker.key
        /\ two.card = new
    BY <1>8, <2>1 DEF Worker
  <2>3. worker' = [two EXCEPT !.status = status]
    BY <1>1 DEF one, status, new
  <2> HIDE DEF two
  <2> QED
    BY <1>6, <2>2, <2>3 DEF Worker, WorkerTo
<1>12. WorkerTyped'
  BY <1>2, <1>10, <1>11 DEF TypeInv, WorkerTyped, WorkerTo
<1>13. StoringTypeOK'
  BY <1>2, StoringUnchanged DEF TypeInv
<1>14. TypeInv'
  BY <1>2, <1>10, <1>12, <1>13, WorkerType
<1>15. \/ WorkerTo("request", new, "success") /\ cards'[new].issued = TRUE
       \/ WorkerTo("request", new, "error")
  BY <1>4, <1>5, <1>9, <1>11
<1> QED
  BY <1>2, <1>4, <1>8, <1>9, <1>10, <1>14, <1>15 DEF Issuing, new

\* One card has another request or voucher than before.
CardBecomes(c, request, voucher) ==
    /\ CardsKept /\ DOMAIN cards' = DOMAIN cards
    /\ \A d \in DOMAIN cards \ {c} : cards'[d] = cards[d]
    /\ cards'[c].key = cards[c].key /\ cards'[c].issued = cards[c].issued
    /\ cards'[c].cancelled = cards[c].cancelled /\ cards'[c].send = cards[c].send
    /\ cards'[c].request = request /\ cards'[c].voucher = voucher

LEMMA RequestChanges ==
    ASSUME TypeInv, NEW c \in DOMAIN cards, NEW request \in RequestState,
           NEW age \in {"fresh", "due", "expired"},
           \/ cards' = [cards EXCEPT ![c].request = request]
           \/ cards' = [cards EXCEPT ![c].request = request, ![c].age = age]
    PROVE  CardBecomes(c, request, cards[c].voucher)
<1> DEFINE card == cards[c]
           one == [card EXCEPT !.request = request]
           two == [one EXCEPT !.age = age]
<1>1. card \in Card /\ CardsTyped
  BY CardFacts DEF TypeInv
<1>2. cards' = [cards EXCEPT ![c] = one] \/ cards' = [cards EXCEPT ![c] = two]
  <2>1. CASE cards' = [cards EXCEPT ![c].request = request]
    BY <2>1
  <2>2. CASE cards' = [cards EXCEPT ![c].request = request, ![c].age = age]
    <3>1. cards' = [cards EXCEPT ![c] = two]
      BY <2>2, <1>1 DEF CardsTyped
    <3> QED
      BY <3>1
  <2> QED
    BY <2>1, <2>2
<1> HIDE DEF card
<1>3. one \in Card
  BY <1>1, Zenon DEF Card, RequestState
<1>4. /\ one.key = card.key /\ one.issued = card.issued
      /\ one.voucher = card.voucher /\ one.cancelled = card.cancelled
      /\ one.request = request /\ one.send = card.send
  BY <1>1 DEF Card
<1> HIDE DEF one
<1>5. two \in Card
  BY <1>3, Zenon DEF Card
<1>6. /\ two.key = one.key /\ two.issued = one.issued
      /\ two.voucher = one.voucher /\ two.cancelled = one.cancelled
      /\ two.request = one.request /\ two.send = one.send
  BY <1>3 DEF Card
<1> HIDE DEF two
<1>7. Replaced(c, one) \/ Replaced(c, two)
  BY <1>1, <1>2, <1>3, <1>5, CardReplaced
<1> QED
  BY <1>4, <1>6, <1>7 DEF card, CardBecomes, Replaced

LEMMA VoucherChanges ==
    ASSUME TypeInv, NEW c \in DOMAIN cards, NEW voucher \in {"stored", "linked"},
           cards' = [cards EXCEPT ![c].voucher = voucher]
    PROVE  CardBecomes(c, cards[c].request, voucher)
<1> DEFINE card == cards[c]
           new == [card EXCEPT !.voucher = voucher]
<1>1. card \in Card /\ CardsTyped
  BY CardFacts DEF TypeInv
<1>2. cards' = [cards EXCEPT ![c] = new]
  OBVIOUS
<1> HIDE DEF card
<1>3. new \in Card
  BY <1>1, Zenon DEF Card
<1>4. /\ new.key = card.key /\ new.issued = card.issued
      /\ new.request = card.request /\ new.cancelled = card.cancelled
      /\ new.voucher = voucher /\ new.send = card.send
  BY <1>1 DEF Card
<1> HIDE DEF new
<1>5. Replaced(c, new)
  BY <1>1, <1>2, <1>3, CardReplaced
<1> QED
  BY <1>4, <1>5 DEF card, CardBecomes, Replaced

\* The worker does something with its card and goes on.
OnOwnCard(from, to, request, voucher) ==
    /\ worker.pc = from /\ WorkerTo(to, worker.card, worker.status)
    /\ worker.card \in DOMAIN cards
    /\ CardBecomes(worker.card, request, voucher)
    /\ UNCHANGED <<storingVars, queue, unchangedByWorker>>

LEMMA OnOwnCardType ==
    ASSUME TypeInv, NEW from, NEW to, NEW request, NEW voucher,
           OnOwnCard(from, to, request, voucher)
    PROVE  TypeInv'
<1>1. WorkerTyped'
  BY DEF TypeInv, WorkerTyped, OnOwnCard, WorkerTo, CardBecomes
<1>2. StoringTypeOK' /\ CardsKept
  BY StoringUnchanged DEF TypeInv, OnOwnCard, CardBecomes
<1> QED
  BY <1>1, <1>2, WorkerType DEF OnOwnCard

Requesting ==
    LET voucher == cards[worker.card].voucher
    IN  \/ /\ worker.status = "success"
           /\ OnOwnCard("request", "voucher", "ok", voucher)
        \/ /\ worker.status # "success"
           /\ OnOwnCard("request", "mark", "toCancel", voucher)

LEMMA SaveRequestFacts ==
    ASSUME TypeInv, SaveRequest PROVE TypeInv' /\ Requesting
<1>1. /\ worker.pc = "request"
      /\ UNCHANGED <<storingVars, queue, unchangedByWorker>>
  BY DEF SaveRequest, SaveRequestAs
<1>2. worker.card \in DOMAIN cards
  BY <1>1 DEF TypeInv, WorkerTyped
<1>3. CASE worker.status = "success"
  <2>1. cards' = [cards EXCEPT ![worker.card].request = "ok"] /\ Go("voucher")
    BY <1>3 DEF SaveRequest, SaveRequestAs
  <2>2. CardBecomes(worker.card, "ok", cards[worker.card].voucher)
    BY <1>2, <2>1, RequestChanges DEF RequestState
  <2>3. WorkerTo("voucher", worker.card, worker.status)
    BY <2>1, WorkerGoes DEF WorkerPc
  <2> QED
    BY <1>1, <1>2, <1>3, <2>2, <2>3, OnOwnCardType DEF OnOwnCard, Requesting
<1>4. CASE worker.status # "success"
  <2>1. cards' = [cards EXCEPT ![worker.card].request = "toCancel"] /\ Go("mark")
    BY <1>4 DEF SaveRequest, SaveRequestAs
  <2>2. CardBecomes(worker.card, "toCancel", cards[worker.card].voucher)
    BY <1>2, <2>1, RequestChanges DEF RequestState
  <2>3. WorkerTo("mark", worker.card, worker.status)
    BY <2>1, WorkerGoes DEF WorkerPc
  <2> QED
    BY <1>1, <1>2, <1>4, <2>2, <2>3, OnOwnCardType DEF OnOwnCard, Requesting
<1> QED
  BY <1>3, <1>4

Marking == OnOwnCard("mark", "store", "toCancel", cards[worker.card].voucher)

LEMMA MarkVoucherAsToCancelFacts ==
    ASSUME TypeInv, MarkVoucherAsToCancel PROVE TypeInv' /\ Marking
<1>1. /\ worker.pc = "mark" /\ Go("store")
      /\ cards' = [cards EXCEPT ![worker.card].request = "toCancel",
                                ![worker.card].age = "fresh"]
      /\ UNCHANGED <<storingVars, queue, unchangedByWorker>>
  BY DEF MarkVoucherAsToCancel
<1>2. worker.card \in DOMAIN cards
  BY <1>1 DEF TypeInv, WorkerTyped
<1>3. CardBecomes(worker.card, "toCancel", cards[worker.card].voucher)
  BY <1>1, <1>2, RequestChanges DEF RequestState
<1>4. WorkerTo("store", worker.card, worker.status)
  BY <1>1, WorkerGoes DEF WorkerPc
<1> QED
  BY <1>1, <1>2, <1>3, <1>4, OnOwnCardType DEF OnOwnCard, Marking

StoringVoucher == OnOwnCard("voucher", "image", cards[worker.card].request, "stored")

LEMMA StoreVoucherDataFacts ==
    ASSUME TypeInv, StoreVoucherData PROVE TypeInv' /\ StoringVoucher
<1>1. /\ worker.pc = "voucher" /\ Go("image")
      /\ cards' = [cards EXCEPT ![worker.card].voucher = "stored"]
      /\ UNCHANGED <<storingVars, queue, unchangedByWorker>>
  BY DEF StoreVoucherData, StoreVoucherDataThen
<1>2. worker.card \in DOMAIN cards
  BY <1>1 DEF TypeInv, WorkerTyped
<1>3. CardBecomes(worker.card, cards[worker.card].request, "stored")
  BY <1>1, <1>2, VoucherChanges
<1>4. WorkerTo("image", worker.card, worker.status)
  BY <1>1, WorkerGoes DEF WorkerPc
<1> QED
  BY <1>1, <1>2, <1>3, <1>4, OnOwnCardType DEF OnOwnCard, StoringVoucher

Linking ==
    \E next \in {"message", "store"} :
        OnOwnCard("image", next, cards[worker.card].request, "linked")

LEMMA CreateVoucherImageFacts ==
    ASSUME TypeInv, CreateVoucherImage PROVE TypeInv' /\ Linking
<1>1. PICK next \in {"message", "store"} :
        /\ worker.pc = "image" /\ Go(next)
        /\ cards' = [cards EXCEPT ![worker.card].voucher = "linked"]
        /\ UNCHANGED <<storingVars, queue, unchangedByWorker>>
  BY Zenon DEF CreateVoucherImage
<1>2. worker.card \in DOMAIN cards
  BY <1>1 DEF TypeInv, WorkerTyped
<1>3. CardBecomes(worker.card, cards[worker.card].request, "linked")
  BY <1>1, <1>2, VoucherChanges
<1>4. WorkerTo(next, worker.card, worker.status)
  BY <1>1, WorkerGoes DEF WorkerPc
<1> QED
  BY <1>1, <1>2, <1>3, <1>4, OnOwnCardType DEF OnOwnCard, Linking

LEMMA SendVoucherWhatsappFacts ==
    ASSUME TypeInv, SendVoucherWhatsapp
    PROVE  /\ TypeInv'
           /\ worker.pc = "message" /\ WorkerTo("store", worker.card, "waiting")
           /\ UNCHANGED <<storingVars, queue, cards, incoming, replies, repliers,
                          balance, counts>>
<1>1. /\ worker.pc = "message"
      /\ worker' = [worker EXCEPT !.pc = "store", !.status = "waiting"]
      /\ templates' = [templates EXCEPT ![worker.key] = @ + 1]
      /\ UNCHANGED <<storingVars, queue, cards, incoming, replies, repliers,
                     balance, counts>>
  BY DEF SendVoucherWhatsapp
<1>2. "store" \in WorkerPc /\ "waiting" \in TransactionStatus
  BY DEF WorkerPc, TransactionStatus
<1>3. WorkerTo("store", worker.card, "waiting")
  BY <1>1, <1>2, WorkerGoesWith
<1>4. CardsKept /\ StoringTypeOK'
  BY <1>1, CardsUnchanged, StoringUnchanged DEF TypeInv
<1>5. templates' \in [Key -> Nat]
  BY <1>1, WorkerFacts DEF TypeInv, RepliesTyped
<1>6. RepliesTyped'
  BY <1>1, <1>5 DEF TypeInv, RepliesTyped, counts
<1>7. WorkerTyped'
  BY <1>1, <1>3 DEF TypeInv, WorkerTyped, WorkerTo
<1> QED
  BY <1>1, <1>3, <1>4, <1>6, <1>7, BalanceUnchanged, CountsUnchanged
     DEF TypeInv, CardsKept, counts

LEMMA StoreTransactionResultFacts ==
    ASSUME TypeInv, StoreTransactionResult
    PROVE  /\ TypeInv'
           /\ worker.pc = "store" /\ WorkerTo("storing", worker.card, worker.status)
           /\ BeginStoring(Payer, worker.key, worker.status, FALSE)
           /\ storing[Payer].pc = "idle" /\ storing'[Payer].pc = "save"
           /\ storing'[Payer].key = worker.key
           /\ storing'[Payer].status = worker.status
           /\ UNCHANGED <<queue, cards, unchangedByWorker>>
<1>1. /\ worker.pc = "store" /\ Go("storing")
      /\ BeginStoring(Payer, worker.key, worker.status, FALSE)
      /\ UNCHANGED <<queue, cards, unchangedByWorker>>
  BY DEF StoreTransactionResult
<1>2. Payer \in Storers /\ FALSE \in BOOLEAN
  BY StorersAssumption
<1>3. /\ StoringTypeOK'
      /\ storing[Payer].pc = "idle" /\ storing'[Payer].pc = "save"
      /\ storing'[Payer].key = worker.key /\ storing'[Payer].status = worker.status
  BY <1>1, <1>2, WorkerFacts, BeginStoringKeepsType DEF TypeInv
<1>4. WorkerTo("storing", worker.card, worker.status)
  BY <1>1, WorkerGoes DEF WorkerPc
<1> QED
  BY <1>1, <1>3, <1>4, WorkerOnlyType DEF WorkerTo

LEMMA TransactionResultStoredFacts ==
    ASSUME TypeInv, TransactionResultStored
    PROVE  /\ TypeInv'
           /\ worker.pc = "storing" /\ WorkerTo("remove", worker.card, worker.status)
           /\ EndStoring(Payer)
           /\ storing[Payer].pc = "stored" /\ storing'[Payer].pc = "idle"
           /\ UNCHANGED <<queue, cards, unchangedByWorker>>
<1>1. /\ worker.pc = "storing" /\ Go("remove") /\ EndStoring(Payer)
      /\ UNCHANGED <<queue, cards, unchangedByWorker>>
  BY DEF TransactionResultStored
<1>2. Payer \in Storers
  BY StorersAssumption
<1>3. /\ StoringTypeOK'
      /\ storing[Payer].pc = "stored" /\ storing'[Payer].pc = "idle"
  BY <1>1, <1>2, EndStoringKeepsType DEF TypeInv
<1>4. WorkerTo("remove", worker.card, worker.status)
  BY <1>1, WorkerGoes DEF WorkerPc
<1> QED
  BY <1>1, <1>3, <1>4, WorkerOnlyType DEF WorkerTo

LEMMA RemoveJobFacts ==
    ASSUME TypeInv, RemoveJob
    PROVE  /\ TypeInv'
           /\ worker.pc = "remove" /\ worker'.pc = "idle" /\ worker'.key = worker.key
           /\ UNCHANGED <<storingVars, queue, cards, unchangedByWorker>>
<1>1. /\ worker.pc = "remove" /\ worker' = Idle(worker.key)
      /\ UNCHANGED <<storingVars, queue, cards, unchangedByWorker>>
  BY DEF RemoveJob
<1>2. worker' \in Worker /\ worker'.pc = "idle" /\ worker'.key = worker.key
  BY <1>1, WorkerFacts, IdleType
<1>3. StoringTypeOK'
  BY <1>1, StoringUnchanged DEF TypeInv
<1> QED
  BY <1>1, <1>2, <1>3, WorkerOnlyType

-----------------------------------------------------------------------------
(* Messages.                                                               *)

\* Neither the worker nor the cards change, nor the log of crashes.
LEMMA ElsewhereType ==
    ASSUME TypeInv, StoringTypeOK', RepliesTyped',
           UNCHANGED <<queue, worker, cards, balance, jobCount, refreshes, crashes>>
    PROVE  TypeInv'
BY CardsUnchanged, WorkerUnchanged, BalanceUnchanged, CountsUnchanged
   DEF TypeInv, CardsKept

\* The table of transactions keeps its rows, and another status means "error".
OnlyFails ==
    /\ Len(transactions') = Len(transactions)
    /\ DOMAIN transactions' = DOMAIN transactions
    /\ \A i \in DOMAIN transactions :
         /\ transactions'[i].registration = transactions[i].registration
         /\ transactions'[i].payment = transactions[i].payment
         /\ \/ transactions'[i].status = transactions[i].status
            \/ transactions'[i].status = "error"

LEMMA StatusUpdateFails ==
    ASSUME StoringTypeOK, NEW i \in DOMAIN transactions,
           UpdateTransactionStatus(i, "error"),
           UNCHANGED <<latestTransactions, registrations, storing, linked,
                       statusEvents>>
    PROVE  OnlyFails /\ StoringTypeOK'
<1>1. StoreTypeOK /\ i \in 1..Len(transactions) /\ "error" \in TransactionStatus
  BY DEF StoringTypeOK, StoreTypeOK, TransactionStatus
<1>2. /\ transactions' \in Seq(Transaction)
      /\ Len(transactions') = Len(transactions)
      /\ \A j \in 1..Len(transactions) :
           /\ transactions'[j].registration = transactions[j].registration
           /\ transactions'[j].payment = transactions[j].payment
           /\ transactions'[j].status =
                IF j = i THEN "error" ELSE transactions[j].status
  BY <1>1, UpdateStatusKeepsRest
<1>3. /\ DOMAIN transactions = 1..Len(transactions)
      /\ DOMAIN transactions' = DOMAIN transactions
  BY <1>1, <1>2 DEF StoreTypeOK
<1>4. OnlyFails
  BY <1>2, <1>3 DEF OnlyFails
<1>5. StoreTypeOK'
  BY <1>1, <1>2 DEF StoreTypeOK
<1> QED
  BY <1>3, <1>4, <1>5 DEF StoringTypeOK

LEMMA NothingFails == StoringTypeOK /\ UNCHANGED transactions => OnlyFails
BY DEF OnlyFails

LEMMA SendTemplateFacts ==
    ASSUME TypeInv, NEW k \in Key, SendTemplate(k)
    PROVE  /\ TypeInv' /\ OnlyFails
           /\ UNCHANGED <<latestTransactions, storing, queue, worker, cards, incoming,
                          replies, repliers, balance, counts>>
<1> DEFINE waiting == {i \in DOMAIN transactions :
                         KeyOf(i) = k /\ transactions[i].status = "waiting"}
<1>1. /\ templates[k] > 0 /\ templates' = [templates EXCEPT ![k] = @ - 1]
      /\ UNCHANGED <<latestTransactions, registrations, storing, statusEvents,
                     queue, worker, cards, incoming, replies, repliers, balance,
                     counts>>
  BY DEF SendTemplate
<1>2. \/ UNCHANGED <<transactions, linked>>
      \/ \E i \in waiting : linked' = linked \cup {i} /\ UNCHANGED transactions
      \/ \E i \in waiting : UpdateTransactionStatus(i, "error") /\ UNCHANGED linked
  BY Zenon DEF SendTemplate
<1>3. waiting \subseteq DOMAIN transactions
  OBVIOUS
<1> HIDE DEF waiting
<1>4. OnlyFails /\ StoringTypeOK'
  <2>1. CASE UNCHANGED <<transactions, linked>>
    BY <1>1, <2>1, NothingFails, StoringUnchanged DEF TypeInv, storingVars, storeVars
  <2>2. ASSUME NEW i \in waiting, linked' = linked \cup {i}, UNCHANGED transactions
        PROVE  OnlyFails /\ StoringTypeOK'
    BY <1>1, <1>3, <2>2, NothingFails DEF TypeInv, StoringTypeOK, StoreTypeOK
  <2>3. ASSUME NEW i \in waiting, UpdateTransactionStatus(i, "error"), UNCHANGED linked
        PROVE  OnlyFails /\ StoringTypeOK'
    BY <1>1, <1>3, <2>3, StatusUpdateFails DEF TypeInv
  <2> QED
    BY <1>2, <2>1, <2>2, <2>3
<1>5. templates' \in [Key -> Nat]
  BY <1>1 DEF TypeInv, RepliesTyped
<1>6. RepliesTyped'
  BY <1>1, <1>5 DEF TypeInv, RepliesTyped, counts
<1> QED
  BY <1>1, <1>4, <1>6, ElsewhereType DEF counts

LEMMA ProcessFailedStatusFacts ==
    ASSUME TypeInv, NEW i \in DOMAIN transactions, ProcessFailedStatus(i)
    PROVE  /\ TypeInv' /\ OnlyFails
           /\ UNCHANGED <<latestTransactions, storing, queue, worker, voucherVars,
                          counts>>
<1>1. /\ UpdateTransactionStatus(i, "error")
      /\ UNCHANGED <<latestTransactions, registrations, storing, linked,
                     statusEvents, queue, worker, voucherVars, counts>>
  BY DEF ProcessFailedStatus
<1>2. OnlyFails /\ StoringTypeOK'
  BY <1>1, StatusUpdateFails DEF TypeInv
<1>3. RepliesTyped'
  BY <1>1, RepliesUnchanged, CardsUnchanged DEF TypeInv, voucherVars, counts
<1> QED
  BY <1>1, <1>2, <1>3, ElsewhereType DEF voucherVars, counts

LEMMA ReceiveWhatsappFacts ==
    ASSUME TypeInv, NEW r \in Registrations, ReceiveWhatsapp(r)
    PROVE  /\ TypeInv'
           /\ incoming' = OpenVouchers(r) /\ incomingCount' > 0
           /\ UNCHANGED <<storingVars, queue, worker, cards, templates, replies,
                          repliers, balance, jobCount, refreshes, crashes>>
<1>1. /\ incomingCount < MaxIncoming /\ incomingCount' = incomingCount + 1
      /\ incoming' = OpenVouchers(r)
      /\ UNCHANGED <<storingVars, queue, worker, cards, templates, replies,
                     repliers, balance, jobCount, refreshes, crashes>>
  BY DEF ReceiveWhatsapp
<1>2. incomingCount \in 0..MaxIncoming
  BY DEF TypeInv, RepliesTyped
<1>3. incomingCount' \in 0..MaxIncoming /\ incomingCount' > 0
  BY <1>1, <1>2, CountsAssumption
<1>4. OpenVouchers(r) \subseteq DOMAIN cards
  BY DEF OpenVouchers
<1>5. RepliesTyped'
  BY <1>1, <1>3, <1>4 DEF TypeInv, RepliesTyped
<1>6. StoringTypeOK'
  BY <1>1, StoringUnchanged DEF TypeInv
<1> QED
  BY <1>1, <1>3, <1>5, <1>6, ElsewhereType

LEMMA QueueReplyFacts ==
    ASSUME TypeInv, NEW c \in DOMAIN cards, QueueReply(c)
    PROVE  /\ TypeInv'
           /\ c \in incoming /\ incoming' = incoming \ {c}
           /\ \A reply \in replies' : reply \in replies \/ reply.card = c
           /\ UNCHANGED <<storingVars, queue, worker, cards, templates, repliers,
                          balance, counts>>
<1> DEFINE new == [card |-> c, incoming |-> incomingCount]
<1>1. /\ c \in incoming /\ incoming' = incoming \ {c}
      /\ replies' = replies \cup {new}
      /\ UNCHANGED <<storingVars, queue, worker, cards, templates, repliers,
                     balance, counts>>
  BY DEF QueueReply
<1>2. incomingCount \in 1..MaxIncoming
  BY <1>1 DEF TypeInv, RepliesTyped
<1>3. new \in [card : DOMAIN cards, incoming : 1..MaxIncoming] /\ new.card = c
  BY <1>2
<1> HIDE DEF new
<1>4. RepliesTyped'
  BY <1>1, <1>2, <1>3 DEF TypeInv, RepliesTyped, counts
<1>5. StoringTypeOK'
  BY <1>1, StoringUnchanged DEF TypeInv
<1> QED
  BY <1>1, <1>3, <1>4, <1>5, ElsewhereType DEF counts

LEMMA IdleReplierType ==
    IdleReplier \in Replier /\ IdleReplier.pc = "idle"
BY Zenon DEF IdleReplier, Replier

\* One reply worker goes on.
ReplierTo(w, pc, card) ==
    /\ repliers' \in [Repliers -> Replier]
    /\ repliers'[w].pc = pc /\ repliers'[w].card = card
    /\ \A v \in Repliers \ {w} : repliers'[v] = repliers[v]

LEMMA ReplierMoves ==
    ASSUME TypeInv, NEW w \in Repliers, NEW new \in Replier,
           repliers' = [repliers EXCEPT ![w] = new]
    PROVE  ReplierTo(w, new.pc, new.card)
BY DEF TypeInv, RepliesTyped, ReplierTo

LEMMA ReplierGoes ==
    ASSUME TypeInv, NEW w \in Repliers, NEW pc \in {"user", "storing"},
           repliers' = [repliers EXCEPT ![w].pc = pc]
    PROVE  ReplierTo(w, pc, repliers[w].card)
<1> DEFINE new == [repliers[w] EXCEPT !.pc = pc]
<1>1. repliers[w] \in Replier
  BY DEF TypeInv, RepliesTyped
<1>2. new \in Replier
  BY <1>1, Zenon DEF Replier
<1>3. new.pc = pc /\ new.card = repliers[w].card
  BY <1>1 DEF Replier
<1>4. repliers' = [repliers EXCEPT ![w] = new]
  OBVIOUS
<1> HIDE DEF new
<1> QED
  BY <1>2, <1>3, <1>4, ReplierMoves

LEMMA ReplierToType ==
    ASSUME TypeInv, NEW w \in Repliers, NEW pc, NEW card, ReplierTo(w, pc, card),
           pc # "idle" => card \in DOMAIN cards /\ incomingCount # 0,
           StoringTypeOK', CardsKept, replies' \subseteq replies,
           UNCHANGED unchangedByReplier
    PROVE  TypeInv'
<1>1. RepliesTyped'
  BY DEF TypeInv, RepliesTyped, ReplierTo, CardsKept, unchangedByReplier, counts
<1> QED
  BY <1>1, WorkerUnchanged, BalanceUnchanged, CountsUnchanged
     DEF TypeInv, CardsKept, unchangedByReplier, counts

LEMMA SendPendingVoucherFacts ==
    ASSUME TypeInv, NEW w \in Repliers, SendPendingVoucher(w)
    PROVE  /\ TypeInv'
           /\ repliers[w].pc = "idle"
           /\ \E reply \in replies : ReplierTo(w, "sent", reply.card)
           /\ replies' \subseteq replies
           /\ UNCHANGED <<storingVars, cards, unchangedByReplier>>
<1>1. /\ repliers[w].pc = "idle"
      /\ UNCHANGED <<storingVars, cards, unchangedByReplier>>
  BY DEF SendPendingVoucher
<1>2. PICK reply \in replies, accepted \in BOOLEAN :
        /\ replies' = replies \ {reply}
        /\ repliers' = [repliers EXCEPT ![w] =
             [pc |-> "sent", card |-> reply.card, message |-> accepted]]
  BY Zenon DEF SendPendingVoucher
<1> DEFINE new == [pc |-> "sent", card |-> reply.card, message |-> accepted]
<1>3. reply.card \in DOMAIN cards /\ incomingCount # 0
  BY DEF TypeInv, RepliesTyped
<1>4. reply.card \in Cards
  BY <1>3, CardFacts DEF TypeInv
<1>5. new \in Replier
  BY <1>4, Zenon DEF Replier
<1>6. new.pc = "sent" /\ new.card = reply.card
  OBVIOUS
<1> HIDE DEF new
<1>7. ReplierTo(w, "sent", reply.card)
  BY <1>2, <1>5, <1>6, ReplierMoves DEF new
<1>8. StoringTypeOK' /\ CardsKept
  BY <1>1, StoringUnchanged, CardsUnchanged DEF TypeInv
<1>9. replies' \subseteq replies
  BY <1>2
<1>10. TypeInv'
  BY <1>1, <1>3, <1>7, <1>8, <1>9, ReplierToType
<1> QED
  BY <1>1, <1>7, <1>9, <1>10

LEMMA MarkSentFacts ==
    ASSUME TypeInv, NEW w \in Repliers, MarkSent(w)
    PROVE  /\ TypeInv' /\ QuietCards
           /\ repliers[w].pc = "sent" /\ ReplierTo(w, "user", repliers[w].card)
           /\ UNCHANGED <<storingVars, replies, unchangedByReplier>>
<1>1. /\ repliers[w].pc = "sent"
      /\ cards' = [cards EXCEPT ![repliers[w].card].send = TRUE]
      /\ repliers' = [repliers EXCEPT ![w].pc = "user"]
      /\ UNCHANGED <<storingVars, replies, unchangedByReplier>>
  BY DEF MarkSent
<1>2. repliers[w].card \in DOMAIN cards /\ incomingCount # 0
  BY <1>1 DEF TypeInv, RepliesTyped
<1>3. QuietCards
  BY <1>1, <1>2, SendChanges
<1>4. ReplierTo(w, "user", repliers[w].card)
  BY <1>1, ReplierGoes
<1>5. StoringTypeOK' /\ CardsKept
  BY <1>1, <1>3, StoringUnchanged DEF TypeInv, QuietCards
<1>6. TypeInv'
  BY <1>1, <1>2, <1>4, <1>5, ReplierToType
<1> QED
  BY <1>1, <1>3, <1>4, <1>6

LEMMA StoreReplyResultFacts ==
    ASSUME TypeInv, NEW w \in Repliers, StoreReplyResult(w)
    PROVE  /\ TypeInv'
           /\ repliers[w].pc = "user" /\ repliers[w].card \in DOMAIN cards
           /\ \/ /\ ReplierTo(w, "storing", repliers[w].card)
                 /\ BeginStoring(w, cards[repliers[w].card].key, "success",
                                 repliers[w].message)
                 /\ storing[w].pc = "idle" /\ storing'[w].pc = "save"
                 /\ storing'[w].key = cards[repliers[w].card].key
                 /\ storing'[w].status = "success"
              \/ /\ ReplierTo(w, "idle", NoCard)
                 /\ UNCHANGED storingVars
           /\ UNCHANGED <<cards, replies, unchangedByReplier>>
<1> DEFINE k == cards[repliers[w].card].key
           message == repliers[w].message
<1>1. repliers[w].pc = "user" /\ UNCHANGED <<cards, replies, unchangedByReplier>>
  BY DEF StoreReplyResult
<1>2. repliers[w].card \in DOMAIN cards /\ incomingCount # 0 /\ w \in Storers
  BY <1>1, StorersAssumption DEF TypeInv, RepliesTyped
<1>3. k \in Key
  BY <1>2, CardFacts DEF TypeInv
<1>4. \/ /\ BeginStoring(w, k, "success", message)
         /\ repliers' = [repliers EXCEPT ![w].pc = "storing"]
      \/ /\ repliers' = [repliers EXCEPT ![w] = IdleReplier]
         /\ UNCHANGED storingVars
  BY Zenon DEF StoreReplyResult
<1>5. CardsKept
  BY <1>1, CardsUnchanged DEF TypeInv
<1>6. CASE /\ BeginStoring(w, k, "success", message)
           /\ repliers' = [repliers EXCEPT ![w].pc = "storing"]
  <2>1. repliers[w] \in Replier
    BY DEF TypeInv, RepliesTyped
  <2>2. message \in BOOLEAN
    BY <2>1, Zenon DEF Replier
  <2>3. "success" \in TransactionStatus
    BY DEF TransactionStatus
  <2> HIDE DEF message, k
  <2>4. /\ StoringTypeOK' /\ storing[w].pc = "idle" /\ storing'[w].pc = "save"
        /\ storing'[w].key = k /\ storing'[w].status = "success"
    BY <1>2, <1>3, <1>6, <2>2, <2>3, BeginStoringKeepsType DEF TypeInv
  <2>5. ReplierTo(w, "storing", repliers[w].card)
    BY <1>6, ReplierGoes
  <2>6. TypeInv'
    BY <1>1, <1>2, <1>5, <2>4, <2>5, ReplierToType
  <2> QED
    BY <1>1, <1>2, <1>6, <2>4, <2>5, <2>6 DEF k, message
<1>7. CASE /\ repliers' = [repliers EXCEPT ![w] = IdleReplier]
           /\ UNCHANGED storingVars
  <2>1. ReplierTo(w, "idle", NoCard)
    BY <1>7, IdleReplierType, ReplierMoves DEF IdleReplier
  <2>2. StoringTypeOK'
    BY <1>7, StoringUnchanged DEF TypeInv
  <2>3. TypeInv'
    BY <1>1, <1>5, <2>1, <2>2, ReplierToType
  <2> QED
    BY <1>1, <1>2, <1>7, <2>1, <2>3
<1> QED
  BY <1>4, <1>6, <1>7

LEMMA ReplyResultStoredFacts ==
    ASSUME TypeInv, NEW w \in Repliers, ReplyResultStored(w)
    PROVE  /\ TypeInv'
           /\ repliers[w].pc = "storing" /\ ReplierTo(w, "idle", NoCard)
           /\ EndStoring(w)
           /\ storing[w].pc = "stored" /\ storing'[w].pc = "idle"
           /\ UNCHANGED <<cards, replies, unchangedByReplier>>
<1>1. /\ repliers[w].pc = "storing" /\ EndStoring(w)
      /\ repliers' = [repliers EXCEPT ![w] = IdleReplier]
      /\ UNCHANGED <<cards, replies, unchangedByReplier>>
  BY DEF ReplyResultStored
<1>2. w \in Storers
  BY StorersAssumption
<1>3. StoringTypeOK' /\ storing[w].pc = "stored" /\ storing'[w].pc = "idle"
  BY <1>1, <1>2, EndStoringKeepsType DEF TypeInv
<1>4. ReplierTo(w, "idle", NoCard)
  BY <1>1, IdleReplierType, ReplierMoves DEF IdleReplier
<1>5. CardsKept
  BY <1>1, CardsUnchanged DEF TypeInv
<1>6. TypeInv'
  BY <1>1, <1>3, <1>4, <1>5, ReplierToType
<1> QED
  BY <1>1, <1>3, <1>4, <1>6

-----------------------------------------------------------------------------
(* Cron jobs and crashes.                                                  *)

\* A cron job leaves everything but the cards and the balance alone.
LEMMA CronType ==
    ASSUME TypeInv, QuietCards, BalanceTyped', refreshes' \in 0..MaxEvents,
           UNCHANGED unchangedByCron
    PROVE  TypeInv'
<1>1. StoringTypeOK' /\ CardsKept
  BY StoringUnchanged DEF TypeInv, QuietCards, unchangedByCron
<1>2. CountsTyped'
  BY DEF TypeInv, CountsTyped, unchangedByCron
<1> QED
  BY <1>1, <1>2, WorkerUnchanged, RepliesUnchanged
     DEF TypeInv, CardsKept, unchangedByCron

LEMMA CronTypeOfCard ==
    ASSUME TypeInv, QuietCards, UNCHANGED <<balance, refreshes, unchangedByCron>>
    PROVE  TypeInv'
<1>1. BalanceTyped'
  BY BalanceUnchanged DEF TypeInv, QuietCards
<1>2. refreshes' \in 0..MaxEvents
  BY DEF TypeInv, CountsTyped
<1> QED
  BY <1>1, <1>2, CronType

\* A card that is to be cancelled stays so.
LEMMA AgeChanges ==
    ASSUME TypeInv, NEW c \in DOMAIN cards, cards[c].request = "toCancel",
           NEW age \in {"fresh", "due", "expired"},
           cards' = [cards EXCEPT ![c] = [cards[c] EXCEPT !.age = age]]
    PROVE  QuietCards /\ SendsKept
<1> DEFINE card == cards[c]
           new == [card EXCEPT !.age = age]
<1>1. card \in Card /\ CardsTyped
  BY CardFacts DEF TypeInv
<1>2. cards' = [cards EXCEPT ![c] = new]
  OBVIOUS
<1> HIDE DEF card
<1>3. new \in Card
  BY <1>1, Zenon DEF Card
<1>4. /\ new.key = card.key /\ new.issued = card.issued
      /\ new.voucher = card.voucher /\ new.request = card.request
      /\ new.cancelled = card.cancelled /\ new.send = card.send
  BY <1>1 DEF Card
<1> HIDE DEF new
<1>5. Replaced(c, new)
  BY <1>1, <1>2, <1>3, CardReplaced
<1> QED
  BY <1>4, <1>5 DEF card, QuietCards, Replaced, SendsKept

\* The cron job stops with a card that is as it was.
LEMMA StopChanges ==
    ASSUME TypeInv, NEW c \in DOMAIN cards, cards[c].request = "toCancel",
           cards' = [cards EXCEPT ![c] = [cards[c] EXCEPT !.request = "refused"]]
    PROVE  QuietCards /\ SendsKept
<1> DEFINE card == cards[c]
           new == [card EXCEPT !.request = "refused"]
<1>1. card \in Card /\ CardsTyped
  BY CardFacts DEF TypeInv
<1>2. cards' = [cards EXCEPT ![c] = new]
  OBVIOUS
<1> HIDE DEF card
<1>3. new \in Card
  BY <1>1, Zenon DEF Card, RequestState
<1>4. /\ new.key = card.key /\ new.issued = card.issued
      /\ new.voucher = card.voucher /\ new.request = "refused"
      /\ new.cancelled = card.cancelled /\ new.send = card.send
  BY <1>1 DEF Card
<1> HIDE DEF new
<1>5. Replaced(c, new)
  BY <1>1, <1>2, <1>3, CardReplaced
<1> QED
  BY <1>4, <1>5 DEF card, QuietCards, Replaced, SendsKept

\* Intersolve cancels a card, and the row may say so.
LEMMA CancelChanges ==
    ASSUME TypeInv, NEW c \in DOMAIN cards, cards[c].request = "toCancel",
           \/ cards' = [cards EXCEPT ![c].cancelled = cards[c].issued]
           \/ cards' = [cards EXCEPT ![c] = [cards[c] EXCEPT
                                     !.request = "cancelled",
                                     !.cancelled = cards[c].issued]]
    PROVE  QuietCards /\ SendsKept
<1> DEFINE card == cards[c]
           issued == cards[c].issued
           one == [card EXCEPT !.request = "cancelled"]
           two == [card EXCEPT !.cancelled = issued]
           three == [one EXCEPT !.cancelled = issued]
<1>1. card \in Card /\ CardsTyped
  BY CardFacts DEF TypeInv
<1>2. \/ cards' = [cards EXCEPT ![c] = two]
      \/ cards' = [cards EXCEPT ![c] = three]
  <2>1. CASE cards' = [cards EXCEPT ![c].cancelled = issued]
    BY <2>1
  <2>2. CASE cards' = [cards EXCEPT ![c] = [card EXCEPT !.request = "cancelled",
                                                        !.cancelled = issued]]
    <3>1. cards' = [cards EXCEPT ![c] = three]
      BY <2>2, <1>1 DEF CardsTyped
    <3> QED
      BY <3>1
  <2> QED
    BY <2>1, <2>2
<1>3. issued \in BOOLEAN
  BY <1>1, Zenon DEF Card
<1>4. issued = card.issued /\ card.request = "toCancel"
  OBVIOUS
<1> HIDE DEF card, issued
<1>5. one \in Card
  BY <1>1, Zenon DEF Card, RequestState
<1>6. /\ one.key = card.key /\ one.issued = card.issued
      /\ one.voucher = card.voucher /\ one.cancelled = card.cancelled
      /\ one.request = "cancelled" /\ one.send = card.send
  BY <1>1 DEF Card
<1> HIDE DEF one
<1>7. two \in Card /\ three \in Card
  BY <1>1, <1>3, <1>5, Zenon DEF Card
<1>8. /\ two.key = card.key /\ two.issued = card.issued
      /\ two.voucher = card.voucher /\ two.cancelled = issued
      /\ two.request = card.request /\ two.send = card.send
  BY <1>1 DEF Card
<1>9. /\ three.key = one.key /\ three.issued = one.issued
      /\ three.voucher = one.voucher /\ three.cancelled = issued
      /\ three.request = one.request /\ three.send = one.send
  BY <1>5 DEF Card
<1> HIDE DEF two, three
<1>10. Replaced(c, two) \/ Replaced(c, three)
  BY <1>1, <1>2, <1>7, CardReplaced
<1>11. /\ cards'[c].key = card.key /\ cards'[c].issued = card.issued
       /\ cards'[c].voucher = card.voucher /\ cards'[c].cancelled = card.issued
       /\ cards'[c].request \in {"toCancel", "cancelled"}
       /\ cards'[c].send = card.send
  BY <1>4, <1>6, <1>8, <1>9, <1>10 DEF Replaced
<1> QED
  BY <1>4, <1>10, <1>11 DEF card, QuietCards, Replaced, SendsKept

\* What a cron job does to the cards and the balance: it reads a voucher, and
\* it writes whether the voucher was used, but never that it was not.
Refreshing ==
    /\ QuietCards
    /\ \/ SendsKept /\ UNCHANGED balance
       \/ /\ SendsKept
          /\ \E c \in DOMAIN cards :
               balance'.card = c /\ balance'.send = cards[c].send
       \/ /\ balance # NoBalance /\ balance' = NoBalance
          /\ \E send \in BOOLEAN :
               /\ SendBecomes(balance.card, send)
               /\ balance.send = TRUE => send = TRUE
               /\ send = TRUE =>
                    balance.send = TRUE \/ Whatsapp = FALSE \/ incomingCount # 0
    /\ UNCHANGED unchangedByCron

LEMMA CancellingFacts ==
    ASSUME TypeInv, NEW c \in DOMAIN cards,
           \/ RequestAges(c) \/ CancelAnswered(c) \/ CancelStopped(c)
           \/ CancelRefused(c) \/ CancelUnanswered(c)
    PROVE  TypeInv' /\ Refreshing
<1>1. /\ cards[c].request = "toCancel"
      /\ UNCHANGED <<balance, refreshes, unchangedByCron>>
  BY DEF RequestAges, CancelAnswered, CancelStopped, CancelRefused, CancelAnsweredWith,
         CancelUnanswered, RequestIsDue
<1>2. QuietCards /\ SendsKept
  <2>1. CASE RequestAges(c)
    <3>1. PICK age \in {"fresh", "due", "expired"} : cards' = [cards EXCEPT ![c].age = age]
      BY <2>1 DEF RequestAges
    <3>2. cards' = [cards EXCEPT ![c] = [cards[c] EXCEPT !.age = age]]
      BY <3>1
    <3> QED
      BY <1>1, <3>2, AgeChanges
  <2>2. CASE CancelRefused(c)
    BY <1>1, <2>2, AgeChanges DEF CancelRefused, CancelAnsweredWith
  <2>3. CASE CancelAnswered(c) \/ CancelUnanswered(c)
    BY <1>1, <2>3, CancelChanges DEF CancelAnswered, CancelAnsweredWith, CancelUnanswered
  <2>4. CASE CancelStopped(c)
    BY <1>1, <2>4, StopChanges DEF CancelStopped, CancelAnsweredWith
  <2> QED
    BY <2>1, <2>2, <2>3, <2>4
<1> QED
  BY <1>1, <1>2, CronTypeOfCard DEF Refreshing

LEMMA ReadUnusedVoucherFacts ==
    ASSUME TypeInv, NEW c \in DOMAIN cards, ReadUnusedVoucher(c)
    PROVE  TypeInv' /\ Refreshing
<1> DEFINE send == cards[c].send
<1>1. /\ crashes + refreshes < MaxEvents /\ refreshes' = refreshes + 1
      /\ balance' = [card |-> c, send |-> send]
      /\ UNCHANGED <<cards, unchangedByCron>>
  BY DEF ReadUnusedVoucher
<1>2. cards[c] \in Card /\ c \in Cards
  BY CardFacts DEF TypeInv
<1>3. send \in BOOLEAN
  BY <1>2, Zenon DEF Card
<1> HIDE DEF send
<1>4. BalanceTyped'
  <2>1. balance' \in [card : {NoCard} \cup Cards, send : BOOLEAN]
    BY <1>1, <1>2, <1>3, Zenon
  <2>2. balance'.card = c /\ c \in DOMAIN cards'
    BY <1>1
  <2> QED
    BY <2>1, <2>2 DEF BalanceTyped
<1>5. refreshes' \in 0..MaxEvents
  BY <1>1, CountsAssumption DEF TypeInv, CountsTyped
<1>6. QuietCards /\ SendsKept
  BY <1>1, QuietUnchanged DEF SendsKept
<1>7. TypeInv'
  BY <1>1, <1>4, <1>5, <1>6, CronType
<1>8. balance'.card = c /\ balance'.send = cards[c].send
  BY <1>1 DEF send
<1> QED
  BY <1>1, <1>6, <1>7, <1>8 DEF Refreshing

LEMMA StoreBalanceFacts ==
    ASSUME TypeInv, StoreBalance
    PROVE  TypeInv' /\ Refreshing
<1>1. /\ balance # NoBalance /\ balance' = NoBalance
      /\ UNCHANGED <<refreshes, unchangedByCron>>
  BY DEF StoreBalance
<1>2. PICK used \in BOOLEAN :
        /\ used => ~Whatsapp \/ incomingCount > 0
        /\ cards' = [cards EXCEPT ![balance.card].send = balance.send \/ used]
  BY Zenon DEF StoreBalance
<1>3. balance.card \in DOMAIN cards
  BY <1>1 DEF TypeInv, BalanceTyped
<1> DEFINE send == balance.send \/ used
<1>4. send \in BOOLEAN
  BY Zenon
<1>5. cards' = [cards EXCEPT ![balance.card].send = send]
  BY <1>2
<1>12. balance.send \in BOOLEAN /\ Whatsapp \in BOOLEAN
  BY SettingsAssumption, Zenon DEF TypeInv, BalanceTyped
<1>13. balance.send = TRUE => send = TRUE
  BY <1>4, Zenon
<1>14. send = TRUE => balance.send = TRUE \/ Whatsapp = FALSE \/ incomingCount > 0
  BY <1>2, <1>12, Zenon
<1> HIDE DEF send
<1>6. QuietCards /\ SendBecomes(balance.card, send)
  BY <1>3, <1>4, <1>5, SendChanges
<1>7. NoBalance \in [card : {NoCard} \cup Cards, send : BOOLEAN]
  BY Zenon DEF NoBalance
<1>8. BalanceTyped'
  BY <1>1, <1>7 DEF BalanceTyped, NoBalance
<1>9. refreshes' \in 0..MaxEvents
  BY <1>1 DEF TypeInv, CountsTyped
<1>10. TypeInv'
  BY <1>1, <1>6, <1>8, <1>9, CronType
<1>11. incomingCount > 0 => incomingCount # 0
  OBVIOUS
<1> QED
  BY <1>1, <1>4, <1>6, <1>10, <1>11, <1>13, <1>14 DEF Refreshing

Crashing ==
    /\ crashes' > 0
    /\ worker'.pc = "idle" /\ worker'.key = worker.key
    /\ queue \subseteq queue' /\ queue' \subseteq queue \cup {worker.key}
    /\ worker.pc # "idle" => worker.key \in queue'
    /\ \A reply \in replies' :
         \/ reply \in replies
         \/ \E w \in Repliers : repliers[w].pc # "idle" /\ reply.card = repliers[w].card
    /\ \A w \in Repliers : repliers'[w].pc = "idle"
    /\ incoming' = {} /\ balance' = NoBalance
    /\ \A s \in Storers : storing'[s].pc = "idle"
    /\ UNCHANGED <<storeVars, linked, statusEvents, cards, templates, jobCount,
                   incomingCount, refreshes>>

LEMMA CrashFacts ==
    ASSUME TypeInv, Crash PROVE TypeInv' /\ Crashing
<1> DEFINE again == {[card |-> repliers[w].card, incoming |-> incomingCount] :
                       w \in {v \in Repliers : repliers[v].pc # "idle"}}
<1>1. /\ crashes < MaxCrashes /\ crashes' = crashes + 1
      /\ worker' = Idle(worker.key)
      /\ queue' = queue \cup IF worker.pc = "idle" THEN {} ELSE {worker.key}
      /\ replies' = replies \cup again
      /\ repliers' = [w \in Repliers |-> IdleReplier]
      /\ incoming' = {} /\ balance' = NoBalance /\ StopStoring
      /\ UNCHANGED <<storeVars, linked, statusEvents, cards, templates, jobCount,
                     incomingCount, refreshes>>
  BY DEF Crash
<1>2. StoringTypeOK' /\ \A s \in Storers : storing'[s].pc = "idle"
  BY <1>1, StopStoringKeepsType DEF TypeInv
<1>3. /\ worker' \in Worker /\ worker'.pc = "idle" /\ worker'.key = worker.key
      /\ worker.key \in Key
  BY <1>1, IdleType, WorkerFacts
<1>4. CardsKept
  BY <1>1, CardsUnchanged DEF TypeInv
<1>5. WorkerTyped'
  BY <1>1, <1>3 DEF TypeInv, WorkerTyped
<1>6. crashes' \in 0..MaxCrashes /\ crashes' > 0
  BY <1>1, CountsAssumption DEF TypeInv, CountsTyped
<1>7. CountsTyped'
  BY <1>1, <1>6 DEF TypeInv, CountsTyped
<1>8. \A reply \in again :
        \E w \in Repliers : /\ repliers[w].pc # "idle" /\ reply.card = repliers[w].card
                            /\ reply = [card |-> repliers[w].card, incoming |-> incomingCount]
  OBVIOUS
<1> HIDE DEF again
<1>9. again \subseteq [card : DOMAIN cards, incoming : 1..MaxIncoming]
  BY <1>8 DEF TypeInv, RepliesTyped
<1>10. again # {} => incomingCount # 0
  BY <1>8 DEF TypeInv, RepliesTyped
<1>11. repliers' \in [Repliers -> Replier] /\ \A w \in Repliers : repliers'[w].pc = "idle"
  BY <1>1, IdleReplierType
<1>12. RepliesTyped'
  BY <1>1, <1>9, <1>10, <1>11 DEF TypeInv, RepliesTyped
<1>13. NoBalance \in [card : {NoCard} \cup Cards, send : BOOLEAN]
  BY Zenon DEF NoBalance
<1>14. BalanceTyped'
  BY <1>1, <1>13 DEF BalanceTyped, NoBalance
<1>15. \A reply \in replies' :
         \/ reply \in replies
         \/ \E w \in Repliers : repliers[w].pc # "idle" /\ reply.card = repliers[w].card
  BY <1>1, <1>8
<1>16. TypeInv'
  BY <1>2, <1>4, <1>5, <1>7, <1>12, <1>14 DEF TypeInv, CardsKept
<1> QED
  BY <1>1, <1>2, <1>3, <1>6, <1>11, <1>15, <1>16 DEF Crashing

LEMMA StoreStepFacts ==
    ASSUME TypeInv, NEW s \in Storers, StoreStep(s)
    PROVE  /\ TypeInv'
           /\ OnlyStorer(s)
           /\ \/ SavedBy(s) /\ storing'[s].pc \in {"link", "count"}
              \/ PublishedBy(s)
              \/ BesidesTransactions(s)
           /\ UNCHANGED <<queue, worker, voucherVars, counts>>
<1>1. StoringStep(s) /\ UNCHANGED <<queue, worker, voucherVars, counts>>
  BY DEF StoreStep
<1>2. /\ StoringTypeOK' /\ OnlyStorer(s)
      /\ \/ SavedBy(s) /\ storing'[s].pc \in {"link", "count"}
         \/ PublishedBy(s)
         \/ BesidesTransactions(s)
  BY <1>1, StoringStepKeeps DEF TypeInv
<1>3. RepliesTyped'
  BY <1>1, RepliesUnchanged, CardsUnchanged DEF TypeInv, voucherVars, counts
<1>4. TypeInv'
  BY <1>1, <1>2, <1>3, ElsewhereType DEF voucherVars, counts
<1> QED
  BY <1>1, <1>2, <1>4

-----------------------------------------------------------------------------
(* Every step keeps the types, and changes the cards in one of nine ways.  *)

LEMMA TypeInit == Init => TypeInv
<1> SUFFICES ASSUME Init PROVE TypeInv
  OBVIOUS
<1>1. StoringTypeOK
  BY StoringInitType DEF Init
<1>2. PICK k \in Key : worker = Idle(k)
  BY DEF Init
<1>3. WorkerTyped
  BY <1>2, IdleType DEF Init, WorkerTyped
<1>4. cards = << >> /\ CardsTyped
  BY CountsAssumption DEF Init, CardsTyped
<1>5. RepliesTyped
  <2>1. repliers \in [Repliers -> Replier] /\ \A w \in Repliers : repliers[w].pc = "idle"
    BY IdleReplierType DEF Init
  <2> QED
    BY <2>1, CountsAssumption DEF Init, RepliesTyped
<1>6. BalanceTyped
  <2>1. NoBalance \in [card : {NoCard} \cup Cards, send : BOOLEAN]
    BY Zenon DEF NoBalance
  <2> QED
    BY <2>1 DEF Init, BalanceTyped
<1>7. CountsTyped
  BY CountsAssumption DEF Init, CountsTyped
<1> QED
  BY <1>1, <1>3, <1>4, <1>5, <1>6, <1>7 DEF TypeInv

\* The worker has a card it has not finished with.
Holding == {"request", "mark", "voucher", "image"}

FoundNothing ==
    /\ Linked(worker.key) = {} /\ worker.pc = "reuse"
    /\ WorkerTo("issue", worker.card, worker.status)
    /\ UNCHANGED <<cards, crashes>>

CardCases ==
    \/ QuietCards /\ UNCHANGED <<worker, crashes>>
    \/ /\ QuietCards /\ worker.pc \notin Holding /\ worker'.pc \notin Holding \cup {"issue"}
       /\ UNCHANGED crashes
    \/ QuietCards /\ worker'.pc = "idle" /\ crashes' > 0
    \/ FoundNothing \/ Issuing \/ Requesting \/ Marking \/ StoringVoucher \/ Linking

LEMMA WorkerStepFacts ==
    ASSUME TypeInv, WorkerStep PROVE TypeInv' /\ CardCases
<1>1. ASSUME NEW k \in Key, TakeJob(k) PROVE TypeInv' /\ CardCases
  BY <1>1, TakeJobFacts, QuietUnchanged DEF CardCases, Holding, unchangedByWorker, counts
<1>2. CASE MissCredentials
  BY <1>2, MissCredentialsFacts, QuietUnchanged
     DEF CardCases, Holding, unchangedByWorker, counts, WorkerTo
<1>3. CASE GetReusableVoucher
  BY <1>3, GetReusableVoucherFacts, QuietUnchanged
     DEF CardCases, FoundNothing, Holding, unchangedByWorker, counts, WorkerTo
<1>4. CASE SaveReusableVoucher
  BY <1>4, SaveReusableVoucherFacts
     DEF CardCases, Holding, unchangedByWorker, counts
<1>5. CASE IssueCard \/ SaveRequest \/ MarkVoucherAsToCancel \/ StoreVoucherData
           \/ CreateVoucherImage
  BY <1>5, IssueCardFacts, SaveRequestFacts, MarkVoucherAsToCancelFacts,
     StoreVoucherDataFacts, CreateVoucherImageFacts DEF CardCases
<1>6. CASE SendVoucherWhatsapp
  BY <1>6, SendVoucherWhatsappFacts, QuietUnchanged
     DEF CardCases, Holding, counts, WorkerTo
<1>7. CASE StoreTransactionResult
  BY <1>7, StoreTransactionResultFacts, QuietUnchanged
     DEF CardCases, Holding, unchangedByWorker, counts, WorkerTo
<1>8. CASE TransactionResultStored
  BY <1>8, TransactionResultStoredFacts, QuietUnchanged
     DEF CardCases, Holding, unchangedByWorker, counts, WorkerTo
<1>9. CASE RemoveJob
  BY <1>9, RemoveJobFacts, QuietUnchanged DEF CardCases, Holding, unchangedByWorker, counts
<1> QED
  BY <1>1, <1>2, <1>3, <1>4, <1>5, <1>6, <1>7, <1>8, <1>9 DEF WorkerStep

LEMMA StepFacts ==
    ASSUME TypeInv, [Next]_vars PROVE TypeInv' /\ CardCases
<1>0. ASSUME TypeInv', UNCHANGED <<worker, cards, crashes>> PROVE TypeInv' /\ CardCases
  BY <1>0, QuietUnchanged DEF CardCases
<1>1. ASSUME NEW p \in Payments, PostPayment(p) \/ RetryPayment(p)
      PROVE  TypeInv' /\ CardCases
  <2>1. PICK chosen \in SUBSET Registrations : StartRun(p, chosen)
    BY <1>1 DEF PostPayment, RetryPayment, PayableRegistrations, FailedRegistrations
  <2>2. UNCHANGED <<worker, cards, crashes>>
    BY <2>1 DEF StartRun, voucherVars
  <2> QED
    BY <1>0, <2>1, <2>2, StartRunType
<1>2. ASSUME NEW s \in Storers, StoreStep(s) PROVE TypeInv' /\ CardCases
  BY <1>0, <1>2, StoreStepFacts DEF voucherVars, counts
<1>3. ASSUME NEW k \in Key, SendTemplate(k) PROVE TypeInv' /\ CardCases
  BY <1>0, <1>3, SendTemplateFacts DEF counts
<1>4. ASSUME NEW r \in Registrations, ReceiveWhatsapp(r) PROVE TypeInv' /\ CardCases
  BY <1>0, <1>4, ReceiveWhatsappFacts
<1>5. ASSUME NEW c \in DOMAIN cards, QueueReply(c) PROVE TypeInv' /\ CardCases
  BY <1>0, <1>5, QueueReplyFacts DEF counts
<1>6. ASSUME NEW w \in Repliers, ReplierStep(w) PROVE TypeInv' /\ CardCases
  <2>1. CASE SendPendingVoucher(w)
    BY <1>0, <2>1, SendPendingVoucherFacts DEF unchangedByReplier, counts
  <2>2. CASE MarkSent(w)
    BY <2>2, MarkSentFacts DEF unchangedByReplier, counts, CardCases
  <2>3. CASE StoreReplyResult(w)
    BY <1>0, <2>3, StoreReplyResultFacts DEF unchangedByReplier, counts
  <2>4. CASE ReplyResultStored(w)
    BY <1>0, <2>4, ReplyResultStoredFacts DEF unchangedByReplier, counts
  <2> QED
    BY <1>6, <2>1, <2>2, <2>3, <2>4 DEF ReplierStep
<1>7. ASSUME NEW i \in DOMAIN transactions, ProcessFailedStatus(i)
      PROVE  TypeInv' /\ CardCases
  BY <1>0, <1>7, ProcessFailedStatusFacts DEF voucherVars, counts
<1>8. CASE CronStep
  <2>1. TypeInv' /\ Refreshing
    BY <1>8, CancellingFacts, ReadUnusedVoucherFacts, StoreBalanceFacts DEF CronStep
  <2> QED
    BY <2>1 DEF Refreshing, unchangedByCron, CardCases
<1>9. CASE Crash
  BY <1>9, CrashFacts, QuietUnchanged DEF Crashing, CardCases
<1>10. CASE UNCHANGED vars
  <2>1. StoringTypeOK' /\ RepliesTyped'
    BY <1>10, StoringUnchanged, RepliesUnchanged, CardsUnchanged
       DEF TypeInv, vars, voucherVars, counts
  <2>2. TypeInv'
    BY <1>10, <2>1, ElsewhereType DEF vars, voucherVars, counts
  <2> QED
    BY <1>0, <1>10, <2>2 DEF vars, voucherVars, counts
<1> QED
  BY <1>1, <1>2, <1>3, <1>4, <1>5, <1>6, <1>7, <1>8, <1>9, <1>10, WorkerStepFacts
     DEF Next

LEMMA TypeInvImplies == TypeInv => TypeOK
<1> SUFFICES ASSUME TypeInv PROVE TypeOK
  OBVIOUS
<1>1. DOMAIN cards \subseteq Cards
  BY CardFacts DEF TypeInv
<1>2. replies \subseteq Reply
  BY <1>1 DEF TypeInv, RepliesTyped, Reply
<1> QED
  BY <1>2 DEF TypeInv, TypeOK, WorkerTyped, CardsTyped, RepliesTyped, BalanceTyped,
              CountsTyped

\* Every state has the types the module declares, whatever is lost, retried or
\* done again after a crash.
THEOREM TypeCorrect == Spec => []TypeOK
<1>1. Spec => []TypeInv
  BY TypeInit, StepFacts, PTL DEF Spec
<1> QED
  BY <1>1, TypeInvImplies, PTL

-----------------------------------------------------------------------------
(* One voucher, of a card that is valid.                                   *)

\* From the answer "nothing to reuse" on, the key the worker pays has no linked
\* voucher, and the card it asks for is of that key.
OwnCard ==
    /\ worker.pc \in Holding =>
         /\ cards[worker.card].key = worker.key
         /\ cards[worker.card].voucher # "linked"
    /\ worker.pc \in Holding \cup {"issue"} =>
         \A c \in DOMAIN cards : cards[c].key = worker.key => cards[c].voucher # "linked"

OneLinked ==
    \A c, d \in DOMAIN cards :
        /\ cards[c].voucher = "linked" /\ cards[d].voucher = "linked"
        /\ cards[c].key = cards[d].key
        => c = d

\* What the worker knows of its card.
CardAtHand ==
    /\ worker.pc = "request" =>
         /\ cards[worker.card].request = "none"
         /\ worker.status = "success" => cards[worker.card].issued = TRUE
         /\ worker.status \in {"success", "error"}
    /\ worker.pc = "mark" => worker.status = "error"
    /\ worker.pc \in {"voucher", "image"} =>
         /\ cards[worker.card].request = "ok" /\ cards[worker.card].issued = TRUE
         /\ worker.status = "success"

LinkedOk ==
    \A c \in DOMAIN cards :
        cards[c].voucher = "linked" => cards[c].issued = TRUE /\ cards[c].request = "ok"

\* Only the cron job cancels, and only what is to be cancelled.
NotCancelled ==
    \A c \in DOMAIN cards :
        cards[c].request \in {"none", "ok"} => cards[c].cancelled = FALSE

Known ==
    crashes = 0 => \A c \in DOMAIN cards :
        \/ cards[c].issued = FALSE \/ cards[c].cancelled = TRUE
        \/ cards[c].voucher = "linked"
        \/ cards[c].request \in {"toCancel", "refused"}
        \/ worker.pc \in Holding /\ worker.card = c

CardInv == OwnCard /\ OneLinked /\ CardAtHand /\ LinkedOk /\ NotCancelled /\ Known

LEMMA CardInit == Init => CardInv
<1> SUFFICES ASSUME Init PROVE CardInv
  OBVIOUS
<1>1. cards = << >> /\ worker.pc = "idle"
  BY DEF Init, Idle
<1> QED
  BY <1>1 DEF CardInv, OwnCard, OneLinked, CardAtHand, LinkedOk, NotCancelled, Known,
              Holding

LEMMA OwnCardStep == TypeInv /\ OwnCard /\ CardCases => OwnCard'
<1> SUFFICES ASSUME TypeInv, OwnCard, CardCases PROVE OwnCard'
  OBVIOUS
<1>0. worker.pc \in Holding => worker.card \in DOMAIN cards
  BY DEF TypeInv, WorkerTyped, Holding
<1>1. CASE QuietCards /\ worker' = worker
  BY <1>0, <1>1 DEF OwnCard, QuietCards
<1>2. CASE worker'.pc \notin Holding \cup {"issue"}
  BY <1>2 DEF OwnCard
<1>3. CASE FoundNothing
  BY <1>3 DEF FoundNothing, OwnCard, Linked, WorkerTo, Holding
<1>4. CASE Issuing
  BY <1>4 DEF Issuing, OwnCard, WorkerTo, Holding
<1>5. CASE Requesting
  BY <1>5 DEF Requesting, OnOwnCard, OwnCard, CardBecomes, WorkerTo, Holding
<1>6. CASE Marking \/ Linking
  BY <1>2, <1>6 DEF Marking, Linking, OnOwnCard, WorkerTo, Holding
<1>7. CASE StoringVoucher
  BY <1>7 DEF StoringVoucher, OnOwnCard, OwnCard, CardBecomes, WorkerTo, Holding
<1> QED
  BY <1>1, <1>2, <1>3, <1>4, <1>5, <1>6, <1>7 DEF CardCases, Holding

\* No card gets a voucher in the steps but Linking, and none loses it.
VouchersKept ==
    /\ DOMAIN cards \subseteq DOMAIN cards'
    /\ \A c \in DOMAIN cards :
         /\ cards'[c].key = cards[c].key /\ cards'[c].issued = cards[c].issued
         /\ cards[c].voucher = "linked" => cards'[c].voucher = "linked"

LEMMA VouchersStay ==
    ASSUME TypeInv, OwnCard, CardCases
    PROVE  /\ VouchersKept
           /\ \/ Linking
              \/ \A c \in DOMAIN cards' : cards'[c].voucher = "linked" =>
                   c \in DOMAIN cards /\ cards[c].voucher = "linked"
<1>0. worker.pc \in Holding =>
        worker.card \in DOMAIN cards /\ cards[worker.card].voucher # "linked"
  BY DEF TypeInv, WorkerTyped, Holding, OwnCard
<1>1. CASE QuietCards
  BY <1>1 DEF QuietCards, VouchersKept
<1>2. CASE FoundNothing
  BY <1>2 DEF FoundNothing, VouchersKept
<1>3. CASE Issuing
  BY <1>3 DEF Issuing, VouchersKept
<1>4. CASE Requesting
  BY <1>0, <1>4 DEF Requesting, OnOwnCard, CardBecomes, VouchersKept, Holding
<1>5. CASE Marking
  BY <1>0, <1>5 DEF Marking, OnOwnCard, CardBecomes, VouchersKept, Holding
<1>6. CASE StoringVoucher
  BY <1>0, <1>6 DEF StoringVoucher, OnOwnCard, CardBecomes, VouchersKept, Holding
<1>7. CASE Linking
  BY <1>0, <1>7 DEF Linking, OnOwnCard, CardBecomes, VouchersKept, Holding
<1> QED
  BY <1>1, <1>2, <1>3, <1>4, <1>5, <1>6, <1>7 DEF CardCases

LEMMA OneLinkedStep == TypeInv /\ OwnCard /\ OneLinked /\ CardCases => OneLinked'
<1> SUFFICES ASSUME TypeInv, OwnCard, OneLinked, CardCases PROVE OneLinked'
  OBVIOUS
<1>1. CASE \A c \in DOMAIN cards' : cards'[c].voucher = "linked" =>
             c \in DOMAIN cards /\ cards[c].voucher = "linked"
  BY <1>1, VouchersStay DEF OneLinked, VouchersKept
<1>2. CASE Linking
  BY <1>2 DEF Linking, OnOwnCard, CardBecomes, OneLinked, OwnCard, Holding
<1> QED
  BY <1>1, <1>2, VouchersStay

LEMMA CardAtHandStep == TypeInv /\ OwnCard /\ CardAtHand /\ CardCases => CardAtHand'
<1> SUFFICES ASSUME TypeInv, OwnCard, CardAtHand, CardCases PROVE CardAtHand'
  OBVIOUS
<1>0. worker.pc \in Holding => worker.card \in DOMAIN cards
  BY DEF TypeInv, WorkerTyped, Holding
<1>1. CASE QuietCards /\ worker' = worker
  <2>1. worker.pc \in {"request", "voucher", "image"} =>
          /\ cards'[worker.card].request = cards[worker.card].request
          /\ cards'[worker.card].issued = cards[worker.card].issued
    BY <1>0, <1>1 DEF CardAtHand, QuietCards, Holding
  <2> QED
    BY <1>1, <2>1 DEF CardAtHand
<1>2. CASE worker'.pc \notin Holding
  BY <1>2 DEF CardAtHand, Holding
<1>3. CASE FoundNothing \/ Marking \/ Linking
  BY <1>2, <1>3 DEF FoundNothing, Marking, Linking, OnOwnCard, WorkerTo, Holding
<1>4. CASE Issuing
  BY <1>4 DEF Issuing, CardAtHand, WorkerTo
<1>5. CASE Requesting
  BY <1>0, <1>5 DEF Requesting, OnOwnCard, CardAtHand, CardBecomes, WorkerTo, Holding
<1>6. CASE StoringVoucher
  BY <1>6 DEF StoringVoucher, OnOwnCard, CardAtHand, CardBecomes, WorkerTo
<1> QED
  BY <1>1, <1>2, <1>3, <1>4, <1>5, <1>6 DEF CardCases, Holding

LEMMA LinkedOkStep ==
    TypeInv /\ OwnCard /\ CardAtHand /\ LinkedOk /\ CardCases => LinkedOk'
<1> SUFFICES ASSUME TypeInv, OwnCard, CardAtHand, LinkedOk, CardCases PROVE LinkedOk'
  OBVIOUS
<1>0. worker.pc \in Holding =>
        worker.card \in DOMAIN cards /\ cards[worker.card].voucher # "linked"
  BY DEF TypeInv, WorkerTyped, Holding, OwnCard
<1>1. CASE QuietCards
  BY <1>1 DEF QuietCards, LinkedOk
<1>2. CASE FoundNothing
  BY <1>2 DEF FoundNothing, LinkedOk
<1>3. CASE Issuing
  BY <1>3 DEF Issuing, LinkedOk
<1>4. CASE Requesting
  BY <1>0, <1>4 DEF Requesting, OnOwnCard, CardBecomes, LinkedOk, Holding
<1>5. CASE Marking
  BY <1>0, <1>5 DEF Marking, OnOwnCard, CardBecomes, LinkedOk, Holding
<1>6. CASE StoringVoucher
  BY <1>0, <1>6 DEF StoringVoucher, OnOwnCard, CardBecomes, LinkedOk, Holding
<1>7. CASE Linking
  BY <1>0, <1>7 DEF Linking, OnOwnCard, CardBecomes, LinkedOk, CardAtHand, Holding
<1> QED
  BY <1>1, <1>2, <1>3, <1>4, <1>5, <1>6, <1>7 DEF CardCases

LEMMA NotCancelledStep ==
    TypeInv /\ CardAtHand /\ NotCancelled /\ CardCases => NotCancelled'
<1> SUFFICES ASSUME TypeInv, CardAtHand, NotCancelled, CardCases PROVE NotCancelled'
  OBVIOUS
<1>1. CASE QuietCards
  BY <1>1 DEF QuietCards, NotCancelled
<1>2. CASE FoundNothing
  BY <1>2 DEF FoundNothing, NotCancelled
<1>3. CASE Issuing
  BY <1>3 DEF Issuing, NotCancelled
<1>4. CASE Requesting
  BY <1>4 DEF Requesting, OnOwnCard, CardBecomes, NotCancelled, CardAtHand
<1>5. CASE Marking
  BY <1>5 DEF Marking, OnOwnCard, CardBecomes, NotCancelled
<1>6. CASE StoringVoucher
  BY <1>6 DEF StoringVoucher, OnOwnCard, CardBecomes, NotCancelled
<1>7. CASE Linking
  BY <1>7 DEF Linking, OnOwnCard, CardBecomes, NotCancelled
<1> QED
  BY <1>1, <1>2, <1>3, <1>4, <1>5, <1>6, <1>7 DEF CardCases

LEMMA KnownStep == TypeInv /\ TypeInv' /\ Known /\ CardCases => Known'
<1> SUFFICES ASSUME TypeInv, TypeInv', Known, CardCases, crashes' = 0
             PROVE  Known'
  BY DEF Known
<1>0. \A c \in DOMAIN cards : cards[c].issued = TRUE \/ cards[c].issued = FALSE
  <2>1. \A c \in DOMAIN cards : cards[c] \in Card
    BY CardFacts DEF TypeInv
  <2> QED
    BY <2>1, Zenon DEF Card
<1>1. CASE QuietCards /\ UNCHANGED <<worker, crashes>>
  BY <1>0, <1>1 DEF QuietCards, Known
<1>2. CASE QuietCards /\ worker.pc \notin Holding /\ crashes' = crashes
  BY <1>0, <1>2 DEF QuietCards, Known
<1>3. CASE FoundNothing
  BY <1>3 DEF FoundNothing, Known, Holding
<1>4. CASE Issuing
  BY <1>4 DEF Issuing, Known, Holding, WorkerTo, unchangedByWorker, counts
<1>5. CASE Requesting
  BY <1>5 DEF Requesting, OnOwnCard, CardBecomes, WorkerTo, Known, Holding,
              unchangedByWorker, counts
<1>6. CASE Marking
  BY <1>6 DEF Marking, OnOwnCard, CardBecomes, WorkerTo, Known, Holding,
              unchangedByWorker, counts
<1>7. CASE StoringVoucher
  BY <1>7 DEF StoringVoucher, OnOwnCard, CardBecomes, WorkerTo, Known, Holding,
              unchangedByWorker, counts
<1>8. CASE Linking
  BY <1>8 DEF Linking, OnOwnCard, CardBecomes, WorkerTo, Known, Holding,
              unchangedByWorker, counts
<1>9. crashes' = 0 => ~(crashes' > 0)
  OBVIOUS
<1> QED
  BY <1>1, <1>2, <1>3, <1>4, <1>5, <1>6, <1>7, <1>8, <1>9 DEF CardCases

LEMMA CardStep == TypeInv /\ CardInv /\ [Next]_vars => CardInv'
BY StepFacts, OwnCardStep, OneLinkedStep, CardAtHandStep, LinkedOkStep,
   NotCancelledStep, KnownStep DEF CardInv

LEMMA CardsInvariant == Spec => [](TypeInv /\ CardInv)
BY TypeInit, CardInit, StepFacts, CardStep, PTL DEF Spec

\* However often a payment is retried, answered by the registrant meanwhile or
\* done again after a crash, the registration gets one voucher for it.
THEOREM OneVoucher == Spec => []OneVoucherPerPayment
<1>1. TypeInv /\ CardInv => OneVoucherPerPayment
  <2> SUFFICES ASSUME CardInv, NEW k \in Key PROVE Cardinality(Linked(k)) <= 1
    BY DEF OneVoucherPerPayment
  <2>1. CASE Linked(k) = {}
    BY <2>1, FS_EmptySet
  <2>2. CASE Linked(k) # {}
    <3>1. PICK c \in Linked(k) : TRUE
      BY <2>2
    <3>2. Linked(k) = {c}
      BY <3>1 DEF Linked, CardInv, OneLinked
    <3>3. Cardinality({c}) = 1
      BY FS_Singleton
    <3>4. Cardinality(Linked(k)) = 1
      BY <3>2, <3>3
    <3> QED
      BY <3>4
  <2> QED
    BY <2>1, <2>2
<1> QED
  BY <1>1, CardsInvariant, PTL

\* A voucher a registrant can get is a card Intersolve issued, which the cron
\* job has not cancelled.
THEOREM VoucherIsValid == Spec => []LinkedVoucherIsValid
<1>1. TypeInv /\ CardInv => LinkedVoucherIsValid
  BY DEF CardInv, LinkedOk, NotCancelled, LinkedVoucherIsValid
<1> QED
  BY <1>1, CardsInvariant, PTL

\* As long as nothing crashes, a card that is valid at Intersolve is with the
\* registrant or its request row is still open, whatever answers are lost and
\* whatever code the cron job is answered with.
THEOREM ValidCardKnown == Spec => []ValidCardIsKnown
<1>1. TypeInv /\ CardInv => ValidCardIsKnown
  <2> SUFFICES ASSUME CardInv, crashes = 0, NEW c \in DOMAIN cards,
                      cards[c].issued, ~cards[c].cancelled
               PROVE  \/ cards[c].voucher = "linked"
                      \/ cards[c].request \in {"toCancel", "refused"}
                      \/ worker.card = c
    BY DEF ValidCardIsKnown
  <2> QED
    BY DEF CardInv, Known
<1> QED
  BY <1>1, CardsInvariant, PTL

-----------------------------------------------------------------------------
(* What is reported.                                                       *)

Reported == {"waiting", "success"}

TransactionHasVoucher ==
    \A i \in DOMAIN transactions :
        transactions[i].status \in Reported => Linked(KeyOf(i)) # {}

StorerHasVoucher ==
    \A s \in Storers :
        storing[s].pc # "idle" /\ storing[s].status \in Reported =>
            Linked(storing[s].key) # {}

WorkerHasVoucher ==
    /\ worker.pc \in {"resave", "message"} => Linked(worker.key) # {}
    /\ worker.pc = "store" /\ worker.status \in Reported => Linked(worker.key) # {}

\* Only linked vouchers are replied with.
ReplyHasVoucher ==
    /\ \A c \in incoming : cards[c].voucher = "linked"
    /\ \A reply \in replies : cards[reply.card].voucher = "linked"
    /\ \A w \in Repliers :
         repliers[w].pc # "idle" => cards[repliers[w].card].voucher = "linked"

\* latest_transaction shows a transaction of its own registration and payment.
LatestIsOwn ==
    \A k \in Key : latestTransactions[k] # 0 => KeyOf(latestTransactions[k]) = k

ReportInv ==
    /\ TransactionHasVoucher /\ StorerHasVoucher /\ WorkerHasVoucher /\ ReplyHasVoucher
    /\ LatestIsOwn

LEMMA LinkedGrows ==
    ASSUME VouchersKept, NEW k PROVE Linked(k) # {} => Linked(k)' # {}
BY DEF Linked, VouchersKept

\* A storer begins with what the worker or a reply worker has.
Begins(s) ==
    /\ storing[s].pc = "idle" /\ storing'[s].pc = "save"
    /\ \A t \in Storers \ {s} : storing'[t] = storing[t]
    /\ \/ /\ s = Payer /\ worker.pc = "store" /\ worker'.pc = "storing"
          /\ worker'.key = worker.key
          /\ storing'[s].key = worker.key /\ storing'[s].status = worker.status
       \/ /\ s \in Repliers /\ repliers[s].pc = "user" /\ repliers[s].card \in DOMAIN cards
          /\ storing'[s].key = cards[repliers[s].card].key
          /\ UNCHANGED worker

Ends(s) ==
    /\ storing[s].pc = "stored" /\ storing'[s].pc = "idle"
    /\ \A t \in Storers \ {s} : storing'[t] = storing[t]
    /\ \/ s = Payer /\ worker.pc = "storing" /\ worker'.pc = "remove" /\ worker'.key = worker.key
       \/ s \in Repliers /\ UNCHANGED worker

Moves(s) ==
    /\ OnlyStorer(s)
    /\ \/ SavedBy(s) /\ storing'[s].pc \in {"link", "count"}
       \/ PublishedBy(s)
       \/ BesidesTransactions(s)
    /\ UNCHANGED <<cards, queue, worker, voucherVars, counts>>

StoringCases ==
    \/ OnlyFails /\ UNCHANGED <<latestTransactions, storing>>
    \/ \E s \in Storers : Moves(s)
    \/ /\ UNCHANGED <<transactions, latestTransactions>>
       /\ \/ \E s \in Storers : Begins(s)
          \/ \E s \in Storers : Ends(s)
          \/ \A s \in Storers : storing'[s].pc = "idle"

ReplyCases ==
    /\ \A c \in incoming' :
         c \in incoming \/ (c \in DOMAIN cards /\ cards[c].voucher = "linked")
    /\ \A reply \in replies' :
         \/ reply \in replies \/ reply.card \in incoming
         \/ \E w \in Repliers : repliers[w].pc # "idle" /\ reply.card = repliers[w].card
    /\ \A w \in Repliers : repliers'[w].pc # "idle" =>
         \/ repliers[w].pc # "idle" /\ repliers'[w].card = repliers[w].card
         \/ \E reply \in replies : repliers'[w].card = reply.card

PayCases ==
    \/ worker' = worker
    \/ worker'.pc \notin {"resave", "message", "store"}
    \/ worker'.pc = "store" /\ worker'.status \notin Reported
    \/ /\ worker'.key = worker.key
       /\ worker.pc \in {"resave", "message"} \/ Linked(worker.key) # {}
    \/ Linking

LEMMA NotStoringCases ==
    ASSUME TypeInv, UNCHANGED <<transactions, latestTransactions, storing>>
    PROVE  StoringCases
BY NothingFails DEF TypeInv, StoringCases

LEMMA RepliesAsBefore ==
    ASSUME UNCHANGED <<incoming, replies, repliers>> PROVE ReplyCases
BY DEF ReplyCases

LEMMA WorkerReports ==
    ASSUME TypeInv, CardInv, WorkerStep
    PROVE  StoringCases /\ ReplyCases /\ PayCases
<1>0. UNCHANGED <<incoming, replies, repliers>>
  <2>1. ASSUME NEW k \in Key, TakeJob(k) PROVE UNCHANGED <<incoming, replies, repliers>>
    BY <2>1 DEF TakeJob, unchangedByWorker
  <2> QED
    BY <2>1 DEF WorkerStep, MissCredentials, GetReusableVoucher, GetReusableVoucherFrom,
                SaveReusableVoucher, SaveReusableVoucherOr, IssueCard, SaveRequest,
                SaveRequestAs, MarkVoucherAsToCancel, StoreVoucherData,
                StoreVoucherDataThen, CreateVoucherImage, SendVoucherWhatsapp,
                StoreTransactionResult, TransactionResultStored, RemoveJob,
                unchangedByWorker
<1>1. ReplyCases
  BY <1>0, RepliesAsBefore
<1> USE DEF storingVars, storeVars
<1>2. ASSUME NEW k \in Key, TakeJob(k) PROVE StoringCases /\ PayCases
  BY <1>2, TakeJobFacts, NotStoringCases DEF PayCases
<1>3. CASE MissCredentials
  BY <1>1, <1>3, MissCredentialsFacts, NotStoringCases DEF PayCases, WorkerTo, Reported
<1>4. CASE GetReusableVoucher
  <2>1. StoringCases
    BY <1>4, GetReusableVoucherFacts, NotStoringCases
  <2>2. worker'.pc = "issue" \/ (worker'.key = worker.key /\ Linked(worker.key) # {})
    BY <1>4, GetReusableVoucherFacts DEF WorkerTo
  <2> QED
    BY <1>1, <2>1, <2>2 DEF PayCases
<1>5. CASE SaveReusableVoucher
  BY <1>1, <1>5, SaveReusableVoucherFacts, NotStoringCases DEF PayCases, WorkerTo
<1>6. CASE IssueCard
  BY <1>1, <1>6, IssueCardFacts, NotStoringCases DEF PayCases, Issuing, WorkerTo
<1>7. CASE SaveRequest
  BY <1>1, <1>7, SaveRequestFacts, NotStoringCases DEF PayCases, Requesting, OnOwnCard, WorkerTo
<1>8. CASE MarkVoucherAsToCancel
  BY <1>1, <1>8, MarkVoucherAsToCancelFacts, NotStoringCases
     DEF PayCases, Marking, OnOwnCard, WorkerTo, CardInv, CardAtHand, Reported
<1>9. CASE StoreVoucherData
  BY <1>1, <1>9, StoreVoucherDataFacts, NotStoringCases
     DEF PayCases, StoringVoucher, OnOwnCard, WorkerTo
<1>10. CASE CreateVoucherImage
  BY <1>1, <1>10, CreateVoucherImageFacts, NotStoringCases DEF PayCases, Linking, OnOwnCard
<1>11. CASE SendVoucherWhatsapp
  BY <1>1, <1>11, SendVoucherWhatsappFacts, NotStoringCases DEF PayCases, WorkerTo
<1>12. CASE StoreTransactionResult
  <2>1. Payer \in Storers
    BY StorersAssumption
  <2>2. UNCHANGED <<transactions, latestTransactions>>
    BY <1>12 DEF StoreTransactionResult, BeginStoring, BeginStoringAt
  <2>3. \A t \in Storers \ {Payer} : storing'[t] = storing[t]
    BY <1>12, <2>1 DEF StoreTransactionResult, BeginStoring, BeginStoringAt, TypeInv,
                       StoringTypeOK
  <2>4. Begins(Payer)
    BY <1>12, <2>3, StoreTransactionResultFacts DEF Begins, WorkerTo
  <2> QED
    BY <1>1, <1>12, <2>1, <2>2, <2>4, StoreTransactionResultFacts
       DEF StoringCases, PayCases, WorkerTo
<1>13. CASE TransactionResultStored
  <2>1. Payer \in Storers
    BY StorersAssumption
  <2>2. UNCHANGED <<transactions, latestTransactions>>
    BY <1>13 DEF TransactionResultStored, EndStoring
  <2>3. \A t \in Storers \ {Payer} : storing'[t] = storing[t]
    BY <1>13, <2>1 DEF TransactionResultStored, EndStoring, TypeInv, StoringTypeOK
  <2>4. Ends(Payer)
    BY <1>13, <2>3, TransactionResultStoredFacts DEF Ends, WorkerTo
  <2> QED
    BY <1>1, <1>13, <2>1, <2>2, <2>4, TransactionResultStoredFacts
       DEF StoringCases, PayCases, WorkerTo
<1>14. CASE RemoveJob
  BY <1>1, <1>14, RemoveJobFacts, NotStoringCases DEF PayCases
<1> QED
  BY <1>1, <1>2, <1>3, <1>4, <1>5, <1>6, <1>7, <1>8, <1>9, <1>10, <1>11, <1>12, <1>13,
     <1>14 DEF WorkerStep

LEMMA ReplierReports ==
    ASSUME TypeInv, NEW w \in Repliers, ReplierStep(w)
    PROVE  StoringCases /\ ReplyCases /\ PayCases
<1> USE DEF storingVars, storeVars
<1>0. w \in Storers
  BY StorersAssumption
<1>1. UNCHANGED worker /\ PayCases
  BY DEF ReplierStep, SendPendingVoucher, MarkSent, StoreReplyResult, ReplyResultStored,
         unchangedByReplier, PayCases
<1>2. CASE SendPendingVoucher(w)
  <2>1. ReplyCases
    BY <1>2, SendPendingVoucherFacts DEF ReplyCases, ReplierTo, unchangedByReplier
  <2> QED
    BY <1>1, <1>2, <2>1, SendPendingVoucherFacts, NotStoringCases
<1>3. CASE MarkSent(w)
  <2>1. ReplyCases
    BY <1>3, MarkSentFacts DEF ReplyCases, ReplierTo, unchangedByReplier
  <2> QED
    BY <1>1, <1>3, <2>1, MarkSentFacts, NotStoringCases
<1>4. CASE StoreReplyResult(w)
  <2>1. ReplyCases
    BY <1>4, StoreReplyResultFacts DEF ReplyCases, ReplierTo, unchangedByReplier
  <2>2. CASE BeginStoring(w, cards[repliers[w].card].key, "success", repliers[w].message)
             /\ storing[w].pc = "idle" /\ storing'[w].pc = "save"
             /\ storing'[w].key = cards[repliers[w].card].key
    <3>1. UNCHANGED <<transactions, latestTransactions>>
      BY <2>2 DEF BeginStoring, BeginStoringAt
    <3>2. \A t \in Storers \ {w} : storing'[t] = storing[t]
      BY <1>0, <2>2 DEF BeginStoring, BeginStoringAt, TypeInv, StoringTypeOK
    <3>3. Begins(w)
      BY <1>1, <1>4, <2>2, <3>2, StoreReplyResultFacts DEF Begins
    <3> QED
      BY <1>0, <1>1, <2>1, <3>1, <3>3 DEF StoringCases
  <2>3. CASE UNCHANGED storingVars
    BY <1>1, <2>1, <2>3, NotStoringCases
  <2> QED
    BY <1>4, <2>2, <2>3, StoreReplyResultFacts
<1>5. CASE ReplyResultStored(w)
  <2>1. ReplyCases
    BY <1>5, ReplyResultStoredFacts DEF ReplyCases, ReplierTo, unchangedByReplier
  <2>2. UNCHANGED <<transactions, latestTransactions>>
    BY <1>5 DEF ReplyResultStored, EndStoring
  <2>3. \A t \in Storers \ {w} : storing'[t] = storing[t]
    BY <1>0, <1>5 DEF ReplyResultStored, EndStoring, TypeInv, StoringTypeOK
  <2>4. Ends(w)
    BY <1>1, <1>5, <2>3, ReplyResultStoredFacts DEF Ends
  <2> QED
    BY <1>0, <1>1, <2>1, <2>2, <2>4 DEF StoringCases
<1> QED
  BY <1>2, <1>3, <1>4, <1>5 DEF ReplierStep

LEMMA StepReports ==
    ASSUME TypeInv, CardInv, [Next]_vars
    PROVE  StoringCases /\ ReplyCases /\ PayCases
<1> USE DEF storingVars, storeVars
<1>0. UNCHANGED worker => PayCases
  BY DEF PayCases
<1>1. ASSUME NEW p \in Payments, PostPayment(p) \/ RetryPayment(p)
      PROVE  StoringCases /\ ReplyCases /\ PayCases
  <2>1. PICK chosen \in SUBSET Registrations : StartRun(p, chosen)
    BY <1>1 DEF PostPayment, RetryPayment, PayableRegistrations, FailedRegistrations
  <2> QED
    BY <1>0, <2>1, NotStoringCases, RepliesAsBefore DEF StartRun, voucherVars
<1>2. ASSUME NEW s \in Storers, StoreStep(s) PROVE StoringCases /\ ReplyCases /\ PayCases
  <2>1. Moves(s)
    BY <1>2, StoreStepFacts DEF Moves, voucherVars
  <2> QED
    BY <1>0, <1>2, <2>1, RepliesAsBefore DEF Moves, StoringCases, voucherVars
<1>3. ASSUME NEW k \in Key, SendTemplate(k) PROVE StoringCases /\ ReplyCases /\ PayCases
  BY <1>0, <1>3, SendTemplateFacts, RepliesAsBefore DEF StoringCases
<1>4. ASSUME NEW r \in Registrations, ReceiveWhatsapp(r)
      PROVE  StoringCases /\ ReplyCases /\ PayCases
  <2>1. ReplyCases
    BY <1>4, ReceiveWhatsappFacts DEF ReplyCases, OpenVouchers
  <2> QED
    BY <1>0, <1>4, <2>1, ReceiveWhatsappFacts, NotStoringCases
<1>5. ASSUME NEW c \in DOMAIN cards, QueueReply(c)
      PROVE  StoringCases /\ ReplyCases /\ PayCases
  <2>1. ReplyCases
    BY <1>5, QueueReplyFacts DEF ReplyCases
  <2> QED
    BY <1>0, <1>5, <2>1, QueueReplyFacts, NotStoringCases
<1>6. ASSUME NEW i \in DOMAIN transactions, ProcessFailedStatus(i)
      PROVE  StoringCases /\ ReplyCases /\ PayCases
  BY <1>0, <1>6, ProcessFailedStatusFacts, RepliesAsBefore DEF StoringCases, voucherVars
<1>7. CASE CronStep
  <2>1. Refreshing
    BY <1>7, CancellingFacts, ReadUnusedVoucherFacts, StoreBalanceFacts DEF CronStep
  <2> QED
    BY <1>0, <2>1, NotStoringCases, RepliesAsBefore DEF Refreshing, unchangedByCron
<1>8. CASE Crash
  <2>1. Crashing
    BY <1>8, CrashFacts
  <2>2. StoringCases
    BY <2>1 DEF Crashing, StoringCases
  <2>3. ReplyCases
    BY <2>1 DEF Crashing, ReplyCases
  <2>4. PayCases
    BY <2>1 DEF Crashing, PayCases
  <2> QED
    BY <2>2, <2>3, <2>4
<1>9. CASE UNCHANGED vars
  BY <1>0, <1>9, NotStoringCases, RepliesAsBefore DEF vars, voucherVars
<1> QED
  BY <1>1, <1>2, <1>3, <1>4, <1>5, <1>6, <1>7, <1>8, <1>9, WorkerReports, ReplierReports
     DEF Next

LEMMA WorkerHasVoucherStep ==
    ASSUME TypeInv, OwnCard, OwnCard', WorkerHasVoucher, CardCases, PayCases
    PROVE  WorkerHasVoucher'
<1>1. VouchersKept
  BY VouchersStay
<1>2. CASE worker' = worker
  BY <1>1, <1>2, LinkedGrows DEF WorkerHasVoucher
<1>3. CASE worker'.pc \notin {"resave", "message", "store"}
  BY <1>3 DEF WorkerHasVoucher
<1>4. CASE worker'.pc = "store" /\ worker'.status \notin Reported
  BY <1>4 DEF WorkerHasVoucher
<1>5. CASE /\ worker'.key = worker.key
           /\ worker.pc \in {"resave", "message"} \/ Linked(worker.key) # {}
  BY <1>1, <1>5, LinkedGrows DEF WorkerHasVoucher
<1>6. CASE Linking
  <2>1. /\ worker.card \in DOMAIN cards' /\ cards'[worker.card].key = worker.key
        /\ cards'[worker.card].voucher = "linked" /\ worker'.key = worker.key
    BY <1>6 DEF Linking, OnOwnCard, CardBecomes, WorkerTo, OwnCard, Holding
  <2>2. Linked(worker.key)' # {}
    BY <2>1 DEF Linked
  <2> QED
    BY <2>1, <2>2 DEF WorkerHasVoucher
<1> QED
  BY <1>2, <1>3, <1>4, <1>5, <1>6 DEF PayCases

LEMMA ReplyHasVoucherStep ==
    ASSUME TypeInv, OwnCard, ReplyHasVoucher, CardCases, ReplyCases
    PROVE  ReplyHasVoucher'
<1>1. VouchersKept
  BY VouchersStay
<1>2. /\ incoming \subseteq DOMAIN cards
      /\ \A reply \in replies : reply.card \in DOMAIN cards
      /\ \A w \in Repliers : repliers[w].pc # "idle" => repliers[w].card \in DOMAIN cards
  BY DEF TypeInv, RepliesTyped
<1>3. \A c \in DOMAIN cards : cards[c].voucher = "linked" => cards'[c].voucher = "linked"
  BY <1>1 DEF VouchersKept
<1>4. \A c \in incoming' : cards'[c].voucher = "linked"
  <2> SUFFICES ASSUME NEW c \in incoming' PROVE cards'[c].voucher = "linked"
    OBVIOUS
  <2>1. c \in DOMAIN cards /\ cards[c].voucher = "linked"
    BY <1>2 DEF ReplyHasVoucher, ReplyCases
  <2> QED
    BY <1>3, <2>1
<1>5. \A reply \in replies' : cards'[reply.card].voucher = "linked"
  BY <1>2, <1>3 DEF ReplyHasVoucher, ReplyCases
<1>6. \A w \in Repliers :
        repliers'[w].pc # "idle" => cards'[repliers'[w].card].voucher = "linked"
  BY <1>2, <1>3 DEF ReplyHasVoucher, ReplyCases
<1> QED
  BY <1>4, <1>5, <1>6 DEF ReplyHasVoucher

LEMMA StorerHasVoucherStep ==
    ASSUME TypeInv, OwnCard, StorerHasVoucher, WorkerHasVoucher, ReplyHasVoucher,
           CardCases, StoringCases
    PROVE  StorerHasVoucher'
<1>1. VouchersKept
  BY VouchersStay
<1> SUFFICES ASSUME NEW s \in Storers, storing'[s].pc # "idle",
                    storing'[s].status \in Reported, NEW k, k = storing'[s].key
             PROVE  Linked(k)' # {}
  BY DEF StorerHasVoucher, Linked
<1>2. ASSUME storing[s].pc # "idle", storing'[s].key = storing[s].key,
             storing'[s].status = storing[s].status
      PROVE  Linked(k)' # {}
  BY <1>1, <1>2, LinkedGrows DEF StorerHasVoucher
<1>3. CASE UNCHANGED storing
  BY <1>2, <1>3
<1>4. ASSUME NEW t \in Storers, Moves(t) PROVE Linked(k)' # {}
  <2>1. storing[s].pc # "idle"
    BY <1>4 DEF Moves, OnlyStorer, SavedBy, PublishedBy, BesidesTransactions
  <2> QED
    BY <1>2, <1>4, <2>1 DEF Moves, OnlyStorer
<1>5. ASSUME NEW t \in Storers, Begins(t) PROVE Linked(k)' # {}
  <2>1. CASE s # t
    BY <1>2, <1>5, <2>1 DEF Begins
  <2>2. CASE s = t
    <3>1. CASE /\ worker.pc = "store" /\ storing'[s].key = worker.key
               /\ storing'[s].status = worker.status
      BY <1>1, <3>1, LinkedGrows DEF WorkerHasVoucher
    <3>2. CASE /\ s \in Repliers /\ repliers[s].pc = "user" /\ repliers[s].card \in DOMAIN cards
               /\ storing'[s].key = cards[repliers[s].card].key
      <4>1. cards[repliers[s].card].voucher = "linked"
        BY <3>2 DEF ReplyHasVoucher
      <4>2. Linked(k) # {}
        BY <3>2, <4>1 DEF Linked
      <4> QED
        BY <1>1, <4>2, LinkedGrows
    <3> QED
      BY <1>5, <2>2, <3>1, <3>2 DEF Begins
  <2> QED
    BY <2>1, <2>2
<1>6. ASSUME NEW t \in Storers, Ends(t) PROVE Linked(k)' # {}
  BY <1>2, <1>6 DEF Ends
<1> QED
  BY <1>3, <1>4, <1>5, <1>6 DEF StoringCases

LEMMA TransactionHasVoucherStep ==
    ASSUME TypeInv, OwnCard, TransactionHasVoucher, StorerHasVoucher,
           CardCases, StoringCases
    PROVE  TransactionHasVoucher'
<1>1. VouchersKept
  BY VouchersStay
<1>2. DOMAIN transactions = 1..Len(transactions) /\ Len(transactions) \in Nat
  BY DEF TypeInv, StoringTypeOK, StoreTypeOK
<1>3. CASE OnlyFails
  <2> SUFFICES ASSUME NEW i \in DOMAIN transactions',
                      transactions'[i].status \in Reported, NEW k, k = KeyOf(i)'
               PROVE  Linked(k)' # {}
    BY DEF TransactionHasVoucher, Linked, KeyOf
  <2>1. /\ i \in DOMAIN transactions /\ KeyOf(i)' = KeyOf(i)
        /\ transactions[i].status \in Reported
    BY <1>3 DEF OnlyFails, KeyOf, Reported
  <2>2. Linked(k) # {}
    BY <2>1 DEF TransactionHasVoucher
  <2> QED
    BY <1>1, <2>2, LinkedGrows
<1>4. CASE UNCHANGED transactions
  BY <1>1, <1>4 DEF TransactionHasVoucher, Linked, VouchersKept, KeyOf
<1>5. ASSUME NEW s \in Storers, SavedBy(s) PROVE TransactionHasVoucher'
  <2> SUFFICES ASSUME NEW i \in DOMAIN transactions',
                      transactions'[i].status \in Reported, NEW k, k = KeyOf(i)'
               PROVE  Linked(k)' # {}
    BY DEF TransactionHasVoucher, Linked, KeyOf
  <2>2. CASE i \in DOMAIN transactions
    <3>1. KeyOf(i)' = KeyOf(i) /\ transactions[i].status \in Reported
      BY <1>2, <1>5, <2>2 DEF SavedBy, KeyOf
    <3>2. Linked(k) # {}
      BY <2>2, <3>1 DEF TransactionHasVoucher
    <3> QED
      BY <1>1, <3>2, LinkedGrows
  <2>3. CASE i = Len(transactions) + 1
    <3>1. k = storing[s].key /\ storing[s].status \in Reported
      BY <1>5, <2>3 DEF SavedBy, KeyOf
    <3>2. Linked(k) # {}
      BY <1>5, <3>1 DEF StorerHasVoucher, SavedBy
    <3> QED
      BY <1>1, <3>2, LinkedGrows
  <2>4. i \in DOMAIN transactions \/ i = Len(transactions) + 1
    BY <1>2, <1>5 DEF SavedBy
  <2> QED
    BY <2>2, <2>3, <2>4
<1>6. ASSUME NEW s \in Storers, Moves(s) PROVE SavedBy(s) \/ UNCHANGED transactions
  BY <1>6 DEF Moves, PublishedBy, BesidesTransactions
<1> QED
  BY <1>3, <1>4, <1>5, <1>6 DEF StoringCases

LEMMA LatestIsOwnStep ==
    ASSUME TypeInv, LatestIsOwn, StoringCases PROVE LatestIsOwn'
<1>1. /\ DOMAIN transactions = 1..Len(transactions) /\ Len(transactions) \in Nat
      /\ latestTransactions \in [Key -> Nat]
      /\ \A k \in Key : latestTransactions[k] \in 0..Len(transactions)
      /\ \A s \in Storers : storing[s].pc \in StoringPc \ {"idle", "save"} =>
           storing[s].transaction \in DOMAIN transactions
  BY DEF TypeInv, StoringTypeOK, StoreTypeOK
<1>2. CASE OnlyFails /\ UNCHANGED latestTransactions
  BY <1>1, <1>2 DEF OnlyFails, LatestIsOwn, KeyOf
<1>3. CASE UNCHANGED <<transactions, latestTransactions>>
  BY <1>3 DEF LatestIsOwn, KeyOf
<1>4. ASSUME NEW s \in Storers, SavedBy(s) PROVE LatestIsOwn'
  BY <1>1, <1>4 DEF SavedBy, LatestIsOwn, KeyOf
<1>5. ASSUME NEW s \in Storers, PublishedBy(s) PROVE LatestIsOwn'
  <2>1. storing[s].transaction \in DOMAIN transactions
    BY <1>1, <1>5 DEF PublishedBy, StoringPc
  <2>2. KeyOf(storing[s].transaction) \in Key
    BY <1>1, <2>1, KeyOfTransaction DEF TypeInv, StoringTypeOK
  <2> QED
    BY <1>1, <1>5, <2>1, <2>2 DEF PublishedBy, LatestIsOwn, KeyOf
<1>6. ASSUME NEW s \in Storers, Moves(s)
      PROVE  \/ SavedBy(s) \/ PublishedBy(s)
             \/ UNCHANGED <<transactions, latestTransactions>>
  BY <1>6 DEF Moves, BesidesTransactions
<1> QED
  BY <1>2, <1>3, <1>4, <1>5, <1>6 DEF StoringCases

LEMMA ReportInit == Init => ReportInv
<1> SUFFICES ASSUME Init PROVE ReportInv
  OBVIOUS
<1>1. /\ transactions = << >> /\ incoming = {} /\ replies = {} /\ worker.pc = "idle"
      /\ \A s \in Storers : storing[s].pc = "idle"
      /\ \A w \in Repliers : repliers[w].pc = "idle"
      /\ \A k \in Key : latestTransactions[k] = 0
  BY DEF Init, StoringInit, StoreInit, NotStoring, Idle, IdleReplier, NoTransaction
<1> QED
  BY <1>1 DEF ReportInv, TransactionHasVoucher, StorerHasVoucher, WorkerHasVoucher,
              ReplyHasVoucher, LatestIsOwn

LEMMA ReportStep == TypeInv /\ CardInv /\ ReportInv /\ [Next]_vars => ReportInv'
<1> SUFFICES ASSUME TypeInv, CardInv, ReportInv, [Next]_vars PROVE ReportInv'
  OBVIOUS
<1>1. OwnCard /\ OwnCard'
  BY CardStep DEF CardInv
<1>2. CardCases /\ StoringCases /\ ReplyCases /\ PayCases
  BY StepFacts, StepReports
<1>3. TransactionHasVoucher'
  BY <1>1, <1>2, TransactionHasVoucherStep DEF ReportInv
<1>4. StorerHasVoucher'
  BY <1>1, <1>2, StorerHasVoucherStep DEF ReportInv
<1>5. WorkerHasVoucher'
  BY <1>1, <1>2, WorkerHasVoucherStep DEF ReportInv
<1>6. ReplyHasVoucher' /\ LatestIsOwn'
  BY <1>1, <1>2, ReplyHasVoucherStep, LatestIsOwnStep DEF ReportInv
<1> QED
  BY <1>3, <1>4, <1>5, <1>6 DEF ReportInv

\* A payment shown as waiting or successful has a voucher, whoever stored the
\* transaction: the payment job, a reply, or either of them after a crash.
THEOREM ReportedHasVoucher == Spec => []ReportedPaymentHasVoucher
<1>1. TypeInv /\ ReportInv => ReportedPaymentHasVoucher
  <2> SUFFICES ASSUME TypeInv, ReportInv, NEW k \in Key, StatusOf(k) \in Reported
               PROVE  Linked(k) # {}
    BY DEF ReportedPaymentHasVoucher, Reported
  <2>1. latestTransactions[k] # 0 /\ StatusOf(k) = transactions[latestTransactions[k]].status
    BY DEF StatusOf, NoTransaction, Reported
  <2>2. latestTransactions[k] \in DOMAIN transactions
    <3>1. latestTransactions[k] \in 0..Len(transactions)
          /\ DOMAIN transactions = 1..Len(transactions)
      BY DEF TypeInv, StoringTypeOK, StoreTypeOK
    <3> QED
      BY <2>1, <3>1
  <2>3. KeyOf(latestTransactions[k]) = k
    BY <2>1 DEF ReportInv, LatestIsOwn
  <2> QED
    BY <2>1, <2>2, <2>3 DEF ReportInv, TransactionHasVoucher
<1> QED
  BY <1>1, TypeInit, CardInit, ReportInit, StepFacts, CardStep, ReportStep, PTL DEF Spec

-----------------------------------------------------------------------------
(* What the registrant has not been asked about yet.                       *)

\* A storer shows the transaction it saved itself.
SavedIsOwn ==
    \A s \in Storers : storing[s].pc \in StoringPc \ {"idle", "save"} =>
        KeyOf(storing[s].transaction) = storing[s].key

\* The payment worker stores for its own job, and that makes it the latest.
PayerStores ==
    worker.pc = "storing" /\ storing[Payer].pc # "idle" =>
        /\ storing[Payer].key = worker.key
        /\ storing[Payer].pc = "stored" => latestTransactions[worker.key] # 0

FoundIsLinked == worker.pc = "resave" => worker.card \in Linked(worker.key)

\* Nobody has replied: only a paper voucher can have been used, and neither the
\* worker nor the refresh of the balances forgets that it was.
SentIsUsed ==
    incomingCount = 0 =>
        /\ \A c \in DOMAIN cards : cards[c].send = TRUE => Whatsapp = FALSE
        /\ balance # NoBalance =>
             /\ balance.send = TRUE => Whatsapp = FALSE
             /\ cards[balance.card].send = TRUE => balance.send = TRUE
        /\ worker.pc = "resave" /\ worker.claimed = TRUE => cards[worker.card].send = TRUE

UsedVoucher(k) == \E c \in Linked(k) : cards[c].send = TRUE

\* The job of k is queued or will still store a transaction.
WillStore(k) ==
    k \in queue \/ (worker.key = k /\ worker.pc \notin {"idle", "remove"})

LinkedIsReported ==
    incomingCount = 0 => \A k \in Key : Linked(k) # {} =>
        latestTransactions[k] # 0 \/ WillStore(k) \/ UsedVoucher(k)

UnsentInv == SavedIsOwn /\ PayerStores /\ FoundIsLinked /\ SentIsUsed /\ LinkedIsReported

LEMMA UnsentInit == Init => UnsentInv
<1> SUFFICES ASSUME Init PROVE UnsentInv
  OBVIOUS
<1>1. /\ cards = << >> /\ worker.pc = "idle" /\ balance = NoBalance
      /\ \A s \in Storers : storing[s].pc = "idle"
  BY DEF Init, StoringInit, NotStoring, Idle
<1> QED
  BY <1>1 DEF UnsentInv, SavedIsOwn, PayerStores, FoundIsLinked, SentIsUsed,
              LinkedIsReported, Linked

\* What a step does to the marks of the vouchers and to what the worker and the
\* refresh of the balances know of them.
SendCases ==
    \/ SendsKept /\ balance' \in {balance, NoBalance}
    \/ /\ SendsKept
       /\ \E c \in DOMAIN cards : balance'.card = c /\ balance'.send = cards[c].send
    \/ /\ worker.pc = "resave" /\ worker.card \in DOMAIN cards
       /\ SendBecomes(worker.card, worker.claimed) /\ UNCHANGED balance
    \/ /\ balance # NoBalance /\ balance' = NoBalance
       /\ \E send \in BOOLEAN :
            /\ SendBecomes(balance.card, send)
            /\ balance.send = TRUE => send = TRUE
            /\ send = TRUE =>
                 balance.send = TRUE \/ Whatsapp = FALSE \/ incomingCount # 0
    \/ incomingCount # 0

FoundCases ==
    \/ worker'.pc # "resave"
    \/ UNCHANGED worker
    \/ /\ UNCHANGED cards /\ worker'.key = worker.key
       /\ worker'.card \in Linked(worker.key)
       /\ worker'.claimed = cards[worker'.card].send

\* The queue and the job of the worker.
JobCases ==
    \/ UNCHANGED <<queue, worker>>
    \/ queue \subseteq queue' /\ UNCHANGED worker
    \/ /\ worker.pc = "idle" /\ worker'.pc = "reuse"
       /\ \E k \in Key : worker'.key = k /\ queue' = queue \ {k}
    \/ /\ worker'.pc \notin {"idle", "remove", "storing"}
       /\ queue' = queue /\ worker'.key = worker.key
    \/ /\ worker.pc = "store" /\ worker'.pc = "storing"
       /\ queue' = queue /\ worker'.key = worker.key
       /\ storing'[Payer].pc = "save" /\ storing'[Payer].key = worker.key
    \/ /\ worker.pc = "storing" /\ worker'.pc = "remove"
       /\ queue' = queue /\ worker'.key = worker.key
       /\ storing[Payer].pc = "stored"
    \/ /\ worker.pc = "resave" /\ worker.claimed = TRUE /\ worker'.pc = "remove"
       /\ queue' = queue /\ worker'.key = worker.key
       /\ SendBecomes(worker.card, TRUE)
    \/ /\ worker.pc = "remove" /\ worker'.pc = "idle"
       /\ queue' = queue /\ worker'.key = worker.key
    \/ /\ worker'.pc = "idle"
       /\ queue \subseteq queue' /\ (worker.pc # "idle" => worker.key \in queue')

UnsentCases == SendCases /\ FoundCases /\ JobCases

\* The worker looks after its job, and the vouchers stay as they are.
LEMMA WorkerOnlyUnsent ==
    ASSUME SendsKept, UNCHANGED <<queue, balance>>, worker'.key = worker.key,
           worker'.pc \notin {"resave", "idle", "remove", "storing"}
    PROVE  UnsentCases
BY DEF UnsentCases, SendCases, FoundCases, JobCases

LEMMA UnchangedSends == UNCHANGED cards => SendsKept
BY DEF SendsKept

LEMMA ElsewhereUnsent ==
    ASSUME UNCHANGED <<queue, worker, cards, balance>> PROVE UnsentCases
BY UnchangedSends DEF UnsentCases, SendCases, FoundCases, JobCases

LEMMA OwnCardUnsent ==
    ASSUME NEW from, NEW to, to \notin {"resave", "idle", "remove", "storing"},
           NEW request, NEW voucher, OnOwnCard(from, to, request, voucher)
    PROVE  UnsentCases
<1>1. SendsKept
  BY DEF OnOwnCard, CardBecomes, SendsKept
<1>2. UNCHANGED <<queue, balance>> /\ worker'.key = worker.key /\ worker'.pc = to
  BY DEF OnOwnCard, WorkerTo, unchangedByWorker
<1> QED
  BY <1>1, <1>2, WorkerOnlyUnsent

LEMMA WorkerUnsent ==
    ASSUME TypeInv, WorkerStep PROVE UnsentCases
<1>1. ASSUME NEW k \in Key, TakeJob(k) PROVE UnsentCases
  <2>1. /\ SendsKept /\ UNCHANGED balance
        /\ worker.pc = "idle" /\ worker'.pc = "reuse" /\ worker'.key = k
        /\ queue' = queue \ {k}
    BY <1>1, TakeJobFacts, UnchangedSends DEF unchangedByWorker
  <2> QED
    BY <2>1 DEF UnsentCases, SendCases, FoundCases, JobCases
<1>2. CASE MissCredentials
  <2>1. /\ SendsKept /\ UNCHANGED <<queue, balance>>
        /\ worker'.key = worker.key /\ worker'.pc = "store"
    BY <1>2, MissCredentialsFacts, UnchangedSends DEF WorkerTo, unchangedByWorker
  <2> QED
    BY <2>1, WorkerOnlyUnsent
<1>3. CASE GetReusableVoucher
  <2>1. SendsKept /\ UNCHANGED <<queue, balance, cards>>
    BY <1>3, GetReusableVoucherFacts, UnchangedSends DEF unchangedByWorker
  <2>2. CASE WorkerTo("issue", worker.card, worker.status)
    BY <2>1, <2>2, WorkerOnlyUnsent DEF WorkerTo
  <2>3. ASSUME NEW c \in Linked(worker.key), WorkerTo("resave", c, worker.status),
               worker'.claimed = cards[c].send
        PROVE  UnsentCases
    <3>1. worker'.pc = "resave" /\ worker'.key = worker.key /\ worker'.card = c
      BY <2>3 DEF WorkerTo
    <3> QED
      BY <2>1, <2>3, <3>1 DEF UnsentCases, SendCases, FoundCases, JobCases
  <2> QED
    BY <1>3, <2>2, <2>3, GetReusableVoucherFacts
<1>4. CASE SaveReusableVoucher
  <2>1. /\ SendBecomes(worker.card, worker.claimed) /\ worker.pc = "resave"
        /\ worker'.key = worker.key /\ UNCHANGED <<queue, balance>>
        /\ \/ worker'.pc = "remove" /\ worker.claimed
           \/ worker'.pc \in {"message", "store"}
    BY <1>4, SaveReusableVoucherFacts DEF WorkerTo, unchangedByWorker
  <2>2. worker.card \in DOMAIN cards /\ worker \in Worker
    BY <2>1 DEF TypeInv, WorkerTyped
  <2>3. worker.claimed \in BOOLEAN
    BY <2>2, Zenon DEF Worker
  <2>4. worker.claimed => worker.claimed = TRUE
    BY <2>3, Zenon
  <2>5. SendCases /\ FoundCases
    BY <2>1, <2>2 DEF SendCases, FoundCases
  <2>6. CASE worker'.pc = "remove" /\ worker.claimed
    <3>1. worker.claimed = TRUE
      BY <2>4, <2>6
    <3>2. SendBecomes(worker.card, TRUE)
      BY <2>1, <3>1
    <3> QED
      BY <2>1, <2>5, <2>6, <3>1, <3>2 DEF UnsentCases, JobCases
  <2>7. CASE worker'.pc \in {"message", "store"}
    BY <2>1, <2>5, <2>7 DEF UnsentCases, JobCases
  <2> QED
    BY <2>1, <2>6, <2>7
<1>5. CASE IssueCard
  <2>1. Issuing
    BY <1>5, IssueCardFacts
  <2>2. SendsKept
    BY <2>1 DEF Issuing, SendsKept
  <2>3. UNCHANGED <<queue, balance>> /\ worker'.key = worker.key /\ worker'.pc = "request"
    BY <2>1 DEF Issuing, WorkerTo, unchangedByWorker
  <2> QED
    BY <2>2, <2>3, WorkerOnlyUnsent
<1>6. CASE SaveRequest
  BY <1>6, SaveRequestFacts, OwnCardUnsent DEF Requesting
<1>7. CASE MarkVoucherAsToCancel
  BY <1>7, MarkVoucherAsToCancelFacts, OwnCardUnsent DEF Marking
<1>8. CASE StoreVoucherData
  BY <1>8, StoreVoucherDataFacts, OwnCardUnsent DEF StoringVoucher
<1>9. CASE CreateVoucherImage
  BY <1>9, CreateVoucherImageFacts, OwnCardUnsent DEF Linking
<1>10. CASE SendVoucherWhatsapp
  <2>1. /\ SendsKept /\ UNCHANGED <<queue, balance>>
        /\ worker'.key = worker.key /\ worker'.pc = "store"
    BY <1>10, SendVoucherWhatsappFacts, UnchangedSends DEF WorkerTo, storingVars, SendVoucherWhatsapp
  <2> QED
    BY <2>1, WorkerOnlyUnsent
<1>11. CASE StoreTransactionResult
  <2>1. /\ SendsKept /\ UNCHANGED <<queue, balance>> /\ worker.pc = "store"
        /\ worker'.key = worker.key /\ worker'.pc = "storing"
        /\ storing'[Payer].pc = "save" /\ storing'[Payer].key = worker.key
    BY <1>11, StoreTransactionResultFacts, UnchangedSends DEF WorkerTo, unchangedByWorker
  <2> QED
    BY <2>1 DEF UnsentCases, SendCases, FoundCases, JobCases
<1>12. CASE TransactionResultStored
  <2>1. /\ SendsKept /\ UNCHANGED <<queue, balance>> /\ worker.pc = "storing"
        /\ worker'.key = worker.key /\ worker'.pc = "remove"
        /\ storing[Payer].pc = "stored"
    BY <1>12, TransactionResultStoredFacts, UnchangedSends DEF WorkerTo, unchangedByWorker
  <2> QED
    BY <2>1 DEF UnsentCases, SendCases, FoundCases, JobCases
<1>13. CASE RemoveJob
  <2>1. /\ SendsKept /\ UNCHANGED <<queue, balance>> /\ worker.pc = "remove"
        /\ worker'.key = worker.key /\ worker'.pc = "idle"
    BY <1>13, RemoveJobFacts, UnchangedSends DEF unchangedByWorker
  <2> QED
    BY <2>1 DEF UnsentCases, SendCases, FoundCases, JobCases
<1> QED
  BY <1>1, <1>2, <1>3, <1>4, <1>5, <1>6, <1>7, <1>8, <1>9, <1>10, <1>11, <1>12, <1>13
     DEF WorkerStep

LEMMA StepUnsent ==
    ASSUME TypeInv, [Next]_vars PROVE UnsentCases
<1>1. ASSUME NEW p \in Payments, PostPayment(p) \/ RetryPayment(p) PROVE UnsentCases
  <2>1. PICK chosen \in SUBSET Registrations : StartRun(p, chosen)
    BY <1>1 DEF PostPayment, RetryPayment, PayableRegistrations, FailedRegistrations
  <2>2. /\ SendsKept /\ UNCHANGED <<worker, balance>> /\ queue \subseteq queue'
    BY <2>1, UnchangedSends DEF StartRun, IsPaymentInProgress, voucherVars
  <2> QED
    BY <2>2 DEF UnsentCases, SendCases, FoundCases, JobCases
<1>2. ASSUME NEW s \in Storers, StoreStep(s) PROVE UnsentCases
  BY <1>2, StoreStepFacts, ElsewhereUnsent DEF voucherVars
<1>3. ASSUME NEW k \in Key, SendTemplate(k) PROVE UnsentCases
  BY <1>3, SendTemplateFacts, ElsewhereUnsent
<1>4. ASSUME NEW r \in Registrations, ReceiveWhatsapp(r) PROVE UnsentCases
  BY <1>4, ReceiveWhatsappFacts, ElsewhereUnsent
<1>5. ASSUME NEW c \in DOMAIN cards, QueueReply(c) PROVE UnsentCases
  BY <1>5, QueueReplyFacts, ElsewhereUnsent
<1>6. ASSUME NEW w \in Repliers, ReplierStep(w) PROVE UnsentCases
  <2>1. UNCHANGED <<queue, worker, balance>>
    BY <1>6 DEF ReplierStep, SendPendingVoucher, MarkSent, StoreReplyResult,
                ReplyResultStored, unchangedByReplier
  <2>2. UNCHANGED cards \/ MarkSent(w)
    BY <1>6 DEF ReplierStep, SendPendingVoucher, StoreReplyResult, ReplyResultStored
  <2>3. CASE MarkSent(w)
    <3>1. incomingCount # 0
      BY <2>3 DEF MarkSent, TypeInv, RepliesTyped
    <3> QED
      BY <2>1, <3>1 DEF UnsentCases, SendCases, FoundCases, JobCases
  <2> QED
    BY <2>1, <2>2, <2>3, ElsewhereUnsent
<1>7. ASSUME NEW i \in DOMAIN transactions, ProcessFailedStatus(i) PROVE UnsentCases
  BY <1>7, ProcessFailedStatusFacts, ElsewhereUnsent DEF voucherVars
<1>8. CASE CronStep
  <2>1. Refreshing
    BY <1>8, CancellingFacts, ReadUnusedVoucherFacts, StoreBalanceFacts DEF CronStep
  <2>2. UNCHANGED <<queue, worker>>
    BY <2>1 DEF Refreshing, unchangedByCron
  <2>3. SendCases
    BY <2>1 DEF Refreshing, SendCases
  <2> QED
    BY <2>2, <2>3 DEF UnsentCases, FoundCases, JobCases
<1>9. CASE Crash
  <2>1. Crashing
    BY <1>9, CrashFacts
  <2>2. SendsKept
    BY <2>1, UnchangedSends DEF Crashing
  <2> QED
    BY <2>1, <2>2 DEF Crashing, UnsentCases, SendCases, FoundCases, JobCases
<1>10. CASE UNCHANGED vars
  BY <1>10, ElsewhereUnsent DEF vars, voucherVars
<1> QED
  BY <1>1, <1>2, <1>3, <1>4, <1>5, <1>6, <1>7, <1>8, <1>9, <1>10, WorkerUnsent DEF Next

LEMMA SavedIsOwnStep ==
    ASSUME TypeInv, SavedIsOwn, StoringCases PROVE SavedIsOwn'
<1>1. /\ DOMAIN transactions = 1..Len(transactions) /\ Len(transactions) \in Nat
      /\ \A s \in Storers : storing[s].pc \in StoringPc \ {"idle", "save"} =>
           storing[s].transaction \in DOMAIN transactions
  BY DEF TypeInv, StoringTypeOK, StoreTypeOK
<1>2. CASE OnlyFails /\ UNCHANGED storing
  BY <1>1, <1>2 DEF OnlyFails, SavedIsOwn, KeyOf
<1>3. ASSUME NEW s \in Storers, Moves(s) PROVE SavedIsOwn'
  <2> SUFFICES ASSUME NEW t \in Storers, storing'[t].pc \in StoringPc \ {"idle", "save"}
               PROVE  KeyOf(storing[t].transaction)' = storing'[t].key
    BY DEF SavedIsOwn
  <2>1. \A i \in DOMAIN transactions :
          /\ transactions'[i].registration = transactions[i].registration
          /\ transactions'[i].payment = transactions[i].payment
    BY <1>1, <1>3 DEF Moves, SavedBy, PublishedBy, BesidesTransactions
  <2>2. CASE t # s
    <3>1. storing'[t] = storing[t]
      BY <1>3, <2>2 DEF Moves, OnlyStorer
    <3> QED
      BY <1>1, <2>1, <3>1 DEF SavedIsOwn, KeyOf
  <2>3. CASE t = s /\ SavedBy(s)
    <3>1. PICK i : i = storing'[s].transaction
      OBVIOUS
    <3>2. /\ <<transactions'[i].registration, transactions'[i].payment>> = storing[s].key
          /\ storing'[s].key = storing[s].key
      BY <1>3, <2>3, <3>1 DEF Moves, OnlyStorer, SavedBy
    <3> QED
      BY <2>3, <3>1, <3>2 DEF KeyOf
  <2>4. CASE t = s /\ ~SavedBy(s)
    <3>1. /\ storing[s].pc \in StoringPc \ {"idle", "save"}
          /\ storing'[s].transaction = storing[s].transaction
          /\ storing'[s].key = storing[s].key
      BY <1>3, <2>4 DEF Moves, OnlyStorer, PublishedBy, BesidesTransactions, StoringPc
    <3> QED
      BY <1>1, <2>1, <2>4, <3>1 DEF SavedIsOwn, KeyOf
  <2> QED
    BY <2>2, <2>3, <2>4
<1>4. CASE /\ UNCHANGED transactions
           /\ \/ \E s \in Storers : Begins(s)
              \/ \E s \in Storers : Ends(s)
              \/ \A s \in Storers : storing'[s].pc = "idle"
  BY <1>4 DEF Begins, Ends, SavedIsOwn, KeyOf
<1> QED
  BY <1>2, <1>3, <1>4 DEF StoringCases

\* A payment that has been reported stays so.
LEMMA LatestStays ==
    ASSUME TypeInv, StoringCases, NEW k \in Key, latestTransactions[k] # 0
    PROVE  latestTransactions'[k] # 0
<1>1. ASSUME NEW s \in Storers, PublishedBy(s) PROVE latestTransactions'[k] # 0
  <2>0. storing[s].transaction \in DOMAIN transactions
    BY <1>1 DEF PublishedBy, StoringPc, TypeInv, StoringTypeOK
  <2>1. /\ storing[s].transaction \in DOMAIN transactions
        /\ DOMAIN transactions = 1..Len(transactions)
        /\ Len(transactions) \in Nat /\ latestTransactions \in [Key -> Nat]
    BY <2>0 DEF TypeInv, StoringTypeOK, StoreTypeOK
  <2>2. storing[s].transaction # 0
    BY <2>1
  <2> QED
    BY <1>1, <2>1, <2>2 DEF PublishedBy
<1> QED
  BY <1>1 DEF StoringCases, Moves, SavedBy, BesidesTransactions

LEMMA PayerStoresStep ==
    ASSUME TypeInv, SavedIsOwn, PayerStores, StoringCases, JobCases PROVE PayerStores'
<1>0. Payer \in Storers /\ Payer \notin Repliers
  BY StorersAssumption
<1> SUFFICES ASSUME worker'.pc = "storing", storing'[Payer].pc # "idle"
             PROVE  /\ storing'[Payer].key = worker'.key
                    /\ storing'[Payer].pc = "stored" => latestTransactions'[worker'.key] # 0
  BY DEF PayerStores
<1>1. worker.key \in Key
  BY WorkerFacts
<1>2. CASE storing'[Payer].pc = "save" /\ storing'[Payer].key = worker.key
           /\ worker'.key = worker.key
  BY <1>2
<1>3. CASE worker' = worker
  <2>1. CASE UNCHANGED storing
    BY <1>1, <1>3, <2>1, LatestStays DEF PayerStores
  <2>2. ASSUME NEW s \in Storers, Moves(s)
        PROVE  /\ storing'[Payer].key = worker'.key
               /\ storing'[Payer].pc = "stored" => latestTransactions'[worker'.key] # 0
    <3>0. storing[Payer].pc # "idle"
      BY <1>0, <2>2
         DEF Moves, OnlyStorer, SavedBy, PublishedBy, BesidesTransactions
    <3>1. storing'[Payer].key = worker'.key
      BY <1>0, <1>3, <2>2, <3>0 DEF Moves, OnlyStorer, PayerStores
    <3>2. CASE s # Payer
      <4>1. storing'[Payer] = storing[Payer]
        BY <1>0, <2>2, <3>2 DEF Moves, OnlyStorer
      <4> QED
        BY <1>1, <1>3, <3>1, <4>1, LatestStays DEF PayerStores
    <3>3. CASE s = Payer /\ PublishedBy(s)
      <4>1. /\ storing[s].transaction \in DOMAIN transactions
            /\ DOMAIN transactions = 1..Len(transactions)
            /\ Len(transactions) \in Nat /\ latestTransactions \in [Key -> Nat]
            /\ KeyOf(storing[s].transaction) = storing[s].key
        BY <3>3 DEF PublishedBy, StoringPc, TypeInv, StoringTypeOK, StoreTypeOK, SavedIsOwn
      <4>2. storing[s].transaction # 0 /\ storing[s].key = worker.key
        BY <1>3, <3>0, <3>3, <4>1 DEF PayerStores
      <4>3. latestTransactions' =
              [latestTransactions EXCEPT ![worker.key] = storing[s].transaction]
        BY <3>3, <4>1, <4>2 DEF PublishedBy
      <4> QED
        BY <1>1, <1>3, <3>1, <4>1, <4>2, <4>3
    <3>4. CASE ~PublishedBy(s) /\ s = Payer
      <4>1. storing'[Payer].pc # "stored"
        BY <2>2, <3>4 DEF Moves, BesidesTransactions
      <4> QED
        BY <3>1, <4>1
    <3> QED
      BY <3>2, <3>3, <3>4
  <2>3. ASSUME NEW s \in Repliers, UNCHANGED <<transactions, latestTransactions>>,
               \A t \in Storers \ {s} : storing'[t] = storing[t]
        PROVE  /\ storing'[Payer].key = worker'.key
               /\ storing'[Payer].pc = "stored" => latestTransactions'[worker'.key] # 0
    <3>1. storing'[Payer] = storing[Payer]
      BY <1>0, <2>3
    <3> QED
      BY <1>3, <2>3, <3>1 DEF PayerStores
  <2>4. CASE \A s \in Storers : storing'[s].pc = "idle"
    BY <1>0, <2>4
  <2> QED
    BY <1>3, <2>1, <2>2, <2>3, <2>4 DEF StoringCases, Begins, Ends
<1> QED
  BY <1>2, <1>3 DEF JobCases

LEMMA FoundIsLinkedStep ==
    ASSUME TypeInv, OwnCard, FoundIsLinked, CardCases, FoundCases PROVE FoundIsLinked'
<1>1. VouchersKept
  BY VouchersStay
<1>2. CASE UNCHANGED worker
  BY <1>1, <1>2 DEF FoundIsLinked, Linked, VouchersKept
<1>3. CASE UNCHANGED cards /\ worker'.key = worker.key /\ worker'.card \in Linked(worker.key)
  BY <1>3 DEF FoundIsLinked, Linked
<1> QED
  BY <1>2, <1>3 DEF FoundCases, FoundIsLinked

\* The number of incoming messages never goes back to zero.
LEMMA IncomingGrows ==
    ASSUME TypeInv, [Next]_vars, incomingCount' = 0 PROVE incomingCount = 0
<1>1. ASSUME NEW r \in Registrations, ReceiveWhatsapp(r) PROVE FALSE
  <2>1. incomingCount' > 0
    BY <1>1, ReceiveWhatsappFacts
  <2> QED
    BY <2>1
<1>2. ASSUME NEW p \in Payments, PostPayment(p) \/ RetryPayment(p)
      PROVE  UNCHANGED incomingCount
  BY <1>2 DEF PostPayment, RetryPayment, StartRun
<1>3. CASE WorkerStep
  <2>1. ASSUME NEW k \in Key, TakeJob(k) PROVE UNCHANGED incomingCount
    BY <2>1 DEF TakeJob, unchangedByWorker, counts
  <2> QED
    BY <1>3, <2>1
       DEF WorkerStep, MissCredentials, GetReusableVoucher, GetReusableVoucherFrom,
           SaveReusableVoucher, SaveReusableVoucherOr, IssueCard, SaveRequest,
           SaveRequestAs, MarkVoucherAsToCancel, StoreVoucherData,
           StoreVoucherDataThen, CreateVoucherImage, SendVoucherWhatsapp,
           StoreTransactionResult, TransactionResultStored, RemoveJob,
           unchangedByWorker, counts
<1>4. ASSUME NEW s \in Storers, StoreStep(s) PROVE UNCHANGED incomingCount
  BY <1>4 DEF StoreStep, counts
<1>5. ASSUME NEW k \in Key, SendTemplate(k) PROVE UNCHANGED incomingCount
  BY <1>5 DEF SendTemplate, counts
<1>6. ASSUME NEW c \in DOMAIN cards, QueueReply(c) PROVE UNCHANGED incomingCount
  BY <1>6 DEF QueueReply, counts
<1>7. ASSUME NEW w \in Repliers, ReplierStep(w) PROVE UNCHANGED incomingCount
  BY <1>7 DEF ReplierStep, SendPendingVoucher, MarkSent, StoreReplyResult,
              ReplyResultStored, unchangedByReplier, counts
<1>8. ASSUME NEW i \in DOMAIN transactions, ProcessFailedStatus(i)
      PROVE  UNCHANGED incomingCount
  BY <1>8 DEF ProcessFailedStatus, counts
<1>9. CASE CronStep
  BY <1>9, CancellingFacts, ReadUnusedVoucherFacts, StoreBalanceFacts
     DEF CronStep, Refreshing, unchangedByCron
<1>10. CASE Crash \/ UNCHANGED vars
  BY <1>10 DEF Crash, vars, counts
<1> QED
  BY <1>1, <1>2, <1>3, <1>4, <1>5, <1>6, <1>7, <1>8, <1>9, <1>10 DEF Next

LEMMA SentIsUsedStep ==
    ASSUME TypeInv, TypeInv', SentIsUsed, [Next]_vars, UnsentCases, CardCases
    PROVE  SentIsUsed'
<1> SUFFICES ASSUME incomingCount' = 0
             PROVE  /\ \A c \in DOMAIN cards' : cards'[c].send = TRUE => Whatsapp = FALSE
                    /\ balance' # NoBalance =>
                         /\ balance'.send = TRUE => Whatsapp = FALSE
                         /\ cards'[balance'.card].send = TRUE => balance'.send = TRUE
                    /\ worker'.pc = "resave" /\ worker'.claimed = TRUE =>
                         cards'[worker'.card].send = TRUE
  BY DEF SentIsUsed
<1>1. incomingCount = 0
  BY IncomingGrows
<1>2. /\ \A c \in DOMAIN cards : cards[c].send = TRUE => Whatsapp = FALSE
      /\ balance # NoBalance =>
           /\ balance.send = TRUE => Whatsapp = FALSE
           /\ cards[balance.card].send = TRUE => balance.send = TRUE
      /\ worker.pc = "resave" /\ worker.claimed = TRUE => cards[worker.card].send = TRUE
  BY <1>1 DEF SentIsUsed
<1>3. /\ balance # NoBalance => balance.card \in DOMAIN cards
      /\ worker.pc = "resave" => worker.card \in DOMAIN cards
      /\ balance' # NoBalance => balance'.card \in DOMAIN cards'
  BY DEF TypeInv, BalanceTyped, WorkerTyped
<1>4. \A c \in DOMAIN cards' : cards'[c].send = TRUE => Whatsapp = FALSE
  BY <1>1, <1>2, <1>3 DEF UnsentCases, SendCases, SendsKept, SendBecomes
<1>5. balance' # NoBalance =>
        /\ balance'.send = TRUE => Whatsapp = FALSE
        /\ cards'[balance'.card].send = TRUE => balance'.send = TRUE
  <2>1. CASE SendsKept /\ balance' \in {balance, NoBalance}
    BY <1>2, <1>3, <2>1 DEF SendsKept
  <2>2. CASE SendsKept /\ \E c \in DOMAIN cards :
               balance'.card = c /\ balance'.send = cards[c].send
    BY <1>2, <1>3, <2>2 DEF SendsKept
  <2>3. CASE /\ worker.pc = "resave" /\ worker.card \in DOMAIN cards
             /\ SendBecomes(worker.card, worker.claimed) /\ UNCHANGED balance
    BY <1>2, <1>3, <2>3 DEF SendBecomes
  <2> QED
    BY <1>1, <2>1, <2>2, <2>3 DEF UnsentCases, SendCases
<1>6. worker'.pc = "resave" /\ worker'.claimed = TRUE => cards'[worker'.card].send = TRUE
  <2>1. CASE UNCHANGED worker
    <3>1. CASE SendsKept
      <4>1. DOMAIN cards \subseteq DOMAIN cards'
        BY DEF CardCases, QuietCards, FoundNothing, Issuing, Requesting, Marking,
               StoringVoucher, Linking, OnOwnCard, CardBecomes
      <4> QED
        BY <1>2, <1>3, <2>1, <3>1, <4>1 DEF SendsKept
    <3>2. CASE /\ worker.pc = "resave" /\ SendBecomes(worker.card, worker.claimed)
      BY <2>1, <3>2 DEF SendBecomes
    <3>3. ASSUME balance # NoBalance, NEW send \in BOOLEAN,
                 SendBecomes(balance.card, send), balance.send = TRUE => send = TRUE
          PROVE  worker'.pc = "resave" /\ worker'.claimed = TRUE =>
                   cards'[worker'.card].send = TRUE
      BY <1>2, <1>3, <2>1, <3>3 DEF SendBecomes
    <3> QED
      BY <1>1, <3>1, <3>2, <3>3 DEF UnsentCases, SendCases
  <2>2. CASE UNCHANGED cards /\ worker'.claimed = cards[worker'.card].send
    BY <2>2
  <2> QED
    BY <2>1, <2>2 DEF UnsentCases, FoundCases
<1> QED
  BY <1>4, <1>5, <1>6

\* A used voucher stays used, but for the voucher of a job that will store its
\* result.
LEMMA UsedStays ==
    ASSUME TypeInv, OwnCard, FoundIsLinked, SentIsUsed, CardCases, UnsentCases,
           incomingCount = 0, NEW k \in Key, UsedVoucher(k)
    PROVE  UsedVoucher(k)' \/ WillStore(k)
<1>1. PICK c \in Linked(k) : cards[c].send = TRUE
  BY DEF UsedVoucher
<1>2. c \in DOMAIN cards /\ cards[c].key = k /\ cards[c].voucher = "linked"
  BY DEF Linked
<1>3. VouchersKept
  BY VouchersStay
<1>4. c \in DOMAIN cards' /\ cards'[c].key = k /\ cards'[c].voucher = "linked"
  BY <1>2, <1>3 DEF VouchersKept
<1>5. CASE cards'[c].send = TRUE
  <2>1. c \in Linked(k)'
    BY <1>4 DEF Linked
  <2> QED
    BY <1>5, <2>1 DEF UsedVoucher
<1>6. CASE SendsKept
  <2>1. cards'[c].send = TRUE
    BY <1>1, <1>2, <1>4, <1>6 DEF SendsKept
  <2> QED
    BY <1>5, <2>1
<1>7. CASE worker.pc = "resave" /\ SendBecomes(worker.card, worker.claimed)
  <2>1. CASE c # worker.card
    <3>1. cards'[c].send = TRUE
      BY <1>1, <1>2, <1>7, <2>1 DEF SendBecomes
    <3> QED
      BY <1>5, <3>1
  <2>2. CASE c = worker.card
    <3>1. worker.key = k
      BY <1>2, <1>7, <2>2 DEF FoundIsLinked, Linked
    <3> QED
      BY <1>7, <3>1 DEF WillStore
  <2> QED
    BY <2>1, <2>2
<1>8. ASSUME balance # NoBalance, NEW send \in BOOLEAN,
             SendBecomes(balance.card, send), balance.send = TRUE => send = TRUE
      PROVE  cards'[c].send = TRUE
  <2>1. cards[balance.card].send = TRUE => balance.send = TRUE
    BY <1>8 DEF SentIsUsed
  <2> QED
    BY <1>1, <1>2, <1>8, <2>1 DEF SendBecomes
<1> QED
  BY <1>5, <1>6, <1>7, <1>8 DEF UnsentCases, SendCases

LEMMA WillStoreStays ==
    ASSUME TypeInv, OwnCard, FoundIsLinked, PayerStores, CardCases, JobCases,
           NEW k \in Key, WillStore(k)
    PROVE  WillStore(k)' \/ UsedVoucher(k)' \/ latestTransactions[k] # 0
<1> USE DEF WillStore
<1>1. CASE UNCHANGED <<queue, worker>> \/ (queue \subseteq queue' /\ UNCHANGED worker)
  BY <1>1
<1>2. CASE /\ worker.pc = "idle" /\ worker'.pc = "reuse"
           /\ \E j \in Key : worker'.key = j /\ queue' = queue \ {j}
  BY <1>2
<1>3. CASE /\ worker'.pc \notin {"idle", "remove"}
           /\ queue' = queue /\ worker'.key = worker.key
  BY <1>3
<1>4. CASE /\ worker.pc = "storing" /\ queue' = queue /\ storing[Payer].pc = "stored"
  <2>1. latestTransactions[worker.key] # 0
    BY <1>4 DEF PayerStores
  <2> QED
    BY <1>4, <2>1
<1>5. CASE worker.pc = "resave" /\ queue' = queue /\ SendBecomes(worker.card, TRUE)
  <2>1. worker.card \in Linked(worker.key) /\ VouchersKept
    BY <1>5, VouchersStay DEF FoundIsLinked
  <2>2. PICK c : c = worker.card
    OBVIOUS
  <2>3. /\ c \in DOMAIN cards' /\ cards'[c].key = worker.key
        /\ cards'[c].voucher = "linked" /\ cards'[c].send = TRUE
    BY <1>5, <2>1, <2>2 DEF Linked, VouchersKept, SendBecomes
  <2>4. worker.key = k => UsedVoucher(k)'
    BY <2>3 DEF Linked, UsedVoucher
  <2> QED
    BY <1>5, <2>4
<1>6. CASE worker.pc = "remove" /\ queue' = queue
  BY <1>6
<1>7. CASE queue \subseteq queue' /\ (worker.pc # "idle" => worker.key \in queue')
  BY <1>7
<1> QED
  BY <1>1, <1>2, <1>3, <1>4, <1>5, <1>6, <1>7 DEF JobCases

LEMMA LinkedIsReportedStep ==
    ASSUME TypeInv, CardInv, UnsentInv, [Next]_vars, CardCases, UnsentCases, StoringCases
    PROVE  LinkedIsReported'
<1> SUFFICES ASSUME incomingCount' = 0, NEW k \in Key, Linked(k)' # {},
                    latestTransactions'[k] = 0, ~WillStore(k)'
             PROVE  UsedVoucher(k)'
  BY DEF LinkedIsReported, WillStore, UsedVoucher, Linked
<1>1. incomingCount = 0
  BY IncomingGrows
<1>2. latestTransactions[k] = 0
  BY LatestStays
<1>3. Linked(k) # {}
  <2>1. PICK c \in DOMAIN cards' : cards'[c].key = k /\ cards'[c].voucher = "linked"
    BY DEF Linked
  <2>2. VouchersKept
    BY VouchersStay DEF CardInv
  <2>3. CASE c \in DOMAIN cards /\ cards[c].voucher = "linked"
    BY <2>1, <2>2, <2>3 DEF Linked, VouchersKept
  <2>4. CASE c \notin DOMAIN cards \/ cards[c].voucher # "linked"
    <3>1. Linking
      BY <2>1, <2>4, VouchersStay DEF CardInv
    <3>2. /\ worker.card = c /\ worker.key = k /\ worker'.key = k
          /\ worker'.pc \in {"message", "store"}
      BY <2>1, <2>4, <3>1
         DEF Linking, OnOwnCard, CardBecomes, WorkerTo, CardInv, OwnCard, Holding
    <3> QED
      BY <3>2 DEF WillStore
  <2> QED
    BY <2>3, <2>4
<1>4. WillStore(k) \/ UsedVoucher(k)
  BY <1>1, <1>2, <1>3 DEF UnsentInv, LinkedIsReported
<1>5. CASE WillStore(k)
  BY <1>2, <1>5, WillStoreStays DEF CardInv, UnsentInv, UnsentCases
<1>6. CASE UsedVoucher(k)
  BY <1>1, <1>5, <1>6, UsedStays DEF CardInv, UnsentInv
<1> QED
  BY <1>4, <1>5, <1>6

LEMMA UnsentStep ==
    TypeInv /\ CardInv /\ UnsentInv /\ [Next]_vars => UnsentInv'
<1> SUFFICES ASSUME TypeInv, CardInv, UnsentInv, [Next]_vars PROVE UnsentInv'
  OBVIOUS
<1>1. TypeInv' /\ CardCases /\ StoringCases /\ UnsentCases
  BY StepFacts, StepReports, StepUnsent
<1>2. SavedIsOwn'
  BY <1>1, SavedIsOwnStep DEF UnsentInv
<1>3. PayerStores'
  BY <1>1, PayerStoresStep DEF UnsentInv, UnsentCases
<1>4. FoundIsLinked'
  BY <1>1, FoundIsLinkedStep DEF UnsentInv, UnsentCases, CardInv
<1>5. SentIsUsed'
  BY <1>1, SentIsUsedStep DEF UnsentInv
<1>6. LinkedIsReported'
  BY <1>1, LinkedIsReportedStep
<1> QED
  BY <1>2, <1>3, <1>4, <1>5, <1>6 DEF UnsentInv

\* Until the registrant writes, a linked voucher has a transaction or a job, also
\* after a crash; only a paper voucher can be used before its job is done again,
\* which then ends without a transaction.
THEOREM UnsentIsReported == Spec => []UnsentVoucherIsReported
<1>1. TypeInv /\ UnsentInv => UnsentVoucherIsReported
  <2> SUFFICES ASSUME TypeInv, UnsentInv, incomingCount = 0, NEW k \in Key,
                      Linked(k) # {}
               PROVE  \/ StatusOf(k) # "none" \/ IsPaymentInProgress
                      \/ ~Whatsapp /\ \E c \in Linked(k) : cards[c].send
    BY DEF UnsentVoucherIsReported
  <2>1. CASE latestTransactions[k] # 0
    <3>1. latestTransactions[k] \in DOMAIN transactions
      <4>1. latestTransactions[k] \in 0..Len(transactions)
            /\ DOMAIN transactions = 1..Len(transactions)
        BY DEF TypeInv, StoringTypeOK, StoreTypeOK
      <4> QED
        BY <2>1, <4>1
    <3>2. transactions[latestTransactions[k]].status \in TransactionStatus
      <4>1. transactions[latestTransactions[k]] \in Transaction
        BY <3>1 DEF TypeInv, StoringTypeOK, StoreTypeOK
      <4> QED
        BY <4>1 DEF Transaction
    <3> QED
      BY <2>1, <3>2 DEF StatusOf, NoTransaction, TransactionStatus
  <2>2. CASE WillStore(k)
    BY <2>2 DEF WillStore, IsPaymentInProgress
  <2>3. CASE UsedVoucher(k)
    <3>1. PICK c \in Linked(k) : cards[c].send = TRUE
      BY <2>3 DEF UsedVoucher
    <3>2. Whatsapp = FALSE
      BY <3>1 DEF UnsentInv, SentIsUsed, Linked
    <3> QED
      BY <3>1, <3>2
  <2> QED
    BY <2>1, <2>2, <2>3 DEF UnsentInv, LinkedIsReported
<1> QED
  BY <1>1, TypeInit, CardInit, UnsentInit, StepFacts, CardStep, UnsentStep, PTL DEF Spec

=============================================================================
