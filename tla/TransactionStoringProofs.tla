-------------------- MODULE TransactionStoringProofs --------------------
(***************************************************************************)
(* What the statements of storeTransactionUpdateStatus do to well-typed    *)
(* tables, stated once for the proofs about the integrations whose jobs    *)
(* store their results with it.                                            *)
(***************************************************************************)
EXTENDS TransactionStoring, SequenceTheorems, FiniteSetTheorems, TLAPS

LEMMA KeyOfTransaction ==
    ASSUME StoreTypeOK, NEW i \in 1..Len(transactions)
    PROVE  KeyOf(i) \in Key
<1>1. transactions[i] \in Transaction
  BY DEF StoreTypeOK
<1> QED
  BY <1>1 DEF KeyOf, Key, Transaction

\* A new transaction goes behind the others and leaves them alone.
LEMMA CreateTransactionAppends ==
    ASSUME StoreTypeOK, NEW k \in Key, NEW status \in TransactionStatus,
           CreateTransaction(k, status)
    PROVE  /\ transactions' \in Seq(Transaction)
           /\ Len(transactions') = Len(transactions) + 1
           /\ \A i \in 1..Len(transactions) : transactions'[i] = transactions[i]
           /\ LET new == transactions'[Len(transactions) + 1]
              IN  <<new.registration, new.payment>> = k /\ new.status = status
<1> DEFINE new == [registration |-> k[1], payment |-> k[2], status |-> status]
<1>1. new \in Transaction
  BY DEF Key, Transaction
<1>2. <<new.registration, new.payment>> = k /\ new.status = status
  BY DEF Key
<1>3. transactions' = Append(transactions, new) /\ transactions \in Seq(Transaction)
  BY DEF CreateTransaction, StoreTypeOK
<1> HIDE DEF new
<1> QED
  BY <1>1, <1>2, <1>3, AppendProperties

\* A status update changes the status of that transaction and nothing else.
LEMMA UpdateStatusKeepsRest ==
    ASSUME StoreTypeOK, NEW i \in 1..Len(transactions),
           NEW status \in TransactionStatus, UpdateTransactionStatus(i, status)
    PROVE  /\ transactions' \in Seq(Transaction)
           /\ Len(transactions') = Len(transactions)
           /\ \A j \in 1..Len(transactions) :
                /\ transactions'[j].registration = transactions[j].registration
                /\ transactions'[j].payment = transactions[j].payment
                /\ transactions'[j].status =
                     IF j = i THEN status ELSE transactions[j].status
<1> DEFINE new == [transactions[i] EXCEPT !.status = status]
<1>1. transactions \in Seq(Transaction) /\ transactions[i] \in Transaction
  BY DEF StoreTypeOK
<1>2. /\ new \in Transaction
      /\ new.registration = transactions[i].registration
      /\ new.payment = transactions[i].payment
      /\ new.status = status
  BY <1>1 DEF Transaction
<1>3. transactions' = [transactions EXCEPT ![i] = new]
  BY DEF UpdateTransactionStatus
<1> HIDE DEF new
<1> QED
  BY <1>1, <1>2, <1>3, ExceptSeq

LEMMA LatestKeepsType ==
    ASSUME StoreTypeOK, NEW i \in 1..Len(transactions),
           InsertOrUpdateFromTransaction(i)
    PROVE  /\ latestTransactions' \in [Key -> Nat]
           /\ \A k \in Key : latestTransactions'[k] \in 0..Len(transactions)
BY KeyOfTransaction DEF InsertOrUpdateFromTransaction, StoreTypeOK

\* No storer but s does anything, and what s stores stays the same.
OnlyStorer(s) ==
    /\ \A t \in Storers \ {s} : storing'[t] = storing[t]
    /\ storing'[s].key = storing[s].key
    /\ storing'[s].status = storing[s].status

LEMMA CompletedIsStatus == {"included", "completed"} \subseteq RegistrationStatus
BY DEF RegistrationStatus

LEMMA NotStoringType == NotStoring \in Storing
<1>1. (CHOOSE k \in Key : TRUE) \in Key
  BY SomeKeyAssumption
<1>2. [status |-> "included", paymentCount |-> 0] \in Snapshot
  BY CompletedIsStatus DEF Snapshot
<1>3. "idle" \in StoringPc /\ "waiting" \in TransactionStatus
  BY DEF StoringPc, TransactionStatus
<1>4. NoTransaction \in Nat
  BY DEF NoTransaction
<1> QED
  BY <1>1, <1>2, <1>3, <1>4 DEF NotStoring, Storing

LEMMA StoreInitType == StoreInit => StoreTypeOK
BY CompletedIsStatus DEF StoreInit, StoreTypeOK, NoTransaction

LEMMA StoringInitType == StoringInit => StoringTypeOK
<1> SUFFICES ASSUME StoringInit PROVE StoringTypeOK
  OBVIOUS
<1>1. StoreTypeOK /\ transactions = << >>
  BY StoreInitType DEF StoringInit, StoreInit
<1>2. storing \in [Storers -> Storing]
  BY NotStoringType DEF StoringInit
<1>3. \A s \in Storers : storing[s].pc = "idle"
  BY DEF StoringInit, NotStoring
<1> QED
  BY <1>1, <1>2, <1>3 DEF StoringInit, StoringTypeOK

LEMMA StoringUnchanged == StoringTypeOK /\ UNCHANGED storingVars => StoringTypeOK'
BY DEF StoringTypeOK, StoreTypeOK, storingVars, storeVars

LEMMA BeginStoringKeepsType ==
    ASSUME StoringTypeOK, NEW s \in Storers, NEW k \in Key,
           NEW status \in TransactionStatus, NEW message \in BOOLEAN,
           BeginStoring(s, k, status, message)
    PROVE  /\ StoringTypeOK'
           /\ storing[s].pc = "idle" /\ storing'[s].pc = "save"
           /\ storing'[s].key = k /\ storing'[s].status = status
<1> DEFINE new == [pc |-> "save", key |-> k, status |-> status, message |-> message,
                   transaction |-> NoTransaction, read |-> registrations[k[1]],
                   count |-> 0]
<1>1. /\ storing' = [storing EXCEPT ![s] = new]
      /\ UNCHANGED <<storeVars, linked, statusEvents>>
  BY DEF BeginStoring, BeginStoringAt
<1>2. registrations[k[1]] \in Snapshot
  BY DEF StoringTypeOK, StoreTypeOK, Key, Snapshot
<1>3. new \in Storing /\ new.pc = "save" /\ new.key = k /\ new.status = status
  BY <1>2 DEF Storing, StoringPc, NoTransaction
<1>6. storing[s].pc = "idle"
  BY DEF BeginStoring, BeginStoringAt
<1> HIDE DEF new
<1>4. storing' \in [Storers -> Storing]
  BY <1>1, <1>3 DEF StoringTypeOK
<1>5. \A t \in Storers : storing'[t].pc \in StoringPc \ {"idle", "save"} =>
        storing'[t].transaction \in DOMAIN transactions'
  BY <1>1, <1>3 DEF StoringTypeOK, storeVars
<1> QED
  BY <1>1, <1>3, <1>4, <1>5, <1>6 DEF StoringTypeOK, StoreTypeOK, storeVars

LEMMA EndStoringKeepsType ==
    ASSUME StoringTypeOK, NEW s \in Storers, EndStoring(s)
    PROVE  /\ StoringTypeOK'
           /\ storing[s].pc = "stored" /\ storing'[s].pc = "idle"
<1>1. /\ storing' = [storing EXCEPT ![s] = NotStoring] /\ storing[s].pc = "stored"
      /\ UNCHANGED <<storeVars, linked, statusEvents>>
  BY DEF EndStoring
<1>2. NotStoring.pc = "idle"
  BY DEF NotStoring
<1>3. storing' \in [Storers -> Storing]
  BY <1>1, NotStoringType DEF StoringTypeOK
<1>4. \A t \in Storers : storing'[t].pc \in StoringPc \ {"idle", "save"} =>
        storing'[t].transaction \in DOMAIN transactions'
  BY <1>1, <1>2 DEF StoringTypeOK, storeVars
<1> QED
  BY <1>1, <1>2, <1>3, <1>4 DEF StoringTypeOK, StoreTypeOK, storeVars

LEMMA StopStoringKeepsType ==
    ASSUME StoringTypeOK, StopStoring, UNCHANGED <<storeVars, linked, statusEvents>>
    PROVE  StoringTypeOK' /\ \A s \in Storers : storing'[s].pc = "idle"
<1>1. storing' \in [Storers -> Storing]
  BY NotStoringType DEF StopStoring
<1>2. \A t \in Storers : storing'[t].pc = "idle"
  BY DEF StopStoring, NotStoring
<1> QED
  BY <1>1, <1>2 DEF StoringTypeOK, StoreTypeOK, storeVars

\* A storer goes on to its next statement.
LEMMA StorerKeepsType ==
    ASSUME StoringTypeOK, NEW s \in Storers, NEW new \in Storing,
           storing' = [storing EXCEPT ![s] = new],
           new.key = storing[s].key, new.status = storing[s].status
    PROVE  storing' \in [Storers -> Storing] /\ OnlyStorer(s)
BY DEF StoringTypeOK, OnlyStorer

LEMMA CountIsNat ==
    ASSUME StoringTypeOK, NEW r PROVE CurrentPaymentCount(r) \in Nat
<1> DEFINE rows == {j \in DOMAIN transactions : transactions[j].registration = r}
           paid == {transactions[i].payment : i \in rows}
<1>0. \A i \in DOMAIN transactions : transactions[i] \in Transaction
  BY DEF StoringTypeOK, StoreTypeOK
<1>1. \A i \in DOMAIN transactions : transactions[i].payment \in Payments
  BY <1>0 DEF Transaction
<1>2. paid \subseteq Payments
  BY <1>1
<1> QED
  BY <1>2, PaymentsAssumption, FS_Subset, FS_CardinalityType DEF CurrentPaymentCount

\* The new row is of the storer's key and status and the last one.
SavedBy(s) ==
    /\ storing[s].pc = "save"
    /\ Len(transactions') = Len(transactions) + 1
    /\ \A i \in 1..Len(transactions) : transactions'[i] = transactions[i]
    /\ <<transactions'[Len(transactions) + 1].registration,
         transactions'[Len(transactions) + 1].payment>> = storing[s].key
    /\ transactions'[Len(transactions) + 1].status = storing[s].status
    /\ storing'[s].transaction = Len(transactions) + 1
    /\ latestTransactions' = latestTransactions

\* The row of the storer becomes the latest of its key.
PublishedBy(s) ==
    /\ storing[s].pc = "latest" /\ storing'[s].pc = "stored"
    /\ transactions' = transactions
    /\ storing'[s].transaction = storing[s].transaction
    /\ latestTransactions' =
         [latestTransactions EXCEPT ![KeyOf(storing[s].transaction)] =
            storing[s].transaction]

LEMMA SaveTransactionKeeps ==
    ASSUME StoringTypeOK, NEW s \in Storers, SaveTransaction(s)
    PROVE  /\ StoringTypeOK' /\ OnlyStorer(s) /\ SavedBy(s)
           /\ storing'[s].pc \in {"link", "count"}
<1> DEFINE next == IF storing[s].message THEN "link" ELSE "count"
           n == Len(transactions) + 1
           new == [storing[s] EXCEPT !.pc = next, !.transaction = n]
<1>1. /\ storing[s] \in Storing /\ StoreTypeOK
      /\ storing[s].key \in Key /\ storing[s].status \in TransactionStatus
  BY DEF StoringTypeOK, Storing
<1>2. n \in Nat /\ next \in {"link", "count"}
  BY <1>1 DEF StoreTypeOK
<1>3. /\ storing' = [storing EXCEPT ![s] = new]
      /\ storing[s].pc = "save"
      /\ CreateTransaction(storing[s].key, storing[s].status)
      /\ UNCHANGED <<latestTransactions, registrations, linked, statusEvents>>
  BY DEF SaveTransaction, StoringTypeOK
<1> HIDE DEF next
<1>4. /\ new \in Storing /\ new.pc = next /\ new.transaction = n
      /\ new.key = storing[s].key /\ new.status = storing[s].status
  BY <1>1, <1>2 DEF Storing, StoringPc
<1>5. /\ transactions' \in Seq(Transaction)
      /\ Len(transactions') = n
      /\ \A i \in 1..Len(transactions) : transactions'[i] = transactions[i]
      /\ <<transactions'[n].registration, transactions'[n].payment>> = storing[s].key
      /\ transactions'[n].status = storing[s].status
  BY <1>1, <1>3, CreateTransactionAppends
<1> HIDE DEF new
<1>6. storing' \in [Storers -> Storing] /\ OnlyStorer(s) /\ storing'[s] = new
  BY <1>1, <1>3, <1>4, StorerKeepsType DEF StoringTypeOK
<1>7. StoreTypeOK'
  BY <1>1, <1>3, <1>5 DEF StoreTypeOK
<1>8. \A t \in Storers : storing'[t].pc \in StoringPc \ {"idle", "save"} =>
        storing'[t].transaction \in DOMAIN transactions'
  BY <1>1, <1>2, <1>3, <1>4, <1>5, <1>6 DEF StoringTypeOK, StoreTypeOK
<1>9. linked' \subseteq DOMAIN transactions' /\ statusEvents' \in Seq(StatusEvent)
  BY <1>1, <1>3, <1>5 DEF StoringTypeOK, StoreTypeOK
<1>10. StoringTypeOK'
  BY <1>6, <1>7, <1>8, <1>9 DEF StoringTypeOK
<1>11. SavedBy(s)
  BY <1>3, <1>4, <1>5, <1>6 DEF SavedBy
<1> QED
  BY <1>2, <1>4, <1>6, <1>10, <1>11

\* A step on the registration, the Twilio message or the event log leaves the
\* transactions and their latest alone.
BesidesTransactions(s) ==
    /\ storing[s].pc \in {"link", "count", "complete", "log", "update"}
    /\ storing'[s].pc \in {"count", "complete", "log", "update", "latest"}
    /\ storing'[s].transaction = storing[s].transaction
    /\ UNCHANGED <<transactions, latestTransactions>>

\* Where the step leads, if it neither saves nor publishes a transaction.
LEMMA BesidesKeeps ==
    ASSUME StoringTypeOK, NEW s \in Storers,
           NEW next \in {"count", "complete", "log", "update", "latest"},
           NEW new \in Storing, new.pc = next,
           new.key = storing[s].key, new.status = storing[s].status,
           new.transaction = storing[s].transaction,
           storing' = [storing EXCEPT ![s] = new],
           storing[s].pc \in {"link", "count", "complete", "log", "update"},
           UNCHANGED <<transactions, latestTransactions>>,
           StoreTypeOK', linked' \subseteq DOMAIN transactions,
           statusEvents' \in Seq(StatusEvent)
    PROVE  StoringTypeOK' /\ OnlyStorer(s) /\ BesidesTransactions(s)
<1>1. storing' \in [Storers -> Storing] /\ OnlyStorer(s) /\ storing'[s] = new
  BY StorerKeepsType DEF StoringTypeOK
<1>2. storing[s].pc \in StoringPc \ {"idle", "save"}
  BY DEF StoringPc
<1>3. \A t \in Storers : storing'[t].pc \in StoringPc \ {"idle", "save"} =>
        storing'[t].transaction \in DOMAIN transactions'
  BY <1>1, <1>2 DEF StoringTypeOK
<1> QED
  BY <1>1, <1>3 DEF StoringTypeOK, BesidesTransactions

LEMMA StorerFacts ==
    ASSUME StoringTypeOK, NEW s \in Storers
    PROVE  /\ storing[s] \in Storing /\ storing[s].key \in Key
           /\ storing[s].key[1] \in Registrations
           /\ storing[s].status \in TransactionStatus
           /\ storing[s].read \in Snapshot /\ storing[s].count \in Nat
           /\ StoreTypeOK
BY DEF StoringTypeOK, Storing, Key

LEMMA RegistrationsKept ==
    StoreTypeOK /\ UNCHANGED storeVars => StoreTypeOK'
BY DEF StoreTypeOK, storeVars

LEMMA RegistrationUpdateType ==
    ASSUME StoreTypeOK, NEW r \in Registrations, NEW row \in Snapshot,
           registrations' = [registrations EXCEPT ![r] = row],
           UNCHANGED <<transactions, latestTransactions>>
    PROVE  StoreTypeOK'
BY DEF StoreTypeOK, Snapshot

LEMMA LinkTwilioMessageKeeps ==
    ASSUME StoringTypeOK, NEW s \in Storers, LinkTwilioMessage(s)
    PROVE  StoringTypeOK' /\ OnlyStorer(s) /\ BesidesTransactions(s)
<1> DEFINE new == [storing[s] EXCEPT !.pc = "count"]
<1>1. new \in Storing /\ new.pc = "count" /\ new.key = storing[s].key
      /\ new.status = storing[s].status /\ new.transaction = storing[s].transaction
  BY StorerFacts DEF Storing, StoringPc
<1>2. /\ storing' = [storing EXCEPT ![s] = new] /\ storing[s].pc = "link"
      /\ linked' = linked \cup {storing[s].transaction}
      /\ UNCHANGED <<storeVars, statusEvents>>
  BY DEF LinkTwilioMessage, StoringTypeOK
<1>3. storing[s].transaction \in DOMAIN transactions
  BY <1>2 DEF StoringTypeOK, StoringPc
<1> HIDE DEF new
<1>4. StoreTypeOK'
  BY <1>2, StorerFacts, RegistrationsKept
<1> QED
  BY <1>1, <1>2, <1>3, <1>4, BesidesKeeps DEF StoringTypeOK, storeVars

LEMMA CountPaymentsKeeps ==
    ASSUME StoringTypeOK, NEW s \in Storers, CountPayments(s)
    PROVE  StoringTypeOK' /\ OnlyStorer(s) /\ BesidesTransactions(s)
<1> DEFINE n == CurrentPaymentCount(storing[s].key[1])
           next == IF /\ MaxPayments > 0 /\ n >= MaxPayments
                      /\ storing[s].read.status = "included"
                   THEN "complete" ELSE "update"
           mid == [storing[s] EXCEPT !.count = n]
           new == [mid EXCEPT !.pc = next]
<1>1. n \in Nat
  BY CountIsNat
<1>2. next \in {"complete", "update"}
  OBVIOUS
<1>3. /\ storing' = [storing EXCEPT ![s] = new] /\ storing[s].pc = "count"
      /\ UNCHANGED <<storeVars, linked, statusEvents>>
  BY DEF CountPayments, StoringTypeOK
<1> HIDE DEF n, next
<1>4. /\ mid \in Storing /\ mid.key = storing[s].key
      /\ mid.status = storing[s].status /\ mid.transaction = storing[s].transaction
  BY <1>1, StorerFacts DEF Storing
<1> HIDE DEF mid
<1>5. /\ new \in Storing /\ new.pc = next /\ new.key = storing[s].key
      /\ new.status = storing[s].status /\ new.transaction = storing[s].transaction
  BY <1>2, <1>4 DEF Storing, StoringPc
<1> HIDE DEF new
<1>6. StoreTypeOK'
  BY <1>3, StorerFacts, RegistrationsKept
<1> QED
  BY <1>2, <1>3, <1>5, <1>6, BesidesKeeps DEF StoringTypeOK, storeVars

LEMMA CompleteRegistrationKeeps ==
    ASSUME StoringTypeOK, NEW s \in Storers, CompleteRegistration(s)
    PROVE  StoringTypeOK' /\ OnlyStorer(s) /\ BesidesTransactions(s)
<1> DEFINE new == [storing[s] EXCEPT !.pc = "log"]
           row == [storing[s].read EXCEPT !.status = "completed"]
<1>1. new \in Storing /\ new.pc = "log" /\ new.key = storing[s].key
      /\ new.status = storing[s].status /\ new.transaction = storing[s].transaction
  BY StorerFacts DEF Storing, StoringPc
<1>2. row \in Snapshot
  BY StorerFacts, CompletedIsStatus DEF Snapshot
<1>3. /\ storing' = [storing EXCEPT ![s] = new] /\ storing[s].pc = "complete"
      /\ registrations' = [registrations EXCEPT ![storing[s].key[1]] = row]
      /\ UNCHANGED <<transactions, latestTransactions, linked, statusEvents>>
  BY DEF CompleteRegistration, StoringTypeOK
<1> HIDE DEF new, row
<1>4. StoreTypeOK'
  BY <1>2, <1>3, StorerFacts, RegistrationUpdateType
<1> QED
  BY <1>1, <1>3, <1>4, BesidesKeeps DEF StoringTypeOK

LEMMA LogCompletionKeeps ==
    ASSUME StoringTypeOK, NEW s \in Storers, LogCompletion(s)
    PROVE  StoringTypeOK' /\ OnlyStorer(s) /\ BesidesTransactions(s)
<1> DEFINE new == [storing[s] EXCEPT !.pc = "update"]
           event == [registration |-> storing[s].key[1],
                     from |-> storing[s].read.status, to |-> "completed"]
<1>1. new \in Storing /\ new.pc = "update" /\ new.key = storing[s].key
      /\ new.status = storing[s].status /\ new.transaction = storing[s].transaction
  BY StorerFacts DEF Storing, StoringPc
<1>2. event \in StatusEvent
  BY StorerFacts, CompletedIsStatus DEF StatusEvent, Snapshot
<1>3. /\ storing' = [storing EXCEPT ![s] = new] /\ storing[s].pc = "log"
      /\ statusEvents' = Append(statusEvents, event)
      /\ UNCHANGED <<storeVars, linked>>
  BY DEF LogCompletion, StoringTypeOK
<1> HIDE DEF new, event
<1>4. statusEvents' \in Seq(StatusEvent)
  BY <1>2, <1>3 DEF StoringTypeOK
<1>5. StoreTypeOK'
  BY <1>3, StorerFacts, RegistrationsKept
<1> QED
  BY <1>1, <1>3, <1>4, <1>5, BesidesKeeps DEF StoringTypeOK, storeVars

LEMMA UpdatePaymentCountKeeps ==
    ASSUME StoringTypeOK, NEW s \in Storers, UpdatePaymentCount(s)
    PROVE  StoringTypeOK' /\ OnlyStorer(s) /\ BesidesTransactions(s)
<1> DEFINE new == [storing[s] EXCEPT !.pc = "latest"]
           r == storing[s].key[1]
           row == [registrations[r] EXCEPT !.paymentCount = storing[s].count]
<1>1. new \in Storing /\ new.pc = "latest" /\ new.key = storing[s].key
      /\ new.status = storing[s].status /\ new.transaction = storing[s].transaction
  BY StorerFacts DEF Storing, StoringPc
<1>2. registrations[r] \in Snapshot
  BY StorerFacts DEF StoreTypeOK, Snapshot
<1>3. row \in Snapshot
  BY <1>2, StorerFacts DEF Snapshot
<1>4. /\ storing' = [storing EXCEPT ![s] = new] /\ storing[s].pc = "update"
      /\ registrations' = [registrations EXCEPT ![r] = row]
      /\ UNCHANGED <<transactions, latestTransactions, linked, statusEvents>>
  BY StorerFacts DEF UpdatePaymentCount, StoringTypeOK, StoreTypeOK
<1> HIDE DEF new, row
<1>5. StoreTypeOK'
  BY <1>3, <1>4, StorerFacts, RegistrationUpdateType
<1> QED
  BY <1>1, <1>4, <1>5, BesidesKeeps DEF StoringTypeOK

LEMMA UpdateLatestKeeps ==
    ASSUME StoringTypeOK, NEW s \in Storers, UpdateLatest(s)
    PROVE  StoringTypeOK' /\ OnlyStorer(s) /\ PublishedBy(s)
<1> DEFINE new == [storing[s] EXCEPT !.pc = "stored"]
<1>1. new \in Storing /\ new.pc = "stored" /\ new.key = storing[s].key
      /\ new.status = storing[s].status /\ new.transaction = storing[s].transaction
  BY StorerFacts DEF Storing, StoringPc
<1>2. /\ storing' = [storing EXCEPT ![s] = new] /\ storing[s].pc = "latest"
      /\ InsertOrUpdateFromTransaction(storing[s].transaction)
      /\ UNCHANGED <<transactions, registrations, linked, statusEvents>>
  BY DEF UpdateLatest, StoringTypeOK
<1>3. storing[s].transaction \in DOMAIN transactions
  BY <1>2 DEF StoringTypeOK, StoringPc
<1> HIDE DEF new
<1>4. storing' \in [Storers -> Storing] /\ OnlyStorer(s) /\ storing'[s] = new
  BY <1>1, <1>2, StorerKeepsType
<1>5. storing[s].transaction \in 1..Len(transactions)
  BY <1>3, StorerFacts DEF StoreTypeOK
<1>6. StoreTypeOK'
  BY <1>2, <1>5, StorerFacts, LatestKeepsType DEF StoreTypeOK
<1>7. \A t \in Storers : storing'[t].pc \in StoringPc \ {"idle", "save"} =>
        storing'[t].transaction \in DOMAIN transactions'
  BY <1>1, <1>2, <1>3, <1>4 DEF StoringTypeOK
<1> QED
  BY <1>1, <1>2, <1>4, <1>6, <1>7
     DEF StoringTypeOK, PublishedBy, InsertOrUpdateFromTransaction

\* The whole of storeTransactionUpdateStatus, one statement at a time.
LEMMA StoringStepKeeps ==
    ASSUME StoringTypeOK, NEW s \in Storers, StoringStep(s)
    PROVE  /\ StoringTypeOK' /\ OnlyStorer(s)
           /\ \/ SavedBy(s) /\ storing'[s].pc \in {"link", "count"}
              \/ PublishedBy(s)
              \/ BesidesTransactions(s)
BY SaveTransactionKeeps, LinkTwilioMessageKeeps, CountPaymentsKeeps,
   CompleteRegistrationKeeps, LogCompletionKeeps, UpdatePaymentCountKeeps,
   UpdateLatestKeeps DEF StoringStep
=============================================================================
