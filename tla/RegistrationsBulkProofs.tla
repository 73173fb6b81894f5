------------------- MODULE RegistrationsBulkProofs -------------------
(***************************************************************************)
(* Proofs about payments and imports by spreadsheet, and about changing    *)
(* the status of many registrations beside them.                           *)
(***************************************************************************)
EXTENDS RegistrationsBulk, TransactionStoringProofs

-----------------------------------------------------------------------------
(* Constants.                                                              *)

LEMMA PayerStores == Payer \in Storers
BY PayerAssumption

LEMMA ConfigsExist ==
    /\ Configs \in Seq(ToSet(Configs))
    /\ Len(Configs) \in Nat /\ Len(Configs) >= 1
    /\ DOMAIN Configs = 1..Len(Configs)
<1>1. Configs \in Seq(ToSet(Configs))
  BY ConfigsAssumption
<1>2. PICK k \in Key : TRUE
  BY SomeKeyAssumption
<1>3. ConfigOf[k[1]] \in ToSet(Configs)
  BY <1>2, ConfigsAssumption DEF Key
<1>4. DOMAIN Configs # {}
  BY <1>3 DEF ToSet
<1> QED
  BY <1>1, <1>4

LEMMA RegistrationsFinite ==
    ASSUME NEW S, S \subseteq Registrations
    PROVE  IsFiniteSet(S) /\ Cardinality(S) \in Nat
BY IdsAssumption, FS_Subset, FS_CardinalityType

LEMMA NoImportType ==
    /\ NoImport \in Import /\ NoImport.pc = "idle" /\ NoImport.payment = 0
    /\ NoImport.file = << >> /\ NoImport.results = << >>
    /\ NoImport.found = {} /\ NoImport.named = {} /\ NoImport.saved = {}
<1>1. 1 \in DOMAIN Configs
  BY ConfigsExist
<1>2. << >> \in Seq(Row) /\ << >> \in Seq(SUBSET Result)
  OBVIOUS
<1> QED
  BY <1>1, <1>2 DEF NoImport, Import, ImportPc

-----------------------------------------------------------------------------
(* Types of the payment and the import.                                    *)

LEMMA NothingImported ==
    ASSUME StoringTypeOK, import = NoImport PROVE ImportTypeOK
<1>1. Len(import.file) = 0 /\ Len(import.results) = 0 /\ DOMAIN import.results = {}
  BY NoImportType
<1>2. 0 <= MaxRows
  BY ExcelBoundsAssumption
<1> QED
  BY <1>1, <1>2, NoImportType DEF ImportTypeOK

LEMMA ExcelInitType == ExcelInit => ExcelTypeOK
<1> SUFFICES ASSUME ExcelInit PROVE ExcelTypeOK
  OBVIOUS
<1>1. StoringTypeOK
  BY StoringInitType DEF ExcelInit
<1>4. 0 \in 0..MaxRuns /\ 0 \in 0..MaxImports
  BY ExcelBoundsAssumption
<1>2. PayoutTypeOK
  BY <1>4 DEF ExcelInit, PayoutTypeOK, NoPayout
<1>3. ImportTypeOK
  BY <1>1, NothingImported DEF ExcelInit
<1> QED
  BY <1>1, <1>2, <1>3 DEF ExcelTypeOK

\* Transactions are only added, and only storers do anything besides.
LEMMA StoringKeepsExcelType ==
    ASSUME ExcelTypeOK, StoringTypeOK', PayoutTypeOK', import' = import,
           Len(transactions) <= Len(transactions')
    PROVE  ExcelTypeOK'
<1>1. DOMAIN transactions \subseteq DOMAIN transactions'
  BY DEF ExcelTypeOK, StoringTypeOK, StoreTypeOK
<1> QED
  BY <1>1 DEF ExcelTypeOK, ImportTypeOK

LEMMA PayoutUnchanged ==
    ASSUME ExcelTypeOK, UNCHANGED <<attributes, payout, inProgress, runs, imports>>
    PROVE  PayoutTypeOK'
BY DEF ExcelTypeOK, PayoutTypeOK

LEMMA TransactionsLength ==
    ASSUME StoringTypeOK
    PROVE  /\ transactions \in Seq(Transaction) /\ Len(transactions) \in Nat
           /\ DOMAIN transactions = 1..Len(transactions)
BY DEF StoringTypeOK, StoreTypeOK

LEMMA ExcelUnchanged ==
    ASSUME ExcelTypeOK, UNCHANGED <<storingVars, excelVars>> PROVE ExcelTypeOK'
<1>1. StoringTypeOK'
  BY StoringUnchanged DEF ExcelTypeOK
<1> QED
  BY <1>1, TransactionsLength, PayoutUnchanged, StoringKeepsExcelType
     DEF excelVars, storingVars, storeVars, ExcelTypeOK

LEMMA StartRunKeepsType ==
    ASSUME ExcelTypeOK, NEW p \in Payments, NEW chosen \in SUBSET Registrations,
           StartRun(p, chosen)
    PROVE  ExcelTypeOK'
<1>1. StoringTypeOK' /\ Len(transactions) <= Len(transactions')
  BY StoringUnchanged, TransactionsLength
     DEF StartRun, ExcelTypeOK, storingVars, storeVars
<1>2. PayoutTypeOK'
  BY ExcelBoundsAssumption DEF StartRun, ExcelTypeOK, PayoutTypeOK
<1> QED
  BY <1>1, <1>2, StoringKeepsExcelType DEF StartRun

LEMMA PaymentsStart ==
    ASSUME NEW p \in Payments, PostPayment(p) \/ RetryPayment(p)
    PROVE  \E chosen \in SUBSET Registrations : StartRun(p, chosen)
BY DEF PostPayment, RetryPayment, PayableRegistrations, FailedRegistrations

\* What the payment stores next.
LEMMA StoreNextKeepsType ==
    ASSUME ExcelTypeOK, StoreNextTransaction
    PROVE  ExcelTypeOK'
<1>1. PICK r \in payout.left :
        /\ BeginStoring(Payer, <<r, payout.payment>>, "waiting", FALSE)
        /\ payout' = [payout EXCEPT !.left = @ \ {r}]
        /\ UNCHANGED <<attributes, inProgress, import, runs, imports>>
  BY DEF StoreNextTransaction
<1>2. <<r, payout.payment>> \in Key /\ "waiting" \in TransactionStatus
  BY <1>1 DEF ExcelTypeOK, PayoutTypeOK, Key, TransactionStatus
<1>3. StoringTypeOK'
  BY <1>1, <1>2, PayerStores, BeginStoringKeepsType DEF ExcelTypeOK
<1>4. PayoutTypeOK'
  BY <1>1 DEF ExcelTypeOK, PayoutTypeOK
<1>5. transactions' = transactions
  BY <1>1 DEF BeginStoring, BeginStoringAt, storeVars
<1> QED
  BY <1>1, <1>3, <1>4, <1>5, TransactionsLength, StoringKeepsExcelType
     DEF ExcelTypeOK

LEMMA StoringStepKeepsExcelType ==
    ASSUME ExcelTypeOK, StoringStep(Payer), UNCHANGED excelVars
    PROVE  ExcelTypeOK'
<1>1. /\ StoringTypeOK' /\ OnlyStorer(Payer)
      /\ \/ SavedBy(Payer) /\ storing'[Payer].pc \in {"link", "count"}
         \/ PublishedBy(Payer)
         \/ BesidesTransactions(Payer)
  BY PayerStores, StoringStepKeeps DEF ExcelTypeOK
<1>2. Len(transactions) <= Len(transactions')
  BY <1>1, TransactionsLength
     DEF SavedBy, PublishedBy, BesidesTransactions, ExcelTypeOK
<1> QED
  BY <1>1, <1>2, PayoutUnchanged, StoringKeepsExcelType DEF excelVars

LEMMA TransactionStoredKeepsType ==
    ASSUME ExcelTypeOK, TransactionStored PROVE ExcelTypeOK'
<1>1. StoringTypeOK' /\ transactions' = transactions
  BY PayerStores, EndStoringKeepsType
     DEF ExcelTypeOK, TransactionStored, EndStoring, storeVars
<1> QED
  BY <1>1, TransactionsLength, PayoutUnchanged, StoringKeepsExcelType
     DEF excelVars, TransactionStored, ExcelTypeOK

LEMMA SavePaymentFinishedKeepsType ==
    ASSUME ExcelTypeOK, SavePaymentFinished PROVE ExcelTypeOK'
<1>1. StoringTypeOK' /\ Len(transactions) <= Len(transactions')
  BY StoringUnchanged, TransactionsLength
     DEF SavePaymentFinished, ExcelTypeOK, storingVars, storeVars
<1>2. PayoutTypeOK'
  BY DEF SavePaymentFinished, ExcelTypeOK, PayoutTypeOK, NoPayout
<1> QED
  BY <1>1, <1>2, StoringKeepsExcelType DEF SavePaymentFinished

\* The import goes on.
LEMMA ImportStepKeepsType ==
    ASSUME ExcelTypeOK, StoringTypeOK', PayoutTypeOK', import' \in Import,
           import'.pc # "idle" => import'.payment \in Payments,
           import'.file = import.file,
           import'.results = import.results,
           import'.named \subseteq import'.found,
           import'.saved \subseteq DOMAIN transactions'
    PROVE  ExcelTypeOK'
BY DEF ExcelTypeOK, ImportTypeOK

LEMMA ImportEndsType ==
    ASSUME ExcelTypeOK, UNCHANGED <<storingVars, attributes, payout, inProgress, runs,
                                    imports>>,
           import' = NoImport
    PROVE  ExcelTypeOK'
<1>1. StoringTypeOK' /\ PayoutTypeOK'
  BY StoringUnchanged, PayoutUnchanged DEF ExcelTypeOK
<1>2. (Len(import.file) = 0 /\ Len(import.results) = 0 /\ DOMAIN import.results = {})'
  BY NoImportType
<1>3. 0 <= MaxRows
  BY ExcelBoundsAssumption
<1> QED
  BY <1>1, <1>2, <1>3, NoImportType DEF ExcelTypeOK, ImportTypeOK

LEMMA BoundedFile ==
    ASSUME NEW file \in BoundedSeq(Row, MaxRows)
    PROVE  /\ file \in Seq(Row) /\ Len(file) \in Nat /\ Len(file) <= MaxRows
           /\ DOMAIN file = 1..Len(file)
<1>1. PICK m \in 0..MaxRows : file \in [1..m -> Row]
  BY DEF BoundedSeq, SeqOf
<1>2. m \in Nat /\ m <= MaxRows
  BY ExcelBoundsAssumption
<1> QED
  BY <1>1, <1>2

LEMMA ImportReconciliationKeepsType ==
    ASSUME ExcelTypeOK, NEW p \in Payments, ImportReconciliation(p)
    PROVE  ExcelTypeOK'
<1>1. PICK file \in BoundedSeq(Row, MaxRows) :
        import' = [NoImport EXCEPT
             !.pc = "registrations", !.payment = p, !.file = file,
             !.results = [i \in DOMAIN file |-> {}]]
  BY DEF ImportReconciliation
<1> DEFINE results == [i \in DOMAIN file |-> {}]
<1>2. /\ results \in Seq(SUBSET Result) /\ Len(results) = Len(file)
      /\ \A i \in DOMAIN results : results[i] = {}
  BY BoundedFile
<1>3. Cardinality({}) = 0
  BY FS_EmptySet
<1> HIDE DEF results
<1>4. /\ import' \in Import /\ import'.payment = p /\ import'.file = file
      /\ import'.results = results /\ import'.named = {} /\ import'.found = {}
      /\ import'.saved = {}
  BY <1>1, <1>2, BoundedFile, NoImportType DEF Import, ImportPc, results
<1>8. \A i \in DOMAIN results : Cardinality(results[i]) <= 1
  <2> SUFFICES ASSUME NEW i \in DOMAIN results PROVE Cardinality(results[i]) <= 1
    OBVIOUS
  <2>1. Cardinality(results[i]) = 0
    BY <1>2, <1>3, Zenon
  <2> QED
    BY <2>1
<1>9. Len(file) <= MaxRows
  BY BoundedFile
<1>10. \A i \in DOMAIN import'.results : Cardinality(import'.results[i]) <= 1
  BY <1>4, <1>8
<1>11. Len(import'.file) <= MaxRows /\ Len(import'.results) = Len(import'.file)
  BY <1>2, <1>4, <1>9
<1>12. /\ import'.named \subseteq import'.found
       /\ import'.saved \subseteq DOMAIN transactions'
  BY <1>4
<1>5. ImportTypeOK'
  BY <1>4, <1>10, <1>11, <1>12 DEF ImportTypeOK
<1>6. StoringTypeOK'
  BY StoringUnchanged DEF ImportReconciliation, ExcelTypeOK
<1>7. PayoutTypeOK'
  BY ExcelBoundsAssumption DEF ImportReconciliation, ExcelTypeOK, PayoutTypeOK
<1> QED
  BY <1>5, <1>6, <1>7 DEF ExcelTypeOK

LEMMA GetRegistrationsKeepsType ==
    ASSUME ExcelTypeOK, GetRegistrationsForReconciliation PROVE ExcelTypeOK'
<1> DEFINE found == PaidWith(Configs[import.config], import.payment)
<1>1. found \subseteq Registrations
  BY DEF PaidWith
<1>2. /\ import.pc = "registrations"
      /\ import' = [import EXCEPT !.pc = "transactions", !.found = found,
                                  !.named = found \cap attributes]
      /\ UNCHANGED <<storingVars, unchangedByImport>>
  BY DEF GetRegistrationsForReconciliation
<1>3. import \in Import /\ import.saved \subseteq DOMAIN transactions
      /\ import.payment \in Payments
  BY <1>2 DEF ExcelTypeOK, ImportTypeOK
<1>4. StoringTypeOK' /\ PayoutTypeOK' /\ transactions' = transactions
  BY <1>2, StoringUnchanged, PayoutUnchanged
     DEF ExcelTypeOK, unchangedByImport, storingVars, storeVars
<1> HIDE DEF found
<1>5. /\ import' \in Import /\ import'.payment = import.payment
      /\ import'.file = import.file /\ import'.results = import.results
      /\ import'.named \subseteq import'.found /\ import'.saved = import.saved
  BY <1>1, <1>2, <1>3 DEF Import, ImportPc
<1> QED
  BY <1>3, <1>4, <1>5, ImportStepKeepsType

LEMMA LastRowIsOne ==
    ASSUME NEW file \in Seq(Row), NEW v,
           NEW i \in LastRows(file, v), NEW j \in LastRows(file, v)
    PROVE  i = j
<1>1. i \in DOMAIN file /\ j \in DOMAIN file /\ i <= j /\ j <= i
  BY DEF LastRows
<1>2. i \in Int /\ j \in Int
  BY <1>1
<1> QED
  BY <1>1, <1>2

\* A row keeps its result, or gets that of the last row with its value.
LEMMA ResultsOfJoin ==
    ASSUME ExcelTypeOK, NEW named \in SUBSET Registrations,
           NEW winner \in Winners(named)
    PROVE  /\ ResultsWith(named, winner) \in Seq(SUBSET Result)
           /\ Len(ResultsWith(named, winner)) = Len(import.file)
           /\ \A i \in DOMAIN import.file :
                /\ ResultsWith(named, winner)[i] # import.results[i] =>
                     \A x \in ResultsWith(named, winner)[i] :
                        x.registration \in named
                /\ Cardinality(ResultsWith(named, winner)[i]) <= 1
<1> DEFINE new == ResultsWith(named, winner)
           joined(v) ==
             {[registration |-> winner[v], status |-> import.file[j].status] :
                j \in LastRows(import.file, v)}
<1>1. /\ import.file \in Seq(Row) /\ import.results \in Seq(SUBSET Result)
      /\ Len(import.results) = Len(import.file) /\ Len(import.file) \in Nat
      /\ \A i \in DOMAIN import.results : Cardinality(import.results[i]) <= 1
  BY DEF ExcelTypeOK, ImportTypeOK, Import
<1>2. \A i \in 1..Len(import.file) :
        /\ import.results[i] \in SUBSET Result
        /\ Cardinality(import.results[i]) <= 1
        /\ import.file[i] \in Row
  BY <1>1
<1>3. ASSUME NEW i \in 1..Len(import.file),
             NamedBy(named, import.file[i].value) # {}
      PROVE  LET v == import.file[i].value
             IN  /\ winner[v] \in named /\ winner[v] \in Registrations
                 /\ joined(v) \in SUBSET Result /\ Cardinality(joined(v)) <= 1
                 /\ \A x \in joined(v) : x.registration = winner[v]
  <2> DEFINE v == import.file[i].value
  <2>1. v \in Values
    BY <1>2 DEF Row
  <2>2. winner[v] \in NamedBy(named, v)
    BY <1>3, <2>1 DEF Winners
  <2>3. winner[v] \in named /\ winner[v] \in Registrations
    BY <2>2 DEF NamedBy
  <2>4. \A j \in LastRows(import.file, v) : import.file[j].status \in {"success", "error"}
    BY <1>1, <1>2 DEF LastRows, Row
  <2>5. joined(v) \in SUBSET Result
    BY <2>3, <2>4 DEF Result
  <2>6. Cardinality(joined(v)) <= 1
    <3>1. CASE LastRows(import.file, v) = {}
      <4>1. joined(v) = {}
        BY <3>1
      <4>2. Cardinality(joined(v)) = 0
        BY <4>1, FS_EmptySet, Zenon
      <4> QED
        BY <4>2
    <3>2. CASE LastRows(import.file, v) # {}
      <4>1. PICK j \in LastRows(import.file, v) : TRUE
        BY <3>2
      <4> DEFINE x == [registration |-> winner[v], status |-> import.file[j].status]
      <4>2. \A l \in LastRows(import.file, v) : l = j
        BY <1>1, <4>1, LastRowIsOne
      <4>3. joined(v) = {x}
        BY <4>1, <4>2
      <4>4. Cardinality({x}) = 1
        BY FS_Singleton
      <4>5. Cardinality(joined(v)) = 1
        BY <4>3, <4>4, Zenon
      <4> QED
        BY <4>5
    <3> QED
      BY <3>1, <3>2
  <2> QED
    BY <2>3, <2>5, <2>6
<1> HIDE DEF joined
<1>4. /\ DOMAIN import.file = 1..Len(import.file)
      /\ new = [i \in DOMAIN import.file |->
                  IF NamedBy(named, import.file[i].value) = {}
                  THEN import.results[i] ELSE joined(import.file[i].value)]
  BY <1>1 DEF ResultsWith, joined
<1> HIDE DEF new
<1>5. \A i \in 1..Len(import.file) :
        /\ new[i] \in SUBSET Result
        /\ new[i] # import.results[i] => \A x \in new[i] : x.registration \in named
        /\ Cardinality(new[i]) <= 1
  BY <1>2, <1>3, <1>4
<1>6. new \in Seq(SUBSET Result) /\ Len(new) = Len(import.file)
  BY <1>1, <1>4, <1>5
<1> QED
  BY <1>4, <1>5, <1>6 DEF new

LEMMA JoinRegistrationsKeepsType ==
    ASSUME ExcelTypeOK, JoinRegistrationsAndImportRecords PROVE ExcelTypeOK'
<1>1. /\ import.pc = "transactions"
      /\ UNCHANGED <<storingVars, unchangedByImport>>
      /\ \/ import' = NoImport
         \/ \E winner \in Winners(import.named) :
               import' = [import EXCEPT
                 !.results = ResultsWith(import.named, winner), !.found = {}, !.named = {},
                 !.pc = IF LastConfig THEN "save" ELSE "registrations",
                 !.config = IF LastConfig THEN 1 ELSE @ + 1]
  BY DEF JoinRegistrationsAndImportRecords, JoinRegistrations
<1>2. CASE import' = NoImport
  BY <1>1, <1>2, ImportEndsType DEF unchangedByImport
<1>3. ASSUME NEW winner \in Winners(import.named),
             import' = [import EXCEPT
                 !.results = ResultsWith(import.named, winner), !.found = {}, !.named = {},
                 !.pc = IF LastConfig THEN "save" ELSE "registrations",
                 !.config = IF LastConfig THEN 1 ELSE @ + 1]
      PROVE  ExcelTypeOK'
  <2> DEFINE new == ResultsWith(import.named, winner)
             next == IF LastConfig THEN "save" ELSE "registrations"
             config == IF LastConfig THEN 1 ELSE import.config + 1
  <2>1. /\ import \in Import /\ import.payment \in Payments
        /\ import.named \in SUBSET Registrations /\ import.config \in DOMAIN Configs
        /\ import.saved \subseteq DOMAIN transactions
        /\ Len(import.file) <= MaxRows /\ import.file \in Seq(Row)
    BY <1>1 DEF ExcelTypeOK, ImportTypeOK, Import
  <2>2. config \in DOMAIN Configs
    BY <2>1, ConfigsExist DEF LastConfig
  <2>3. next \in {"save", "registrations"}
    OBVIOUS
  <2>4. /\ new \in Seq(SUBSET Result) /\ Len(new) = Len(import.file)
        /\ \A i \in DOMAIN import.file : Cardinality(new[i]) <= 1
    BY <2>1, ResultsOfJoin
  <2>5. import' = [import EXCEPT !.results = new, !.found = {}, !.named = {},
                                !.pc = next, !.config = config]
    BY <1>3
  <2> HIDE DEF new, next, config
  <2>6. /\ import' \in Import /\ import'.payment = import.payment
        /\ import'.file = import.file /\ import'.results = new
        /\ import'.named = {} /\ import'.saved = import.saved
    BY <2>1, <2>2, <2>3, <2>4, <2>5 DEF Import, ImportPc
  <2>7. StoringTypeOK' /\ PayoutTypeOK' /\ transactions' = transactions
    BY <1>1, StoringUnchanged, PayoutUnchanged
       DEF ExcelTypeOK, unchangedByImport, storingVars, storeVars
  <2>8. DOMAIN new = DOMAIN import.file
    BY <2>1, <2>4
  <2>9. \A i \in DOMAIN import'.results : Cardinality(import'.results[i]) <= 1
    BY <2>4, <2>6, <2>8
  <2>10. ImportTypeOK'
    BY <2>1, <2>4, <2>6, <2>7, <2>9 DEF ImportTypeOK
  <2> QED
    BY <2>7, <2>10 DEF ExcelTypeOK
<1> QED
  BY <1>1, <1>2, <1>3

LEMMA RowsOrdered ==
    ASSUME ExcelTypeOK, NEW c, NEW rows \in InOrder(RowsOf(c))
    PROVE  \E m \in Nat : rows \in [1..m -> RowsOf(c)]
<1>1. RowsOf(c) \subseteq 1..Len(import.results) /\ Len(import.results) \in Nat
  BY DEF ExcelTypeOK, ImportTypeOK, Import, RowsOf
<1>2. IsFiniteSet(1..Len(import.results))
  BY <1>1, FS_Interval
<1>3. IsFiniteSet(RowsOf(c))
  BY <1>1, <1>2, FS_Subset
<1>4. Cardinality(RowsOf(c)) \in Nat
  BY <1>3, FS_CardinalityType
<1> QED
  BY <1>4 DEF InOrder

LEMMA TransactionOfRow ==
    ASSUME ExcelTypeOK, import.pc # "idle", NEW c, NEW i \in RowsOf(c)
    PROVE  /\ TransactionOf(i) \in Transaction
           /\ TransactionOf(i).payment = import.payment
           /\ \E x \in import.results[i] : TransactionOf(i).registration = x.registration
<1> DEFINE x == CHOOSE x \in import.results[i] : TRUE
<1>1. /\ import.payment \in Payments /\ i \in DOMAIN import.results
      /\ import.results \in Seq(SUBSET Result)
  BY DEF ExcelTypeOK, ImportTypeOK, Import, RowsOf
<1>2. import.results[i] \in SUBSET Result
  BY <1>1
<1>3. x \in import.results[i]
  BY DEF RowsOf
<1>4. x \in Result
  BY <1>2, <1>3
<1> HIDE DEF x
<1>5. TransactionOf(i) = [registration |-> x.registration,
                          payment |-> import.payment, status |-> x.status]
  BY DEF TransactionOf, x
<1> QED
  BY <1>1, <1>3, <1>4, <1>5 DEF Transaction, TransactionStatus, Result

\* The transactions of the import go behind the others; each is of a row.
LEMMA SaveTransactionsAppends ==
    ASSUME ExcelTypeOK, SaveTransactions
    PROVE  /\ transactions' \in Seq(Transaction)
           /\ Len(transactions') \in Nat /\ Len(transactions) <= Len(transactions')
           /\ \A i \in 1..Len(transactions) : transactions'[i] = transactions[i]
           /\ \A i \in Len(transactions) + 1 .. Len(transactions') :
                \E row \in DOMAIN import.results : \E x \in import.results[row] :
                    /\ transactions'[i].registration = x.registration
                    /\ transactions'[i].payment = import.payment
           /\ import' = [import EXCEPT
                !.pc = "latest", !.saved = Len(transactions) + 1 .. Len(transactions')]
<1> DEFINE c == Configs[import.config]
<1>1. PICK rows \in InOrder(RowsOf(c)) :
        /\ import.pc = "save"
        /\ transactions' =
             transactions \o [n \in DOMAIN rows |-> TransactionOf(rows[n])]
        /\ import' = [import EXCEPT
             !.pc = "latest",
             !.saved = Len(transactions) + 1 .. Len(transactions')]
  BY DEF SaveTransactions
<1> HIDE DEF c
<1>2. PICK m \in Nat : rows \in [1..m -> RowsOf(c)]
  BY RowsOrdered
<1> DEFINE new == [n \in 1..m |-> TransactionOf(rows[n])]
<1>3. \A n \in 1..m : /\ new[n] \in Transaction
                      /\ new[n].payment = import.payment
                      /\ \E x \in import.results[rows[n]] :
                            new[n].registration = x.registration
  BY <1>1, <1>2, TransactionOfRow
<1>4. new \in Seq(Transaction) /\ Len(new) = m
  BY <1>3
<1>5. transactions' = transactions \o new
  BY <1>1, <1>2
<1> HIDE DEF new
<1>6. transactions \in Seq(Transaction) /\ Len(transactions) \in Nat
  BY TransactionsLength DEF ExcelTypeOK
<1>7. /\ transactions' \in Seq(Transaction)
      /\ Len(transactions') = Len(transactions) + m
      /\ \A i \in 1..Len(transactions) : transactions'[i] = transactions[i]
      /\ \A i \in Len(transactions) + 1 .. Len(transactions) + m :
            transactions'[i] = new[i - Len(transactions)]
  BY <1>4, <1>5, <1>6, ConcatProperties
<1>8. ASSUME NEW i \in Len(transactions) + 1 .. Len(transactions')
      PROVE  \E row \in DOMAIN import.results : \E x \in import.results[row] :
                /\ transactions'[i].registration = x.registration
                /\ transactions'[i].payment = import.payment
  <2>1. /\ i - Len(transactions) \in 1..m
        /\ transactions'[i] = new[i - Len(transactions)]
    BY <1>6, <1>7
  <2>2. rows[i - Len(transactions)] \in DOMAIN import.results
    BY <1>2, <2>1 DEF RowsOf
  <2> QED
    BY <1>3, <2>1, <2>2
<1>9. Len(transactions') \in Nat /\ Len(transactions) <= Len(transactions')
  BY <1>6, <1>7
<1>10. import' = [import EXCEPT
         !.pc = "latest", !.saved = Len(transactions) + 1 .. Len(transactions')]
  BY <1>1
<1> QED
  BY <1>7, <1>8, <1>9, <1>10

LEMMA SaveTransactionsKeepsType ==
    ASSUME ExcelTypeOK, SaveTransactions PROVE ExcelTypeOK'
<1>1. /\ transactions' \in Seq(Transaction)
      /\ Len(transactions') \in Nat /\ Len(transactions) <= Len(transactions')
      /\ import' = [import EXCEPT
            !.pc = "latest", !.saved = Len(transactions) + 1 .. Len(transactions')]
  BY SaveTransactionsAppends
<1>2. /\ UNCHANGED <<latestTransactions, registrations, storing, linked,
                     statusEvents, attributes, payout, inProgress, runs, imports>>
      /\ import.pc = "save"
  BY DEF SaveTransactions, unchangedByImport
<1>3. Len(transactions) \in Nat /\ DOMAIN transactions \subseteq DOMAIN transactions'
  BY <1>1, TransactionsLength DEF ExcelTypeOK
<1>4. \A k \in Key : latestTransactions'[k] \in 0..Len(transactions')
  BY <1>1, <1>2, <1>3 DEF ExcelTypeOK, StoringTypeOK, StoreTypeOK
<1>5. StoreTypeOK'
  BY <1>1, <1>2, <1>4 DEF ExcelTypeOK, StoringTypeOK, StoreTypeOK
<1>6. StoringTypeOK'
  BY <1>2, <1>3, <1>5 DEF ExcelTypeOK, StoringTypeOK
<1> DEFINE saved == Len(transactions) + 1 .. Len(transactions')
<1>7. saved \subseteq DOMAIN transactions' /\ saved \in SUBSET Nat
  BY <1>1, <1>3
<1> HIDE DEF saved
<1>8. import \in Import /\ import.payment \in Payments
      /\ import.named \subseteq import.found
  BY <1>2 DEF ExcelTypeOK, ImportTypeOK
<1>9. import' = [import EXCEPT !.pc = "latest", !.saved = saved]
  BY <1>1 DEF saved
<1>10. /\ import' \in Import /\ import'.payment = import.payment
       /\ import'.file = import.file /\ import'.results = import.results
       /\ import'.named \subseteq import'.found /\ import'.saved = saved
  BY <1>7, <1>8, <1>9 DEF Import, ImportPc
<1> QED
  BY <1>2, <1>6, <1>7, <1>8, <1>10, ImportStepKeepsType, PayoutUnchanged

LEMMA UpdateSavedLatestKeepsType ==
    ASSUME ExcelTypeOK, UpdateSavedLatest PROVE ExcelTypeOK'
<1>1. /\ UNCHANGED <<transactions, registrations, storing, linked, statusEvents,
                     attributes, payout, inProgress, runs, imports>>
      /\ import.pc = "latest"
  BY DEF UpdateSavedLatest, unchangedByImport
<1>2. PayoutTypeOK'
  BY <1>1, PayoutUnchanged
<1>3. /\ import \in Import /\ import.payment \in Payments
      /\ import.named \subseteq import.found /\ import.saved \subseteq DOMAIN transactions
  BY <1>1 DEF ExcelTypeOK, ImportTypeOK
<1>4. ASSUME NEW i \in import.saved, InsertOrUpdateFromTransaction(i),
             import' = [import EXCEPT !.saved = @ \ {i}]
      PROVE  ExcelTypeOK'
  <2>1. i \in 1..Len(transactions)
    BY <1>3, TransactionsLength DEF ExcelTypeOK
  <2>2. StoreTypeOK'
    BY <1>1, <1>4, <2>1, LatestKeepsType DEF ExcelTypeOK, StoringTypeOK, StoreTypeOK
  <2>3. StoringTypeOK'
    BY <1>1, <2>2 DEF ExcelTypeOK, StoringTypeOK
  <2>4. /\ import' \in Import /\ import'.payment = import.payment
        /\ import'.file = import.file /\ import'.results = import.results
        /\ import'.named \subseteq import'.found
        /\ import'.saved \subseteq import.saved
    BY <1>3, <1>4 DEF Import
  <2> QED
    BY <1>1, <1>2, <1>3, <2>3, <2>4, ImportStepKeepsType
<1>5. ASSUME UNCHANGED latestTransactions,
             import' = IF LastConfig
                       THEN NoImport
                       ELSE [import EXCEPT !.pc = "save", !.config = @ + 1]
      PROVE  ExcelTypeOK'
  <2>1. UNCHANGED storingVars
    BY <1>1, <1>5 DEF storingVars, storeVars
  <2>2. StoringTypeOK'
    BY <2>1, StoringUnchanged DEF ExcelTypeOK
  <2>3. CASE LastConfig
    BY <1>1, <1>5, <2>1, <2>3, ImportEndsType
  <2>4. CASE ~LastConfig
    <3>1. import.config + 1 \in DOMAIN Configs
      BY <1>3, <2>4, ConfigsExist DEF LastConfig, Import
    <3>2. /\ import' \in Import /\ import'.payment = import.payment
          /\ import'.file = import.file /\ import'.results = import.results
          /\ import'.named \subseteq import'.found
          /\ import'.saved = import.saved
      BY <1>3, <1>5, <2>4, <3>1 DEF Import, ImportPc
    <3> QED
      BY <1>1, <1>2, <1>3, <2>2, <3>2, ImportStepKeepsType
  <2> QED
    BY <2>3, <2>4
<1> QED
  BY <1>4, <1>5 DEF UpdateSavedLatest

LEMMA ExcelStepKeepsType ==
    ASSUME ExcelTypeOK, ExcelStep PROVE ExcelTypeOK'
<1>1. ASSUME NEW p \in Payments, PostPayment(p) \/ RetryPayment(p) PROVE ExcelTypeOK'
  BY <1>1, PaymentsStart, StartRunKeepsType
<1>2. ASSUME NEW p \in Payments, ImportReconciliation(p) PROVE ExcelTypeOK'
  BY <1>2, ImportReconciliationKeepsType
<1> QED
  BY <1>1, <1>2, StoreNextKeepsType, StoringStepKeepsExcelType,
     TransactionStoredKeepsType, SavePaymentFinishedKeepsType,
     GetRegistrationsKeepsType, JoinRegistrationsKeepsType,
     SaveTransactionsKeepsType, UpdateSavedLatestKeepsType DEF ExcelStep

LEMMA StopExcelKeepsType ==
    ASSUME ExcelTypeOK, StopExcel PROVE ExcelTypeOK'
<1>1. StoringTypeOK' /\ transactions' = transactions
  BY StopStoringKeepsType DEF StopExcel, ExcelTypeOK, storeVars
<1>2. PayoutTypeOK'
  BY DEF StopExcel, ExcelTypeOK, PayoutTypeOK, NoPayout
<1>3. (Len(import.file) = 0 /\ Len(import.results) = 0 /\ DOMAIN import.results = {})'
  BY NoImportType DEF StopExcel
<1>4. 0 <= MaxRows
  BY ExcelBoundsAssumption
<1>5. import' = NoImport
  BY DEF StopExcel
<1>6. ImportTypeOK'
  BY <1>3, <1>4, <1>5, NoImportType DEF ImportTypeOK
<1> QED
  BY <1>1, <1>2, <1>6 DEF ExcelTypeOK

-----------------------------------------------------------------------------
(* Types of the requests, and what a step of one does to it.               *)

LEMMA NoBulkType ==
    /\ NoBulk \in Bulk
    /\ NoBulk.pc = "idle" /\ NoBulk.to = "paused" /\ NoBulk.filter = {}
    /\ NoBulk.pages = 0 /\ NoBulk.page = {} /\ NoBulk.selected = {}
    /\ NoBulk.changed = {} /\ NoBulk.alone = FALSE
<1>1. (CHOOSE paging \in Pagings : TRUE) \in Pagings
  BY BulkBoundsAssumption
<1>2. "paused" \in RegistrationStatus
  BY DEF RegistrationStatus
<1>3. "idle" \in BulkPc
  BY DEF BulkPc
<1>4. [r \in Registrations |-> "paused"] \in [Registrations -> RegistrationStatus]
  BY <1>2
<1> QED
  BY <1>1, <1>2, <1>3, <1>4 DEF NoBulk, Bulk

LEMMA RequestFacts ==
    ASSUME TypeOK, NEW q \in Requests
    PROVE  /\ bulk[q] \in Bulk /\ bulk[q].pc \in BulkPc
           /\ bulk[q].to \in RegistrationStatus /\ bulk[q].pages \in Nat
           /\ bulk[q].paging \in Pagings /\ bulk[q].paging.size \in Nat \ {0}
           /\ bulk[q].filter \subseteq Registrations
           /\ bulk[q].page \subseteq Registrations
           /\ bulk[q].selected \subseteq Registrations
           /\ bulk[q].changed \subseteq Registrations
           /\ bulk[q].alone \in BOOLEAN
           /\ bulk[q].old \in [Registrations -> RegistrationStatus]
BY BulkBoundsAssumption DEF TypeOK, Bulk

\* The other requests stay as they are.
OnlyRequest(q) == \A other \in Requests \ {q} : bulk'[other] = bulk[other]

LEMMA RequestKeepsType ==
    ASSUME TypeOK, NEW q \in Requests, NEW new \in Bulk,
           bulk' = [bulk EXCEPT ![q] = new],
           ExcelTypeOK', numbers' \subseteq Registrations, numberRead' = numberRead,
           abandoned' \subseteq Registrations,
           changes' \in 0..MaxChanges, crashes' \in 0..MaxCrashes
    PROVE  TypeOK' /\ OnlyRequest(q) /\ bulk'[q] = new
BY DEF TypeOK, OnlyRequest

LEMMA ExcelStays ==
    TypeOK /\ UNCHANGED <<storingVars, excelVars>> => ExcelTypeOK'
BY ExcelUnchanged DEF TypeOK

\* What a request is about.
SameRequest(b, c) ==
    /\ c.to = b.to /\ c.paging = b.paging /\ c.filter = b.filter
    /\ c.selected = b.selected /\ c.alone = b.alone

\* A number of pages of one size that hold n registrations.
LEMMA PagesSuffice ==
    ASSUME NEW n \in Nat, NEW size \in Nat \ {0}
    PROVE  /\ (n + size - 1) \div size \in Nat
           /\ n <= ((n + size - 1) \div size) * size
<1> DEFINE m == n + size - 1
           d == m \div size
<1>1. m \in Nat /\ size \in Int /\ size > 0
  OBVIOUS
<1>2. d \in Int /\ m = size * d + (m % size) /\ m % size \in 0..(size - 1)
  BY <1>1, Z3
<1> QED
  BY <1>1, <1>2

LEMMA ApplicableType ==
    ASSUME NEW filter, filter \subseteq Registrations, NEW to
    PROVE  /\ Applicable(filter, to) \subseteq filter
           /\ Cardinality(Applicable(filter, to)) \in Nat
           /\ IsFiniteSet(Applicable(filter, to))
<1>1. Applicable(filter, to) \subseteq Registrations
  BY DEF Applicable
<1> QED
  BY <1>1, RegistrationsFinite DEF Applicable

LEMMA StartBulkStep ==
    ASSUME TypeOK, NEW q \in Requests, NEW to \in Targets, StartBulk(q, to)
    PROVE  /\ TypeOK' /\ OnlyRequest(q)
           /\ bulk[q].pc = "idle" /\ bulk'[q].pc = "read"
           /\ bulk'[q].selected = Applicable(bulk'[q].filter, bulk'[q].to)
           /\ Cardinality(bulk'[q].selected) <= bulk'[q].pages * bulk'[q].paging.size
           /\ UNCHANGED <<registrations, attributes, numbers, abandoned>>
<1>1. PICK filter \in SUBSET Registrations \ {{}}, paging \in Pagings :
         LET selected == Applicable(filter, to)
         IN  bulk' = [bulk EXCEPT ![q] = [NoBulk EXCEPT
               !.pc = "read", !.to = to, !.paging = paging,
               !.filter = filter, !.selected = selected, !.alone = TRUE,
               !.pages = (Cardinality(selected) + paging.size - 1) \div paging.size]]
  BY DEF StartBulk
<1> DEFINE selected == Applicable(filter, to)
           pages == (Cardinality(selected) + paging.size - 1) \div paging.size
           new == [NoBulk EXCEPT !.pc = "read", !.to = to, !.paging = paging,
                     !.filter = filter, !.selected = selected,
                     !.alone = TRUE, !.pages = pages]
<1>2. selected \subseteq filter /\ Cardinality(selected) \in Nat
  BY ApplicableType
<1>3. paging.size \in Nat \ {0} /\ to \in RegistrationStatus
  BY BulkBoundsAssumption, TargetsAssumption
<1>4. pages \in Nat /\ Cardinality(selected) <= pages * paging.size
  BY <1>2, <1>3, PagesSuffice
<1>5. bulk' = [bulk EXCEPT ![q] = new]
  BY <1>1
<1>6. /\ UNCHANGED <<storingVars, excelVars, numbers, numberRead, abandoned, crashes>>
      /\ changes' = changes + 1 /\ changes < MaxChanges /\ bulk[q].pc = "idle"
  BY DEF StartBulk
<1> HIDE DEF pages
<1>7. /\ new \in Bulk /\ new.pc = "read" /\ new.to = to /\ new.filter = filter
      /\ new.selected = selected /\ new.paging = paging /\ new.pages = pages
  BY <1>2, <1>3, <1>4, NoBulkType DEF Bulk, BulkPc
<1> HIDE DEF new
<1>8. changes' \in 0..MaxChanges /\ crashes' \in 0..MaxCrashes
      /\ numbers' \subseteq Registrations /\ abandoned' \subseteq Registrations
      /\ numberRead' = numberRead
      /\ ExcelTypeOK'
  BY <1>6, ExcelStays, BulkBoundsAssumption DEF TypeOK
<1>9. TypeOK' /\ OnlyRequest(q) /\ bulk'[q] = new
  BY <1>5, <1>7, <1>8, RequestKeepsType
<1>10. UNCHANGED <<registrations, attributes, numbers, abandoned>>
  BY <1>6 DEF storingVars, storeVars, excelVars
<1>11. selected = Applicable(filter, to)
  OBVIOUS
<1> HIDE DEF selected
<1> QED
  BY <1>4, <1>6, <1>7, <1>9, <1>10, <1>11

LEMMA PageRead ==
    ASSUME NEW b \in Bulk, NEW page \in SUBSET Registrations, NEW pages \in Nat,
           NEW old \in [Registrations -> RegistrationStatus]
    PROVE  LET new == [b EXCEPT !.pc = "update", !.page = page, !.pages = pages,
                                !.old = old]
           IN  /\ new \in Bulk /\ new.pc = "update" /\ new.page = page
               /\ new.pages = pages /\ new.changed = b.changed
               /\ SameRequest(b, new)
<1> DEFINE new == [b EXCEPT !.pc = "update", !.page = page, !.pages = pages, !.old = old]
<1>1. "update" \in BulkPc
  BY DEF BulkPc
<1>2. new \in Bulk
  BY <1>1 DEF Bulk
<1>3. /\ new.pc = "update" /\ new.page = page
      /\ new.pages = pages /\ new.changed = b.changed
  BY DEF Bulk
<1>4. SameRequest(b, new)
  BY DEF Bulk, SameRequest
<1> QED
  BY <1>2, <1>3, <1>4

LEMMA ReadPageStep ==
    ASSUME TypeOK, NEW q \in Requests, ReadPage(q)
    PROVE  /\ TypeOK' /\ OnlyRequest(q) /\ SameRequest(bulk[q], bulk'[q])
           /\ bulk[q].pc = "read" /\ bulk'[q].pc = "update"
           /\ bulk'[q].page \in
                FirstPages(Applicable(bulk[q].filter, bulk[q].to), bulk[q].paging)
           /\ bulk[q].pages > 0 /\ bulk'[q].pages = bulk[q].pages - 1
           /\ bulk'[q].changed = bulk[q].changed
           /\ UNCHANGED <<registrations, attributes, numbers, abandoned>>
<1> DEFINE applicable == Applicable(bulk[q].filter, bulk[q].to)
           old(chunk) == [r \in Registrations |->
                IF r \in chunk THEN registrations[r].status ELSE "paused"]
<1>1. PICK chunk \in FirstPages(applicable, bulk[q].paging) :
         bulk' = [bulk EXCEPT
           ![q].pc = "update", ![q].page = chunk, ![q].pages = @ - 1,
           ![q].old = [r \in Registrations |->
                IF r \in chunk THEN registrations[r].status ELSE "paused"]]
  BY DEF ReadPage, ReadPageOf
<1> DEFINE new == [bulk[q] EXCEPT !.pc = "update", !.page = chunk,
                     !.pages = bulk[q].pages - 1, !.old = old(chunk)]
<1>2. bulk' = [bulk EXCEPT ![q] = new]
  BY <1>1 DEF TypeOK
<1>3. /\ bulk[q].pc = "read" /\ bulk[q].pages > 0
      /\ UNCHANGED <<storingVars, excelVars, bulkOnly>>
  BY DEF ReadPage, ReadPageOf
<1>4. chunk \subseteq Registrations
  BY <1>1, RequestFacts, ApplicableType DEF FirstPages
<1>5. old(chunk) \in [Registrations -> RegistrationStatus]
  <2>1. "paused" \in RegistrationStatus
    BY DEF RegistrationStatus
  <2>2. \A r \in Registrations : registrations[r].status \in RegistrationStatus
    BY DEF TypeOK, ExcelTypeOK, StoringTypeOK, StoreTypeOK
  <2> QED
    BY <2>1, <2>2
<1> HIDE DEF old
<1>9. bulk[q].pages - 1 \in Nat
  BY <1>3, RequestFacts
<1>6. /\ new \in Bulk /\ new.pc = "update" /\ new.page = chunk
      /\ new.pages = bulk[q].pages - 1 /\ new.changed = bulk[q].changed
      /\ SameRequest(bulk[q], new)
  BY <1>4, <1>5, <1>9, RequestFacts, PageRead
<1> HIDE DEF new
<1>7. TypeOK' /\ OnlyRequest(q) /\ bulk'[q] = new
  BY <1>2, <1>3, <1>6, ExcelStays, RequestKeepsType DEF TypeOK, bulkOnly
<1>8. UNCHANGED <<registrations, attributes, numbers, abandoned>>
  BY <1>3 DEF storingVars, storeVars, excelVars, bulkOnly
<1> QED
  BY <1>1, <1>3, <1>6, <1>7, <1>8

\* A change of registrations leaves the types of the payments alone.
LEMMA RegistrationsChangeType ==
    ASSUME ExcelTypeOK,
           registrations' \in
             [Registrations -> [status : RegistrationStatus, paymentCount : Nat]],
           UNCHANGED <<transactions, latestTransactions, storing, linked,
                       statusEvents, excelVars>>
    PROVE  ExcelTypeOK'
<1>1. StoreTypeOK'
  BY DEF ExcelTypeOK, StoringTypeOK, StoreTypeOK
<1>2. StoringTypeOK'
  BY <1>1 DEF ExcelTypeOK, StoringTypeOK
<1> QED
  BY <1>2, TransactionsLength, PayoutUnchanged, StoringKeepsExcelType
     DEF excelVars, ExcelTypeOK

LEMMA PageUpdated ==
    ASSUME NEW b \in Bulk
    PROVE  LET new == [b EXCEPT !.pc = "log", !.changed = @ \cup b.page]
           IN  /\ new \in Bulk /\ new.pc = "log" /\ new.page = b.page
               /\ new.pages = b.pages /\ new.changed = b.changed \cup b.page
               /\ SameRequest(b, new)
<1> DEFINE changed == b.changed \cup b.page
           new == [b EXCEPT !.pc = "log", !.changed = changed]
<1>1. "log" \in BulkPc /\ changed \in SUBSET Registrations
  BY DEF BulkPc, Bulk
<1> HIDE DEF changed
<1>2. new \in Bulk
  BY <1>1 DEF Bulk
<1>3. new.pc = "log" /\ new.page = b.page /\ new.pages = b.pages /\ new.changed = changed
  BY DEF Bulk
<1>4. SameRequest(b, new)
  BY DEF Bulk, SameRequest
<1>5. new = [b EXCEPT !.pc = "log", !.changed = @ \cup b.page]
  BY DEF changed
<1> HIDE DEF new
<1> QED
  BY <1>2, <1>3, <1>4, <1>5 DEF changed

LEMMA AloneChanged ==
    ASSUME NEW b \in Bulk, NEW alone \in BOOLEAN
    PROVE  LET new == [b EXCEPT !.alone = alone]
           IN  /\ new \in Bulk /\ new.pc = b.pc /\ new.page = b.page
               /\ new.to = b.to /\ new.filter = b.filter /\ new.paging = b.paging
               /\ new.pages = b.pages /\ new.selected = b.selected
               /\ new.changed = b.changed /\ (new.alone <=> alone)
<1> DEFINE new == [b EXCEPT !.alone = alone]
<1>1. new \in Bulk
  BY DEF Bulk
<1>2. /\ new.pc = b.pc /\ new.page = b.page
      /\ new.to = b.to /\ new.filter = b.filter /\ new.paging = b.paging
      /\ new.pages = b.pages /\ new.selected = b.selected
      /\ new.changed = b.changed
  BY DEF Bulk
<1>3. new.alone = alone
  BY DEF Bulk
<1> QED
  BY <1>1, <1>2, <1>3

\* The statuses of the page change, and nothing else of the registrations.
\* Every other request has had a change beside it.
LEMMA UpdateStatusStep ==
    ASSUME TypeOK, NEW q \in Requests, UpdateStatus(q)
    PROVE  /\ TypeOK' /\ SameRequest(bulk[q], bulk'[q])
           /\ bulk[q].pc = "update" /\ bulk'[q].pc = "log"
           /\ bulk'[q].page = bulk[q].page /\ bulk'[q].pages = bulk[q].pages
           /\ bulk'[q].changed = bulk[q].changed \cup bulk[q].page
           /\ \A other \in Requests \ {q} :
                /\ bulk'[other].pc = bulk[other].pc
                /\ bulk'[other].page = bulk[other].page
                /\ bulk'[other].to = bulk[other].to
                /\ ~bulk'[other].alone
           /\ \A r \in Registrations :
                /\ registrations'[r].paymentCount = registrations[r].paymentCount
                /\ registrations'[r].status =
                     IF r \in bulk[q].page THEN bulk[q].to ELSE registrations[r].status
           /\ UNCHANGED <<attributes, numbers, abandoned>>
<1> DEFINE new == [bulk[q] EXCEPT !.pc = "log", !.changed = @ \cup bulk[q].page]
<1>1. /\ bulk[q].pc = "update"
      /\ registrations' = [r \in Registrations |->
           IF r \in bulk[q].page
           THEN [registrations[r] EXCEPT !.status = bulk[q].to]
           ELSE registrations[r]]
      /\ bulk' = [other \in Requests |->
           IF other = q THEN new ELSE [bulk[other] EXCEPT !.alone = FALSE]]
      /\ UNCHANGED <<transactions, latestTransactions, storing, linked,
                     statusEvents, excelVars, bulkOnly>>
  BY DEF UpdateStatus
<1>2. /\ new \in Bulk /\ new.pc = "log" /\ new.page = bulk[q].page
      /\ new.pages = bulk[q].pages /\ new.changed = bulk[q].changed \cup bulk[q].page
      /\ SameRequest(bulk[q], new)
  BY RequestFacts, PageUpdated
<1> HIDE DEF new
<1>3. bulk'[q] = new
  BY <1>1
<1>4. ASSUME NEW other \in Requests \ {q}
      PROVE  /\ bulk'[other] \in Bulk
             /\ bulk'[other].pc = bulk[other].pc /\ bulk'[other].page = bulk[other].page
             /\ bulk'[other].to = bulk[other].to /\ ~bulk'[other].alone
  <2>1. bulk'[other] = [bulk[other] EXCEPT !.alone = FALSE]
    BY <1>1, <1>4
  <2>2. bulk[other] \in Bulk /\ FALSE \in BOOLEAN
    BY RequestFacts
  <2> DEFINE after == [bulk[other] EXCEPT !.alone = FALSE]
  <2>3. /\ after \in Bulk /\ after.pc = bulk[other].pc
        /\ after.page = bulk[other].page /\ after.to = bulk[other].to
        /\ (after.alone <=> FALSE)
    BY <2>2, AloneChanged, Zenon
  <2> HIDE DEF after
  <2>4. bulk'[other] = after
    BY <2>1 DEF after
  <2> QED
    BY <2>3, <2>4, Zenon
<1>5. bulk' \in [Requests -> Bulk]
  <2>1. \A other \in Requests : bulk'[other] \in Bulk
    BY <1>2, <1>3, <1>4
  <2> DEFINE after(other) ==
        IF other = q THEN new ELSE [bulk[other] EXCEPT !.alone = FALSE]
  <2>2. bulk' = [other \in Requests |-> after(other)]
    BY <1>1
  <2>3. \A other \in Requests : after(other) = bulk'[other]
    BY <2>2
  <2> HIDE DEF after
  <2> QED
    BY <2>1, <2>2, <2>3
<1>6. ASSUME NEW r \in Registrations
      PROVE  /\ registrations'[r] \in [status : RegistrationStatus, paymentCount : Nat]
             /\ registrations'[r].paymentCount = registrations[r].paymentCount
             /\ registrations'[r].status =
                   IF r \in bulk[q].page THEN bulk[q].to ELSE registrations[r].status
  <2>1. registrations[r] \in [status : RegistrationStatus, paymentCount : Nat]
    BY DEF TypeOK, ExcelTypeOK, StoringTypeOK, StoreTypeOK
  <2>2. bulk[q].to \in RegistrationStatus
    BY RequestFacts
  <2>3. registrations'[r] = IF r \in bulk[q].page
           THEN [registrations[r] EXCEPT !.status = bulk[q].to]
           ELSE registrations[r]
    BY <1>1
  <2> QED
    BY <2>1, <2>2, <2>3
<1>7. registrations' \in
        [Registrations -> [status : RegistrationStatus, paymentCount : Nat]]
  BY <1>1, <1>6
<1>8. ExcelTypeOK'
  BY <1>1, <1>7, RegistrationsChangeType DEF TypeOK
<1>9. TypeOK'
  BY <1>1, <1>5, <1>8 DEF TypeOK, bulkOnly
<1>10. UNCHANGED <<attributes, numbers, abandoned>>
  BY <1>1 DEF excelVars, bulkOnly
<1> QED
  BY <1>1, <1>2, <1>3, <1>4, <1>6, <1>9, <1>10

LEMMA PageLeft ==
    ASSUME NEW b \in Bulk
    PROVE  /\ WithoutPage(b) \in Bulk /\ WithoutPage(b).pc = "read"
           /\ WithoutPage(b).pages = b.pages /\ WithoutPage(b).changed = b.changed
           /\ SameRequest(b, WithoutPage(b))
<1> DEFINE page == NoBulk.page
           old == NoBulk.old
           new == [b EXCEPT !.pc = "read", !.page = page, !.old = old]
<1>1. /\ "read" \in BulkPc /\ page \in SUBSET Registrations
      /\ old \in [Registrations -> RegistrationStatus]
  BY NoBulkType DEF BulkPc, Bulk
<1>2. WithoutPage(b) = new
  BY DEF WithoutPage
<1> HIDE DEF page, old
<1>3. new \in Bulk
  BY <1>1 DEF Bulk
<1>4. new.pc = "read" /\ new.pages = b.pages /\ new.changed = b.changed
  BY DEF Bulk
<1>5. SameRequest(b, new)
  BY DEF Bulk, SameRequest
<1> QED
  BY <1>2, <1>3, <1>4, <1>5

LEMMA PageLogged ==
    ASSUME NEW b \in Bulk, NEW pc \in BulkPc
    PROVE  LET new == [b EXCEPT !.pc = pc]
           IN  /\ new \in Bulk /\ new.pc = pc /\ new.page = b.page
               /\ new.pages = b.pages /\ new.changed = b.changed
               /\ SameRequest(b, new)
<1> DEFINE new == [b EXCEPT !.pc = pc]
<1>1. new \in Bulk
  BY DEF Bulk
<1>2. /\ new.pc = pc /\ new.page = b.page
      /\ new.pages = b.pages /\ new.changed = b.changed
  BY DEF Bulk
<1>3. SameRequest(b, new)
  BY DEF Bulk, SameRequest
<1> QED
  BY <1>1, <1>2, <1>3

\* The events of a page go behind the others.
LEMMA EventsLogged ==
    ASSUME TypeOK, NEW q \in Requests,
           NEW logged, logged \subseteq bulk[q].page, NEW order \in InOrder(logged)
    PROVE  statusEvents \o
             [i \in DOMAIN order |->
                [registration |-> order[i], from |-> bulk[q].old[order[i]],
                 to |-> registrations[order[i]].status]] \in Seq(StatusEvent)
<1> DEFINE event(r) == [registration |-> r, from |-> bulk[q].old[r],
                        to |-> registrations[r].status]
           new == [i \in DOMAIN order |-> event(order[i])]
<1>1. logged \subseteq Registrations
  BY RequestFacts
<1>2. \A r \in Registrations : event(r) \in StatusEvent
  <2>1. \A r \in Registrations : registrations[r].status \in RegistrationStatus
    BY DEF TypeOK, ExcelTypeOK, StoringTypeOK, StoreTypeOK
  <2>2. \A r \in Registrations : bulk[q].old[r] \in RegistrationStatus
    BY RequestFacts
  <2> QED
    BY <2>1, <2>2 DEF StatusEvent
<1>3. PICK m \in Nat : order \in [1..m -> logged]
  BY <1>1, RegistrationsFinite DEF InOrder
<1> HIDE DEF event
<1>4. new = [i \in 1..m |-> event(order[i])]
  BY <1>3
<1>5. \A i \in 1..m : event(order[i]) \in StatusEvent
  BY <1>1, <1>2, <1>3
<1>6. new \in Seq(StatusEvent)
  BY <1>4, <1>5
<1>7. statusEvents \in Seq(StatusEvent)
  BY DEF TypeOK, ExcelTypeOK, StoringTypeOK
<1> HIDE DEF new
<1>8. statusEvents \o new \in Seq(StatusEvent)
  BY <1>6, <1>7, ConcatProperties
<1> QED
  BY <1>8 DEF new, event

\* Events are logged, or the request ends there and leaves its page behind.
LEMMA LogStatusStep ==
    ASSUME TypeOK, NEW q \in Requests, LogStatus(q)
    PROVE  /\ TypeOK' /\ OnlyRequest(q) /\ bulk[q].pc = "log"
           /\ \/ /\ bulk'[q].pc = IF bulk[q].to = "deleted" THEN "attributes" ELSE "read"
                 /\ SameRequest(bulk[q], bulk'[q])
                 /\ bulk'[q].pages = bulk[q].pages /\ bulk'[q].changed = bulk[q].changed
                 /\ bulk[q].to = "deleted" => bulk'[q].page = bulk[q].page
                 /\ abandoned' = abandoned
              \/ /\ bulk'[q].pc = "idle"
                 /\ abandoned' = abandoned \cup LeavesBehind(q)
           /\ UNCHANGED <<registrations, attributes, numbers>>
<1> DEFINE logged == {r \in bulk[q].page : registrations[r].status # bulk[q].old[r]}
           event(r) == [registration |-> r, from |-> bulk[q].old[r],
                        to |-> registrations[r].status]
<1>1. /\ bulk[q].pc = "log"
      /\ UNCHANGED <<storeVars, storing, linked, excelVars, numbers, numberRead,
                     changes, crashes>>
      /\ UNCHANGED <<registrations, attributes, numbers>>
  BY DEF LogStatus, storeVars, excelVars
<1>2. ASSUME statusEvents' \in Seq(StatusEvent) PROVE ExcelTypeOK'
  <2>1. StoringTypeOK'
    BY <1>1, <1>2 DEF TypeOK, ExcelTypeOK, StoringTypeOK, StoreTypeOK, storeVars
  <2> QED
    BY <1>1, <2>1, TransactionsLength, PayoutUnchanged, StoringKeepsExcelType
       DEF excelVars, TypeOK, ExcelTypeOK, storeVars
<1>3. /\ changes' \in 0..MaxChanges /\ crashes' \in 0..MaxCrashes
      /\ numbers' \subseteq Registrations /\ abandoned \subseteq Registrations
      /\ numberRead' = numberRead
  BY <1>1 DEF TypeOK
<1>4. ASSUME \E order \in InOrder(logged) :
               statusEvents' = statusEvents \o [i \in DOMAIN order |-> event(order[i])],
             bulk' = [bulk EXCEPT
               ![q] = IF bulk[q].to = "deleted"
                      THEN [@ EXCEPT !.pc = "attributes"]
                      ELSE WithoutPage(@)],
             UNCHANGED abandoned
      PROVE  /\ TypeOK' /\ OnlyRequest(q)
             /\ bulk'[q].pc = IF bulk[q].to = "deleted" THEN "attributes" ELSE "read"
             /\ SameRequest(bulk[q], bulk'[q])
             /\ bulk'[q].pages = bulk[q].pages /\ bulk'[q].changed = bulk[q].changed
             /\ bulk[q].to = "deleted" => bulk'[q].page = bulk[q].page
  <2>1. ExcelTypeOK'
    BY <1>2, <1>4, EventsLogged
  <2> DEFINE new == IF bulk[q].to = "deleted"
                    THEN [bulk[q] EXCEPT !.pc = "attributes"]
                    ELSE WithoutPage(bulk[q])
  <2>2. bulk' = [bulk EXCEPT ![q] = new]
    BY <1>4 DEF TypeOK
  <2>3. /\ new \in Bulk /\ SameRequest(bulk[q], new)
        /\ new.pc = IF bulk[q].to = "deleted" THEN "attributes" ELSE "read"
        /\ new.pages = bulk[q].pages /\ new.changed = bulk[q].changed
        /\ bulk[q].to = "deleted" => new.page = bulk[q].page
    <3>1. CASE bulk[q].to = "deleted"
      <4>1. "attributes" \in BulkPc
        BY DEF BulkPc
      <4> QED
        BY <3>1, <4>1, RequestFacts, PageLogged
    <3>2. CASE bulk[q].to # "deleted"
      BY <3>2, RequestFacts, PageLeft
    <3> QED
      BY <3>1, <3>2
  <2> HIDE DEF new
  <2>4. TypeOK' /\ OnlyRequest(q) /\ bulk'[q] = new
    BY <1>3, <1>4, <2>1, <2>2, <2>3, RequestKeepsType
  <2> QED
    BY <2>3, <2>4
<1>5. ASSUME bulk' = [bulk EXCEPT ![q] = NoBulk], UNCHANGED statusEvents,
             abandoned' = abandoned \cup LeavesBehind(q)
      PROVE  TypeOK' /\ OnlyRequest(q) /\ bulk'[q].pc = "idle"
  <2>1. ExcelTypeOK'
    BY <1>2, <1>5 DEF TypeOK, ExcelTypeOK, StoringTypeOK
  <2>2. abandoned' \subseteq Registrations
    BY <1>3, <1>5, RequestFacts DEF LeavesBehind
  <2> QED
    BY <1>3, <1>5, <2>1, <2>2, NoBulkType, RequestKeepsType
<1>6. \/ /\ \E order \in InOrder(logged) :
               statusEvents' = statusEvents \o [i \in DOMAIN order |-> event(order[i])]
         /\ bulk' = [bulk EXCEPT
               ![q] = IF bulk[q].to = "deleted"
                      THEN [@ EXCEPT !.pc = "attributes"]
                      ELSE WithoutPage(@)]
         /\ UNCHANGED abandoned
      \/ /\ bulk' = [bulk EXCEPT ![q] = NoBulk]
         /\ abandoned' = abandoned \cup LeavesBehind(q)
         /\ UNCHANGED statusEvents
  BY DEF LogStatus
<1> HIDE DEF logged, event
<1> QED
  BY <1>1, <1>4, <1>5, <1>6

LEMMA DeleteAttributesStep ==
    ASSUME TypeOK, NEW q \in Requests, DeleteAttributes(q)
    PROVE  /\ TypeOK' /\ OnlyRequest(q) /\ SameRequest(bulk[q], bulk'[q])
           /\ bulk[q].pc = "attributes" /\ bulk'[q].pc = "numbers"
           /\ bulk'[q].page = bulk[q].page
           /\ bulk'[q].pages = bulk[q].pages /\ bulk'[q].changed = bulk[q].changed
           /\ attributes' = attributes \ bulk[q].page
           /\ UNCHANGED <<registrations, numbers, abandoned>>
<1> DEFINE new == [bulk[q] EXCEPT !.pc = "numbers"]
<1>1. /\ bulk[q].pc = "attributes" /\ attributes' = attributes \ bulk[q].page
      /\ bulk' = [bulk EXCEPT ![q] = new]
      /\ UNCHANGED <<storingVars, payout, inProgress, import, runs, imports, bulkOnly>>
  BY DEF DeleteAttributes, DeleteAttributesOf, TypeOK
<1>2. /\ new \in Bulk /\ new.pc = "numbers" /\ SameRequest(bulk[q], new)
      /\ new.page = bulk[q].page
      /\ new.pages = bulk[q].pages /\ new.changed = bulk[q].changed
  <2>1. "numbers" \in BulkPc
    BY DEF BulkPc
  <2> QED
    BY <2>1, RequestFacts, PageLogged
<1> HIDE DEF new
<1>3. PayoutTypeOK'
  BY <1>1 DEF TypeOK, ExcelTypeOK, PayoutTypeOK
<1>4. StoringTypeOK' /\ Len(transactions) <= Len(transactions')
  BY <1>1, StoringUnchanged, TransactionsLength
     DEF TypeOK, ExcelTypeOK, storingVars, storeVars
<1>5. ExcelTypeOK'
  BY <1>1, <1>3, <1>4, StoringKeepsExcelType DEF TypeOK
<1>6. TypeOK' /\ OnlyRequest(q) /\ bulk'[q] = new
  BY <1>1, <1>2, <1>5, RequestKeepsType DEF TypeOK, bulkOnly
<1>7. UNCHANGED <<registrations, numbers, abandoned>>
  BY <1>1 DEF storingVars, storeVars, bulkOnly
<1> QED
  BY <1>1, <1>2, <1>6, <1>7

LEMMA DeleteNumbersStep ==
    ASSUME TypeOK, NEW q \in Requests, DeleteNumbers(q)
    PROVE  /\ TypeOK' /\ OnlyRequest(q) /\ SameRequest(bulk[q], bulk'[q])
           /\ bulk[q].pc = "numbers" /\ bulk'[q].pc = "read"
           /\ bulk'[q].pages = bulk[q].pages /\ bulk'[q].changed = bulk[q].changed
           /\ numbers' = numbers \ bulk[q].page
           /\ UNCHANGED <<registrations, attributes, abandoned>>
<1> DEFINE new == WithoutPage(bulk[q])
<1>1. /\ bulk[q].pc = "numbers" /\ numbers' = numbers \ bulk[q].page
      /\ bulk' = [bulk EXCEPT ![q] = new]
      /\ UNCHANGED <<storingVars, excelVars, numberRead, abandoned, changes, crashes>>
  BY DEF DeleteNumbers, TypeOK
<1>2. /\ new \in Bulk /\ new.pc = "read" /\ SameRequest(bulk[q], new)
      /\ new.pages = bulk[q].pages /\ new.changed = bulk[q].changed
  BY RequestFacts, PageLeft
<1> HIDE DEF new
<1>3. ExcelTypeOK' /\ numbers' \subseteq Registrations
  BY <1>1, ExcelStays DEF TypeOK
<1>4. TypeOK' /\ OnlyRequest(q) /\ bulk'[q] = new
  BY <1>1, <1>2, <1>3, RequestKeepsType DEF TypeOK
<1>5. UNCHANGED <<registrations, attributes, abandoned>>
  BY <1>1 DEF storingVars, storeVars, excelVars
<1> QED
  BY <1>1, <1>2, <1>4, <1>5

LEMMA FinishBulkStep ==
    ASSUME TypeOK, NEW q \in Requests, FinishBulk(q)
    PROVE  /\ TypeOK' /\ OnlyRequest(q)
           /\ bulk[q].pc = "read" /\ bulk'[q].pc = "idle"
           /\ UNCHANGED <<registrations, attributes, numbers, abandoned>>
<1>1. /\ bulk[q].pc = "read" /\ bulk' = [bulk EXCEPT ![q] = NoBulk]
      /\ UNCHANGED <<storingVars, excelVars, bulkOnly>>
  BY DEF FinishBulk
<1>2. TypeOK' /\ OnlyRequest(q) /\ bulk'[q] = NoBulk
  BY <1>1, ExcelStays, NoBulkType, RequestKeepsType DEF TypeOK, bulkOnly
<1>3. UNCHANGED <<registrations, attributes, numbers, abandoned>>
  BY <1>1 DEF storingVars, storeVars, excelVars, bulkOnly
<1> QED
  BY <1>1, <1>2, <1>3, NoBulkType

LEMMA CrashStep ==
    ASSUME TypeOK, Crash
    PROVE  /\ TypeOK' /\ crashes' = crashes + 1
           /\ \A q \in Requests : bulk'[q].pc = "idle"
           /\ abandoned' = abandoned \cup UNION {LeavesBehind(q) : q \in Requests}
           /\ UNCHANGED <<registrations, attributes, numbers>>
<1>1. /\ crashes < MaxCrashes /\ crashes' = crashes + 1 /\ StopExcel
      /\ bulk' = [q \in Requests |-> NoBulk]
      /\ abandoned' = abandoned \cup UNION {LeavesBehind(q) : q \in Requests}
      /\ numberRead' = FALSE /\ UNCHANGED <<numbers, changes>>
  BY DEF Crash
<1>2. ExcelTypeOK'
  BY <1>1, StopExcelKeepsType DEF TypeOK
<1>3. bulk' \in [Requests -> Bulk]
  BY <1>1, NoBulkType
<1>4. \A q \in Requests : LeavesBehind(q) \subseteq Registrations
  BY RequestFacts DEF LeavesBehind
<1>5. abandoned' \subseteq Registrations
  BY <1>1, <1>4 DEF TypeOK
<1>6. crashes' \in 0..MaxCrashes
  BY <1>1, BulkBoundsAssumption DEF TypeOK
<1>7. TypeOK'
  BY <1>1, <1>2, <1>3, <1>5, <1>6 DEF TypeOK
<1>8. UNCHANGED <<registrations, attributes, numbers>>
  BY <1>1 DEF StopExcel, storeVars
<1> QED
  BY <1>1, <1>7, <1>8, NoBulkType

\* A step of a payment or an import: a request notices whether it changed a
\* registration.
LEMMA PaymentStepOf ==
    ASSUME TypeOK, PaymentStep
    PROVE  /\ TypeOK'
           /\ \A q \in Requests :
                /\ bulk'[q].pc = bulk[q].pc /\ bulk'[q].page = bulk[q].page
                /\ bulk'[q].to = bulk[q].to /\ bulk'[q].filter = bulk[q].filter
                /\ bulk'[q].paging = bulk[q].paging /\ bulk'[q].pages = bulk[q].pages
                /\ bulk'[q].selected = bulk[q].selected
                /\ bulk'[q].changed = bulk[q].changed
                /\ bulk'[q].alone => bulk[q].alone /\ registrations' = registrations
           /\ UNCHANGED <<abandoned, changes, crashes>>
<1>1. ExcelTypeOK' /\ UNCHANGED <<abandoned, changes, crashes>>
  BY ExcelStepKeepsType DEF PaymentStep, TypeOK
<1>7. numbers' \subseteq Registrations
  <2>1. storing[Payer].pc = "complete" => storing[Payer].key[1] \in Registrations
    BY PayerStores, StorerFacts DEF TypeOK, ExcelTypeOK
  <2> QED
    BY <2>1 DEF PaymentStep, SaveNumber, TypeOK
<1>8. numberRead' \in BOOLEAN
  BY DEF PaymentStep, ReadNumber, TypeOK
<1>2. PICK same \in BOOLEAN : same <=> registrations' = registrations
  OBVIOUS
<1> DEFINE alone(q) == bulk[q].alone /\ registrations' = registrations
           after(q) == [bulk[q] EXCEPT !.alone = alone(q)]
<1>3. bulk' = [q \in Requests |-> after(q)]
  BY DEF PaymentStep, TypeOK, Bulk
<1>4. ASSUME NEW q \in Requests
      PROVE  /\ bulk'[q] \in Bulk /\ bulk'[q].pc = bulk[q].pc
             /\ bulk'[q].page = bulk[q].page /\ bulk'[q].to = bulk[q].to
             /\ bulk'[q].filter = bulk[q].filter /\ bulk'[q].paging = bulk[q].paging
             /\ bulk'[q].pages = bulk[q].pages /\ bulk'[q].selected = bulk[q].selected
             /\ bulk'[q].changed = bulk[q].changed
             /\ bulk'[q].alone => bulk[q].alone /\ registrations' = registrations
  <2>1. alone(q) \in BOOLEAN /\ bulk[q] \in Bulk
    BY RequestFacts
  <2>2. bulk'[q] = after(q)
    BY <1>3
  <2>3. /\ after(q) \in Bulk /\ after(q).pc = bulk[q].pc
        /\ after(q).page = bulk[q].page /\ after(q).to = bulk[q].to
        /\ after(q).filter = bulk[q].filter /\ after(q).paging = bulk[q].paging
        /\ after(q).pages = bulk[q].pages /\ after(q).selected = bulk[q].selected
        /\ after(q).changed = bulk[q].changed /\ (after(q).alone <=> alone(q))
    BY <2>1, AloneChanged
  <2>4. bulk'[q].alone => alone(q)
    BY <2>2, <2>3
  <2> QED
    BY <2>2, <2>3, <2>4
<1>5. bulk' \in [Requests -> Bulk]
  <2>1. \A q \in Requests : after(q) = bulk'[q]
    BY <1>3
  <2> HIDE DEF after
  <2> QED
    BY <1>3, <1>4, <2>1
<1>6. TypeOK'
  BY <1>1, <1>5, <1>7, <1>8 DEF TypeOK
<1> QED
  BY <1>1, <1>4, <1>6

-----------------------------------------------------------------------------
LEMMA InitType == Init => TypeOK
<1> SUFFICES ASSUME Init PROVE TypeOK
  OBVIOUS
<1>1. ExcelTypeOK
  BY ExcelInitType DEF Init
<1>2. bulk \in [Requests -> Bulk]
  BY NoBulkType DEF Init
<1>3. 0 \in 0..MaxChanges /\ 0 \in 0..MaxCrashes
  BY BulkBoundsAssumption
<1> QED
  BY <1>1, <1>2, <1>3 DEF Init, TypeOK

LEMMA BulkStepKeepsType ==
    ASSUME TypeOK, NEW q \in Requests, BulkStep(q) PROVE TypeOK'
BY StartBulkStep, ReadPageStep, UpdateStatusStep, LogStatusStep,
   DeleteAttributesStep, DeleteNumbersStep, FinishBulkStep DEF BulkStep

LEMMA StutterKeepsType == TypeOK /\ UNCHANGED vars => TypeOK'
<1> SUFFICES ASSUME TypeOK, UNCHANGED vars PROVE TypeOK'
  OBVIOUS
<1>1. ExcelTypeOK'
  BY ExcelStays DEF vars
<1> QED
  BY <1>1 DEF TypeOK, vars, bulkVars

LEMMA NextKeepsType == TypeOK /\ [Next]_vars => TypeOK'
BY BulkStepKeepsType, CrashStep, PaymentStepOf, StutterKeepsType DEF Next

\* Every variable of payments, imports and bulk changes keeps its type: the
\* import never leaves the configurations, a result names a registration and
\* a status, and each row has at most one.
THEOREM TypeOKHolds == Spec => []TypeOK
BY InitType, NextKeepsType, PTL DEF Spec

-----------------------------------------------------------------------------
(* A change of status reaches all that it selected.                        *)

StillToDo(q) == Applicable(bulk[q].filter, bulk[q].to)

\* The pages that are left are enough.
Fits(q, rest) == Cardinality(rest) <= bulk[q].pages * bulk[q].paging.size

\* While nothing else changes a registration, what was selected is changed or
\* can still be found by the filter, and that fits the pages that are left.
ReachInv(q) ==
    bulk[q].alone /\ bulk[q].pc # "idle" =>
        /\ bulk[q].selected \subseteq bulk[q].changed \cup StillToDo(q)
        /\ bulk[q].pc = "update" => /\ bulk[q].page \subseteq StillToDo(q)
                                   /\ Fits(q, StillToDo(q) \ bulk[q].page)
        /\ bulk[q].pc # "update" => Fits(q, StillToDo(q))

SelectionInv == \A q \in Requests : ReachInv(q)

\* A status is never changed to itself: what a request has changed leaves its
\* filter.
LEMMA NoChangeToItself ==
    ASSUME NEW to \in RegistrationStatus PROVE ~CanChangeStatus(to, to)
BY DEF CanChangeStatus, RegistrationStatus

LEMMA ApplicableUnchanged ==
    ASSUME NEW filter, NEW to, registrations' = registrations
    PROVE  Applicable(filter, to)' = Applicable(filter, to)
BY DEF Applicable, PaymentsRemain

LEMMA ApplicableAfterUpdate ==
    ASSUME NEW filter, filter \subseteq Registrations, NEW to \in RegistrationStatus,
           NEW page, page \subseteq Applicable(filter, to),
           \A r \in Registrations :
              /\ registrations'[r].paymentCount = registrations[r].paymentCount
              /\ registrations'[r].status =
                   IF r \in page THEN to ELSE registrations[r].status
    PROVE  Applicable(filter, to)' = Applicable(filter, to) \ page
<1>1. ASSUME NEW r \in filter, r \in page PROVE r \notin Applicable(filter, to)'
  <2>1. registrations'[r].status = to
    BY <1>1
  <2> QED
    BY <2>1, NoChangeToItself DEF Applicable
<1>2. ASSUME NEW r \in filter, r \notin page
      PROVE  r \in Applicable(filter, to)' <=> r \in Applicable(filter, to)
  <2>1. /\ registrations'[r].status = registrations[r].status
        /\ registrations'[r].paymentCount = registrations[r].paymentCount
    BY <1>2
  <2> QED
    BY <2>1 DEF Applicable, PaymentsRemain
<1>3. Applicable(filter, to)' \subseteq filter /\ Applicable(filter, to) \subseteq filter
  BY DEF Applicable
<1> QED
  BY <1>1, <1>2, <1>3

LEMMA MinOfTwo ==
    ASSUME NEW a \in Nat, NEW b \in Nat
    PROVE  Min({a, b}) = IF a <= b THEN a ELSE b
BY DEF Min

\* After a page has been read, one page less is enough for the rest.
LEMMA PageFits ==
    ASSUME NEW S, S \subseteq Registrations, NEW paging \in Pagings,
           NEW page \in FirstPages(S, paging), NEW pages \in Nat, pages > 0,
           Cardinality(S) <= pages * paging.size
    PROVE  Cardinality(S \ page) <= (pages - 1) * paging.size
<1> DEFINE size == paging.size
<1>1. size \in Nat /\ size > 0
  BY BulkBoundsAssumption
<1>2. /\ page \subseteq S
      /\ Cardinality(page) = Min({Cardinality(S), size})
  BY DEF FirstPages
<1>3. /\ IsFiniteSet(S) /\ Cardinality(S) \in Nat
      /\ IsFiniteSet(page) /\ Cardinality(page) \in Nat
  BY <1>2, RegistrationsFinite
<1>4. Cardinality(S \ page) = Cardinality(S) - Cardinality(S \cap page)
  BY <1>3, FS_Difference
<1>5. S \cap page = page
  BY <1>2
<1>6. Cardinality(S \ page) = Cardinality(S) - Cardinality(page)
  BY <1>4, <1>5
<1>7. Cardinality(page) = IF Cardinality(S) <= size THEN Cardinality(S) ELSE size
  BY <1>1, <1>2, <1>3, MinOfTwo
<1> HIDE DEF size
<1>8. Cardinality(S) <= pages * size
  BY DEF size
<1>9. (pages - 1) * size = pages * size - size /\ (pages - 1) * size >= 0
  BY <1>1
<1> QED
  BY <1>1, <1>3, <1>6, <1>7, <1>8, <1>9 DEF size

LEMMA ReachFromStart ==
    ASSUME TypeOK, NEW q \in Requests, NEW to \in Targets, StartBulk(q, to)
    PROVE  ReachInv(q)'
<1>1. /\ bulk'[q].pc = "read"
      /\ bulk'[q].selected = Applicable(bulk'[q].filter, bulk'[q].to)
      /\ Cardinality(bulk'[q].selected) <= bulk'[q].pages * bulk'[q].paging.size
      /\ registrations' = registrations
  BY StartBulkStep
<1>2. PICK filter, target : filter = bulk'[q].filter /\ target = bulk'[q].to
  OBVIOUS
<1>3. Applicable(filter, target)' = Applicable(filter, target)
  BY <1>1, ApplicableUnchanged
<1>4. StillToDo(q)' = Applicable(filter, target)'
  BY <1>2 DEF StillToDo
<1>5. StillToDo(q)' = bulk'[q].selected
  BY <1>1, <1>2, <1>3, <1>4
<1> QED
  BY <1>1, <1>5 DEF ReachInv, Fits

LEMMA StillToDoKept ==
    ASSUME NEW q, registrations' = registrations,
           bulk'[q].filter = bulk[q].filter, bulk'[q].to = bulk[q].to
    PROVE  StillToDo(q)' = StillToDo(q)
<1>1. PICK filter, to : filter = bulk[q].filter /\ to = bulk[q].to
  OBVIOUS
<1>2. StillToDo(q)' = Applicable(filter, to)' /\ StillToDo(q) = Applicable(filter, to)
  BY <1>1 DEF StillToDo
<1> QED
  BY <1>2, ApplicableUnchanged

\* A step that leaves the registrations and what the request has done alone.
LEMMA ReachKept ==
    ASSUME NEW q, ReachInv(q), registrations' = registrations,
           bulk'[q].filter = bulk[q].filter, bulk'[q].to = bulk[q].to,
           bulk'[q].paging = bulk[q].paging, bulk'[q].pages = bulk[q].pages,
           bulk'[q].selected = bulk[q].selected, bulk'[q].changed = bulk[q].changed,
           bulk'[q].alone => bulk[q].alone,
           \/ bulk'[q].pc = bulk[q].pc /\ bulk'[q].page = bulk[q].page
           \/ bulk[q].pc \notin {"update", "idle"} /\ bulk'[q].pc # "update"
    PROVE  ReachInv(q)'
<1>1. StillToDo(q)' = StillToDo(q)
  BY StillToDoKept
<1> QED
  BY <1>1 DEF ReachInv, Fits

LEMMA ReachByPage ==
    ASSUME TypeOK, NEW q \in Requests, ReachInv(q), ReadPage(q)
    PROVE  ReachInv(q)'
<1>1. /\ SameRequest(bulk[q], bulk'[q])
      /\ bulk[q].pc = "read" /\ bulk'[q].pc = "update"
      /\ bulk'[q].page \in FirstPages(StillToDo(q), bulk[q].paging)
      /\ bulk[q].pages > 0 /\ bulk'[q].pages = bulk[q].pages - 1
      /\ bulk'[q].changed = bulk[q].changed /\ registrations' = registrations
  BY ReadPageStep DEF StillToDo
<1>2. StillToDo(q)' = StillToDo(q)
  BY <1>1, StillToDoKept DEF SameRequest
<1>3. StillToDo(q) \subseteq Registrations
  BY RequestFacts, ApplicableType DEF StillToDo
<1>4. bulk'[q].page \subseteq StillToDo(q)
  BY <1>1 DEF FirstPages
<1>5. ASSUME bulk[q].alone PROVE Fits(q, StillToDo(q) \ bulk[q].page)'
  <2>1. Cardinality(StillToDo(q)) <= bulk[q].pages * bulk[q].paging.size
    BY <1>1, <1>5 DEF ReachInv, Fits
  <2>2. Cardinality(StillToDo(q) \ bulk'[q].page)
          <= (bulk[q].pages - 1) * bulk[q].paging.size
    BY <1>1, <1>3, <2>1, RequestFacts, PageFits
  <2> QED
    BY <1>1, <1>2, <2>2 DEF Fits, SameRequest
<1> QED
  BY <1>1, <1>2, <1>4, <1>5 DEF ReachInv, SameRequest

LEMMA ReachByUpdate ==
    ASSUME TypeOK, NEW q \in Requests, ReachInv(q), UpdateStatus(q)
    PROVE  ReachInv(q)'
<1>1. /\ SameRequest(bulk[q], bulk'[q])
      /\ bulk[q].pc = "update" /\ bulk'[q].pc = "log"
      /\ bulk'[q].pages = bulk[q].pages
      /\ bulk'[q].changed = bulk[q].changed \cup bulk[q].page
      /\ \A r \in Registrations :
            /\ registrations'[r].paymentCount = registrations[r].paymentCount
            /\ registrations'[r].status =
                 IF r \in bulk[q].page THEN bulk[q].to ELSE registrations[r].status
  BY UpdateStatusStep
<1> SUFFICES ASSUME bulk'[q].alone PROVE ReachInv(q)'
  BY <1>1 DEF ReachInv
<1>2. /\ bulk[q].selected \subseteq bulk[q].changed \cup StillToDo(q)
      /\ bulk[q].page \subseteq StillToDo(q)
      /\ Fits(q, StillToDo(q) \ bulk[q].page)
  BY <1>1 DEF ReachInv, SameRequest
<1>3. PICK filter, to, page : /\ filter = bulk[q].filter /\ to = bulk[q].to
                              /\ page = bulk[q].page
  OBVIOUS
<1>4. filter \subseteq Registrations /\ to \in RegistrationStatus
  BY <1>3, RequestFacts
<1>5. page \subseteq Applicable(filter, to)
  BY <1>2, <1>3 DEF StillToDo
<1>6. Applicable(filter, to)' = Applicable(filter, to) \ page
  BY <1>1, <1>3, <1>4, <1>5, ApplicableAfterUpdate
<1>7. StillToDo(q)' = StillToDo(q) \ bulk[q].page
  BY <1>1, <1>3, <1>6 DEF StillToDo, SameRequest
<1>8. Fits(q, StillToDo(q))'
  BY <1>1, <1>2, <1>7 DEF Fits, SameRequest
<1>9. bulk'[q].selected \subseteq bulk'[q].changed \cup StillToDo(q)'
  BY <1>1, <1>2, <1>7 DEF SameRequest
<1> QED
  BY <1>1, <1>8, <1>9 DEF ReachInv

LEMMA ReachByRequest ==
    ASSUME TypeOK, SelectionInv, NEW q \in Requests, BulkStep(q)
    PROVE  ReachInv(q)'
<1>1. ReachInv(q)
  BY DEF SelectionInv
<1>2. ASSUME LogStatus(q) PROVE ReachInv(q)'
  <2>1. CASE bulk'[q].pc = "idle"
    BY <2>1 DEF ReachInv
  <2>2. CASE bulk'[q].pc # "idle"
    <3>1. /\ bulk'[q].pc = IF bulk[q].to = "deleted" THEN "attributes" ELSE "read"
          /\ SameRequest(bulk[q], bulk'[q]) /\ bulk[q].pc = "log"
          /\ bulk'[q].pages = bulk[q].pages /\ bulk'[q].changed = bulk[q].changed
          /\ registrations' = registrations
      BY <1>2, <2>2, LogStatusStep
    <3> QED
      BY <1>1, <3>1, ReachKept DEF SameRequest
  <2> QED
    BY <2>1, <2>2
<1>3. ASSUME DeleteAttributes(q) PROVE ReachInv(q)'
  BY <1>1, <1>3, DeleteAttributesStep, ReachKept DEF SameRequest
<1>4. ASSUME DeleteNumbers(q) PROVE ReachInv(q)'
  BY <1>1, <1>4, DeleteNumbersStep, ReachKept DEF SameRequest
<1>5. ASSUME FinishBulk(q) PROVE ReachInv(q)'
  BY <1>5, FinishBulkStep DEF ReachInv
<1> QED
  BY <1>1, <1>2, <1>3, <1>4, <1>5, ReachFromStart, ReachByPage, ReachByUpdate DEF BulkStep

LEMMA ReachBesideRequest ==
    ASSUME TypeOK, SelectionInv, NEW q \in Requests, BulkStep(q),
           NEW other \in Requests \ {q}
    PROVE  ReachInv(other)'
<1>1. ReachInv(other)
  BY DEF SelectionInv
<1>2. CASE UpdateStatus(q)
  BY <1>2, UpdateStatusStep DEF ReachInv
<1>3. CASE ~UpdateStatus(q)
  <2>1. OnlyRequest(q) /\ registrations' = registrations
    BY <1>3, StartBulkStep, ReadPageStep, LogStatusStep, DeleteAttributesStep,
       DeleteNumbersStep, FinishBulkStep DEF BulkStep
  <2>2. bulk'[other] = bulk[other]
    BY <2>1 DEF OnlyRequest
  <2> QED
    BY <1>1, <2>1, <2>2, ReachKept
<1> QED
  BY <1>2, <1>3

LEMMA NextKeepsSelection == TypeOK /\ SelectionInv /\ [Next]_vars => SelectionInv'
<1> SUFFICES ASSUME TypeOK, SelectionInv, [Next]_vars, NEW q \in Requests
             PROVE  ReachInv(q)'
  BY DEF SelectionInv
<1>1. ReachInv(q)
  BY DEF SelectionInv
<1>2. CASE PaymentStep
  <2>1. /\ bulk'[q].pc = bulk[q].pc /\ bulk'[q].page = bulk[q].page
        /\ bulk'[q].to = bulk[q].to /\ bulk'[q].filter = bulk[q].filter
        /\ bulk'[q].paging = bulk[q].paging /\ bulk'[q].pages = bulk[q].pages
        /\ bulk'[q].selected = bulk[q].selected
        /\ bulk'[q].changed = bulk[q].changed
        /\ bulk'[q].alone => bulk[q].alone /\ registrations' = registrations
    BY <1>2, PaymentStepOf
  <2>2. CASE bulk'[q].alone
    BY <1>1, <2>1, <2>2, ReachKept
  <2>3. CASE ~bulk'[q].alone
    BY <2>3 DEF ReachInv
  <2> QED
    BY <2>2, <2>3
<1>3. CASE \E p \in Requests : BulkStep(p)
  BY <1>3, ReachByRequest, ReachBesideRequest
<1>4. CASE Crash
  BY <1>4, CrashStep DEF ReachInv
<1>5. CASE UNCHANGED vars
  <2>1. bulk' = bulk /\ registrations' = registrations
    BY <1>5 DEF vars, bulkVars, storingVars, storeVars
  <2> QED
    BY <1>1, <2>1, ReachKept
<1> QED
  BY <1>2, <1>3, <1>4, <1>5 DEF Next

LEMMA SelectionReaches == TypeOK /\ SelectionInv => BulkChangeReachesAll
<1> SUFFICES ASSUME TypeOK, SelectionInv, NEW q \in Requests,
                    bulk[q].pc = "read", bulk[q].pages = 0, bulk[q].alone
             PROVE  bulk[q].selected \subseteq bulk[q].changed
  BY DEF BulkChangeReachesAll
<1>1. /\ bulk[q].selected \subseteq bulk[q].changed \cup StillToDo(q)
      /\ Cardinality(StillToDo(q)) <= bulk[q].pages * bulk[q].paging.size
  BY DEF SelectionInv, ReachInv, Fits
<1>2. bulk[q].paging.size \in Nat
  BY RequestFacts
<1>3. Cardinality(StillToDo(q)) <= 0
  BY <1>1, <1>2
<1>4. IsFiniteSet(StillToDo(q)) /\ Cardinality(StillToDo(q)) \in Nat
  BY RequestFacts, ApplicableType DEF StillToDo
<1>5. StillToDo(q) = {}
  BY <1>3, <1>4, FS_EmptySet
<1> QED
  BY <1>1, <1>5

\* A request that nothing else disturbs changes every registration it selected,
\* for any number of registrations, any page size and any order of the pages,
\* although it reads the first page again and again.
THEOREM BulkChangeReachesAllHolds == Spec => []BulkChangeReachesAll
<1>1. Init => SelectionInv
  BY NoBulkType DEF Init, SelectionInv, ReachInv
<1>2. TypeOK /\ SelectionInv /\ [Next]_vars => SelectionInv'
  BY NextKeepsSelection
<1>3. TypeOK /\ SelectionInv => BulkChangeReachesAll
  BY SelectionReaches
<1> QED
  BY <1>1, <1>2, <1>3, TypeOKHolds, PTL DEF Spec

-----------------------------------------------------------------------------
(* Who is deleted has no personal data.                                    *)

\* What storing a transaction does to registrations.
LEMMA StoringOfRegistration ==
    ASSUME StoringTypeOK, NEW s \in Storers, StoringStep(s), NEW r \in Registrations
    PROVE  \/ registrations'[r] = registrations[r]
           \/ /\ CompleteRegistration(s) /\ r = storing[s].key[1]
              /\ registrations'[r] = [storing[s].read EXCEPT !.status = "completed"]
           \/ /\ UpdatePaymentCount(s) /\ r = storing[s].key[1]
              /\ registrations'[r] =
                    [registrations[r] EXCEPT !.paymentCount = storing[s].count]
<1>1. registrations \in
        [Registrations -> [status : RegistrationStatus, paymentCount : Nat]]
  BY DEF StoringTypeOK, StoreTypeOK
<1>2. CASE CompleteRegistration(s)
  BY <1>1, <1>2, StorerFacts DEF CompleteRegistration
<1>3. CASE UpdatePaymentCount(s)
  BY <1>1, <1>3, StorerFacts DEF UpdatePaymentCount
<1>4. CASE ~CompleteRegistration(s) /\ ~UpdatePaymentCount(s)
  BY <1>4 DEF StoringStep, SaveTransaction, LinkTwilioMessage, CountPayments,
              LogCompletion, UpdateLatest, storeVars
<1> QED
  BY <1>2, <1>3, <1>4

\* Of all that payments and imports do, only this concerns registrations.
LEMMA ExcelOfRegistrations ==
    ASSUME ExcelStep, ~(StoringStep(Payer) /\ UNCHANGED excelVars)
    PROVE  registrations' = registrations /\ attributes' = attributes
BY DEF ExcelStep, PostPayment, RetryPayment, StartRun, ImportReconciliation,
       StoreNextTransaction, BeginStoring, BeginStoringAt, TransactionStored,
       EndStoring, SavePaymentFinished, GetRegistrationsForReconciliation,
       JoinRegistrationsAndImportRecords, JoinRegistrations, SaveTransactions,
       UpdateSavedLatest, unchangedByImport, excelVars, storingVars, storeVars

\* Nobody else moves a storer that is about to complete a registration.
LEMMA CompletingIsStoring ==
    ASSUME ExcelStep, storing[Payer].pc = "complete", storing'[Payer].pc = "log"
    PROVE  StoringStep(Payer)
<1> SUFFICES ASSUME ~StoringStep(Payer) PROVE FALSE
  OBVIOUS
<1>1. storing' = storing
  BY DEF ExcelStep, PostPayment, RetryPayment, StartRun, ImportReconciliation,
         StoreNextTransaction, BeginStoring, BeginStoringAt, TransactionStored,
         EndStoring, SavePaymentFinished, GetRegistrationsForReconciliation,
         JoinRegistrationsAndImportRecords, JoinRegistrations, SaveTransactions,
         UpdateSavedLatest, unchangedByImport, excelVars, storingVars, storeVars
<1> QED
  BY <1>1

LEMMA ExcelNeverDeletes ==
    ASSUME ExcelTypeOK, ExcelStep, NEW r \in Registrations,
           registrations'[r].status = "deleted"
    PROVE  registrations[r].status = "deleted" /\ attributes' = attributes
<1>1. CASE StoringStep(Payer) /\ UNCHANGED excelVars
  <2>1. attributes' = attributes
    BY <1>1 DEF excelVars
  <2>2. registrations[r] \in Snapshot /\ storing[Payer].read \in Snapshot
    BY PayerStores, StorerFacts DEF ExcelTypeOK, StoreTypeOK, Snapshot
  <2>3. \/ registrations'[r] = registrations[r]
        \/ registrations'[r] = [storing[Payer].read EXCEPT !.status = "completed"]
        \/ registrations'[r] =
              [registrations[r] EXCEPT !.paymentCount = storing[Payer].count]
    BY <1>1, PayerStores, StoringOfRegistration DEF ExcelTypeOK
  <2>4. \/ registrations'[r].status = registrations[r].status
        \/ registrations'[r].status = "completed"
    BY <2>2, <2>3 DEF Snapshot
  <2> QED
    BY <2>1, <2>4
<1>2. CASE ~(StoringStep(Payer) /\ UNCHANGED excelVars)
  BY <1>2, ExcelOfRegistrations
<1> QED
  BY <1>1, <1>2

\* A request is about to remove the personal data of r.
Removes(q, r) ==
    /\ r \in bulk[q].page
    /\ bulk[q].to = "deleted"
    /\ \/ bulk[q].pc \in {"log", "attributes"}
       \/ bulk[q].pc = "numbers" /\ r \notin attributes

LEMMA RequestRemoves ==
    ASSUME TypeOK, DeletedHasNoAttributes, NEW q \in Requests, BulkStep(q),
           NEW r \in (attributes' \cup numbers') \ abandoned',
           registrations'[r].status = "deleted"
    PROVE  \E p \in Requests : Removes(p, r)'
<1>0. r \in Registrations
  BY BulkStepKeepsType DEF TypeOK, ExcelTypeOK, PayoutTypeOK
<1>1. CASE UpdateStatus(q)
  <2>1. /\ SameRequest(bulk[q], bulk'[q]) /\ bulk[q].pc = "update"
        /\ bulk'[q].pc = "log" /\ bulk'[q].page = bulk[q].page
        /\ \A other \in Requests \ {q} :
              /\ bulk'[other].pc = bulk[other].pc
              /\ bulk'[other].page = bulk[other].page
              /\ bulk'[other].to = bulk[other].to
        /\ registrations'[r].status =
              IF r \in bulk[q].page THEN bulk[q].to ELSE registrations[r].status
        /\ UNCHANGED <<attributes, numbers, abandoned>>
    BY <1>0, <1>1, UpdateStatusStep
  <2>2. CASE r \in bulk[q].page
    BY <2>1, <2>2 DEF Removes, SameRequest
  <2>3. CASE r \notin bulk[q].page
    <3>1. PICK p \in Requests : Removes(p, r)
      BY <2>1, <2>3 DEF DeletedHasNoAttributes, Removes
    <3>2. p # q
      BY <2>3, <3>1 DEF Removes
    <3> QED
      BY <2>1, <3>1, <3>2 DEF Removes
  <2> QED
    BY <2>2, <2>3
<1>2. CASE ~UpdateStatus(q)
  <2>1. /\ OnlyRequest(q) /\ registrations' = registrations
        /\ abandoned \subseteq abandoned'
        /\ attributes' \subseteq attributes /\ numbers' \subseteq numbers
    BY <1>2, StartBulkStep, ReadPageStep, LogStatusStep, DeleteAttributesStep,
       DeleteNumbersStep, FinishBulkStep DEF BulkStep
  <2>2. PICK p \in Requests : Removes(p, r)
    BY <2>1 DEF DeletedHasNoAttributes, Removes
  <2>3. CASE p # q
    BY <2>1, <2>2, <2>3 DEF OnlyRequest, Removes
  <2>4. CASE p = q
    <3>1. LogStatus(q) \/ DeleteAttributes(q) \/ DeleteNumbers(q)
      BY <1>2, <2>2, <2>4, StartBulkStep, ReadPageStep, FinishBulkStep
         DEF BulkStep, Removes
    <3>2. CASE DeleteAttributes(q)
      BY <2>2, <2>4, <3>2, DeleteAttributesStep DEF Removes, SameRequest
    <3>3. ~DeleteNumbers(q)
      BY <2>2, <2>4, DeleteNumbersStep DEF Removes
    <3>4. ~(abandoned' = abandoned \cup LeavesBehind(q))
      BY <2>2, <2>4 DEF Removes, LeavesBehind
    <3>5. CASE LogStatus(q)
      BY <2>2, <2>4, <3>4, <3>5, LogStatusStep DEF Removes, SameRequest
    <3> QED
      BY <3>1, <3>2, <3>3, <3>5
  <2> QED
    BY <2>3, <2>4
<1> QED
  BY <1>1, <1>2

\* A number that comes back comes with the status completed.
LEMMA NumberOfCompleted ==
    ASSUME TypeOK, PaymentStep, NEW r \in numbers', registrations'[r].status = "deleted"
    PROVE  r \in numbers
<1> SUFFICES ASSUME r \notin numbers PROVE FALSE
  OBVIOUS
<1>1. /\ storing[Payer].pc = "complete" /\ storing'[Payer].pc = "log"
      /\ r = storing[Payer].key[1]
  BY DEF PaymentStep, SaveNumber
<1>2. StoringStep(Payer)
  BY <1>1, CompletingIsStoring DEF PaymentStep
<1>3. CompleteRegistration(Payer)
  BY <1>1, <1>2, PayerStores
     DEF StoringStep, SaveTransaction, LinkTwilioMessage, CountPayments,
         LogCompletion, UpdatePaymentCount, UpdateLatest
<1>4. registrations'[r].status = "completed"
  BY <1>1, <1>3, PayerStores, StorerFacts
     DEF CompleteRegistration, TypeOK, ExcelTypeOK, StoringTypeOK, StoreTypeOK
<1> QED
  BY <1>4

LEMMA NextKeepsDeletion ==
    TypeOK /\ DeletedHasNoAttributes /\ [Next]_vars => DeletedHasNoAttributes'
<1> SUFFICES ASSUME TypeOK, DeletedHasNoAttributes, [Next]_vars,
                    NEW r \in (attributes' \cup numbers') \ abandoned',
                    registrations'[r].status = "deleted"
             PROVE  \E q \in Requests : Removes(q, r)'
  BY DEF DeletedHasNoAttributes, Removes
<1>0. r \in Registrations
  BY NextKeepsType DEF TypeOK, ExcelTypeOK, PayoutTypeOK
<1>1. CASE PaymentStep
  <2>1. /\ registrations[r].status = "deleted" /\ attributes' = attributes
        /\ abandoned' = abandoned
    BY <1>0, <1>1, ExcelNeverDeletes DEF PaymentStep, TypeOK
  <2>3. r \in numbers' => r \in numbers
    BY <1>1, NumberOfCompleted
  <2>2. PICK q \in Requests : Removes(q, r)
    BY <2>1, <2>3 DEF DeletedHasNoAttributes, Removes
  <2> QED
    BY <1>1, <2>1, <2>2, PaymentStepOf DEF Removes
<1>2. CASE \E q \in Requests : BulkStep(q)
  BY <1>2, RequestRemoves
<1>3. CASE Crash
  <2>1. /\ abandoned' = abandoned \cup UNION {LeavesBehind(q) : q \in Requests}
        /\ UNCHANGED <<registrations, attributes, numbers>>
    BY <1>3, CrashStep
  <2>2. PICK q \in Requests : Removes(q, r)
    BY <2>1 DEF DeletedHasNoAttributes, Removes
  <2>3. r \in LeavesBehind(q)
    BY <2>2 DEF Removes, LeavesBehind
  <2> QED
    BY <2>1, <2>3
<1>4. CASE UNCHANGED vars
  <2>1. UNCHANGED <<bulk, numbers, abandoned, registrations, attributes>>
    BY <1>4 DEF vars, bulkVars, storingVars, storeVars, excelVars
  <2> QED
    BY <2>1 DEF DeletedHasNoAttributes, Removes
<1> QED
  BY <1>1, <1>2, <1>3, <1>4 DEF Next

\* No registration stays deleted with registration data or a number in the
\* database, unless its deletion was cut short.
THEOREM DeletedHasNoAttributesHolds == Spec => []DeletedHasNoAttributes
<1>1. Init => DeletedHasNoAttributes
  BY DEF Init, ExcelInit, StoringInit, StoreInit, DeletedHasNoAttributes
<1>2. TypeOK /\ DeletedHasNoAttributes /\ [Next]_vars => DeletedHasNoAttributes'
  BY NextKeepsDeletion
<1> QED
  BY <1>1, <1>2, TypeOKHolds, PTL DEF Spec

-----------------------------------------------------------------------------
(* The count of a registration is that of its payments.                    *)

\* The latest transaction of a key is one of that key.
LatestIsOwn ==
    \A k \in Key : latestTransactions[k] # NoTransaction =>
        KeyOf(latestTransactions[k]) = k

\* What the import has found has been paid before.
FoundIsPaid ==
    import.pc # "idle" =>
        /\ \A r \in import.found :
             latestTransactions[<<r, import.payment>>] # NoTransaction
        /\ \A i \in DOMAIN import.results : \A x \in import.results[i] :
             latestTransactions[<<x.registration, import.payment>>] # NoTransaction

\* The registration whose transaction is stored, but not yet counted.
Uncounted(r) ==
    /\ r = storing[Payer].key[1]
    /\ storing[Payer].pc \in {"link", "count", "complete", "log", "update"}

CountInv ==
    crashes = 0 =>
        /\ \A r \in Registrations : ~Uncounted(r) =>
             registrations[r].paymentCount = CurrentPaymentCount(r)
        /\ storing[Payer].pc \in {"complete", "log", "update"} =>
             storing[Payer].count = CurrentPaymentCount(storing[Payer].key[1])

PaidInv == LatestIsOwn /\ FoundIsPaid

LEMMA ImportFacts ==
    ASSUME ExcelTypeOK
    PROVE  /\ import \in Import /\ import.found \subseteq Registrations
           /\ import.named \subseteq import.found
           /\ import.pc # "idle" => import.payment \in Payments
           /\ \A i \in DOMAIN import.results : import.results[i] \subseteq Result
           /\ import.saved \subseteq 1..Len(transactions)
           /\ DOMAIN import.results = DOMAIN import.file
<1>1. /\ import \in Import /\ import.results \in Seq(SUBSET Result)
      /\ import.file \in Seq(Row) /\ Len(import.results) = Len(import.file)
  BY DEF ExcelTypeOK, ImportTypeOK, Import
<1>2. \A i \in DOMAIN import.results : import.results[i] \in SUBSET Result
  BY <1>1
<1>3. DOMAIN import.results = DOMAIN import.file
  BY <1>1
<1>4. import.saved \subseteq 1..Len(transactions)
  BY TransactionsLength DEF ExcelTypeOK, ImportTypeOK
<1> QED
  BY <1>1, <1>2, <1>3, <1>4 DEF ExcelTypeOK, ImportTypeOK, Import

\* What is paid stays paid, and transactions keep their key.
PaidStays ==
    /\ \A k \in Key : latestTransactions[k] # NoTransaction =>
         latestTransactions'[k] # NoTransaction
    /\ LatestIsOwn'

LEMMA PaidByAppending ==
    ASSUME StoreTypeOK, LatestIsOwn, latestTransactions' = latestTransactions,
           \A i \in 1..Len(transactions) : transactions'[i] = transactions[i]
    PROVE  PaidStays
<1>1. \A i \in 1..Len(transactions) : KeyOf(i)' = KeyOf(i)
  BY DEF KeyOf
<1>2. ASSUME NEW k \in Key, latestTransactions[k] # NoTransaction
      PROVE  KeyOf(latestTransactions[k])' = k
  <2>1. PICK i \in 1..Len(transactions) : i = latestTransactions[k]
    BY <1>2 DEF StoreTypeOK, NoTransaction
  <2>2. KeyOf(i) = k
    BY <1>2, <2>1 DEF LatestIsOwn
  <2>3. KeyOf(i)' = k
    BY <1>1, <2>1, <2>2
  <2> QED
    BY <2>1, <2>3 DEF KeyOf
<1>3. \A k \in Key : latestTransactions'[k] # NoTransaction =>
        KeyOf(latestTransactions[k])' = k
  BY <1>2
<1> QED
  BY <1>3 DEF PaidStays, LatestIsOwn, KeyOf

LEMMA PaidByPublishing ==
    ASSUME StoreTypeOK, LatestIsOwn, NEW i \in 1..Len(transactions),
           transactions' = transactions,
           latestTransactions' = [latestTransactions EXCEPT ![KeyOf(i)] = i]
    PROVE  PaidStays
<1>1. i # NoTransaction
  BY DEF StoreTypeOK, NoTransaction
<1>2. \A k \in Key : latestTransactions'[k] =
        IF k = KeyOf(i) THEN i ELSE latestTransactions[k]
  BY DEF StoreTypeOK
<1>4. \A k \in Key : latestTransactions[k] # NoTransaction =>
         latestTransactions'[k] # NoTransaction
  BY <1>1, <1>2
<1>5. ASSUME NEW k \in Key, latestTransactions'[k] # NoTransaction
      PROVE  (KeyOf(latestTransactions[k]) = k)'
  <2>1. PICK j : j = latestTransactions'[k]
    OBVIOUS
  <2>2. KeyOf(j) = k
    BY <1>2, <1>5, <2>1 DEF LatestIsOwn
  <2> QED
    BY <2>1, <2>2 DEF KeyOf
<1> QED
  BY <1>4, <1>5 DEF PaidStays, LatestIsOwn

\* What the import has found stays paid.
LEMMA FoundStaysPaid ==
    ASSUME ExcelTypeOK, FoundIsPaid, PaidStays,
           import'.pc # "idle" => /\ import.pc # "idle"
                                  /\ import'.payment = import.payment
                                  /\ import'.found \subseteq import.found
                                  /\ import'.results = import.results
    PROVE  FoundIsPaid'
<1> SUFFICES ASSUME import'.pc # "idle"
             PROVE  /\ \A r \in import'.found :
                         latestTransactions'[<<r, import.payment>>] # NoTransaction
                    /\ \A i \in DOMAIN import.results : \A x \in import.results[i] :
                         latestTransactions'[<<x.registration, import.payment>>]
                           # NoTransaction
  BY DEF FoundIsPaid
<1>1. import.payment \in Payments
  BY ImportFacts
<1>2. \A r \in Registrations : <<r, import.payment>> \in Key
  BY <1>1 DEF Key
<1>3. \A r \in import'.found : r \in import.found /\ r \in Registrations
  BY ImportFacts
<1>4. \A i \in DOMAIN import.results : \A x \in import.results[i] :
        x.registration \in Registrations
  BY ImportFacts DEF Result
<1> QED
  BY <1>2, <1>3, <1>4 DEF FoundIsPaid, PaidStays

LEMMA PaidUnchanged ==
    ASSUME LatestIsOwn, UNCHANGED <<transactions, latestTransactions>>
    PROVE  PaidStays
BY DEF LatestIsOwn, PaidStays, KeyOf

LEMMA StoringKeepsPaid ==
    ASSUME ExcelTypeOK, LatestIsOwn, StoringStep(Payer) PROVE PaidStays
<1>1. \/ SavedBy(Payer)
      \/ PublishedBy(Payer)
      \/ BesidesTransactions(Payer)
  BY PayerStores, StoringStepKeeps DEF ExcelTypeOK
<1>2. CASE SavedBy(Payer)
  BY <1>2, PaidByAppending DEF SavedBy, ExcelTypeOK, StoringTypeOK
<1>3. CASE PublishedBy(Payer)
  <2>1. storing[Payer].transaction \in 1..Len(transactions)
    BY <1>3, PayerStores, TransactionsLength
       DEF PublishedBy, ExcelTypeOK, StoringTypeOK, StoringPc
  <2> QED
    BY <1>3, <2>1, PaidByPublishing DEF PublishedBy, ExcelTypeOK, StoringTypeOK
<1>4. CASE BesidesTransactions(Payer)
  BY <1>4, PaidUnchanged DEF BesidesTransactions
<1> QED
  BY <1>1, <1>2, <1>3, <1>4

LEMMA ImportKeepsPaid ==
    ASSUME ExcelTypeOK, PaidInv, NEW p \in Payments, ImportReconciliation(p)
    PROVE  PaidInv'
<1>1. PICK file \in BoundedSeq(Row, MaxRows) :
        import' = [NoImport EXCEPT
             !.pc = "registrations", !.payment = p, !.file = file,
             !.results = [i \in DOMAIN file |-> {}]]
  BY DEF ImportReconciliation
<1>2. UNCHANGED <<transactions, latestTransactions>>
  BY DEF ImportReconciliation, storingVars, storeVars
<1> DEFINE results == [i \in DOMAIN file |-> {}]
<1>3. \A i \in DOMAIN results : results[i] = {}
  OBVIOUS
<1>4. import' = [NoImport EXCEPT !.pc = "registrations", !.payment = p,
                                !.file = file, !.results = results]
  BY <1>1
<1> HIDE DEF results
<1>5. import'.found = {} /\ import'.results = results
  BY <1>4, NoImportType DEF Import
<1>6. FoundIsPaid'
  BY <1>3, <1>5 DEF FoundIsPaid
<1> QED
  BY <1>2, <1>6, PaidUnchanged DEF PaidInv, PaidStays

LEMMA GetRegistrationsKeepsPaid ==
    ASSUME ExcelTypeOK, PaidInv, GetRegistrationsForReconciliation PROVE PaidInv'
<1> DEFINE found == PaidWith(Configs[import.config], import.payment)
<1>1. /\ import.pc = "registrations"
      /\ import' = [import EXCEPT !.pc = "transactions", !.found = found,
                                  !.named = found \cap attributes]
      /\ UNCHANGED <<transactions, latestTransactions>>
  BY DEF GetRegistrationsForReconciliation, storingVars, storeVars
<1>2. \A r \in found : latestTransactions[<<r, import.payment>>] # NoTransaction
  BY DEF PaidWith
<1> HIDE DEF found
<1>3. /\ import'.found = found /\ import'.payment = import.payment
      /\ import'.results = import.results
  BY <1>1, ImportFacts DEF Import
<1>4. FoundIsPaid'
  BY <1>1, <1>2, <1>3 DEF FoundIsPaid, PaidInv
<1> QED
  BY <1>1, <1>4, PaidUnchanged DEF PaidInv, PaidStays

LEMMA JoinKeepsPaid ==
    ASSUME ExcelTypeOK, PaidInv, JoinRegistrationsAndImportRecords PROVE PaidInv'
<1>1. /\ import.pc = "transactions"
      /\ UNCHANGED <<transactions, latestTransactions>>
      /\ \/ import' = NoImport
         \/ \E winner \in Winners(import.named) :
               import' = [import EXCEPT
                 !.results = ResultsWith(import.named, winner), !.found = {}, !.named = {},
                 !.pc = IF LastConfig THEN "save" ELSE "registrations",
                 !.config = IF LastConfig THEN 1 ELSE @ + 1]
  BY DEF JoinRegistrationsAndImportRecords, JoinRegistrations, storingVars, storeVars
<1>2. ASSUME import' = NoImport PROVE FoundIsPaid'
  <2>1. import'.pc = "idle"
    BY <1>2, NoImportType
  <2> QED
    BY <2>1 DEF FoundIsPaid
<1>3. ASSUME NEW winner \in Winners(import.named),
             import' = [import EXCEPT
                 !.results = ResultsWith(import.named, winner), !.found = {}, !.named = {},
                 !.pc = IF LastConfig THEN "save" ELSE "registrations",
                 !.config = IF LastConfig THEN 1 ELSE @ + 1]
      PROVE  FoundIsPaid'
  <2> DEFINE new == ResultsWith(import.named, winner)
  <2>1. /\ \A i \in DOMAIN import.file : new[i] # import.results[i] =>
               \A x \in new[i] : x.registration \in import.named
        /\ DOMAIN new = DOMAIN import.file
    BY ImportFacts, ResultsOfJoin DEF ResultsWith
  <2> HIDE DEF new
  <2>2. /\ import'.found = {} /\ import'.payment = import.payment
        /\ import'.results = new
    BY <1>3, ImportFacts DEF Import, new
  <2>3. ASSUME NEW i \in DOMAIN new, NEW x \in new[i]
        PROVE  latestTransactions[<<x.registration, import.payment>>] # NoTransaction
    <3>1. CASE new[i] = import.results[i]
      BY <1>1, <2>1, <2>3, <3>1, ImportFacts DEF PaidInv, FoundIsPaid
    <3>2. CASE new[i] # import.results[i]
      BY <1>1, <2>1, <2>3, <3>2, ImportFacts DEF PaidInv, FoundIsPaid
    <3> QED
      BY <3>1, <3>2
  <2>4. \A r \in import'.found :
          latestTransactions'[<<r, import'.payment>>] # NoTransaction
    BY <2>2
  <2>5. \A i \in DOMAIN import'.results : \A x \in import'.results[i] :
          latestTransactions'[<<x.registration, import'.payment>>] # NoTransaction
    BY <1>1, <2>2, <2>3
  <2> QED
    BY <2>4, <2>5 DEF FoundIsPaid
<1>4. FoundIsPaid'
  BY <1>1, <1>2, <1>3
<1> QED
  BY <1>1, <1>4, PaidUnchanged DEF PaidInv, PaidStays

LEMMA SaveKeepsPaid ==
    ASSUME ExcelTypeOK, PaidInv, SaveTransactions PROVE PaidInv'
<1>1. /\ \A i \in 1..Len(transactions) : transactions'[i] = transactions[i]
      /\ import' = [import EXCEPT
            !.pc = "latest", !.saved = Len(transactions) + 1 .. Len(transactions')]
  BY SaveTransactionsAppends
<1>2. latestTransactions' = latestTransactions /\ import.pc = "save"
  BY DEF SaveTransactions
<1>3. PaidStays
  BY <1>1, <1>2, PaidByAppending DEF PaidInv, ExcelTypeOK, StoringTypeOK
<1>4. /\ import'.payment = import.payment /\ import'.found = import.found
      /\ import'.results = import.results
  BY <1>1, ImportFacts DEF Import
<1> QED
  BY <1>2, <1>3, <1>4, FoundStaysPaid DEF PaidInv, PaidStays

LEMMA UpdateSavedKeepsPaid ==
    ASSUME ExcelTypeOK, PaidInv, UpdateSavedLatest PROVE PaidInv'
<1>1. import.pc = "latest" /\ transactions' = transactions
  BY DEF UpdateSavedLatest
<1>2. ASSUME NEW i \in import.saved, InsertOrUpdateFromTransaction(i),
             import' = [import EXCEPT !.saved = @ \ {i}]
      PROVE  PaidInv'
  <2>1. PaidStays
    BY <1>1, <1>2, ImportFacts, PaidByPublishing
       DEF PaidInv, ExcelTypeOK, StoringTypeOK, InsertOrUpdateFromTransaction
  <2>2. /\ import'.payment = import.payment /\ import'.found = import.found
        /\ import'.results = import.results
    BY <1>2, ImportFacts DEF Import
  <2> QED
    BY <1>1, <2>1, <2>2, FoundStaysPaid DEF PaidInv, PaidStays
<1>3. ASSUME UNCHANGED latestTransactions,
             import' = IF LastConfig
                       THEN NoImport
                       ELSE [import EXCEPT !.pc = "save", !.config = @ + 1]
      PROVE  PaidInv'
  <2>1. PaidStays
    BY <1>1, <1>3, PaidUnchanged DEF PaidInv
  <2>2. import'.pc # "idle" => /\ import'.payment = import.payment
                               /\ import'.found = import.found
                               /\ import'.results = import.results
    BY <1>3, ImportFacts, NoImportType DEF Import
  <2> QED
    BY <1>1, <2>1, <2>2, FoundStaysPaid DEF PaidInv, PaidStays
<1> QED
  BY <1>2, <1>3 DEF UpdateSavedLatest

\* A step of something else than the import.
LEMMA BesideImportKeepsPaid ==
    ASSUME ExcelTypeOK, PaidInv, PaidStays, import' = import \/ import' = NoImport
    PROVE  PaidInv'
<1>1. import'.pc # "idle" => import' = import
  BY NoImportType
<1> QED
  BY <1>1, FoundStaysPaid DEF PaidInv, PaidStays

LEMMA ExcelKeepsPaid ==
    ASSUME ExcelTypeOK, PaidInv, ExcelStep PROVE PaidInv'
<1>1. ASSUME NEW p \in Payments, PostPayment(p) \/ RetryPayment(p) PROVE PaidInv'
  <2>1. import' = import /\ UNCHANGED <<transactions, latestTransactions>>
    BY <1>1, PaymentsStart DEF StartRun, storingVars, storeVars
  <2> QED
    BY <2>1, PaidUnchanged, BesideImportKeepsPaid DEF PaidInv
<1>2. ASSUME StoreNextTransaction \/ TransactionStored \/ SavePaymentFinished
      PROVE  PaidInv'
  <2>1. import' = import /\ UNCHANGED <<transactions, latestTransactions>>
    BY <1>2 DEF StoreNextTransaction, BeginStoring, BeginStoringAt, TransactionStored,
                EndStoring, SavePaymentFinished, storingVars, storeVars, excelVars
  <2> QED
    BY <2>1, PaidUnchanged, BesideImportKeepsPaid DEF PaidInv
<1>3. ASSUME StoringStep(Payer), UNCHANGED excelVars PROVE PaidInv'
  <2>1. PaidStays
    BY <1>3, StoringKeepsPaid DEF PaidInv
  <2> QED
    BY <1>3, <2>1, BesideImportKeepsPaid DEF excelVars
<1> QED
  BY <1>1, <1>2, <1>3, ImportKeepsPaid, GetRegistrationsKeepsPaid, JoinKeepsPaid,
     SaveKeepsPaid, UpdateSavedKeepsPaid DEF ExcelStep

LEMMA NextKeepsPaid == TypeOK /\ PaidInv /\ [Next]_vars => PaidInv'
<1> SUFFICES ASSUME TypeOK, PaidInv, [Next]_vars PROVE PaidInv'
  OBVIOUS
<1>0. ExcelTypeOK
  BY DEF TypeOK
<1>1. CASE PaymentStep
  BY <1>0, <1>1, ExcelKeepsPaid DEF PaymentStep
<1>2. ASSUME NEW q \in Requests, BulkStep(q) PROVE PaidInv'
  <2>1. import' = import /\ UNCHANGED <<transactions, latestTransactions>>
    BY <1>2 DEF BulkStep, StartBulk, ReadPage, ReadPageOf, UpdateStatus, LogStatus,
                DeleteAttributes, DeleteAttributesOf, DeleteNumbers, FinishBulk,
                storingVars, storeVars, excelVars
  <2> QED
    BY <1>0, <2>1, PaidUnchanged, BesideImportKeepsPaid DEF PaidInv
<1>3. CASE Crash
  <2>1. import' = NoImport /\ UNCHANGED <<transactions, latestTransactions>>
    BY <1>3 DEF Crash, StopExcel, storeVars
  <2> QED
    BY <1>0, <2>1, PaidUnchanged, BesideImportKeepsPaid DEF PaidInv
<1>4. CASE UNCHANGED vars
  <2>1. import' = import /\ UNCHANGED <<transactions, latestTransactions>>
    BY <1>4 DEF vars, excelVars, storingVars, storeVars
  <2> QED
    BY <1>0, <2>1, PaidUnchanged, BesideImportKeepsPaid DEF PaidInv
<1> QED
  BY <1>1, <1>2, <1>3, <1>4 DEF Next

-----------------------------------------------------------------------------
\* New transactions of payments that r has already do not change its count.
LEMMA CountKept ==
    ASSUME StoreTypeOK, NEW r, Len(transactions') \in Nat,
           transactions' \in Seq(Transaction),
           Len(transactions) <= Len(transactions'),
           \A i \in 1..Len(transactions) : transactions'[i] = transactions[i],
           \A i \in Len(transactions) + 1 .. Len(transactions') :
              transactions'[i].registration = r =>
                \E j \in 1..Len(transactions) :
                    /\ transactions[j].registration = r
                    /\ transactions[j].payment = transactions'[i].payment
    PROVE  CurrentPaymentCount(r)' = CurrentPaymentCount(r)
<1> DEFINE paid == {transactions[i].payment :
                      i \in {j \in DOMAIN transactions : transactions[j].registration = r}}
<1>1. /\ DOMAIN transactions = 1..Len(transactions) /\ Len(transactions) \in Nat
      /\ DOMAIN transactions' = 1..Len(transactions')
  BY DEF StoreTypeOK
<1>2. paid' = {transactions'[i].payment :
                 i \in {j \in DOMAIN transactions' : transactions'[j].registration = r}}
  OBVIOUS
<1>3. ASSUME NEW p \in paid PROVE p \in paid'
  <2>1. PICK i \in 1..Len(transactions) :
          transactions[i].registration = r /\ transactions[i].payment = p
    BY <1>1, <1>3
  <2>2. /\ i \in 1..Len(transactions') /\ transactions'[i].registration = r
        /\ transactions'[i].payment = p
    BY <1>1, <2>1
  <2> QED
    BY <1>1, <2>2
<1>4. ASSUME NEW p \in paid' PROVE p \in paid
  <2>1. PICK i \in 1..Len(transactions') :
          transactions'[i].registration = r /\ transactions'[i].payment = p
    BY <1>1, <1>4
  <2>2. CASE i \in 1..Len(transactions)
    BY <1>1, <2>1, <2>2
  <2>3. CASE i \notin 1..Len(transactions)
    <3>1. i \in Len(transactions) + 1 .. Len(transactions')
      BY <1>1, <2>1, <2>3
    <3>2. PICK j \in 1..Len(transactions) :
            transactions[j].registration = r /\ transactions[j].payment = p
      BY <2>1, <3>1
    <3> QED
      BY <1>1, <3>2
  <2> QED
    BY <2>2, <2>3
<1>5. paid' = paid
  BY <1>3, <1>4
<1>6. CurrentPaymentCount(r) = Cardinality(paid)
  BY DEF CurrentPaymentCount
<1>7. CurrentPaymentCount(r)' = Cardinality(paid')
  BY DEF CurrentPaymentCount
<1> QED
  BY <1>5, <1>6, <1>7

LEMMA CountUnchanged ==
    ASSUME NEW r, transactions' = transactions
    PROVE  CurrentPaymentCount(r)' = CurrentPaymentCount(r)
BY DEF CurrentPaymentCount

\* A step of neither the storer nor the transactions.
LEMMA CountBeside ==
    ASSUME CountInv, ExcelTypeOK, crashes' = crashes, storing' = storing,
           \A r \in Registrations :
              /\ registrations'[r].paymentCount = registrations[r].paymentCount
              /\ CurrentPaymentCount(r)' = CurrentPaymentCount(r)
    PROVE  CountInv'
<1>1. PICK k \in Key : k = storing[Payer].key
  BY PayerStores, StorerFacts DEF ExcelTypeOK
<1>2. k[1] \in Registrations
  BY DEF Key
<1>3. CurrentPaymentCount(storing[Payer].key[1])' = CurrentPaymentCount(k[1])'
  BY <1>1 DEF CurrentPaymentCount
<1>4. \A r : Uncounted(r)' <=> Uncounted(r)
  BY DEF Uncounted
<1> QED
  BY <1>1, <1>2, <1>3, <1>4 DEF CountInv

\* A step of the storer, from what it says about one key.
LEMMA CountByStorer ==
    ASSUME CountInv, ExcelTypeOK, crashes' = crashes, NEW k \in Key,
           storing[Payer].key = k, storing'[Payer].key = k,
           \A r \in Registrations \ {k[1]} :
              /\ registrations'[r].paymentCount = registrations[r].paymentCount
              /\ CurrentPaymentCount(r)' = CurrentPaymentCount(r),
           storing'[Payer].pc \notin {"link", "count", "complete", "log", "update"} =>
              registrations'[k[1]].paymentCount = CurrentPaymentCount(k[1])',
           storing'[Payer].pc \in {"complete", "log", "update"} =>
              storing'[Payer].count = CurrentPaymentCount(k[1])'
    PROVE  CountInv'
<1>1. k[1] \in Registrations
  BY DEF Key
<1>2. CurrentPaymentCount(storing[Payer].key[1])' = CurrentPaymentCount(k[1])'
  BY DEF CurrentPaymentCount
<1>3. ASSUME crashes' = 0, NEW r \in Registrations, ~Uncounted(r)'
      PROVE  registrations'[r].paymentCount = CurrentPaymentCount(r)'
  <2>1. CASE r = k[1]
    BY <1>1, <1>3, <2>1 DEF Uncounted
  <2>2. CASE r # k[1]
    BY <1>3, <2>2 DEF CountInv, Uncounted
  <2> QED
    BY <2>1, <2>2
<1> QED
  BY <1>2, <1>3 DEF CountInv

LEMMA CountBySaving ==
    ASSUME ExcelTypeOK, CountInv, crashes' = crashes, SaveTransaction(Payer)
    PROVE  CountInv'
<1>1. PICK k \in Key : k = storing[Payer].key
  BY PayerStores, StorerFacts DEF ExcelTypeOK
<1>2. /\ SavedBy(Payer) /\ storing'[Payer].pc \in {"link", "count"}
      /\ storing'[Payer].key = k /\ StoringTypeOK'
  BY <1>1, PayerStores, SaveTransactionKeeps DEF ExcelTypeOK, OnlyStorer
<1>3. /\ registrations' = registrations
      /\ Len(transactions') = Len(transactions) + 1
      /\ transactions'[Len(transactions) + 1].registration = k[1]
      /\ \A i \in 1..Len(transactions) : transactions'[i] = transactions[i]
  BY <1>1, <1>2 DEF SavedBy, SaveTransaction
<1>4. /\ Len(transactions) \in Nat /\ transactions' \in Seq(Transaction)
      /\ StoreTypeOK
  BY <1>2, TransactionsLength DEF ExcelTypeOK, StoringTypeOK, StoreTypeOK
<1>5. ASSUME NEW r \in Registrations \ {k[1]}
      PROVE  CurrentPaymentCount(r)' = CurrentPaymentCount(r)
  <2>1. \A i \in Len(transactions) + 1 .. Len(transactions') :
          transactions'[i].registration # r
    BY <1>3, <1>4, <1>5
  <2>2. Len(transactions') \in Nat /\ Len(transactions) <= Len(transactions')
    BY <1>3, <1>4
  <2> QED
    BY <1>3, <1>4, <2>1, <2>2, CountKept
<1>6. /\ storing'[Payer].pc \in {"link", "count", "complete", "log", "update"}
      /\ storing'[Payer].pc \notin {"complete", "log", "update"}
  BY <1>2
<1> QED
  BY <1>1, <1>2, <1>3, <1>5, <1>6, CountByStorer

\* What the steps of the storer say about the registration of its key.
LEMMA CountOfKey ==
    ASSUME ExcelTypeOK, CountInv, NEW k \in Key, k = storing[Payer].key,
           crashes = 0
    PROVE  /\ ~(storing[Payer].pc \in {"link", "count", "complete", "log", "update"})
                => registrations[k[1]].paymentCount = CurrentPaymentCount(k[1])
           /\ storing[Payer].pc \in {"complete", "log", "update"}
                => storing[Payer].count = CurrentPaymentCount(k[1])
<1>1. k[1] \in Registrations
  BY DEF Key
<1> QED
  BY <1>1 DEF CountInv, Uncounted

LEMMA CountByStoring ==
    ASSUME ExcelTypeOK, CountInv, crashes' = crashes, StoringStep(Payer)
    PROVE  CountInv'
<1> SUFFICES ASSUME crashes = 0 PROVE CountInv'
  BY DEF CountInv
<1>0. CASE SaveTransaction(Payer)
  BY <1>0, CountBySaving
<1>1. CASE ~SaveTransaction(Payer)
  <2>1. PICK k \in Key : k = storing[Payer].key
    BY PayerStores, StorerFacts DEF ExcelTypeOK
  <2>2. k[1] \in Registrations /\ Payer \in Storers /\ StoringTypeOK
    BY PayerStores DEF Key, ExcelTypeOK
  <2>3. storing'[Payer].key = k /\ transactions' = transactions
    BY <1>1, <2>1, <2>2, StoringStepKeeps
       DEF StoringStep, OnlyStorer, LinkTwilioMessage, CountPayments,
           CompleteRegistration, LogCompletion, UpdatePaymentCount, UpdateLatest,
           storeVars
  <2>4. \A r \in Registrations : CurrentPaymentCount(r)' = CurrentPaymentCount(r)
    BY <2>3, CountUnchanged
  <2>5. \A r \in Registrations \ {k[1]} :
           registrations'[r].paymentCount = registrations[r].paymentCount
    BY <2>1, <2>2, StoringOfRegistration
  <2>6. storing[Payer] \in Storing /\ storing[Payer].count \in Nat
    BY <2>2, StorerFacts
  <2>7. ASSUME NEW pc \in StoringPc, storing' = [storing EXCEPT ![Payer].pc = pc]
        PROVE  storing'[Payer].pc = pc /\ storing'[Payer].count = storing[Payer].count
    BY <2>2, <2>6, <2>7 DEF StoringTypeOK, Storing
  <2>8. CASE LinkTwilioMessage(Payer)
    <3>1. storing'[Payer].pc = "count"
      BY <2>7, <2>8 DEF LinkTwilioMessage, StoringPc
    <3> QED
      BY <2>1, <2>3, <2>4, <2>5, <3>1, CountByStorer
  <2>9. CASE CountPayments(Payer)
    <3>1. /\ storing'[Payer].pc \in {"complete", "update"}
          /\ storing'[Payer].count = CurrentPaymentCount(k[1])
      BY <2>1, <2>2, <2>6, <2>9 DEF CountPayments, StoringTypeOK, Storing
    <3> QED
      BY <2>1, <2>2, <2>3, <2>4, <2>5, <3>1, CountByStorer
  <2>10. CASE CompleteRegistration(Payer)
    <3>1. /\ storing'[Payer].pc = "log" /\ storing[Payer].pc = "complete"
          /\ storing'[Payer].count = storing[Payer].count
      BY <2>7, <2>10 DEF CompleteRegistration, StoringPc
    <3> QED
      BY <2>1, <2>2, <2>3, <2>4, <2>5, <3>1, CountOfKey, CountByStorer
  <2>11. CASE LogCompletion(Payer)
    <3>1. /\ storing'[Payer].pc = "update" /\ storing[Payer].pc = "log"
          /\ storing'[Payer].count = storing[Payer].count
      BY <2>7, <2>11 DEF LogCompletion, StoringPc
    <3> QED
      BY <2>1, <2>2, <2>3, <2>4, <2>5, <3>1, CountOfKey, CountByStorer
  <2>12. CASE UpdatePaymentCount(Payer)
    <3>1. /\ storing'[Payer].pc = "latest" /\ storing[Payer].pc = "update"
      BY <2>7, <2>12 DEF UpdatePaymentCount, StoringPc
    <3>2. registrations'[k[1]].paymentCount = storing[Payer].count
      BY <2>1, <2>2, <2>12 DEF UpdatePaymentCount, StoringTypeOK, StoreTypeOK
    <3>3. registrations'[k[1]].paymentCount = CurrentPaymentCount(k[1])'
      BY <2>1, <2>2, <2>4, <3>1, <3>2, CountOfKey
    <3> QED
      BY <2>1, <2>3, <2>4, <2>5, <3>1, <3>3, CountByStorer
  <2>13. CASE UpdateLatest(Payer)
    <3>1. /\ storing'[Payer].pc = "stored" /\ storing[Payer].pc = "latest"
          /\ registrations' = registrations
      BY <2>7, <2>13 DEF UpdateLatest, StoringPc
    <3>3. registrations'[k[1]].paymentCount = CurrentPaymentCount(k[1])'
      BY <2>1, <2>2, <2>4, <3>1, CountOfKey
    <3> QED
      BY <2>1, <2>3, <2>4, <2>5, <3>1, <3>3, CountByStorer
  <2> QED
    BY <1>1, <2>8, <2>9, <2>10, <2>11, <2>12, <2>13 DEF StoringStep
<1> QED
  BY <1>0, <1>1

\* The import adds transactions of payments that have one already.
LEMMA CountByImport ==
    ASSUME ExcelTypeOK, CountInv, PaidInv, crashes' = crashes, SaveTransactions
    PROVE  CountInv'
<1>1. /\ transactions' \in Seq(Transaction)
      /\ Len(transactions') \in Nat /\ Len(transactions) <= Len(transactions')
      /\ \A i \in 1..Len(transactions) : transactions'[i] = transactions[i]
      /\ \A i \in Len(transactions) + 1 .. Len(transactions') :
            \E row \in DOMAIN import.results : \E x \in import.results[row] :
                /\ transactions'[i].registration = x.registration
                /\ transactions'[i].payment = import.payment
  BY SaveTransactionsAppends
<1>2. /\ UNCHANGED <<latestTransactions, registrations, storing>>
      /\ import.pc = "save" /\ StoreTypeOK
  BY DEF SaveTransactions, ExcelTypeOK, StoringTypeOK
<1>3. ASSUME NEW i \in Len(transactions) + 1 .. Len(transactions')
      PROVE  \E j \in 1..Len(transactions) :
                /\ transactions[j].registration = transactions'[i].registration
                /\ transactions[j].payment = transactions'[i].payment
  <2>1. PICK row \in DOMAIN import.results : \E x \in import.results[row] :
                /\ transactions'[i].registration = x.registration
                /\ transactions'[i].payment = import.payment
    BY <1>1
  <2>2. PICK x \in import.results[row] :
                /\ transactions'[i].registration = x.registration
                /\ transactions'[i].payment = import.payment
    BY <2>1
  <2>3. PICK k : k = <<x.registration, import.payment>>
    OBVIOUS
  <2>4. k \in Key
    BY <1>2, <2>3, ImportFacts DEF Key, Result
  <2>5. latestTransactions[k] # NoTransaction
    BY <1>2, <2>3 DEF PaidInv, FoundIsPaid
  <2>6. latestTransactions[k] \in 1..Len(transactions)
    BY <1>2, <2>4, <2>5, TransactionsLength
       DEF StoreTypeOK, NoTransaction, ExcelTypeOK
  <2>7. KeyOf(latestTransactions[k]) = k
    BY <2>4, <2>5 DEF PaidInv, LatestIsOwn
  <2> QED
    BY <2>2, <2>3, <2>6, <2>7 DEF KeyOf
<1>4. ASSUME NEW r \in Registrations
      PROVE  CurrentPaymentCount(r)' = CurrentPaymentCount(r)
  BY <1>1, <1>2, <1>3, CountKept
<1> QED
  BY <1>2, <1>4, CountBeside

\* The storer begins or ends, and nothing is counted meanwhile.
LEMMA CountByBeginning ==
    ASSUME ExcelTypeOK, CountInv, crashes' = crashes,
           UNCHANGED <<transactions, registrations>>,
           storing[Payer].pc \in {"idle", "stored"}, storing'[Payer].pc \in {"save", "idle"}
    PROVE  CountInv'
<1>1. \A r \in Registrations : CurrentPaymentCount(r)' = CurrentPaymentCount(r)
  BY CountUnchanged
<1> QED
  BY <1>1 DEF CountInv, Uncounted

LEMMA CountByExcel ==
    ASSUME ExcelTypeOK, CountInv, PaidInv, crashes' = crashes, ExcelStep
    PROVE  CountInv'
<1>1. CASE StoringStep(Payer)
  BY <1>1, CountByStoring
<1>2. CASE SaveTransactions
  BY <1>2, CountByImport
<1>3. CASE StoreNextTransaction
  <2>1. PICK r \in payout.left :
          BeginStoring(Payer, <<r, payout.payment>>, "waiting", FALSE)
    BY <1>3 DEF StoreNextTransaction
  <2>2. <<r, payout.payment>> \in Key /\ "waiting" \in TransactionStatus
    BY <2>1 DEF ExcelTypeOK, PayoutTypeOK, Key, TransactionStatus
  <2>3. storing[Payer].pc = "idle" /\ storing'[Payer].pc = "save"
    BY <2>1, <2>2, PayerStores, BeginStoringKeepsType DEF ExcelTypeOK
  <2>4. UNCHANGED <<transactions, registrations>>
    BY <2>1 DEF BeginStoring, BeginStoringAt, storeVars
  <2> QED
    BY <2>3, <2>4, CountByBeginning
<1>4. CASE TransactionStored
  <2>1. storing[Payer].pc = "stored" /\ storing'[Payer].pc = "idle"
    BY <1>4, PayerStores, EndStoringKeepsType DEF TransactionStored, ExcelTypeOK
  <2>2. UNCHANGED <<transactions, registrations>>
    BY <1>4 DEF TransactionStored, EndStoring, storeVars
  <2> QED
    BY <2>1, <2>2, CountByBeginning
<1>5. CASE /\ ~StoringStep(Payer) /\ ~SaveTransactions
           /\ ~StoreNextTransaction /\ ~TransactionStored
  <2>1. UNCHANGED <<transactions, registrations, storing>>
    BY <1>5 DEF ExcelStep, PostPayment, RetryPayment, StartRun, ImportReconciliation,
                SavePaymentFinished, GetRegistrationsForReconciliation,
                JoinRegistrationsAndImportRecords, JoinRegistrations,
                UpdateSavedLatest, storingVars, storeVars
  <2> QED
    BY <2>1, CountUnchanged, CountBeside
<1> QED
  BY <1>1, <1>2, <1>3, <1>4, <1>5

LEMMA CountByRequest ==
    ASSUME TypeOK, CountInv, NEW q \in Requests, BulkStep(q) PROVE CountInv'
<1>1. UNCHANGED <<transactions, storing, crashes>>
  BY DEF BulkStep, StartBulk, ReadPage, ReadPageOf, UpdateStatus, LogStatus,
         DeleteAttributes, DeleteAttributesOf, DeleteNumbers, FinishBulk, storingVars,
         storeVars, excelVars, bulkOnly
<1>2. \A r \in Registrations :
         registrations'[r].paymentCount = registrations[r].paymentCount
  BY StartBulkStep, ReadPageStep, UpdateStatusStep, LogStatusStep,
     DeleteAttributesStep, DeleteNumbersStep, FinishBulkStep DEF BulkStep
<1>3. \A r \in Registrations : CurrentPaymentCount(r)' = CurrentPaymentCount(r)
  BY <1>1, CountUnchanged
<1> QED
  BY <1>1, <1>2, <1>3, CountBeside DEF TypeOK

LEMMA NextKeepsCount == TypeOK /\ PaidInv /\ CountInv /\ [Next]_vars => CountInv'
<1> SUFFICES ASSUME TypeOK, PaidInv, CountInv, [Next]_vars PROVE CountInv'
  OBVIOUS
<1>0. ExcelTypeOK /\ crashes \in Nat
  BY BulkBoundsAssumption DEF TypeOK
<1>1. CASE PaymentStep
  BY <1>0, <1>1, CountByExcel DEF PaymentStep
<1>2. CASE \E q \in Requests : BulkStep(q)
  BY <1>2, CountByRequest
<1>3. CASE Crash
  <2>1. crashes' # 0
    BY <1>0, <1>3 DEF Crash
  <2> QED
    BY <2>1 DEF CountInv
<1>4. CASE UNCHANGED vars
  <2>1. UNCHANGED <<transactions, storing, registrations, crashes>>
    BY <1>4 DEF vars, bulkVars, storingVars, storeVars
  <2> QED
    BY <1>0, <2>1, CountUnchanged, CountBeside
<1> QED
  BY <1>1, <1>2, <1>3, <1>4 DEF Next

LEMMA CountInit == Init => PaidInv /\ CountInv
<1> SUFFICES ASSUME Init PROVE PaidInv /\ CountInv
  OBVIOUS
<1>1. LatestIsOwn
  BY DEF Init, ExcelInit, StoringInit, StoreInit, LatestIsOwn
<1>2. FoundIsPaid
  BY NoImportType DEF Init, ExcelInit, FoundIsPaid
<1>3. storing[Payer].pc = "idle"
  BY PayerStores DEF Init, ExcelInit, StoringInit, NotStoring
<1>4. ASSUME NEW r \in Registrations
      PROVE  registrations[r].paymentCount = CurrentPaymentCount(r)
  <2>1. transactions = << >> /\ registrations[r].paymentCount = 0
    BY DEF Init, ExcelInit, StoringInit, StoreInit
  <2>2. {transactions[i].payment :
           i \in {j \in DOMAIN transactions : transactions[j].registration = r}} = {}
    BY <2>1
  <2>3. CurrentPaymentCount(r) = 0
    BY <2>2, FS_EmptySet, Zenon DEF CurrentPaymentCount
  <2> QED
    BY <2>1, <2>3
<1> QED
  BY <1>1, <1>2, <1>3, <1>4 DEF PaidInv, CountInv

LEMMA CountsAreRight == CountInv => PaymentCountIsPaymentsMade
BY DEF CountInv, Uncounted, PaymentCountIsPaymentsMade

\* As long as the service does not stop, the count of every registration is the
\* number of its payments whenever nothing is being stored, although an import
\* stores without counting and completing writes back a count read before.
THEOREM PaymentCountIsPaymentsMadeHolds == Spec => []PaymentCountIsPaymentsMade
<1>1. Init => PaidInv /\ CountInv
  BY CountInit
<1>2. TypeOK /\ PaidInv /\ [Next]_vars => PaidInv'
  BY NextKeepsPaid
<1>3. TypeOK /\ PaidInv /\ CountInv /\ [Next]_vars => CountInv'
  BY NextKeepsCount
<1>4. CountInv => PaymentCountIsPaymentsMade
  BY CountsAreRight
<1> QED
  BY <1>1, <1>2, <1>3, <1>4, TypeOKHolds, PTL DEF Spec

=============================================================================
