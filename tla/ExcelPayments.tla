-------------------------- MODULE ExcelPayments --------------------------
(***************************************************************************)
(* Payments that are exported to a spreadsheet: payments.service and       *)
(* excel.service.                                                          *)
(*                                                                         *)
(*   payment or retry -> stores a "waiting" transaction for one            *)
(*                       registration after the other, in the request      *)
(*   import           -> reads, for each Excel configuration, the paid     *)
(*                       registrations and then their transactions; joins  *)
(*                       them with the rows of the file; saves all new     *)
(*                       transactions of a configuration in one statement  *)
(*                       and then makes them the latest, one by one        *)
(*                                                                         *)
(* A request lives in the memory of the service: a crash ends it.  The     *)
(* amounts, which the join also looks up, are left out.                    *)
(***************************************************************************)
EXTENDS TransactionStoring, SequencesExt

CONSTANTS
    Payer,      \* the request that pays; Importer is no storer of this kind
    Configs,    \* the Excel configurations of the program, in order
    ConfigOf,   \* the configuration of each registration
    MatchOf,    \* the value of each registration in the match column
    Values,     \* the values a file may hold in the match column
    MaxRows,    \* bound on the rows of a file
    MaxRuns,    \* bound on payments and retries
    MaxImports  \* bound on imports

ASSUME PayerAssumption == Storers = {Payer}
ASSUME ConfigsAssumption ==
    /\ Configs \in Seq(ToSet(Configs)) /\ IsInjective(Configs)
    /\ ConfigOf \in [Registrations -> ToSet(Configs)]
ASSUME ValuesAssumption == MatchOf \in [Registrations -> Values]
ASSUME ExcelBoundsAssumption ==
    MaxRows \in Nat /\ MaxRuns \in Nat /\ MaxImports \in Nat

VARIABLES
    attributes, \* the registrations whose registration data is stored
    payout,     \* the registrations the payment has yet to store
    inProgress, \* paymentStarted is saved and paymentFinished is not
    import,     \* the import, and what it has read
    runs, imports

excelVars == <<attributes, payout, inProgress, import, runs, imports>>

Row == [value : Values, status : {"success", "error"}]

\* A transaction to store for a row of the file.  The result of a row that
\* names nobody, notFound in the code, is the empty set.
Result == [registration : Registrations, status : {"success", "error"}]

ImportPc == {"idle", "registrations", "transactions", "save", "latest"}

\* config: the configuration it is at.  found and named: the registrations it
\* has read, and those of them with a value to match.  results: one for each
\* row.  saved: the transactions it has yet to make the latest.
Import == [pc : ImportPc, payment : Payments \cup {0}, file : Seq(Row),
           config : DOMAIN Configs, found : SUBSET Registrations,
           named : SUBSET Registrations, results : Seq(SUBSET Result),
           saved : SUBSET Nat]

PayoutTypeOK ==
    /\ attributes \subseteq Registrations
    /\ payout \in [payment : Payments \cup {0}, left : SUBSET Registrations]
    /\ payout.left # {} => payout.payment \in Payments
    /\ inProgress \in BOOLEAN
    /\ runs \in 0..MaxRuns /\ imports \in 0..MaxImports

ImportTypeOK ==
    /\ import \in Import
    /\ import.pc # "idle" => import.payment \in Payments
    /\ Len(import.file) <= MaxRows /\ Len(import.results) = Len(import.file)
    /\ import.named \subseteq import.found
    /\ \A i \in DOMAIN import.results : Cardinality(import.results[i]) <= 1
    /\ import.saved \subseteq DOMAIN transactions

ExcelTypeOK == StoringTypeOK /\ PayoutTypeOK /\ ImportTypeOK

NoPayout == [payment |-> 0, left |-> {}]
NoImport == [pc |-> "idle", payment |-> 0, file |-> << >>, config |-> 1,
             found |-> {}, named |-> {}, results |-> << >>, saved |-> {}]

ExcelInit ==
    /\ StoringInit
    /\ attributes = Registrations
    /\ payout = NoPayout
    /\ inProgress = FALSE
    /\ import = NoImport
    /\ runs = 0 /\ imports = 0

-----------------------------------------------------------------------------
(* Payments and retries.                                                   *)

StartRun(p, chosen) ==
    /\ ~inProgress
    /\ chosen # {}
    /\ runs < MaxRuns
    /\ inProgress' = TRUE
    /\ payout' = [payment |-> p, left |-> chosen]
    /\ runs' = runs + 1
    /\ UNCHANGED <<storingVars, attributes, import, imports>>

PostPayment(p) ==
    \E chosen \in SUBSET PayableRegistrations(p) : StartRun(p, chosen)

\* Neither query for failed transactions looks at the status of the
\* registration.
RetryPayment(p) ==
    \/ StartRun(p, FailedRegistrations(p))
    \/ \E chosen \in SUBSET Registrations :
         /\ \A r \in chosen : NewestTransactionFailed(<<r, p>>)
         /\ StartRun(p, chosen)

StoreNextTransaction ==
    \E r \in payout.left :
        /\ BeginStoring(Payer, <<r, payout.payment>>, "waiting", FALSE)
        /\ payout' = [payout EXCEPT !.left = @ \ {r}]
        /\ UNCHANGED <<attributes, inProgress, import, runs, imports>>

TransactionStored ==
    /\ EndStoring(Payer)
    /\ UNCHANGED excelVars

SavePaymentFinished ==
    /\ inProgress
    /\ payout.payment # 0
    /\ payout.left = {}
    /\ storing[Payer].pc = "idle"
    /\ payout' = NoPayout
    /\ inProgress' = FALSE
    /\ UNCHANGED <<storingVars, attributes, import, runs, imports>>

-----------------------------------------------------------------------------
(* The import of a file with the results of the bank.                      *)

PaidWith(c, p) ==
    {r \in Registrations : /\ ConfigOf[r] = c
                           /\ latestTransactions[<<r, p>>] # NoTransaction}

ImportReconciliation(p) ==
    /\ import.pc = "idle"
    /\ imports < MaxImports
    /\ \E file \in BoundedSeq(Row, MaxRows) :
         import' = [NoImport EXCEPT
             !.pc = "registrations", !.payment = p, !.file = file,
             !.results = [i \in DOMAIN file |-> {}]]
    /\ imports' = imports + 1
    /\ UNCHANGED <<storingVars, attributes, payout, inProgress, runs>>

unchangedByImport == <<attributes, payout, inProgress, runs, imports>>

\* A deleted registration is still found, but without a value to match.
GetRegistrationsForReconciliation ==
    LET found == PaidWith(Configs[import.config], import.payment)
    IN  /\ import.pc = "registrations"
        /\ import' = [import EXCEPT !.pc = "transactions", !.found = found,
                                    !.named = found \cap attributes]
        /\ UNCHANGED <<storingVars, unchangedByImport>>

\* Of the rows with one value, the map of the results keeps the last; and the
\* join finds one of the registrations that have the value.
LastRows(file, v) ==
    {i \in DOMAIN file :
        /\ file[i].value = v
        /\ \A j \in DOMAIN file : file[j].value = v => j <= i}

NamedBy(named, v) == {r \in named : MatchOf[r] = v}

Winners(named) ==
    {w \in [Values -> Registrations] :
        \A v \in Values : NamedBy(named, v) # {} => w[v] \in NamedBy(named, v)}

ResultsWith(named, winner) ==
    [i \in DOMAIN import.file |->
        LET v == import.file[i].value
        IN  IF NamedBy(named, v) = {}
            THEN import.results[i]
            ELSE {[registration |-> winner[v], status |-> import.file[j].status] :
                     j \in LastRows(import.file, v)}]

\* A configuration without registrations gives no rows, and what is not found
\* in that empty result replaces what other configurations have found: the
\* next thing that looks at it throws.  So do different numbers of
\* registrations and transactions.  An import that throws stores nothing.
JoinRegistrationsThrows ==
    \/ import.found = {} /\ import.file # << >>
    \/ import.found # {} /\
         import.found # PaidWith(Configs[import.config], import.payment)

\* Sorting throws when it calls localeCompare of a value that is not there.
SortMayThrow == import.named # import.found /\ Cardinality(import.found) > 1

LastConfig == import.config = Len(Configs)

JoinRegistrations(named) ==
    /\ import.pc = "transactions"
    /\ \/ /\ JoinRegistrationsThrows \/ SortMayThrow
          /\ import' = NoImport
       \/ /\ ~JoinRegistrationsThrows
          /\ \E winner \in Winners(named) :
               import' = [import EXCEPT
                 !.results = ResultsWith(named, winner), !.found = {}, !.named = {},
                 !.pc = IF LastConfig THEN "save" ELSE "registrations",
                 !.config = IF LastConfig THEN 1 ELSE @ + 1]
    /\ UNCHANGED <<storingVars, unchangedByImport>>

JoinAllRegistrations_Wrong ==
    JoinRegistrations({r \in Registrations :
                         ConfigOf[r] = Configs[import.config]})

JoinRegistrationsAndImportRecords == JoinRegistrations(import.named)

\* The ways to put numbers in ascending order: there is one.
InOrder(S) ==
    {order \in [1..Cardinality(S) -> S] :
        \A i, j \in DOMAIN order : i < j => order[i] < order[j]}

\* The rows of one configuration.
RowsOf(c) ==
    {i \in DOMAIN import.results :
        \E x \in import.results[i] : ConfigOf[x.registration] = c}

\* The transaction to store for a row.
TransactionOf(i) ==
    LET x == CHOOSE x \in import.results[i] : TRUE
    IN  [registration |-> x.registration, payment |-> import.payment,
         status |-> x.status]

SaveTransactions ==
    \E rows \in InOrder(RowsOf(Configs[import.config])) :
        /\ import.pc = "save"
        /\ transactions' =
             transactions \o [n \in DOMAIN rows |-> TransactionOf(rows[n])]
        /\ import' = [import EXCEPT
             !.pc = "latest",
             !.saved = Len(transactions) + 1 .. Len(transactions')]
        /\ UNCHANGED <<latestTransactions, registrations, storing, linked,
                       statusEvents, unchangedByImport>>

\* In whatever order the database gives them back.
UpdateSavedLatest ==
    /\ import.pc = "latest"
    /\ \/ \E i \in import.saved :
            /\ InsertOrUpdateFromTransaction(i)
            /\ import' = [import EXCEPT !.saved = @ \ {i}]
       \/ /\ import.saved = {}
          /\ import' = IF LastConfig
                       THEN NoImport
                       ELSE [import EXCEPT !.pc = "save", !.config = @ + 1]
          /\ UNCHANGED latestTransactions
    /\ UNCHANGED <<transactions, registrations, storing, linked, statusEvents,
                   unchangedByImport>>

\* A crash ends the request that pays: its paymentFinished is never saved.
StopExcel ==
    /\ StopStoring
    /\ payout' = NoPayout
    /\ import' = NoImport
    /\ UNCHANGED <<storeVars, linked, statusEvents, attributes, inProgress, runs,
                   imports>>

ExcelStep ==
    \/ \E p \in Payments :
         PostPayment(p) \/ RetryPayment(p) \/ ImportReconciliation(p)
    \/ StoreNextTransaction
    \/ StoringStep(Payer) /\ UNCHANGED excelVars
    \/ TransactionStored
    \/ SavePaymentFinished
    \/ GetRegistrationsForReconciliation
    \/ JoinRegistrationsAndImportRecords
    \/ SaveTransactions
    \/ UpdateSavedLatest

=============================================================================
