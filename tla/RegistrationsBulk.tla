------------------------- MODULE RegistrationsBulk -------------------------
(***************************************************************************)
(* Changing the status of many registrations and deleting them             *)
(* (registrations-bulk.service), beside payments that store transactions   *)
(* and so complete registrations, and imports that store more of them.     *)
(*                                                                         *)
(*   request -> counts the registrations its filter and the allowed        *)
(*              statuses select, and then for each page: reads the first   *)
(*              page anew, updates the status by id, and reads the ids     *)
(*              again to log the change; a deletion then removes the       *)
(*              personal data of the page                                  *)
(*                                                                         *)
(* The request is answered before it does all this, and nothing keeps      *)
(* two of them, or a request and a payment, apart.  A crash ends it.       *)
(* The messages it may queue belong to WhatsappMessages.                   *)
(***************************************************************************)
EXTENDS ExcelPayments

CONSTANTS
    Requests,    \* the requests that may be changing statuses
    Targets,     \* the statuses they change to
    Pagings,     \* how a request may go through its pages
    MaxChanges,  \* bound on the requests made
    MaxCrashes   \* bound on the crashes

ASSUME IdsAssumption == Registrations \subseteq Nat /\ IsFiniteSet(Registrations)
ASSUME TargetsAssumption == Targets \subseteq RegistrationStatus
ASSUME BulkBoundsAssumption ==
    /\ Pagings \subseteq [size : Nat \ {0}, byId : BOOLEAN] /\ Pagings # {}
    /\ MaxChanges \in Nat /\ MaxCrashes \in Nat

VARIABLES
    bulk,       \* how far each request is, and what it has read
    numbers,    \* the registrations whose phone number is stored
    numberRead, \* has the registration the payer is storing for, as read, one?
    abandoned,  \* registrations of deletions that did not get to their end
    changes, crashes

bulkVars == <<bulk, numbers, numberRead, abandoned, changes, crashes>>
vars == <<storingVars, excelVars, bulkVars>>

BulkPc == {"idle", "read", "update", "log", "attributes", "numbers"}

\* paging: how many registrations fill a page, 10000 in the code, and whether
\* they come in the order of the ids: a user may sort the table otherwise.
\* filter: what the user selected.  pages: still to do.  page and old: the
\* registrations read, and their statuses then.  selected and changed: what it
\* counted at first, and what it has updated.  alone: nothing else has changed
\* a registration since it began.
Bulk == [pc : BulkPc, to : RegistrationStatus, paging : Pagings,
         filter : SUBSET Registrations, pages : Nat,
         page : SUBSET Registrations, old : [Registrations -> RegistrationStatus],
         selected : SUBSET Registrations, changed : SUBSET Registrations,
         alone : BOOLEAN]

TypeOK ==
    /\ ExcelTypeOK
    /\ bulk \in [Requests -> Bulk]
    /\ numbers \subseteq Registrations /\ numberRead \in BOOLEAN
    /\ abandoned \subseteq Registrations
    /\ changes \in 0..MaxChanges /\ crashes \in 0..MaxCrashes

NoBulk == [pc |-> "idle", to |-> "paused", filter |-> {},
           paging |-> CHOOSE paging \in Pagings : TRUE,
           pages |-> 0, page |-> {}, old |-> [r \in Registrations |-> "paused"],
           selected |-> {}, changed |-> {}, alone |-> FALSE]

Init ==
    /\ ExcelInit
    /\ bulk = [q \in Requests |-> NoBulk]
    /\ numbers = Registrations /\ numberRead = FALSE /\ abandoned = {}
    /\ changes = 0 /\ crashes = 0

-----------------------------------------------------------------------------
CanChangeStatus(current, new) ==
    CASE new = "validated" -> current = "registered"
      [] new = "declined"  -> current \in {"included", "paused", "registered",
                                           "validated"}
      [] new = "included"  -> current # "included"
      [] new = "deleted"   -> current # "deleted"
      [] new \in {"completed", "paused"} -> current \in {"deleted", "included"}
      [] OTHER -> FALSE

\* paymentCountRemaining is null when the program has no maximum.
PaymentsRemain(r) ==
    MaxPayments = 0 \/ registrations[r].paymentCount < MaxPayments

\* The base query leaves out whoever is deleted.
Applicable(filter, to) ==
    {r \in filter : /\ registrations[r].status # "deleted"
                    /\ CanChangeStatus(registrations[r].status, to)
                    /\ to = "included" => PaymentsRemain(r)}

StartBulk(q, to) ==
    /\ bulk[q].pc = "idle"
    /\ changes < MaxChanges
    /\ changes' = changes + 1
    /\ \E filter \in SUBSET Registrations \ {{}}, paging \in Pagings :
         LET selected == Applicable(filter, to)
         IN  bulk' = [bulk EXCEPT ![q] = [NoBulk EXCEPT
               !.pc = "read", !.to = to, !.paging = paging,
               !.filter = filter, !.selected = selected, !.alone = TRUE,
               !.pages = (Cardinality(selected) + paging.size - 1) \div paging.size]]
    /\ UNCHANGED <<storingVars, excelVars, numbers, numberRead, abandoned, crashes>>

bulkOnly == <<numbers, numberRead, abandoned, changes, crashes>>

\* The first registrations of the filter, in the order of the request.
FirstPages(applicable, paging) ==
    {chunk \in SUBSET applicable :
        /\ Cardinality(chunk) = Min({Cardinality(applicable), paging.size})
        /\ paging.byId => \A r \in chunk, s \in applicable \ chunk : r < s}

ReadPageOf(q, applicable) ==
    /\ bulk[q].pc = "read"
    /\ bulk[q].pages > 0
    /\ \E chunk \in FirstPages(applicable, bulk[q].paging) :
         bulk' = [bulk EXCEPT
           ![q].pc = "update", ![q].page = chunk, ![q].pages = @ - 1,
           ![q].old = [r \in Registrations |->
                IF r \in chunk THEN registrations[r].status ELSE "paused"]]
    /\ UNCHANGED <<storingVars, excelVars, bulkOnly>>

\* Pages counted on, while what was changed has left the filter.
ReadNextPage_Wrong(q) ==
    LET applicable == Applicable(bulk[q].filter, bulk[q].to)
    IN  \E skipped \in SUBSET applicable :
          /\ Cardinality(skipped) = Min({Cardinality(bulk[q].changed),
                                         Cardinality(applicable)})
          /\ ReadPageOf(q, applicable \ skipped)

ReadPage(q) == ReadPageOf(q, Applicable(bulk[q].filter, bulk[q].to))

UpdateStatus(q) ==
    /\ bulk[q].pc = "update"
    /\ registrations' = [r \in Registrations |->
         IF r \in bulk[q].page
         THEN [registrations[r] EXCEPT !.status = bulk[q].to]
         ELSE registrations[r]]
    /\ bulk' = [other \in Requests |->
         IF other = q
         THEN [bulk[q] EXCEPT !.pc = "log", !.changed = @ \cup bulk[q].page]
         ELSE [bulk[other] EXCEPT !.alone = FALSE]]
    /\ UNCHANGED <<transactions, latestTransactions, storing, linked,
                   statusEvents, excelVars, bulkOnly>>

WithoutPage(b) ==
    [b EXCEPT !.pc = "read", !.page = NoBulk.page, !.old = NoBulk.old]

LeavesBehind(q) == IF bulk[q].to = "deleted" THEN bulk[q].page ELSE {}

\* Compares what it read with what it reads now.  The second query is ordered
\* by id; when the first was not, the lists differ and the request ends here.
LogStatus(q) ==
    LET logged == {r \in bulk[q].page : registrations[r].status # bulk[q].old[r]}
        event(r) == [registration |-> r, from |-> bulk[q].old[r],
                     to |-> registrations[r].status]
    IN  /\ bulk[q].pc = "log"
        /\ \/ /\ \E order \in InOrder(logged) :
                   statusEvents' = statusEvents \o
                       [i \in DOMAIN order |-> event(order[i])]
              /\ bulk' = [bulk EXCEPT
                   ![q] = IF bulk[q].to = "deleted"
                          THEN [@ EXCEPT !.pc = "attributes"]
                          ELSE WithoutPage(@)]
              /\ UNCHANGED abandoned
           \/ /\ ~bulk[q].paging.byId /\ Cardinality(bulk[q].page) > 1
              /\ bulk' = [bulk EXCEPT ![q] = NoBulk]
              /\ abandoned' = abandoned \cup LeavesBehind(q)
              /\ UNCHANGED statusEvents
        /\ UNCHANGED <<storeVars, storing, linked, excelVars, numbers, numberRead,
                       changes, crashes>>

\* The notes of the page, and then its registration data ...
DeleteAttributesOf(q, page) ==
    /\ bulk[q].pc = "attributes"
    /\ attributes' = attributes \ page
    /\ bulk' = [bulk EXCEPT ![q].pc = "numbers"]
    /\ UNCHANGED <<storingVars, payout, inProgress, import, runs, imports,
                   bulkOnly>>

DeleteAttributesOfQuery_Wrong(q) ==
    DeleteAttributesOf(q, Applicable(bulk[q].filter, bulk[q].to))

DeleteAttributes(q) == DeleteAttributesOf(q, bulk[q].page)

\* ... and its messages, and last its phone numbers.  Notes and messages, which
\* nothing here reads, are left out.
DeleteNumbers(q) ==
    /\ bulk[q].pc = "numbers"
    /\ numbers' = numbers \ bulk[q].page
    /\ bulk' = [bulk EXCEPT ![q] = WithoutPage(@)]
    /\ UNCHANGED <<storingVars, excelVars, numberRead, abandoned, changes, crashes>>

FinishBulk(q) ==
    /\ bulk[q].pc = "read"
    /\ bulk[q].pages = 0
    /\ bulk' = [bulk EXCEPT ![q] = NoBulk]
    /\ UNCHANGED <<storingVars, excelVars, bulkOnly>>

BulkStep(q) ==
    \/ \E to \in Targets : StartBulk(q, to)
    \/ ReadPage(q)
    \/ UpdateStatus(q)
    \/ LogStatus(q)
    \/ DeleteAttributes(q)
    \/ DeleteNumbers(q)
    \/ FinishBulk(q)

\* A crash while nothing is going on changes nothing: the tables stay.
Crash ==
    /\ crashes < MaxCrashes
    /\ \/ payout # NoPayout \/ import # NoImport
       \/ \E q \in Requests : bulk[q].pc # "idle"
    /\ crashes' = crashes + 1
    /\ StopExcel
    /\ bulk' = [q \in Requests |-> NoBulk]
    /\ abandoned' = abandoned \cup UNION {LeavesBehind(q) : q \in Requests}
    /\ numberRead' = FALSE
    /\ UNCHANGED <<numbers, changes>>

\* The number is read with the registration, and written back with the whole of
\* it when it is completed, also if it has been removed in between.
ReadNumber ==
    LET next == storing'[Payer]
    IN  numberRead' = /\ next.pc \in {"save", "link", "count", "complete"}
                      /\ IF storing[Payer].pc = "idle"
                         THEN next.key[1] \in numbers
                         ELSE numberRead

SaveNumber ==
    LET r == storing[Payer].key[1]
    IN  numbers' = IF storing[Payer].pc = "complete" /\ storing'[Payer].pc = "log"
                   THEN (numbers \ {r}) \cup IF numberRead THEN {r} ELSE {}
                   ELSE numbers

PaymentStep ==
    /\ ExcelStep
    /\ ReadNumber
    /\ SaveNumber
    /\ bulk' = [q \in Requests |->
         [bulk[q] EXCEPT !.alone = @ /\ registrations' = registrations]]
    /\ UNCHANGED <<abandoned, changes, crashes>>

Next ==
    \/ PaymentStep
    \/ \E q \in Requests : BulkStep(q)
    \/ Crash

Spec == Init /\ [][Next]_vars

-----------------------------------------------------------------------------
(* Properties.                                                             *)

\* The import stores transactions without counting payments, "as it is
\* reconciliation of existing payment"; completing writes a count that was
\* read before.  Still the count of a registration is that of its payments
\* whenever nothing is being stored (transactions.service.ts:301-361).
PaymentCountIsPaymentsMade ==
    storing[Payer].pc = "idle" /\ crashes = 0 => \A r \in Registrations :
        registrations[r].paymentCount = CurrentPaymentCount(r)

\* A request reads the first page again and again, because what it has changed
\* leaves its filter.  When it is done, and nothing else has changed a
\* registration meanwhile, it has changed all that it had counted
\* (registrations-bulk.service.ts:382-419).
BulkChangeReachesAll ==
    \A q \in Requests :
        bulk[q].pc = "read" /\ bulk[q].pages = 0 /\ bulk[q].alone =>
            bulk[q].selected \subseteq bulk[q].changed

\* A deleted registration has lost its registration data and its number, or a
\* deletion is about to remove them in that order, or was cut short
\* (registrations-bulk.service.ts:530-582).
DeletedHasNoAttributes ==
    \A r \in (attributes \cup numbers) \ abandoned :
        registrations[r].status = "deleted" =>
            \E q \in Requests :
                /\ r \in bulk[q].page
                /\ bulk[q].to = "deleted"
                /\ \/ bulk[q].pc \in {"log", "attributes"}
                   \/ bulk[q].pc = "numbers" /\ r \notin attributes

\* "... and cannot make new payments to them" (Portal, i18n/en.json:303).
NoPaymentToDeleted ==
    [][\A r \in payout'.left \ payout.left :
         registrations[r].status # "deleted"]_vars
=============================================================================
