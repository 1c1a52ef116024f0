# A TLA+ development of project-erp

This directory holds formal models of `erp/`, the Go server of the repository: TLA+ modules
translated from the source, TLC configurations that model-check them, and theorems that TLAPS
proves for every value of the constants. Paths below are relative to `src/erp/internal/` unless
they begin with `src/`.

    tlc -workers 2 -config sales_desk.cfg MCOrderToCash.tla    # a run: its cfg and its MC module
    tlapm OrderToCashProofs.tla                                # the proofs of a module

`PROJECT.json` lists the runs with the properties each checks, maps every definition to the lines
it models, names for every property a faulty variant of the code that violates it, and lists the
hazards of this code with the properties that watch over them.

## 1. The system

One Go process serves HTTP requests over one PostgreSQL database. Every module keeps its own
schema; modules meet through three things only: repositories called directly, an in-memory event
bus that runs its subscribers synchronously in the publishing request, and, for electronic
documents, the SOAP web service of the tax authority (DIAN). Each request is a goroutine, and
most use cases are a handful of statements that are *not* one transaction. That is where the
difficulty of this system lies: other requests run between two statements, a statement may fail
or be applied and its reply lost, and the process may die anywhere.

| component | state it keeps | operations that change it | how it interacts | modelled in |
|---|---|---|---|---|
| electronic issuing (`electronic/application/confirm.go`, `domain/document.go`, `document_repository.go`) | a document's status, number, prefix, tracking id | confirm, check-status | claims numbers, calls the DIAN | `ElectronicIssuing` |
| numbering ranges (`numbering_repository.go`, `get.go`) | `current_number`, `is_active`, `test_set_id` | claim, release, activate, deactivate | used by confirm only | `ElectronicIssuing` |
| drafts and e-mail (`create_draft.go`, `send_email.go`) | the content of documents | create, update, clone, delete, mail | compete with confirm for the row | `FrontOffice`, `ElectronicIssuing` |
| DIAN adapter (`infrastructure/cofacture/adapter.go`) | none; the DIAN keeps what it received and decided | send sync, send async, send test set, get status | answers, refuses, times out | `ElectronicIssuing` |
| from-sale, from-purchase (`from_sale.go`, `from_purchase.go`) | `invoice_document_id` of a sale, `support_document_id` of an order | create and link | reads the sale, creates a draft, writes the link: three statements | `OrderToCash`, `SaleAmounts`, `PurchaseToPay` |
| inventory (`inventory/`) | stock per product and warehouse, movements, folio counters | move, transfer, delete | handlers of `SaleConfirmed`, `PurchaseReceived` | `Inventory`, `StockLedger` |
| sales (`sales/`) | sale: draft, confirmed, cancelled; payments | create, update, delete, confirm, cancel, pay | publishes `SaleConfirmed`, `SalePaymentRecorded`; reads stock and receivables | `OrderToCash`, `SaleAmounts` |
| quotes (`sales/application/quote.go`, `quote_email.go`) | quote: draft, sent, accepted, rejected | create, update, send, mail, accept, reject, convert, delete | makes sales | `FrontOffice` |
| purchases (`purchase/`) | order: draft, confirmed, received, cancelled; withholdings; payments | create, update, delete, confirm, receive, add withholding, cancel, pay | publishes `PurchaseReceived`, `PurchasePaymentRecorded` | `PurchaseToPay` |
| withholding certificates (`accounting/application/issue_withholding_certificates.go`) | certificates, folios | issue | reads the withholdings of orders | `PurchaseToPay` |
| event bus (`shared/events/`) | subscriptions | publish | every handler runs even if one fails; nothing is retried | `OrderToCash`, `PurchaseToPay`, `Personnel` |
| accounting journal and periods (`accounting/`) | entries POSTED or VOID, periods OPEN or CLOSED, voucher counters | post, void, close, reopen | handlers of the sales, purchase and payroll events | `OrderToCash`, `BackOffice`, `Personnel` |
| fixed assets, bank statements, reconciliation, budgets, tax declarations, exchange rates, voucher types, bank accounts (`accounting/application/`) | a table or two each | depreciate, dispose, reconcile, mark, approve, declare, file, synchronise | the journal; a scheduler for the exchange rate | `BackOffice` |
| SaaS (`saas/`) | plans, subscriptions, prospects | edit, raise, assign, renew, cancel; approve, reject | limits of other modules; accounts and companies | `Subscriptions`, `Onboarding` |
| payroll and HR (`payroll/`, `hr/`) | contracts, pay slips, absences | generate, approve, pay, void; decide | publishes `PayrollGenerated` | `Personnel` |
| accounts, invitations, companies (`security/`, `company/`) | users, members, companies, warehouses, settings | register, invite, accept, create, edit | constants for the rest | `Onboarding`, `FrontOffice` |
| third parties, products (`thirdparty/`, `product/`) | master data | create, edit, withdraw | constants for the rest | `FrontOffice` |
| login, sessions, roles, catalog, audit, SaaS billing, PDF | | | | not modelled, section 14 |
| `src/cofacture/` | none | build XML, sign, zip, SOAP client | pure functions and I/O under the adapter | what a call may answer, in `ElectronicIssuing` |
| `src/frontend/` | none beyond the server's | | HTTP | not modelled |

What makes each one correct, and what is hard about it:

- *Electronic issuing.* No two fiscal documents under one number; nothing at the DIAN that the
  system still treats as a draft; the status the system records is what the DIAN decided; a
  document that left `draft` never comes back; a confirmation always ends in an outcome. Hard:
  lost replies after the DIAN received the document, retries by another route, numbers given back
  and claimed again, requests that die with a document on its way.
- *Inventory.* The stock of a row is what its movements add up to; a transfer is both halves or
  none; folios are unique; nobody takes out what is not there. Hard: four separate statements per
  movement, and deletions that undo movements while others are being made.
- *Sales, purchases, journal.* An effect (entry, movement, payment, invoice, certificate) exists
  only for a confirmed or received order, once; amounts posted are those of the order. Hard: check
  and write are separate statements throughout, side effects are published after the status is
  written, and are not repeated when they fail.
- *Onboarding.* Whoever is approved has an account, a company, a warehouse and a way to enter.
  Hard: a chain of statements in four schemas without a transaction, and people who make the same
  accounts and companies themselves meanwhile.
- *Subscriptions.* One plan at a time, and no change of a period that is paid for. Hard: cancel and
  create are two statements; an increment writes a row as it was read.
- *Back office.* The books and the assets agree, nothing is depreciated beyond its value or credited
  twice, what settles is settled both ways. Hard: long requests over several tables that other desks
  write at the same time.
- *Front office.* What a customer or an addressee has in his mail is what is on record; one default
  warehouse; consent keeps its date. Hard: a mail cannot be taken back, and the status is written
  after it went out.
- *Personnel.* A pay slip is posted once and its expense is never lost; an absence is decided once.

## 2. The project

| module | content | checked by | proved in |
|---|---|---|---|
| `ElectronicIssuing` | the confirmation pipeline, numbering, the DIAN | `issuing_production`, `issuing_testset`, `issuing_liveness` | `ElectronicIssuingProofs` |
| `StockLedger`, `Inventory` | what stock promises, and the statements that keep it | `inventory_concurrent`, `inventory_overlapping` | `InventoryProofs` |
| `OrderToCash`, `SaleAmounts` | a sale with its payments, journal and invoice; its amounts | `sales_desk` | `OrderToCashProofs` |
| `PurchaseToPay` | an order with its withholdings, receipt, payments, document, certificates | `purchase_desk` | `PurchaseToPayProofs` |
| `Onboarding` | prospects, accounts, companies, invitations | `onboarding` | `OnboardingProofs` |
| `Desks` | goroutines that serve requests, shared by the next module and the last | with them | with them |
| `Subscriptions` | plans and subscriptions | `subscriptions` | `DesksProofs` |
| `Personnel` | contracts, pay slips and their entries, absences | `personnel` | `PersonnelProofs` |
| `BackOffice` | eight desks of accounting | `back_office` | `BackOfficeProofs` |
| `FrontOffice` | quotes, parties, warehouses, products, settings, documents | `front_office` | `DesksProofs` |

`MC<module>` has the definitions that the `.cfg` files give the constants: who serves which requests,
who meets which faults, the data, and the symmetry. `OrderToCash` extends `SaleAmounts`; `Inventory`
instantiates `StockLedger`; `Subscriptions` and `FrontOffice` extend `Desks`, which declares what both
need to say of their requests (`Clerks`, `Shifts`, `Faults`, `pc`, `job`), and `DesksProofs` extends the
two, which is why the names of `Subscriptions` say whose they are. Modules refer to each other by
outcome where a component sees no more than that of another: to a sale or an order a document is
`draft`, `live`, `failed` or `deleted`, in any order `ElectronicIssuing` allows; the stock handler is
one step of `OrderToCash` and `PurchaseToPay` and a loop of lines in `Inventory`; a sale that a quote
became is a row in `FrontOffice` and has its life in `OrderToCash`.

All modules are written alike. A request is a goroutine `w` with a program counter `pc[w]` and its
locals `job[w]`; one action is one statement or one transaction of the database, one call to the
outside, or one local decision, named for the function it is in. A handler's early returns are the
guards of its first action or actions of their own. `Duties` or `Shifts` says which requests a
goroutine serves, `Faults` what it meets: `crash`, it dies at any step; `database` (`failure`), a
statement is not applied, or is applied and its reply lost (`Lost`, `Applied`). Definitions whose
comment begins with "Variant" are faulty forms of the definition below or above them and belong to no
behaviour of the specification.

Three history variables record why the database and something else may differ: `guessed` in
`ElectronicIssuing`, `adrift` and `overtaken` in `Inventory`. Steps write them and no guard and no
other assignment reads them, so they change no behaviour; the properties speak of them, which lets
them hold under every failure and every overlap instead of under a condition that rules those out.

Left for later: the yearly closing of the books once something calls it.

## 3. ElectronicIssuing

State: `current`, `active`, `testSet` are the columns of `electronic.numbering_ranges`; `status`,
`rangeId`, `prefix`, `number` those of `electronic.documents`; `delivered` and `verdict` are what the
DIAN has received and decided; `guessed` is a history variable (below); `pc` and `job` are the program
counter and the locals of each request. A `Confirmer` is a POST `.../confirm`, a `Reviewer` a POST
`.../check-status`.

    Confirm -> prepare -> ClaimNext -> (SignFails | PersistBuilt) -> Dispatch
       -> SendSync.. / SendAsync.. -> Poll.. -> finishFromPoll -> UpdateDianStatus -> Release

with every early return of the code as an action of its own (`ClaimRefused`, `PersistRefused`,
`Abort`, `EnvironmentMismatch`, `ZipFails`, `SendRefused`, `TestSetClosed`, `PollExhausted`,
`UpdateFails`) and `Crash` at any step. The five kinds of document (invoice, credit note, debit
note, support document and its adjustment note) go through the same steps and share the model.
The DIAN is external: `DianAnswers` says that a decided document keeps its result, that one whose
number is already used is turned away with the result of the first user
(`consumedNumberWarning` exists because of that), and that any other is validated or rejected.

Faults beyond those of all modules: `sync`, `async`, `testset`, a transport error of that call
before or after the DIAN received the document; `pending`, an answer without a StatusCode;
`garbled`, an answer whose embedded XML cannot be decoded.

| run | what it shows |
|---|---|
| `issuing_production` | three drafts, one range of two numbers, two confirmations and a status check, every fault of the synchronous route: `UniqueInForce`, `CurrentIsLastClaimed`, `OneSender`, `RecordedAsDecided`, `ConfirmedIsFrozen`, `FinalStatusStays` (3.3 million states) |
| `issuing_testset` | the habilitación route, the synchronous one behind a closed test set and its contingency, with every fault but `pending`: `NumberAtDianOnce` (4.1 million states) |
| `issuing_liveness` | two ranges of different environments, one number already used at the DIAN by hand, every fault of the network: `BuiltResolves` under fairness |

Bounds. Two numbers in a range and three documents: a number can be claimed, released, claimed by
a second document and released again by a late request, and the range can run out, which is what
the hazards need. Two confirmations race for one draft and for one number; a third would only
repeat a role. `MaxPolls` is 1 or 2 where the code has 6: an attempt leaves nothing behind but the
counter and the last reply, so a first, a middle and a last attempt are all there is.

`UniqueInForce`, `CurrentIsLastClaimed` and `FinalStatusStays` need two conditions, stated as
`OneRangePerDocument` and `OneReviewer`: a draft keeps its range while it is being confirmed and
status checks do not overlap. The production run satisfies both; the code guarantees neither
(section 13).

`NumberAtDianOnce` and `RecordedAsDecided` compare the database with the DIAN, under every fault and
with numbers used by hand. The code breaks the plain statements in three ways, each of which settles
the outcome of a document on something other than an answer it could read: a synchronous send is
lost, the contingency is refused, and the document, which the DIAN may have, becomes `send_error`
(confirm.go:427); an answer without a StatusCode is the last one before the attempts run out; an
answer cannot be decoded. The last two are recorded as a rejection; all release the number.
`guessed` keeps those documents, from the step that settles them, right or wrong. The
properties say that there is no fourth way: whatever dies, fails or is lost, two documents reach the
DIAN under one number only if it rejected one of them or one of them is in `guessed`, and a status
differs from the verdict only for a document in `guessed` or because of another use of its number,
by hand (`ConsumedOutside`), by a document the DIAN rejected, or by one in `guessed` it validated after
all (`ValidByAnother`). Of a lost send that ends as `send_unknown` or `sent` nothing is guessed: its
number is kept, and the properties hold it to that. They need `OneRangePerDocument` and
`OneReviewer` like the others.

Fairness. `FairSpec` assumes weak fairness of the steps of a request the server has taken, and
none of users: Go runs a goroutine that can run, every SOAP call has a timeout, and polling has a
fixed number of attempts. `BuiltResolves` is checked without `crash` and `database`: with them a
document can stay `built` for ever, since no request accepts a document in that status. That is a
limitation of the code that the model reproduces, not a property of it. It is the only liveness
property: everywhere else a request ends after a fixed number of statements, and what a failure
left undone nothing in the code comes back to.

## 4. Inventory

State: `stock`, `movements` and `counter` are the three tables; `pc` and `job` the statement a request
is at and its locals; `adrift` and `overtaken` are history variables (below). Roles are sets of
goroutines and may overlap: `Movers` (POST `/movements`), `Deleters` (DELETE `/movements/{id}`), `Sales`
and `Purchases` (deliveries of `SaleConfirmed` and `PurchaseReceived`, line after line).

A movement is `nextMovementNumber`, `SaveMovement`, `GetStock`, `UpsertStock`: four statements,
the last of which writes an absolute value. `Transfer` is one action because it is one transaction
that locks the row it checks and writes relative values. `DeleteMovement` is two,
`SelectMovements` and `Reverse`: its transaction reads the movements before it locks any row of
stock, and the isolation level is PostgreSQL's default (READ COMMITTED), so anything may happen
between the two. `Movement` of an event handler has `addition = FALSE` whatever its type, as
`applyMovement` leaves it.

`StockLedger` is what the component promises: the record changes by whole operations, and the
balance of a row is the opening stock plus the effect of the movements on record, until the row goes
adrift.

| run | what it shows |
|---|---|
| `inventory_concurrent` | a mover, two deleters, a sale and a purchase at once on one product in two warehouses, with crashes and failing or half-applied statements: `TransferIsWhole` (3.6 million states) |
| `inventory_overlapping` | two goroutines, each of any request or event, two lines to an event, one product in two warehouses, with the same faults: `ImplementsLedger` (refinement, with the movements whose stock is still to be written left out of the book) and `OversoldBySalesOrStaleChecks` (4.1 million states) |

The stock itself has no protection against two requests about one product, and the code does lose
updates. `adrift` collects the rows at the step that does it, for one of five causes: `UpsertStock`
writes what it computed from a stock that is no longer there, or with the sign the record has not (the
delivery of a purchase); a request dies or fails between its movement and its stock; the reply to
its insert is lost; a deletion reverses a list another deletion has taken, or a movement not applied
yet. The refinement says of every interleaving that these are all the causes: a row that is not
adrift follows the record to the unit, and record and transfers stay whole even where rows are
adrift. `overtaken` marks the exits whose stock fell between the check of `Execute` and the read of
`applyMovement`; `OversoldBySalesOrStaleChecks` says that of all requests only those, the handler of
`SaleConfirmed`, and one that reads a row below zero already, write a negative stock, and that
transfers and deletions, which lock, never do. Both are proved without any condition.

Bounds. Quantities are 1 and each row starts at 1, so that a second exit, and a deletion after an
exit, meet an empty row. Three or four folios allow a transfer and a movement, or two of each kind
of movement, and their deletion; `MaxFolios` bounds the counters, and a request that waits for a
folio beyond it is the only deadlock, which is why the cfgs switch the deadlock check off.

Left out: the year of a folio (counters of different years are separate counters), movement types
other than the four declared, fractions of quantities, and rows of stock that do not exist yet
(every row has been written before the model starts; a missing row reads as zero).

## 5. OrderToCash and SaleAmounts

State: `sales` (a row with its status, number, lines and linked invoice), `lastNumber`,
`payments`, `entries`, `lastVoucher`, `period` and `documents` are tables; `exits` counts how often
the handler of inventory ran for a sale.

    NextSaleNumber -> Save        Update        Delete -> DeleteRow        Cancel -> CancelStatus
    Confirm -> ChecksPass -> ConfirmStatus -> [bus: GetPeriod -> CreatePeriod -> NextVoucherSeq
                                               -> CreateEntry] -> TakeOut
    Record -> SavePayment -> [bus: the same four]          PostJournal -> the same four
    VoidJournal -> VoidEntry      Close, Reopen
    FromSale -> CheckExisting -> CreateInvoiceDraft -> SetInvoiceDocumentID

The bus runs in the request that publishes. `NextHandler` is what `Publish` does when a handler
returns, with or without an error: it goes on to the next one, once. A failing statement inside a
handler therefore ends that handler, and outside ends the request. `Update`, `Save` and
`CreateEntry` are single actions because they are transactions. `UpdateStatus` and the `DELETE`
look at nothing but the id, as in the code, so a sale that was cancelled or deleted while it was
being confirmed is confirmed again, or posted without a row; the model has those behaviours.

`SaleAmounts` has the arithmetic: the tables of sales keep hundredths of a cent, the journal rounds
the total to cents, and the invoice of a sale cuts every amount of every line off at the cent
(`int64(x*100)` of a float, which may fall one cent short of a whole number; `Truncated` has both
outcomes). `BilledAsPosted` bounds what that may come to.

`sales_desk`: a desk that creates, edits and confirms; a till that takes payments, cancels, posts
and voids; a back office that invoices, deletes, closes the month and sets counters, with crashes and
failing or half-applied statements: `NoEffectOfADraft`, `PaymentPostedOnce`, `SoldOnce`,
`OneInvoice`, `BilledAsPosted`.

Conditions. `SoldOnce` is stated under `OneDesk`, one goroutine at a time editing and confirming,
and `OneInvoice` under `OneBiller`, one at a time making invoices and no statement of it failing.
The code enforces neither: two confirmations of one sale both pass the check of the draft, take the
stock out twice and post twice. What the properties then say is that everything else (payments,
cancellations, deletions, voids, closed months, faults, documents sent and rejected) may happen at
any moment between two statements without breaking them. The others need no condition.

Bounds. One sale, one payment, two documents, two numbers and two vouchers: sales meet each other
only through the two counters and the receivables, a number can be taken twice by the same desk, and
two documents are what a second invoice needs. Two orders tell an edited sale from the one that was
read; one has two lines with half a cent of tax each, the other lines that lose other fractions.
The theorems cover every other size, `BilledAsPosted` any number of lines and any amounts.

Left out: the data behind the checks of stock and of overdue balances (either answer is possible),
the accounts of an entry, manual entries without a voucher, other months and other types of voucher,
the audit record.

## 6. PurchaseToPay

State: `orders`, `withholdings`, `payments`, `documents`, `entries`, `certificates` are tables,
`lastNumber` and `lastFolio` their counters, and `takenIn` counts how often inventory took an order's
lines in.

    Create -> Save      UpdateOrder      Delete -> DeleteRow      Confirm -> ConfirmStatus
    Cancel -> CancelStatus               AddWithholding -> SaveWithholding
    Receive -> LoadWithholdings -> ReceiveStatus -> [bus: Post] -> TakeIn
    Record -> SavePayment -> [bus: Post]
    IssueCertificates -> (NextCertificateNumber -> CreateCertificate) per concept
    FromPurchase -> CheckExisting -> CreateSupportDocumentDraft -> SetSupportDocumentID

A handler that posts is one step here, which may also fail or leave the entry out: its four
statements, and months and vouchers, are in `OrderToCash`. `DeleteRow` succeeds only for an order
without withholdings and payments because their foreign keys do not cascade; `CreateCertificate`
fails for a concept that has its certificate of the year, and the loop ends with it.

`purchase_desk`: a buyer, a till and a clerk on one order, two withholdings of two concepts, one
payment, two documents, with crashes and failing or half-applied statements: `NoEffectOfADraft`,
`ReceivedOnce` (the journal credits the supplier the net that is on record from then on, under
`OneBuyer`, one goroutine at a time editing, confirming, withholding and receiving),
`CertifiedOnce`, `OneSupportDocument` (under `OneBiller`, as for sales). Two concepts make the loop
of certificates go round twice and two requests issue at once; two totals tell an edited order from
the one that was read.

## 7. Onboarding

State: `prospects`, `users`, `members`, `companies`, `warehouses` are tables, `mails` the invitations
that went out with their tokens. `Approve` is the chain of `prospect.go`, in four schemas: find or
create the user, refuse one who is active or belongs to a company, renew the token, look the NIT up,
create the company, link the owner, create the warehouse, mail, and write the status last. `register`,
`company`, `invite` and `accept` are what people do themselves at the same time, with the unique keys of
e-mail and NIT turning away the second.

`onboarding`: a reviewer who meets every fault, two goroutines of people, two prospects, addresses
and NITs: `ApprovedIsProvisioned`, `OneOwner`, `OwnerCanEnter` (under `OneReviewer`: of two
approvals of one prospect the later token is in the row and the earlier may be the one mailed).
Three tokens let an attempt fail after the mail and another follow it. An approval that failed after
the company was made cannot be repeated (section 13); the model has that.

## 8. Subscriptions

State: `plans`, `subs`, and the month `now`, beside the requests (`Desks`). `Assign` reads the plan,
cancels and creates; `Renew` reads the subscription and the plan and writes; `WriteIncrement` writes the
whole row of a plan as it was read; `Tick` passes a month. The partial unique index allows one active
subscription per company.

`subscriptions`: two clerks in three divisions of the work, one of them failing: `AlwaysOnePlan`, and
`NotRetroactive` under one renewal at a time. Offers of different prices, lengths and a withdrawn
one, an increment of 100 % and three subscriptions let a company change its plan twice, be renewed
between two prices, and outlive its plan. `duties` is chosen once, in `Init`, among the `Shifts`: one
run covers several divisions of the work, here and in the next three modules.

## 9. Personnel

State: `employees`, `contracts`, `payslips`, `absences`, the accounting `periods`, and `posted`, how
often a pay slip's entry was posted. `Generate` calculates a pay slip (the division of a month's
salary and of the transport aid by days, the deductions, integral salaries) and saves it; `Approve`
reads, writes the status and publishes `PayrollGenerated`, whose handler finds or makes the month's
period and posts; payment and voiding read and then write by id; an absence is edited and withdrawn
with its status checked in the write, and decided with it read before.

`personnel`: three clerks in five divisions, one of them failing, two pay slips in two months, two
absences: `PostedOnce`, `ApprovedIsPosted`, `AbsenceDecidedOnce`. Their conditions are that approvals
come one at a time; that they meet no fault and nobody closes months (`Attended`), since the handler
leaves the entry out of a closed month and nothing repeats it; and that decisions come one at a
time. The code enforces none of them. A day's pay, less than a month's deductions, is among the
instances, so a negative pay slip is met and posts nothing.

## 10. BackOffice

One module for the desks of accounting that share the journal: `assets`, `accumulated`, `runs`
(depreciation); `entries`, `periods` (the ledger); `statement`, `marks` (bank and reconciliation);
`budgets`, `lines`; `declarations`, `tariff`; `rates`, `today`; `voucherTypes`, `banks`.

    RunDepreciation -> HasRunForPeriod -> ListAssets -> (NextAsset -> SetFullyDepreciated?)*
                    -> EndOfList -> PostDepreciation -> CreateRun
    Dispose -> GetAccumulated -> PostDisposal -> SetDisposed
    PostJournal -> EnterJournal    VoidJournal -> CheckVoidPeriod -> Void    Close, Reopen
    AddStatementLine, Reconcile    Mark, Remark -> MarkOne -> MarkOther    Unmark
    CreateBudget, DeleteBudget, SetLine, DeleteLine, ApproveBudget
    GenerateIVA, GenerateICA -> GetLastCarryForward -> CreateDeclaration    GenerateIncomeTax
    MarkFiled    SetTariff    SetExchangeRate    GetOrFetch, Sync, RunTRMDailySync -> FetchTRM
                    -> SaveRate, with TryAgain an hour later

(each of them with the look at the month's period and the voucher type that a posting makes before).
The quota of an asset is the integer arithmetic of the code, with the remainder in the last month.
What the ledger says of a period is a choice among `Movements`, because the declarations read sums
that other modules produce. An entry stands for its line on the account at hand.

`back_office`: two clerks, one failing, in nineteen divisions, each of which keeps to one desk or to the
two desks that meet: `NeverOverDepreciated`, `DepreciatedOnce`, `RetiredAtBookValue`, `MarksPaired`,
`CreditUsedOnce`, `ManualRateKept`. Two assets, of which one divides with a remainder over two months
and one is gone in one; three months and three entries, so that a run can be voided, repeated and closed
under; three bimesters, so that a credit is carried twice. `OneAt(kinds)` and `Spared(kinds)` are the
conditions: requests of these kinds come one at a time, and meet no fault. Rates are kept per day and
pair of currencies, two pairs of which are in the run, the dollar in pesos and another: a lookup of any
currency that finds no row asks for the dollar, and saves it. The comment of each property says what
happens without. All six are proved from one inductive invariant, `BackOfficeInv` (section 12).

## 11. FrontOffice

`quotes`, `mailed`, `sales`, `counter`; `parties`, `clock`; `warehouses`; `products`; `company`;
`documents`, `received`: the desks that prepare what the other modules work with. A request is named
for its handler; it begins with what its use case reads and checks, and every statement after that is
a step. `mailed` and `received` are what is in the addressee's mail, which nothing takes back.

`front_office`: two clerks, one failing, in twelve divisions, each at one desk: `MailedIsQuoted`,
`SaleAsAccepted`, `OneDefaultWarehouse`, `ConsentKept`, `ReceivedAsOnRecord`, `SignedIsStored`. Two of
everything (three warehouses, one per way to become the default), two contents of a quote or a document
to tell an edit from the original, and a range for each type that `validateBase` and `validateNote`
compare. `MCFrontOffice` assumes, and TLC evaluates, that the divisions name requests of the routes
(`Requests`), so that no desk is left empty by a slip of the pen. `SaleAsAccepted`,
`OneDefaultWarehouse` and `ReceivedAsOnRecord` need no condition; all six are proved (section 12).

In the last four runs a clerk waits for ever once every row the bounds allow is taken, which is why
the deadlock check is off.

## 12. Proofs

    tlapm ElectronicIssuingProofs.tla     tlapm InventoryProofs.tla      tlapm OrderToCashProofs.tla
    tlapm PurchaseToPayProofs.tla         tlapm OnboardingProofs.tla     tlapm DesksProofs.tla
    tlapm PersonnelProofs.tla             tlapm BackOfficeProofs.tla

The proof modules hold for any sets of documents, ranges, rows, orders, people, plans, pay slips and
requests, for every choice of `Faults` and every distribution of `Duties` or `Shifts`, from the
assumptions the modules name (types of the constants, and that the `No...` values are no members) and,
where it is said, from a condition on the constants that the instances of the runs satisfy
(`OneRangePerDocument`, `OneReviewer` and their like). What is proved of `ElectronicIssuing` and
`Inventory` has no condition on `Faults`, on the answers of the DIAN or on which requests overlap, beyond
the two just named; theorems about the other modules say in their statement where a fault or an overlap
is left out.

- *ElectronicIssuing.* `BaseInvariant`: types, locals, rows, and `WriteAhead`, that only a document
  whose number is written down is sent. `WriteAhead` alone is not inductive: it needs that a request
  which may send works on a confirmed document (`LocalsOK`), and that nothing takes a confirmed document
  back. `SenderInvariant`: `OneSender` by way of `SenderStatus`. From `documents.Confirm` to `finish`
  the status under a confirmation is `built`, so no other request, which would need `draft` or `sent`,
  can start on the same document. `NumberInvariant` (assuming `OneRangePerDocument` and `OneReviewer`):
  `UniqueInForce` is strengthened to ownership. A number is held by one running request or carried by
  one document in force, every one of them has been issued (`Issued`), and so `ClaimNext` always gives a
  new one, and `ReleaseIfCurrent` only takes back the last one, which its holder owns.
  `ConfirmedIsFrozenHolds`, `FinalStatusStaysHolds`: action properties from the same invariants, by one
  lemma on what a step may change in a row (`RowChange`). `DianInvariant`, under the same two and every
  fault, relates the database to the DIAN: what the DIAN holds and has not rejected is in force unless
  it is in `guessed` (`DeliveredInForce`), and what a request has been told and not yet written down is
  what was decided (`AnswerOK`, which follows it from the reply through the attempts of the poll to the
  status it writes). A number is then given anew only when the DIAN rejected who had it, or its outcome
  was guessed, which is `NumberAtDianOnce`; and `RecordedAsDecided` is what `AnswerOK` says once it is
  written.
- *Inventory.* `TransferIsWhole` needs `ListsWhole`, that the list a deletion has read holds every
  half still on record of the transfers it names; that stays true while other requests go on because
  a transfer inserts both halves in one transaction under a group nobody had (`Counted`), and
  deletions remove whole lists. `FoliosGivenOnce` needs that the folio a request holds is not above
  the counter. No assumption on the requests is used for these.
  `StockAsRecorded` (`LedgerInv`), without assumptions: the stock of a row that is not adrift is the
  opening stock with its movements applied, but for the movement whose stock a request is still to
  write (`Followed`). What makes it inductive is knowing of each request between two steps what of its
  reads still counts: a movement on record and not applied is in the hands of one request that will
  write it (`HoldsOK`), or its row is adrift already once it is deleted (`GoneOK`); a list that a deletion
  has read is a whole operation, all of it still on record or none (`ListsOK`); and an exit
  that was not overtaken still has the stock it checked (`ChecksOK`). `StockImplementsLedger` reads the
  step of the ledger off each action, and `OversellingHasItsCause` the sign of each write.
- *OrderToCash.* `NoEffectOfADraft` is checked by requests many statements before they act, so it
  needs that a request which acts in the name of a sale (`Acting`) works on one that has left the
  draft, and that no status goes back to it. `VouchersGivenOnce` and `NumbersAreFree` need that a
  number a request holds is at most the counter and in no other hands; `PaymentPostedOnce`, that a
  payment being posted has no entry yet and one poster. `SoldOnce` adds that a request which
  confirms holds the order that is on record and that nothing was done yet; `OneInvoice`, that the
  invoice in force is the one linked, or the one about to be. `BilledAsPosted` adds that an entry and a
  document carry what the sale says, which is fixed once it left the draft (`BilledInv`), and compares
  the two roundings: every line loses between 0 and 200 hundredths of a cent (`InvoiceLines`), so their
  sum does as often (`SumsUpLoss`), and the taxes of the header add up because the lines of different
  rates are disjoint and all there is (`TaxesAddUp`). Three lemmas carry the steps:
  `Writers` (who writes which table), `SaleChanges` (what a step does to a row) and `StepFlow` (where
  a request goes).
- *PurchaseToPay.* The same argument, and `StepSound`, which gives types and flow at once.
  `ReceivedOnce` needs more than that nothing was received yet: while a request receives, the total
  it read is on record because the order has left the draft, the withholdings because only the same
  goroutine could add one, and once the status was written the order is not `confirmed` again, or it
  could be received anew. `CertifiedOnce` needs that a folio in a request's hands is at most the
  counter and in no other's, and that what the summary listed stays on record.
- *Onboarding.* `ApprovedIsProvisioned` by the steps of the chain: a request at a step has seen to all
  of it up to there (`CompanyInv`), and nothing that was made is taken away. `OneOwner` needs that a
  company without an owner has no members and one goroutine about to link it. `OwnerCanEnter`, under
  `OneReviewer`, that the token a reviewer holds is the one in the row until he has mailed it.
- *Subscriptions.* `AlwaysOnePlan` from the index and from who is between the two statements of a
  change; `NotRetroactive`, `PriceIsCurrent` and `IncrementOnlyRaises` from what a request read still
  being on record (`RenewalsInv`, `PricesInv`, `IncrementsInv`), each under its own `OneAt`.
- *FrontOffice.* Each property fails to be inductive for the same reason: a request reads a row, and
  other requests go on before it writes. `FrontOfficeInv` says desk by desk what of the read is still
  so. The desks touch disjoint tables, so it is enough to show that a desk keeps its own part
  (`QuoteJobOK` to `DocumentJobOK` for the locals) and that the steps of every other leave it alone;
  requests are told apart by the step they are at.
  `SaleAsAccepted`: the lines of a quote stay once it has left the draft, and a request that converts
  has found it past the draft; hence the lines it holds are on record for as long as the quote
  is, whoever else is at work.
  `MailedIsQuoted`, under its condition (`MailOrderly`): nobody edits a quote while its mail is on the
  way, and a draft that was mailed is about to be marked as sent by who mailed it (`Sending`). The
  second half is the strengthening: without it a draft with a mail could be edited in the next step.
  `ConsentKept`, under `OneAt(OfParties)`: the date a request carries is the one on record
  (`ConsentInv`), which rests on a consent always having a date (`Dated`), or `applyShared` would give
  it a new one.
  `OneDefaultWarehouse`: no warehouse is removed, so one that is saved as not the first joins others, which
  have their default (`WarehouseJobOK`); the unique index turns away a second that is saved as the
  first; and a promotion takes the mark from all others in its transaction. No condition is needed.
  `ReceivedAsOnRecord`: what a request has read to mail is signed, and a signed row is out of the reach
  of every `UPDATE` and `DELETE`, whose `WHERE` asks for a draft (`DocumentJobOK`, `DocumentsInv`).
  `SignedIsStored`, under its condition: the draft that a confirmation has read is still as it was while
  it signs (`SignInv`).
- *Personnel.* `ApprovedIsPosted` by `Settled`: the expense is in the books or in the hands of the
  request that approves, which under `Attended` posts it; whoever pays has read a pay slip that was
  settled, and `posted` never decreases.
- *BackOffice.* One invariant for all desks, since they meet in the journal and in the periods: `LocalsOK`
  says what a request carries at each step and that it is at home there, and a part per desk says, under
  the condition of its property, that what was looked up many statements before still is so.
  `NeverOverDepreciated`: the quotas a run has added up still fit each asset (`QuotasOK`), because only
  runs add to what is accumulated. `DepreciatedOnce`: the month of a run under way is not among the runs
  (`RunsOK`). `RetiredAtBookValue`: an asset whose disposal is posted is retired or about to be, what is
  about to be posted is what is accumulated, and no run has it on its list (`DisposalsOK`).
  `MarksPaired`: two lines about to be marked are open, and the half-marked one is named by the other
  alone (`MarksOK`). `CreditUsedOnce`: a period being declared comes after all that were declared, and
  the credit read is what the last of them carries (`CreditsOK`). `ManualRateKept`: the day of a lookup
  of the dollar under way has not been captured by hand (`LookupsOK`).

Each step lemma has one case per action and, where an action disturbs several conjuncts, one step per
conjunct. The inductive invariants (`OrderInv`, `PurchaseInv`, `OnboardingInv`, `SubscriptionsInv`,
`FrontOfficeInv`, `PersonnelInv`, `BackOfficeInv`, `LedgerInv`, `DianInv`) were checked with TLC on the
instances of the runs before they were proved. Six properties are proved though no run lists them:
`FoliosGivenOnce`, `VouchersGivenOnce`, `NumbersAreFree`, `DecidedOnce`, `PriceIsCurrent`,
`IncrementOnlyRaises` (and the `PaymentPostedOnce` of PurchaseToPay, whose namesake `sales_desk`
checks).

The sums (the effect of movements, the credits of declarations, the lines of sales) are folds of the
community modules over finite sets. They are reasoned about without recursion: a fold is a function on
the subsets of its set, the lemmas say what one element adds to it, and a set for which one of them
failed would have a smallest subset for which it does (`WFMin` of `WellFoundedInduction` on the
subsets of a finite set), which the step rules out.

The constants of `Desks` are assumed to be what their comments say (`DesksAssumption`), and the two
markers of an absent row no rows (`RowsAssumption`), which every choice of model values satisfies.

Model-checked only: the liveness property `BuiltResolves` and its fairness, as ENABLED is beyond the
prover. Every invariant and every other action property that a run checks is also a theorem.

## 13. What the models show of the code

Behaviours of the models, and of the code they are translated from, that a reader of the
documentation would not expect, or that the conditions above exclude.

Issuing. SendBillSync times out after the DIAN received the document and the contingency
SendBillAsync is refused: the document becomes `send_error` and its number is given to another,
although `electronic/domain/document.go:26-30` says the number of an ambiguous send is not released.
Two status checks that overlap release one number twice, the second time after it was claimed again.
A draft whose range is edited while it is confirmed releases its number on the other range. An
answer that cannot be decoded, or that has no StatusCode when the attempts run out, is recorded as a
rejection, where `document.go:23-25` counts it among
the cases in which nothing is known. A document may be mailed once it is signed, rejected or not. An
edit between the read and the write of `Confirm` leaves stored lines that differ from the signed
ones. `validateSupport` does not compare the type of the range, and no update route compares the type
of the document. Two ranges may have one prefix.

Sales and amounts. Two confirmations of one sale take the stock out and post twice. Receivables join
lines and payments before they sum, so a sale of two lines counts its payments twice. A quote may be
converted again and again, is never made `expired`, and is accepted after its `valid_until`; accepting,
rejecting and a late send write the status by id. The comment in `sales/domain/quote.go` that the
means of payment are inherited by the sale is not what `ConvertToSale` does. Invoices made of a sale
cut amounts off where the ledger and the direct route round: up to two cents a line.

Purchases and inventory. The movement of a received purchase is stored with `is_addition = false`
(`inventory/domain/inventory.go:64` says the field tells whether it added, and `DeleteMovement`
relies on it). A withholding added while the order is received is not in its journal. A document that
was deleted blocks its order for ever. The list of payables ignores withholdings. A certificate that
fails leaves its folio unused and the concepts after it without theirs until the next attempt, which
fails at the first concept that has one. The NIT on a certificate is text of the request, which need
not be the one of the supplier whose withholdings it lists; the model has one NIT to a supplier, and
what a second spelling would do to the unique index is outside it.

Back office. A month may still get an entry, or lose one, after the check of its period. Two clerks may
reconcile one entry with two lines. Marking a line anew leaves its old counterpart marked, against
`reconciliation_repository.go:38-40`. A quota cut off at the integer lasts beyond the useful life, and
is zero where cost less salvage is below the number of months; a salvage above the cost is not refused;
voiding a depreciation leaves its quotas. A budget approved meanwhile is deleted by a check that is
stale, nothing closes one, and `SetLine` accepts an approved one although the comment at `budget.go:46`
speaks of the same criterion. A lookup of the rate of any currency but the dollar, on a day that has
none, saves the rate of the dollar as SUPERFINANCIERA over one captured by hand, and saves none of the
currency asked for, which is therefore asked again every time: the comments at `exchange_rate.go:97-99`
("nunca vuelve a pedirse esa misma fecha") and `handlers.go:1422-1425` ("la consulta una sola vez") hold
for the dollar only. The carry-forward of ICA is always zero, so of that tax `CreditUsedOnce` says
nothing; a declaration is not made anew when its period is posted to later, and one made out of order
uses a credit again. Nothing calls the yearly closing. Editing a deactivated voucher type activates it,
although `handlers.go:1204` speaks of name and resets only; whether a bank account is active is never
looked at.

Onboarding, subscriptions, settings. An approval that failed after the company was made cannot be
repeated, although `prospect.go:62-64` says so: the next attempt meets the NIT that is taken, or the
owner who has a company. A crash between the two statements of `Assign` leaves a company without a
plan. The documents and overage price of a new plan apply to the period that is under way.
`update_profile.go:72-78` speaks of correcting the stored check digit, which the repository does not
write.

Personnel. Two approvals at a time post twice. The expense of a pay slip approved in a closed month,
or whose handler failed, is never posted.

## 14. What is not modelled

XML, signatures, hashes, QR codes and PDF (pure functions and formatting); HTTP routing,
authentication, sessions, roles and permissions; read-only queries and reports (lists, the range
query of the DIAN, billing of the platform); the catalogues of codes; the audit log, which no decision
reads; the payments of subscriptions, which are appended and never read; members, logos' storage and
resolutions of a company; the frontend. Of what is modelled, each section names what it leaves out,
and `PROJECT.json` says so of each component.
