----------------------------- MODULE OrderToCash -----------------------------
(***************************************************************************)
(* From a sale to its journal entries, its payments and its invoice        *)
(* (erp/internal/sales, shared/events, the sales handlers of accounting    *)
(* and electronic/application/from_sale.go).                               *)
(*                                                                         *)
(* A request reads, checks, writes the status, and then publishes an       *)
(* event: the bus runs the handlers of the event one after another in the  *)
(* same request, and what fails in one is written to the audit log and     *)
(* never tried again.  Only Update, Save and JournalRepository.Create are  *)
(* transactions; everything else is one statement after another.           *)
(*                                                                         *)
(* One company, one customer, one year and one accounting month.  A sale   *)
(* is kept in hundredths of a cent (see SaleAmounts), everything else in   *)
(* whole cents.                                                            *)
(***************************************************************************)
EXTENDS Integers, FiniteSets, FiniteSetsExt, Sequences, SaleAmounts

CONSTANTS
  SaleIds,     \* identifiers of sales
  PaymentIds,  \* identifiers of payments
  DocumentIds, \* identifiers of electronic documents
  Clerks,      \* goroutines that serve requests
  Duties,      \* goroutine -> the requests it serves
  Faults,      \* goroutine -> what it meets: "crash", it dies; "database", a
               \* statement fails, or is applied and its reply lost
  Orders,      \* what a sale sells: its lines and its total
  Amounts,     \* amounts of a payment
  CreditLimit, \* of the customer; NoLimit if it has none
  MaxNumber,   \* bound on the numbers of sales
  MaxVoucher,  \* bound on the numbers of vouchers
  NoSale, NoPayment, NoDocument, NoLimit

Requests == {"create", "edit", "delete", "confirm", "cancel", "pay", "bill",
             "post", "void", "period", "counters"}

ASSUME OrderAssumption ==
  /\ Duties \in [Clerks -> SUBSET Requests]
  /\ Faults \in [Clerks -> SUBSET {"crash", "database"}]
  /\ Orders \subseteq [lines : Seq(LineRange), total : Nat]
  /\ \A o \in Orders : o = Order(o.lines)
  /\ Amounts \subseteq Nat \ {0}
  /\ CreditLimit \in Nat \cup {NoLimit}
  /\ MaxNumber \in Nat /\ MaxVoucher \in Nat
  /\ NoSale \notin SaleIds /\ NoPayment \notin PaymentIds /\ NoDocument \notin DocumentIds

VARIABLES
  sales,      \* sales.sales with its lines; "none": no row yet, "deleted": no row any more
  lastNumber, \* sales.number_counters, last_seq of the year
  payments,   \* sales.sale_payments
  exits,      \* sale -> how often the handler of inventory took its lines out
  documents,  \* electronic.documents created from sales
  period,     \* status of the accounting month; "none": no row yet
  entries,    \* accounting.journal_entries
  lastVoucher,\* accounting.voucher_counters, last_seq of the type and year
  pc,         \* request -> the statement it is at
  job         \* request -> its local variables

database == <<sales, lastNumber, payments, exits, documents, period, entries, lastVoucher>>
vars == <<sales, lastNumber, payments, exits, documents, period, entries, lastVoucher, pc, job>>

NoOrder == [lines |-> <<>>, total |-> 0]
OrderRange == [lines : Seq(LineRange), total : Nat]

SaleStatuses == {"none", "draft", "confirmed", "cancelled", "deleted"}

\* The statuses of electronic/domain/document.go as a sale sees them: "failed" are
\* the ones isRetryableFailure accepts, "live" all the others that left the draft.
DocumentStatuses == {"none", "draft", "live", "failed", "deleted"}

Sales     == [status : SaleStatuses, number : Nat, order : OrderRange,
              invoice : DocumentIds \cup {NoDocument}]
Payments  == [id : PaymentIds, sale : SaleIds, amount : Nat]
\* order: what it was made from.
Documents == [status : DocumentStatuses, sale : SaleIds \cup {NoSale}, order : OrderRange]
\* kind: an entry of a confirmed sale, of a payment, or posted by hand.  payment is
\* the one the event was about: the row itself only keeps its sale.
Kinds     == {"sale", "payment", "manual"}
Entries   == [voucher : Nat, kind : Kinds, sale : SaleIds \cup {NoSale},
              payment : PaymentIds \cup {NoPayment}, amount : Nat, void : BOOLEAN]

\* The statements a request may be at.  The bus runs Posting in the request that
\* published, then "exit" if the event is SaleConfirmed.
Posting == {"period", "open", "voucher", "entry"}
Steps   == Posting \cup {"idle", "save", "delete", "check", "status", "exit", "cancel", "pay",
                         "existing", "draft", "link", "void"}

\* The locals of a request: the sale it read (its content in order, its invoice in
\* document), the number or voucher it was given, and the event it publishes.
Jobs == [sale : SaleIds \cup {NoSale}, order : OrderRange, seq : Nat,
         document : DocumentIds \cup {NoDocument}, kind : Kinds,
         payment : PaymentIds \cup {NoPayment}, amount : Nat]

Idle == [sale |-> NoSale, order |-> NoOrder, seq |-> 0, document |-> NoDocument,
         kind |-> "manual", payment |-> NoPayment, amount |-> 0]

Init ==
  /\ sales = [s \in SaleIds |-> [status |-> "none", number |-> 0, order |-> NoOrder,
                                 invoice |-> NoDocument]]
  /\ documents = [d \in DocumentIds |-> [status |-> "none", sale |-> NoSale, order |-> NoOrder]]
  /\ lastNumber = 0 /\ lastVoucher = 0
  /\ payments = {} /\ entries = {}
  /\ exits = [s \in SaleIds |-> 0]
  /\ period = "none"
  /\ pc = [w \in Clerks |-> "idle"]
  /\ job = [w \in Clerks |-> Idle]

Goto(w, step) == pc' = [pc EXCEPT ![w] = step]

End(w) ==
  /\ Goto(w, "idle")
  /\ job' = [job EXCEPT ![w] = Idle]

\* A statement that is applied may still end the request: its reply was lost.
Lost(w) == "database" \in Faults[w] /\ End(w)

Takes(w, request) == pc[w] = "idle" /\ request \in Duties[w]

\* A request on sale s begins at a step; j are the locals it has by then.
Begin(w, step, j) ==
  /\ Goto(w, step)
  /\ job' = [job EXCEPT ![w] = j]
  /\ UNCHANGED database

SaleOf(p) == p.sale
PaymentsOf(s) == {p \in payments : SaleOf(p) = s}
Paid(s) == MapThenSumSet(LAMBDA p : p.amount, PaymentsOf(s))

AtLeastOne(n) == IF n = 0 THEN 1 ELSE n

-----------------------------------------------------------------------------
(* Sales: create, edit, delete, cancel.                                    *)

\* ON CONFLICT DO UPDATE ... WHERE EXCLUDED.last_seq > last_seq: forward only.
SetSaleNumberCounter(n) ==
  /\ n \in 1..MaxNumber
  /\ n - 1 > lastNumber
  /\ lastNumber' = n - 1
  /\ UNCHANGED <<sales, payments, exits, documents, period, entries, lastVoucher, pc, job>>

handleSetNumberCounter(w, n) == Takes(w, "counters") /\ SetSaleNumberCounter(n)

SetVoucherCounter(n) ==
  /\ n \in 1..MaxVoucher
  /\ n - 1 > lastVoucher
  /\ lastVoucher' = n - 1
  /\ UNCHANGED <<sales, lastNumber, payments, exits, documents, period, entries, pc, job>>

handleSetVoucherCounter(w, n) == Takes(w, "counters") /\ SetVoucherCounter(n)

\* Create, and ConvertToSale with the lines of an accepted quote.
NextSaleNumber(w, o) ==
  /\ lastNumber < MaxNumber
  /\ lastNumber' = lastNumber + 1
  /\ \/ /\ Goto(w, "save")
        /\ job' = [job EXCEPT ![w] = [Idle EXCEPT !.order = o, !.seq = lastNumber + 1]]
     \/ Lost(w)
  /\ UNCHANGED <<sales, payments, exits, documents, period, entries, lastVoucher>>

handleCreate(w, o) == Takes(w, "create") /\ NextSaleNumber(w, o)

Numbered(n) == \E s \in SaleIds : sales[s].status # "deleted" /\ sales[s].number = n

\* uq_sales_number turns away a number that is in use.
Save(w, s) ==
  /\ pc[w] = "save"
  /\ sales[s].status = "none"
  /\ sales' = IF Numbered(job[w].seq) THEN sales
              ELSE [sales EXCEPT ![s] = [status |-> "draft", number |-> job[w].seq,
                                         order |-> job[w].order, invoice |-> NoDocument]]
  /\ End(w)
  /\ UNCHANGED <<lastNumber, payments, exits, documents, period, entries, lastVoucher>>

\* One transaction, which locks the row before it checks the status.
Update(s, o) ==
  /\ sales[s].status = "draft"
  /\ sales' = [sales EXCEPT ![s].order = o]
  /\ UNCHANGED <<lastNumber, payments, exits, documents, period, entries, lastVoucher, pc, job>>

handleUpdate(w, s, o) == Takes(w, "edit") /\ Update(s, o)

Delete(w, s) ==
  /\ sales[s].status = "draft"
  /\ Begin(w, "delete", [Idle EXCEPT !.sale = s])

handleDeleteSale(w, s) == Takes(w, "delete") /\ Delete(w, s)

\* The DELETE does not look at the status again; a payment's foreign key stops it.
DeleteRow(w) ==
  /\ pc[w] = "delete"
  /\ LET s == job[w].sale IN
     sales' = IF sales[s].status = "none" \/ PaymentsOf(s) # {} THEN sales
              ELSE [sales EXCEPT ![s].status = "deleted"]
  /\ End(w)
  /\ UNCHANGED <<lastNumber, payments, exits, documents, period, entries, lastVoucher>>

\* An UPDATE of a row that is not there changes nothing and is no error.
UpdateStatus(s, status) ==
  sales' = IF sales[s].status \in {"none", "deleted"} THEN sales
           ELSE [sales EXCEPT ![s].status = status]

Cancel(w, s) ==
  /\ sales[s].status \in {"draft", "confirmed"}
  /\ Begin(w, "cancel", [Idle EXCEPT !.sale = s])

handleCancel(w, s) == Takes(w, "cancel") /\ Cancel(w, s)

CancelStatus(w) ==
  /\ pc[w] = "cancel"
  /\ UpdateStatus(job[w].sale, "cancelled")
  /\ End(w)
  /\ UNCHANGED <<lastNumber, payments, exits, documents, period, entries, lastVoucher>>

-----------------------------------------------------------------------------
(* Confirmation.                                                           *)

\* GetReceivables joins the lines and the payments of a sale before it adds them
\* up: every line is counted once per payment, every payment once per line.
Receivable(s) ==
  [total |-> sales[s].order.total * AtLeastOne(Cardinality(PaymentsOf(s))),
   paid  |-> Paid(s) * 100 * AtLeastOne(Len(sales[s].order.lines))]

Balance(s) ==
  IF sales[s].status = "confirmed" /\ Receivable(s).total > Receivable(s).paid
  THEN Receivable(s).total - Receivable(s).paid ELSE 0

Outstanding == MapThenSumSet(Balance, SaleIds)

WithinCredit(w) ==
  CreditLimit = NoLimit \/ Outstanding + job[w].order.total <= CreditLimit * 100

\* Variant: the status is not looked at.
ConfirmAnyStatus(w, s) ==
  /\ sales[s].status \in {"draft", "confirmed", "cancelled"}
  /\ Begin(w, "check", [Idle EXCEPT !.sale = s, !.order = sales[s].order])

Confirm(w, s) ==
  /\ sales[s].status = "draft"
  /\ Begin(w, "check", [Idle EXCEPT !.sale = s, !.order = sales[s].order])

handleConfirm(w, s) == Takes(w, "confirm") /\ Confirm(w, s)

\* An error while the customer or its receivables are read lets the sale pass.
ChecksPass(w) ==
  /\ pc[w] = "check"
  /\ WithinCredit(w) \/ "database" \in Faults[w]
  /\ Goto(w, "status")
  /\ UNCHANGED <<database, job>>

\* No credit, a sale overdue, or not enough stock, which is not modelled here.
ChecksRefuse(w) ==
  /\ pc[w] = "check"
  /\ End(w)
  /\ UNCHANGED database

\* Variant: the event is published although the UPDATE failed.
ConfirmStatusIgnored(w) ==
  /\ pc[w] = "status"
  /\ UpdateStatus(job[w].sale, "confirmed") \/ UNCHANGED sales
  /\ Goto(w, "period")
  /\ job' = [job EXCEPT ![w].kind = "sale", ![w].amount = toCents(job[w].order.total)]
  /\ UNCHANGED <<lastNumber, payments, exits, documents, period, entries, lastVoucher>>

\* UpdateStatus; then SaleConfirmed is published with what was read at the beginning.
ConfirmStatus(w) ==
  /\ pc[w] = "status"
  /\ UpdateStatus(job[w].sale, "confirmed")
  /\ \/ /\ Goto(w, "period")
        /\ job' = [job EXCEPT ![w].kind = "sale", ![w].amount = toCents(job[w].order.total)]
     \/ Lost(w)
  /\ UNCHANGED <<lastNumber, payments, exits, documents, period, entries, lastVoucher>>

-----------------------------------------------------------------------------
(* Payments.                                                               *)

Unpaid == {p \in PaymentIds : \A q \in payments : q.id # p}

Record(w, s, a) ==
  /\ sales[s].status = "confirmed"
  /\ Begin(w, "pay", [Idle EXCEPT !.sale = s, !.amount = a])

handleRecordPayment(w, s, a) == Takes(w, "pay") /\ Record(w, s, a)

PaymentOf(w, p) == [id |-> p, sale |-> job[w].sale, amount |-> job[w].amount]

\* Variant: the event is published although the INSERT failed.
SavePaymentIgnored(w, p) ==
  /\ pc[w] = "pay"
  /\ p \in Unpaid
  /\ sales[job[w].sale].status \notin {"none", "deleted"}
  /\ payments' = payments \cup {PaymentOf(w, p)} \/ payments' = payments
  /\ Goto(w, "period")
  /\ job' = [job EXCEPT ![w].kind = "payment", ![w].payment = p]
  /\ UNCHANGED <<sales, lastNumber, exits, documents, period, entries, lastVoucher>>

\* The foreign key needs the row of the sale.
SavePayment(w, p) ==
  /\ pc[w] = "pay"
  /\ p \in Unpaid
  /\ sales[job[w].sale].status \notin {"none", "deleted"}
  /\ payments' = payments \cup {PaymentOf(w, p)}
  /\ \/ /\ Goto(w, "period")
        /\ job' = [job EXCEPT ![w].kind = "payment", ![w].payment = p]
     \/ Lost(w)
  /\ UNCHANGED <<sales, lastNumber, exits, documents, period, entries, lastVoucher>>

PaymentRefused(w) ==
  /\ pc[w] = "pay"
  /\ sales[job[w].sale].status \in {"none", "deleted"}
  /\ End(w)
  /\ UNCHANGED database

-----------------------------------------------------------------------------
(* The bus and its handlers: accounting first, then inventory.             *)

\* Publish goes on to the next handler, whatever became of this one.
NextHandler(w) ==
  IF job[w].kind = "sale" THEN Goto(w, "exit") /\ UNCHANGED job ELSE End(w)

PostJournal(w, a) == Begin(w, "period", [Idle EXCEPT !.amount = a])

handlePostJournal(w, a) == Takes(w, "post") /\ PostJournal(w, a)

\* In a closed month a handler leaves the entry out, and PostJournal fails.
GetPeriod(w) ==
  /\ pc[w] = "period"
  /\ \/ period = "none" /\ Goto(w, "open") /\ UNCHANGED job
     \/ period = "open" /\ Goto(w, "voucher") /\ UNCHANGED job
     \/ period = "closed" /\ NextHandler(w)
  /\ UNCHANGED database

\* UNIQUE (company_id, year, month): of two that create the month one fails.
CreatePeriod(w) ==
  /\ pc[w] = "open"
  /\ \/ /\ period = "none"
        /\ period' = "open"
        /\ \/ Goto(w, "voucher") /\ UNCHANGED job
           \/ "database" \in Faults[w] /\ NextHandler(w)
     \/ /\ period # "none"
        /\ NextHandler(w)
        /\ UNCHANGED period
  /\ UNCHANGED <<sales, lastNumber, payments, exits, documents, entries, lastVoucher>>

NextVoucherSeq(w) ==
  /\ pc[w] = "voucher"
  /\ lastVoucher < MaxVoucher
  /\ lastVoucher' = lastVoucher + 1
  /\ \/ Goto(w, "entry") /\ job' = [job EXCEPT ![w].seq = lastVoucher + 1]
     \/ "database" \in Faults[w] /\ NextHandler(w)
  /\ UNCHANGED <<sales, lastNumber, payments, exits, documents, period, entries>>

Entry(w) == [voucher |-> job[w].seq, kind |-> job[w].kind, sale |-> job[w].sale,
             payment |-> job[w].payment, amount |-> job[w].amount, void |-> FALSE]

\* One transaction; the status of the month is not looked at again.
CreateEntry(w) ==
  /\ pc[w] = "entry"
  /\ entries' = entries \cup {Entry(w)}
  /\ NextHandler(w)
  /\ UNCHANGED <<sales, lastNumber, payments, exits, documents, period, lastVoucher>>

\* OnSaleConfirmed of inventory, line after line (see Inventory).
TakeOut(w) ==
  /\ pc[w] = "exit"
  /\ exits' = [exits EXCEPT ![job[w].sale] = @ + 1]
  /\ End(w)
  /\ UNCHANGED <<sales, lastNumber, payments, documents, period, entries, lastVoucher>>

-----------------------------------------------------------------------------
(* The journal: entries voided, the month closed and reopened.             *)

VoidJournal(w, e) ==
  /\ ~e.void /\ period = "open"
  /\ Begin(w, "void", [Idle EXCEPT !.seq = e.voucher])

handleVoidJournal(w, e) == Takes(w, "void") /\ VoidJournal(w, e)

Voided(e, n) == IF e.voucher = n THEN [e EXCEPT !.void = TRUE] ELSE e

VoidEntry(w) ==
  /\ pc[w] = "void"
  /\ entries' = {Voided(e, job[w].seq) : e \in entries}
  /\ End(w)
  /\ UNCHANGED <<sales, lastNumber, payments, exits, documents, period, lastVoucher>>

\* Close and Reopen read the status only to answer with an error; CloseYear does not.
SetPeriod(w, old, new) ==
  /\ Takes(w, "period")
  /\ period = old
  /\ period' = new
  /\ UNCHANGED <<sales, lastNumber, payments, exits, documents, entries, lastVoucher, pc, job>>

Close(w)  == SetPeriod(w, "open", "closed")
Reopen(w) == SetPeriod(w, "closed", "open")

-----------------------------------------------------------------------------
(* The invoice of a sale.                                                  *)

Undrafted == {d \in DocumentIds : documents[d].status = "none"}

FromSale(w, s) ==
  /\ sales[s].status = "confirmed"
  /\ Begin(w, IF sales[s].invoice = NoDocument THEN "draft" ELSE "existing",
           [Idle EXCEPT !.sale = s, !.order = sales[s].order, !.document = sales[s].invoice])

handleCreateInvoiceFromSale(w, s) == Takes(w, "bill") /\ FromSale(w, s)

\* Variant: any invoice that is not a draft may be replaced.
ReplaceAnyButDraft(w) ==
  /\ pc[w] = "existing"
  /\ \/ documents[job[w].document].status \in {"live", "failed"} /\ Goto(w, "draft") /\ UNCHANGED job
     \/ documents[job[w].document].status \in {"draft", "deleted"} /\ End(w)
  /\ UNCHANGED database

\* An invoice that was deleted is an error, for this sale for ever.
CheckExisting(w) ==
  /\ pc[w] = "existing"
  /\ \/ documents[job[w].document].status = "failed" /\ Goto(w, "draft") /\ UNCHANGED job
     \/ documents[job[w].document].status # "failed" /\ End(w)
  /\ UNCHANGED database

CreateInvoiceDraft(w, d) ==
  /\ pc[w] = "draft"
  /\ d \in Undrafted
  /\ documents' = [documents EXCEPT ![d] = [status |-> "draft", sale |-> job[w].sale,
                                                 order |-> job[w].order]]
  /\ \/ Goto(w, "link") /\ job' = [job EXCEPT ![w].document = d]
     \/ Lost(w)
  /\ UNCHANGED <<sales, lastNumber, payments, exits, period, entries, lastVoucher>>

SetInvoiceDocumentID(w) ==
  /\ pc[w] = "link"
  /\ LET s == job[w].sale IN
     sales' = IF sales[s].status \in {"none", "deleted"} THEN sales
              ELSE [sales EXCEPT ![s].invoice = job[w].document]
  /\ End(w)
  /\ UNCHANGED <<lastNumber, payments, exits, documents, period, entries, lastVoucher>>

DocumentStep(d, old, new) ==
  /\ documents[d].status = old
  /\ documents' = [documents EXCEPT ![d].status = new]
  /\ UNCHANGED <<sales, lastNumber, payments, exits, period, entries, lastVoucher, pc, job>>

\* What ElectronicIssuing does to a document, as a sale sees it.
DocumentConfirmed(d) == DocumentStep(d, "draft", "live")
DocumentFailed(d)    == DocumentStep(d, "live", "failed")
DeleteDraft(d)       == DocumentStep(d, "draft", "deleted")

-----------------------------------------------------------------------------

\* A statement is not applied; in a handler only that handler ends.
StatementFails(w) ==
  /\ "database" \in Faults[w]
  /\ pc[w] # "idle"
  /\ IF pc[w] \in Posting THEN NextHandler(w) ELSE End(w)
  /\ UNCHANGED database

Crash(w) ==
  /\ "crash" \in Faults[w]
  /\ pc[w] # "idle"
  /\ End(w)
  /\ UNCHANGED database

SaleStep(w) ==
  \/ \E o \in Orders : handleCreate(w, o)
  \/ DeleteRow(w) \/ CancelStatus(w)
  \/ ChecksPass(w) \/ ChecksRefuse(w) \/ ConfirmStatus(w)
  \/ \E s \in SaleIds :
       \/ Save(w, s) \/ handleDeleteSale(w, s) \/ handleCancel(w, s) \/ handleConfirm(w, s)
       \/ \E o \in Orders : handleUpdate(w, s, o)

PaymentStep(w) ==
  \/ \E s \in SaleIds, a \in Amounts : handleRecordPayment(w, s, a)
  \/ \E p \in PaymentIds : SavePayment(w, p)
  \/ PaymentRefused(w)

JournalStep(w) ==
  \/ \E a \in Amounts : handlePostJournal(w, a)
  \/ GetPeriod(w) \/ CreatePeriod(w) \/ NextVoucherSeq(w) \/ CreateEntry(w) \/ TakeOut(w)
  \/ \E e \in entries : handleVoidJournal(w, e)
  \/ VoidEntry(w) \/ Close(w) \/ Reopen(w)

CounterStep(w) ==
  \/ \E n \in 1..MaxNumber : handleSetNumberCounter(w, n)
  \/ \E n \in 1..MaxVoucher : handleSetVoucherCounter(w, n)

InvoiceStep(w) ==
  \/ \E s \in SaleIds : handleCreateInvoiceFromSale(w, s)
  \/ CheckExisting(w) \/ SetInvoiceDocumentID(w)
  \/ \E d \in DocumentIds : CreateInvoiceDraft(w, d)

Failure(w) == StatementFails(w) \/ Crash(w)

Next ==
  \/ \E w \in Clerks : \/ SaleStep(w) \/ PaymentStep(w) \/ JournalStep(w)
                       \/ CounterStep(w) \/ InvoiceStep(w) \/ Failure(w)
  \/ \E d \in DocumentIds : DocumentConfirmed(d) \/ DocumentFailed(d) \/ DeleteDraft(d)

Spec == Init /\ [][Next]_vars

-----------------------------------------------------------------------------
(* Properties.                                                             *)

TypeOK ==
  /\ sales \in [SaleIds -> Sales]
  /\ payments \subseteq Payments
  /\ exits \in [SaleIds -> Nat]
  /\ documents \in [DocumentIds -> Documents]
  /\ entries \subseteq Entries
  /\ period \in {"none", "open", "closed"}
  /\ lastNumber \in Nat /\ lastVoucher \in Nat
  /\ pc \in [Clerks -> Steps]
  /\ job \in [Clerks -> Jobs]

\* A sale leaves the draft once: before, nothing has been done in its name, and none
\* of the requests under way is about to.  A payment keeps its sale from deletion.
\* Confirm, Record and FromSale read the status many statements before they act.
Untouched(s) ==
  /\ exits[s] = 0
  /\ \A e \in entries : e.sale # s
  /\ \A d \in DocumentIds : documents[d].sale # s
  /\ PaymentsOf(s) = {}

NoEffectOfADraft ==
  /\ \A s \in SaleIds : sales[s].status \in {"none", "draft"} => Untouched(s)
  /\ \A p \in payments : sales[p.sale].status \in {"confirmed", "cancelled"}

\* Every voucher number is in one entry, although handlers and requests take
\* numbers and post without a transaction around both, void entries, and the
\* counter can be set by hand.
VouchersGivenOnce ==
  \A e, f \in entries : e.voucher = f.voucher => e = f

\* An entry of a payment is about a payment on record, for its amount and its sale,
\* and no payment is posted twice.
PaymentPostedOnce ==
  \A e \in entries : e.kind = "payment" =>
    /\ [id |-> e.payment, sale |-> e.sale, amount |-> e.amount] \in payments
    /\ \A f \in entries : f.kind = "payment" /\ f.payment = e.payment => f.voucher = e.voucher

\* A number taken from the counter is free when its sale is saved: the unique
\* index never turns a new sale away, whatever the counter was set to meanwhile.
NumbersAreFree ==
  \A w \in Clerks : pc[w] = "save" => ~Numbered(job[w].seq)

\* One goroutine at a time edits and confirms.  The code does not see to it.
OneDesk ==
  \A v, w \in Clerks :
    {"edit", "confirm"} \cap Duties[v] # {} /\ {"edit", "confirm"} \cap Duties[w] # {} => v = w

\* A confirmed sale takes stock out once and is posted once, for the total it has
\* on record from then on: SaleConfirmed carries what was read before the checks.
SoldOnce ==
  OneDesk =>
    \A s \in SaleIds :
      /\ exits[s] <= 1
      /\ \A e \in entries : e.kind = "sale" /\ e.sale = s =>
           /\ e.amount = toCents(sales[s].order.total)
           /\ \A f \in entries : f.kind = "sale" /\ f.sale = s => f.voucher = e.voucher

\* One goroutine at a time makes invoices from sales, and no statement of its
\* requests fails: from_sale.go says that the protection is lost otherwise.
OneBiller ==
  /\ \A v, w \in Clerks : "bill" \in Duties[v] /\ "bill" \in Duties[w] => v = w
  /\ \A w \in Clerks : "bill" \in Duties[w] => Faults[w] = {}

InForce(d, s) == documents[d].sale = s /\ documents[d].status \in {"draft", "live"}

\* A sale has at most one invoice that has not failed, while sales are cancelled and
\* documents sent, rejected and deleted between the check and the link.
OneInvoice ==
  OneBiller =>
    \A s \in SaleIds : \A c, d \in DocumentIds : InForce(c, s) /\ InForce(d, s) => c = d

\* What the invoice of a sale asks for is what was posted for the sale, but for the
\* fractions of a cent that every line of it loses, at most two cents a line, and the
\* taxes of the document add up to what its lines say (FAU04).  The invoice reads the
\* sale long after the event was published with what it said.
BilledAsPosted ==
  OneDesk =>
    \A d \in DocumentIds, e \in entries : e.kind = "sale" /\ e.sale = documents[d].sale =>
      \A invoice \in saleLinesToCof(documents[d].order.lines) :
        /\ e.amount - computeTotals(invoice) \in 0..2 * Len(documents[d].order.lines)
        /\ MapThenSumSet(LAMBDA t : t.base + t.tax, aggregateTaxes(invoice)) = computeTotals(invoice)

-----------------------------------------------------------------------------
(* The inductive invariant.                                                *)

\* A request confirms a sale; a request is about to do something in a sale's name.
Confirming(w) ==
  pc[w] \in {"check", "status", "exit"} \/ (pc[w] \in Posting /\ job[w].kind = "sale")
Acting(w) ==
  pc[w] \in {"pay", "existing", "draft", "link", "exit"} \/ (pc[w] \in Posting /\ job[w].kind # "manual")
PostingPayment(w) == pc[w] \in Posting /\ job[w].kind = "payment"

LocalsOK ==
  \A w \in Clerks :
    /\ Acting(w) \/ pc[w] \in {"delete", "check", "status", "cancel"} => job[w].sale \in SaleIds
    /\ pc[w] \in {"existing", "link"} => job[w].document \in DocumentIds
    /\ PostingPayment(w) => job[w].payment \in PaymentIds
    /\ pc[w] = "exit" => job[w].kind = "sale"
    /\ pc[w] \in Posting /\ job[w].kind = "manual" => job[w].sale = NoSale
    /\ pc[w] \notin Posting \cup {"exit"} => job[w].kind = "manual"
    /\ Confirming(w) => "confirm" \in Duties[w]
    /\ pc[w] \in {"existing", "draft", "link"} => "bill" \in Duties[w]

DraftInv ==
  /\ NoEffectOfADraft
  /\ \A w \in Clerks : Acting(w) => sales[job[w].sale].status \notin {"none", "draft"}
  /\ \A w \in Clerks : pc[w] \in {"delete", "check", "status", "cancel"} =>
       sales[job[w].sale].status # "none"

VoucherInv ==
  /\ VouchersGivenOnce
  /\ \A e \in entries : e.voucher <= lastVoucher
  /\ \A w \in Clerks : pc[w] = "entry" =>
       /\ job[w].seq <= lastVoucher
       /\ \A e \in entries : e.voucher # job[w].seq
       /\ \A v \in Clerks : pc[v] = "entry" /\ job[v].seq = job[w].seq => v = w

PaymentInv ==
  /\ PaymentPostedOnce
  /\ \A p, q \in payments : p.id = q.id => p = q
  /\ \A w \in Clerks : PostingPayment(w) =>
       /\ [id |-> job[w].payment, sale |-> job[w].sale, amount |-> job[w].amount] \in payments
       /\ \A e \in entries : e.kind = "payment" => e.payment # job[w].payment
       /\ \A v \in Clerks : PostingPayment(v) /\ job[v].payment = job[w].payment => v = w

NumberInv ==
  /\ NumbersAreFree
  /\ \A s \in SaleIds : sales[s].number <= lastNumber
  /\ \A w \in Clerks : pc[w] = "save" =>
       /\ job[w].seq \in 1..lastNumber
       /\ \A v \in Clerks : pc[v] = "save" /\ job[v].seq = job[w].seq => v = w

DeskInv ==
  /\ SoldOnce
  /\ \A w \in Clerks : Confirming(w) =>
       /\ exits[job[w].sale] = 0
       /\ job[w].order = sales[job[w].sale].order
       /\ pc[w] \in Posting => job[w].amount = toCents(job[w].order.total)
       /\ pc[w] # "exit" => \A e \in entries : e.kind = "sale" => e.sale # job[w].sale

BillerInv ==
  /\ OneInvoice
  /\ \A w \in Clerks : \A d \in DocumentIds :
       /\ pc[w] = "draft" => ~InForce(d, job[w].sale)
       /\ pc[w] \in {"existing", "link"} /\ InForce(d, job[w].sale) => d = job[w].document
  /\ \A s \in SaleIds : \A d \in DocumentIds :
       sales[s].status # "deleted" /\ InForce(d, s) =>
         sales[s].invoice = d \/ \E w \in Clerks : pc[w] = "link" /\ job[w].sale = s

\* What a sale sells is fixed from confirmation on, and its invoice is made from that.
BilledInv ==
  /\ \A s \in SaleIds : sales[s].status # "none" => sales[s].order \in Orders
  /\ \A w \in Clerks : pc[w] = "save" => job[w].order \in Orders
  /\ \A w \in Clerks : pc[w] \in {"existing", "draft"} => job[w].order = sales[job[w].sale].order
  /\ \A d \in DocumentIds : documents[d].sale \in SaleIds =>
       documents[d].order = sales[documents[d].sale].order
  /\ \A e \in entries : e.kind = "sale" => e.sale \in SaleIds

OrderInv ==
  /\ TypeOK
  /\ LocalsOK
  /\ DraftInv
  /\ VoucherInv
  /\ PaymentInv
  /\ NumberInv
  /\ BilledInv
  /\ (OneDesk => DeskInv)
  /\ (OneBiller => BillerInv)
=============================================================================
