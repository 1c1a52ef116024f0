---------------------------- MODULE PurchaseToPay ----------------------------
(***************************************************************************)
(* From a purchase order to its receipt, withholdings, payments, support   *)
(* document and withholding certificates (erp/internal/purchase, the       *)
(* purchase handlers of accounting and inventory, from_purchase.go and     *)
(* issue_withholding_certificates.go).                                     *)
(*                                                                         *)
(* One company, one supplier, one year.  A request reads the order, checks *)
(* its status and writes in a later statement, which checks nothing again. *)
(* A handler that posts is one step here, that may also fail or leave the  *)
(* entry out; what happens between its statements is in OrderToCash.       *)
(***************************************************************************)
EXTENDS Integers, FiniteSets, FiniteSetsExt

CONSTANTS
  OrderIds,       \* identifiers of purchase orders
  WithholdingIds, \* identifiers of the withholdings of orders
  PaymentIds,     \* identifiers of payments
  DocumentIds,    \* identifiers of electronic support documents
  Concepts,       \* codes of withholding concepts
  Clerks,         \* goroutines that serve requests
  Duties,         \* goroutine -> the requests it serves
  Faults,         \* goroutine -> what it meets: "crash", it dies; "database", a
                  \* statement fails, or is applied and its reply lost
  Totals,         \* totals of an order
  Amounts,        \* amounts of a payment or a withholding
  MaxNumber,      \* bound on the numbers of orders
  MaxFolio,       \* bound on the numbers of certificates
  NoOrder, NoPayment, NoDocument

Requests == {"create", "edit", "delete", "confirm", "cancel", "receive", "withhold",
             "pay", "bill", "certify", "counters"}

ASSUME PurchaseAssumption ==
  /\ Duties \in [Clerks -> SUBSET Requests]
  /\ Faults \in [Clerks -> SUBSET {"crash", "database"}]
  /\ Totals \subseteq Nat /\ Amounts \subseteq Nat \ {0}
  /\ MaxNumber \in Nat /\ MaxFolio \in Nat
  /\ NoOrder \notin OrderIds /\ NoPayment \notin PaymentIds /\ NoDocument \notin DocumentIds

VARIABLES
  orders,       \* purchase.orders with their lines; "none": no row yet, "deleted": no row any more
  lastNumber,   \* purchase.number_counters, last_seq of the year
  withholdings, \* purchase.purchase_withholdings
  payments,     \* purchase.purchase_payments
  documents,    \* electronic.documents created from orders
  entries,      \* accounting.journal_entries of receipts and payments
  takenIn,      \* order -> how often the handler of inventory took its lines in
  certificates, \* accounting.withholding_certificates
  lastFolio,    \* accounting.certificate_counters, last_seq of the year
  pc,           \* request -> the statement it is at
  job           \* request -> its local variables

database == <<orders, lastNumber, withholdings, payments, documents, entries, takenIn,
              certificates, lastFolio>>
vars == <<orders, lastNumber, withholdings, payments, documents, entries, takenIn,
          certificates, lastFolio, pc, job>>

Statuses == {"none", "draft", "confirmed", "received", "cancelled", "deleted"}

\* As a purchase order sees them: see OrderToCash.
DocumentStatuses == {"none", "draft", "live", "failed", "deleted"}

Orders       == [status : Statuses, number : Nat, total : Nat,
                 document : DocumentIds \cup {NoDocument}]
Withholdings == [id : WithholdingIds, order : OrderIds, concept : Concepts, amount : Nat]
Payments     == [id : PaymentIds, order : OrderIds, amount : Nat]
Documents    == [status : DocumentStatuses, order : OrderIds \cup {NoOrder}]
Kinds        == {"receipt", "payment"}
\* The lines of an entry: amount is the order's total or the payment's amount, and the
\* withholdings are credited to the accounts of their concepts, not to the supplier.
Entries      == [voucher : Nat, kind : Kinds, order : OrderIds, amount : Nat,
                 payment : PaymentIds \cup {NoPayment}, withheld : SUBSET Withholdings]
\* A certificate is for the sum of some withholdings: rows are those it adds up.
Certificates == [number : Nat, concept : Concepts, rows : SUBSET Withholdings]

Steps == {"idle", "save", "delete", "confirm", "cancel", "load", "receive", "post", "entry",
          "withhold", "pay", "existing", "draft", "link", "folio", "certificate"}

\* The locals of a request: the order it read (its total, its document, its
\* withholdings), the number it was given, the event it publishes, and the summary:
\* the withholdings that certificates are still to be issued for.
Jobs == [order : OrderIds \cup {NoOrder}, total : Nat, seq : Nat,
         document : DocumentIds \cup {NoDocument}, withheld : SUBSET Withholdings,
         kind : Kinds, payment : PaymentIds \cup {NoPayment}, amount : Nat,
         summary : SUBSET Withholdings]

Idle == [order |-> NoOrder, total |-> 0, seq |-> 0, document |-> NoDocument,
         withheld |-> {}, kind |-> "receipt", payment |-> NoPayment, amount |-> 0,
         summary |-> {}]

Init ==
  /\ orders = [o \in OrderIds |-> [status |-> "none", number |-> 0, total |-> 0,
                                   document |-> NoDocument]]
  /\ documents = [d \in DocumentIds |-> [status |-> "none", order |-> NoOrder]]
  /\ lastNumber = 0 /\ lastFolio = 0
  /\ withholdings = {} /\ payments = {} /\ entries = {} /\ certificates = {}
  /\ takenIn = [o \in OrderIds |-> 0]
  /\ pc = [w \in Clerks |-> "idle"]
  /\ job = [w \in Clerks |-> Idle]

Goto(w, step) == pc' = [pc EXCEPT ![w] = step]

End(w) ==
  /\ Goto(w, "idle")
  /\ job' = [job EXCEPT ![w] = Idle]

\* A statement that is applied may still end the request: its reply was lost.
Lost(w) == "database" \in Faults[w] /\ End(w)

Takes(w, request) == pc[w] = "idle" /\ request \in Duties[w]

\* A request begins at a step; j are the locals it has by then.
Begin(w, step, j) ==
  /\ Goto(w, step)
  /\ job' = [job EXCEPT ![w] = j]
  /\ UNCHANGED database

\* The status GetByID answers with; an order without a row is an error.
GetByID(o) == orders[o].status
Exists(o) == GetByID(o) \notin {"none", "deleted"}

loadWithholdings(o) == {h \in withholdings : h.order = o}
PaymentsOf(o) == {p \in payments : p.order = o}
Sum(rows) == MapThenSumSet(LAMBDA r : r.amount, rows)

TotalWithholding(o) == Sum(loadWithholdings(o))
NetPayable(o) == orders[o].total - TotalWithholding(o)

-----------------------------------------------------------------------------
(* Orders: create, edit, delete, confirm, cancel.                          *)

\* ON CONFLICT DO UPDATE ... WHERE EXCLUDED.last_seq > last_seq: forward only.
SetPurchaseNumberCounter(n) ==
  /\ n \in 1..MaxNumber
  /\ n - 1 > lastNumber
  /\ lastNumber' = n - 1
  /\ UNCHANGED <<orders, withholdings, payments, documents, entries, takenIn, certificates,
                 lastFolio, pc, job>>

handleSetNumberCounter(w, n) == Takes(w, "counters") /\ SetPurchaseNumberCounter(n)

NextPurchaseNumber == lastNumber < MaxNumber /\ lastNumber' = lastNumber + 1

Create(w, t) ==
  /\ NextPurchaseNumber
  /\ \/ /\ Goto(w, "save")
        /\ job' = [job EXCEPT ![w] = [Idle EXCEPT !.total = t, !.seq = lastNumber']]
     \/ Lost(w)
  /\ UNCHANGED <<orders, withholdings, payments, documents, entries, takenIn, certificates,
                 lastFolio>>

handleCreate(w, t) == Takes(w, "create") /\ Create(w, t)

Numbered(n) == \E o \in OrderIds : orders[o].status # "deleted" /\ orders[o].number = n

\* uq_purchase_orders_number turns away a number that is in use.
Save(w, o) ==
  /\ pc[w] = "save"
  /\ orders[o].status = "none"
  /\ orders' = IF Numbered(job[w].seq) THEN orders
               ELSE [orders EXCEPT ![o] = [status |-> "draft", number |-> job[w].seq,
                                           total |-> job[w].total, document |-> NoDocument]]
  /\ End(w)
  /\ UNCHANGED <<lastNumber, withholdings, payments, documents, entries, takenIn,
                 certificates, lastFolio>>

\* One transaction, which locks the row before it checks the status.
Update(o, t) ==
  /\ orders[o].status = "draft"
  /\ orders' = [orders EXCEPT ![o].total = t]

\* The lines and their totals are made anew of what was sent.
UpdateOrder(o, t) ==
  /\ Update(o, t)
  /\ UNCHANGED <<lastNumber, withholdings, payments, documents, entries, takenIn,
                 certificates, lastFolio, pc, job>>

handleUpdate(w, o, t) == Takes(w, "edit") /\ UpdateOrder(o, t)

Delete(w, o) ==
  /\ GetByID(o) = "draft"
  /\ Begin(w, "delete", [Idle EXCEPT !.order = o])

handleDelete(w, o) == Takes(w, "delete") /\ Delete(w, o)

\* Variant: ON DELETE CASCADE on the withholdings and payments.
DeleteCascade(w) ==
  /\ pc[w] = "delete"
  /\ LET o == job[w].order IN
     orders' = IF Exists(o) THEN [orders EXCEPT ![o].status = "deleted"] ELSE orders
  /\ End(w)
  /\ UNCHANGED <<lastNumber, withholdings, payments, documents, entries, takenIn,
                 certificates, lastFolio>>

\* The DELETE does not look at the status again; the foreign keys of withholdings
\* and payments stop it.
DeleteRow(w) ==
  /\ pc[w] = "delete"
  /\ LET o == job[w].order IN
     orders' = IF ~Exists(o) \/ loadWithholdings(o) # {} \/ PaymentsOf(o) # {} THEN orders
               ELSE [orders EXCEPT ![o].status = "deleted"]
  /\ End(w)
  /\ UNCHANGED <<lastNumber, withholdings, payments, documents, entries, takenIn,
                 certificates, lastFolio>>

\* An UPDATE of a row that is not there changes nothing and is no error.
UpdateStatus(o, status) ==
  orders' = IF Exists(o) THEN [orders EXCEPT ![o].status = status] ELSE orders

Confirm(w, o) ==
  /\ GetByID(o) = "draft"
  /\ Begin(w, "confirm", [Idle EXCEPT !.order = o])

handleConfirm(w, o) == Takes(w, "confirm") /\ Confirm(w, o)

ConfirmStatus(w) ==
  /\ pc[w] = "confirm"
  /\ UpdateStatus(job[w].order, "confirmed")
  /\ End(w)
  /\ UNCHANGED <<lastNumber, withholdings, payments, documents, entries, takenIn,
                 certificates, lastFolio>>

Cancel(w, o) ==
  /\ GetByID(o) \in {"draft", "confirmed"}
  /\ Begin(w, "cancel", [Idle EXCEPT !.order = o])

handleCancel(w, o) == Takes(w, "cancel") /\ Cancel(w, o)

CancelStatus(w) ==
  /\ pc[w] = "cancel"
  /\ UpdateStatus(job[w].order, "cancelled")
  /\ End(w)
  /\ UNCHANGED <<lastNumber, withholdings, payments, documents, entries, takenIn,
                 certificates, lastFolio>>

-----------------------------------------------------------------------------
(* Withholdings and their certificates.                                    *)

\* Variant: a withholding of any order.
AddWithholdingAnyStatus(w, o, a) ==
  /\ Exists(o)
  /\ Begin(w, "withhold", [Idle EXCEPT !.order = o, !.amount = a])

AddWithholding(w, o, a) ==
  /\ GetByID(o) = "confirmed"
  /\ Begin(w, "withhold", [Idle EXCEPT !.order = o, !.amount = a])

handleAddWithholding(w, o, a) == Takes(w, "withhold") /\ AddWithholding(w, o, a)

\* Add, after the concept was read; the foreign key needs the row of the order.
SaveWithholding(w, h, c) ==
  /\ pc[w] = "withhold"
  /\ \A g \in withholdings : g.id # h
  /\ withholdings' =
       IF Exists(job[w].order)
       THEN withholdings \cup {[id |-> h, order |-> job[w].order, concept |-> c,
                               amount |-> job[w].amount]}
       ELSE withholdings
  /\ End(w)
  /\ UNCHANGED <<orders, lastNumber, payments, documents, entries, takenIn, certificates,
                 lastFolio>>

\* Execute, with the result of GetWithholdingSummary: of all the orders of the
\* supplier and the year, whatever their status.  With none the answer is an error.
IssueCertificates(w) ==
  /\ withholdings # {}
  /\ Begin(w, "folio", [Idle EXCEPT !.summary = withholdings])

handleIssueCertificates(w) == Takes(w, "certify") /\ IssueCertificates(w)

NextCertificateNumber(w) ==
  /\ pc[w] = "folio"
  /\ lastFolio < MaxFolio
  /\ lastFolio' = lastFolio + 1
  /\ \/ Goto(w, "certificate") /\ job' = [job EXCEPT ![w].seq = lastFolio + 1]
     \/ Lost(w)
  /\ UNCHANGED <<orders, lastNumber, withholdings, payments, documents, entries, takenIn,
                 certificates>>

OfConcept(rows, c) == {h \in rows : h.concept = c}
Rest(w, c) == job[w].summary \ OfConcept(job[w].summary, c)
Certificate(w, c) ==
  [number |-> job[w].seq, concept |-> c, rows |-> OfConcept(job[w].summary, c)]
Certified(c) == \E x \in certificates : x.concept = c

\* The loop over the summary, one concept done.
NextConcept(w, c) ==
  IF Rest(w, c) = {} THEN End(w)
  ELSE Goto(w, "folio") /\ job' = [job EXCEPT ![w].summary = Rest(w, c)]

\* Variant: without UNIQUE (company, year, third party, concept, type).
CreateCertificateAgain(w, c) ==
  /\ pc[w] = "certificate"
  /\ OfConcept(job[w].summary, c) # {}
  /\ certificates' = certificates \cup {Certificate(w, c)}
  /\ NextConcept(w, c)
  /\ UNCHANGED <<orders, lastNumber, withholdings, payments, documents, entries, takenIn,
                 lastFolio>>

\* A concept that has its certificate of the year is an error, which leaves the
\* folio unused and the concepts after it without theirs.
CreateCertificate(w, c) ==
  /\ pc[w] = "certificate"
  /\ OfConcept(job[w].summary, c) # {}
  /\ \/ /\ ~Certified(c)
        /\ certificates' = certificates \cup {Certificate(w, c)}
        /\ NextConcept(w, c) \/ Lost(w)
     \/ Certified(c) /\ End(w) /\ UNCHANGED certificates
  /\ UNCHANGED <<orders, lastNumber, withholdings, payments, documents, entries, takenIn,
                 lastFolio>>

-----------------------------------------------------------------------------
(* Receipt, and what the bus does with PurchaseReceived.                   *)

\* GetByID reads the row and the lines here, and the withholdings after them.
Receive(w, o) ==
  /\ GetByID(o) = "confirmed"
  /\ Begin(w, "load", [Idle EXCEPT !.order = o, !.total = orders[o].total])

handleReceive(w, o) == Takes(w, "receive") /\ Receive(w, o)

LoadWithholdings(w) ==
  /\ pc[w] = "load"
  /\ Goto(w, "receive")
  /\ job' = [job EXCEPT ![w].withheld = loadWithholdings(job[w].order)]
  /\ UNCHANGED database

\* Then PurchaseReceived is published, with the lines and withholdings that were read.
ReceiveStatus(w) ==
  /\ pc[w] = "receive"
  /\ UpdateStatus(job[w].order, "received")
  /\ \/ Goto(w, "post") /\ UNCHANGED job
     \/ Lost(w)
  /\ UNCHANGED <<lastNumber, withholdings, payments, documents, entries, takenIn,
                 certificates, lastFolio>>

\* Publish goes on to the next handler, whatever became of this one.
NextHandler(w) ==
  IF job[w].kind = "receipt" THEN Goto(w, "entry") /\ UNCHANGED job ELSE End(w)

Entry(w) ==
  [voucher |-> Cardinality(entries) + 1, kind |-> job[w].kind, order |-> job[w].order,
   amount |-> IF job[w].kind = "receipt" THEN job[w].total ELSE job[w].amount,
   payment |-> job[w].payment, withheld |-> job[w].withheld]

\* What an entry credits to the supplier's account, or debits in a payment.
SupplierAmount(e) == e.amount - Sum(e.withheld)

\* handle of the two handlers of accounting.  In a closed month the entry is left
\* out; a supplier's line that is not above zero (chk_line_amounts) fails it.
Post(w) ==
  /\ pc[w] = "post"
  /\ \/ SupplierAmount(Entry(w)) > 0 /\ entries' = entries \cup {Entry(w)}
     \/ UNCHANGED entries
  /\ NextHandler(w)
  /\ UNCHANGED <<orders, lastNumber, withholdings, payments, documents, takenIn,
                 certificates, lastFolio>>

\* OnPurchaseReceived of inventory, line after line (see Inventory).
TakeIn(w) ==
  /\ pc[w] = "entry"
  /\ takenIn' = [takenIn EXCEPT ![job[w].order] = @ + 1]
  /\ End(w)
  /\ UNCHANGED <<orders, lastNumber, withholdings, payments, documents, entries,
                 certificates, lastFolio>>

-----------------------------------------------------------------------------
(* Payments.                                                               *)

Record(w, o, a) ==
  /\ GetByID(o) = "received"
  /\ Begin(w, "pay", [Idle EXCEPT !.order = o, !.amount = a])

handleRecordPayment(w, o, a) == Takes(w, "pay") /\ Record(w, o, a)

Unpaid == {p \in PaymentIds : \A q \in payments : q.id # p}
PaymentOf(w, p) == [id |-> p, order |-> job[w].order, amount |-> job[w].amount]

\* Variant: the event is published although the INSERT failed.
SavePaymentIgnored(w, p) ==
  /\ pc[w] = "pay"
  /\ p \in Unpaid
  /\ Exists(job[w].order)
  /\ payments' = payments \cup {PaymentOf(w, p)} \/ payments' = payments
  /\ Goto(w, "post")
  /\ job' = [job EXCEPT ![w].kind = "payment", ![w].payment = p]
  /\ UNCHANGED <<orders, lastNumber, withholdings, documents, entries, takenIn,
                 certificates, lastFolio>>

\* The foreign key needs the row of the order.
SavePayment(w, p) ==
  /\ pc[w] = "pay"
  /\ p \in Unpaid
  /\ \/ /\ Exists(job[w].order)
        /\ payments' = payments \cup {PaymentOf(w, p)}
        /\ \/ /\ Goto(w, "post")
              /\ job' = [job EXCEPT ![w].kind = "payment", ![w].payment = p]
           \/ Lost(w)
     \/ ~Exists(job[w].order) /\ End(w) /\ UNCHANGED payments
  /\ UNCHANGED <<orders, lastNumber, withholdings, documents, entries, takenIn,
                 certificates, lastFolio>>

-----------------------------------------------------------------------------
(* The support document of an order.                                       *)

FromPurchase(w, o) ==
  /\ GetByID(o) = "received"
  /\ Begin(w, IF orders[o].document = NoDocument THEN "draft" ELSE "existing",
           [Idle EXCEPT !.order = o, !.document = orders[o].document])

handleCreateSupportDocFromPurchase(w, o) == Takes(w, "bill") /\ FromPurchase(w, o)

\* Variant: any document that is not a draft may be replaced.
ReplaceAnyButDraft(w) ==
  /\ pc[w] = "existing"
  /\ \/ documents[job[w].document].status \in {"live", "failed"} /\ Goto(w, "draft") /\ UNCHANGED job
     \/ documents[job[w].document].status \in {"draft", "deleted"} /\ End(w)
  /\ UNCHANGED database

\* A document that was deleted is an error, for this order for ever.
CheckExisting(w) ==
  /\ pc[w] = "existing"
  /\ \/ documents[job[w].document].status = "failed" /\ Goto(w, "draft") /\ UNCHANGED job
     \/ documents[job[w].document].status # "failed" /\ End(w)
  /\ UNCHANGED database

CreateSupportDocumentDraft(w, d) ==
  /\ pc[w] = "draft"
  /\ documents[d].status = "none"
  /\ documents' = [documents EXCEPT ![d] = [status |-> "draft", order |-> job[w].order]]
  /\ \/ Goto(w, "link") /\ job' = [job EXCEPT ![w].document = d]
     \/ Lost(w)
  /\ UNCHANGED <<orders, lastNumber, withholdings, payments, entries, takenIn,
                 certificates, lastFolio>>

SetSupportDocumentID(w) ==
  /\ pc[w] = "link"
  /\ LET o == job[w].order IN
     orders' = IF Exists(o) THEN [orders EXCEPT ![o].document = job[w].document] ELSE orders
  /\ End(w)
  /\ UNCHANGED <<lastNumber, withholdings, payments, documents, entries, takenIn,
                 certificates, lastFolio>>

DocumentStep(d, old, new) ==
  /\ documents[d].status = old
  /\ documents' = [documents EXCEPT ![d].status = new]
  /\ UNCHANGED <<orders, lastNumber, withholdings, payments, entries, takenIn, certificates,
                 lastFolio, pc, job>>

\* What ElectronicIssuing does to a document, as an order sees it.
DocumentConfirmed(d) == DocumentStep(d, "draft", "live")
DocumentFailed(d)    == DocumentStep(d, "live", "failed")
DeleteDraft(d)       == DocumentStep(d, "draft", "deleted")

-----------------------------------------------------------------------------

\* A statement is not applied; in a handler only that handler ends.
StatementFails(w) ==
  /\ "database" \in Faults[w]
  /\ pc[w] # "idle"
  /\ IF pc[w] = "post" THEN NextHandler(w) ELSE End(w)
  /\ UNCHANGED database

Crash(w) ==
  /\ "crash" \in Faults[w]
  /\ pc[w] # "idle"
  /\ End(w)
  /\ UNCHANGED database

OrderStep(w) ==
  \/ \E t \in Totals : handleCreate(w, t)
  \/ \E n \in 1..MaxNumber : handleSetNumberCounter(w, n)
  \/ DeleteRow(w) \/ ConfirmStatus(w) \/ CancelStatus(w)
  \/ \E o \in OrderIds :
       \/ Save(w, o) \/ handleDelete(w, o) \/ handleConfirm(w, o) \/ handleCancel(w, o)
       \/ \E t \in Totals : handleUpdate(w, o, t)

WithholdingStep(w) ==
  \/ \E o \in OrderIds, a \in Amounts : handleAddWithholding(w, o, a)
  \/ \E h \in WithholdingIds, c \in Concepts : SaveWithholding(w, h, c)
  \/ handleIssueCertificates(w) \/ NextCertificateNumber(w)
  \/ \E c \in Concepts : CreateCertificate(w, c)

ReceiptStep(w) ==
  \/ \E o \in OrderIds : handleReceive(w, o)
  \/ LoadWithholdings(w) \/ ReceiveStatus(w) \/ Post(w) \/ TakeIn(w)

PaymentStep(w) ==
  \/ \E o \in OrderIds, a \in Amounts : handleRecordPayment(w, o, a)
  \/ \E p \in PaymentIds : SavePayment(w, p)

DocumentsStep(w) ==
  \/ \E o \in OrderIds : handleCreateSupportDocFromPurchase(w, o)
  \/ CheckExisting(w) \/ SetSupportDocumentID(w)
  \/ \E d \in DocumentIds : CreateSupportDocumentDraft(w, d)

Failure(w) == StatementFails(w) \/ Crash(w)

Next ==
  \/ \E w \in Clerks : \/ OrderStep(w) \/ WithholdingStep(w) \/ ReceiptStep(w)
                       \/ PaymentStep(w) \/ DocumentsStep(w) \/ Failure(w)
  \/ \E d \in DocumentIds : DocumentConfirmed(d) \/ DocumentFailed(d) \/ DeleteDraft(d)

Spec == Init /\ [][Next]_vars

-----------------------------------------------------------------------------
(* Properties.                                                             *)

TypeOK ==
  /\ orders \in [OrderIds -> Orders]
  /\ withholdings \subseteq Withholdings
  /\ payments \subseteq Payments
  /\ documents \in [DocumentIds -> Documents]
  /\ entries \subseteq Entries /\ IsFiniteSet(entries)
  /\ takenIn \in [OrderIds -> Nat]
  /\ certificates \subseteq Certificates
  /\ lastNumber \in Nat /\ lastFolio \in Nat
  /\ pc \in [Clerks -> Steps]
  /\ job \in [Clerks -> Jobs]

\* Nothing was withheld, received, paid or invoiced for an order in draft, and what
\* was withheld or paid keeps its order, whatever requests overtake one another
\* between the status they read and the statement they write.
Untouched(o) ==
  /\ takenIn[o] = 0
  /\ \A e \in entries : e.order # o
  /\ \A d \in DocumentIds : documents[d].order # o

NoEffectOfADraft ==
  /\ \A o \in OrderIds : orders[o].status \in {"none", "draft"} => Untouched(o)
  /\ \A r \in withholdings \cup payments :
       orders[r.order].status \in {"confirmed", "received", "cancelled"}

\* One goroutine at a time edits, confirms, withholds and receives.  The code does
\* not see to it.
Buying == {"edit", "confirm", "withhold", "receive"}
OneBuyer ==
  \A v, w \in Clerks : Buying \cap Duties[v] # {} /\ Buying \cap Duties[w] # {} => v = w

\* An order is taken in once and posted once, for the net amount it has on record
\* from then on and with all of its withholdings, while others cancel it, delete it,
\* pay it and invoice it: the event carries what was read before the status was set.
ReceivedOnce ==
  OneBuyer =>
    \A o \in OrderIds :
      /\ takenIn[o] <= 1
      /\ \A e \in entries : e.kind = "receipt" /\ e.order = o =>
           /\ SupplierAmount(e) = NetPayable(o)
           /\ e.withheld = loadWithholdings(o)
           /\ \A f \in entries : f.kind = "receipt" /\ f.order = o => f = e

\* An entry of a payment is about a payment on record, for its amount and its order,
\* and no payment is posted twice.
PaymentPostedOnce ==
  \A e \in entries : e.kind = "payment" =>
    /\ [id |-> e.payment, order |-> e.order, amount |-> e.amount] \in payments
    /\ \A f \in entries : f.kind = "payment" /\ f.payment = e.payment => f = e

\* What a supplier was withheld is certified once: a concept has one certificate in
\* the year and a folio is on one, and a certificate adds up withholdings that are
\* on record, although they are issued, and withholdings added, at the same time.
CertifiedOnce ==
  \A x \in certificates :
    /\ x.rows # {} /\ x.rows \subseteq OfConcept(withholdings, x.concept)
    /\ \A y \in certificates : x.number = y.number \/ x.concept = y.concept => x = y

\* A number taken from the counter is free when its order is saved: the unique
\* index never turns a new order away, whatever the counter was set to meanwhile.
NumbersAreFree ==
  \A w \in Clerks : pc[w] = "save" => ~Numbered(job[w].seq)

\* One goroutine at a time makes documents from orders, and no statement of its
\* requests fails: from_purchase.go says that the protection is lost otherwise.
OneBiller ==
  /\ \A v, w \in Clerks : "bill" \in Duties[v] /\ "bill" \in Duties[w] => v = w
  /\ \A w \in Clerks : "bill" \in Duties[w] => Faults[w] = {}

InForce(d, o) == documents[d].order = o /\ documents[d].status \in {"draft", "live"}

\* An order has at most one support document that has not failed, while documents
\* are sent, rejected and deleted between the check and the link.
OneSupportDocument ==
  OneBiller =>
    \A o \in OrderIds : \A c, d \in DocumentIds : InForce(c, o) /\ InForce(d, o) => c = d

-----------------------------------------------------------------------------
(* The inductive invariant.                                                *)

\* The requests that are about to do something in an order's name.
PostingPayment(w) == pc[w] = "post" /\ job[w].kind = "payment"
Receiving(w) ==
  pc[w] \in {"load", "receive", "entry"} \/ (pc[w] = "post" /\ job[w].kind = "receipt")
Billing(w) == pc[w] \in {"existing", "draft", "link"}
Acting(w) == Receiving(w) \/ PostingPayment(w) \/ Billing(w) \/ pc[w] \in {"withhold", "pay"}

LocalsOK ==
  \A w \in Clerks :
    /\ Acting(w) \/ pc[w] \in {"delete", "confirm", "cancel"} => job[w].order \in OrderIds
    /\ pc[w] \in {"existing", "link"} => job[w].document \in DocumentIds
    /\ PostingPayment(w) => job[w].payment \in PaymentIds /\ job[w].withheld = {}
    /\ pc[w] # "post" => job[w].kind = "receipt"
    /\ pc[w] = "pay" => job[w].withheld = {}
    /\ Receiving(w) => "receive" \in Duties[w]
    /\ pc[w] = "withhold" => "withhold" \in Duties[w]
    /\ pc[w] = "confirm" => "confirm" \in Duties[w]
    /\ Billing(w) => "bill" \in Duties[w]

DraftInv ==
  /\ NoEffectOfADraft
  /\ \A w \in Clerks : Acting(w) => orders[job[w].order].status \notin {"none", "draft"}
  /\ \A w \in Clerks : pc[w] \in {"delete", "confirm", "cancel"} =>
       orders[job[w].order].status # "none"

PaymentInv ==
  /\ PaymentPostedOnce
  /\ \A p, q \in payments : p.id = q.id => p = q
  /\ \A w \in Clerks : PostingPayment(w) =>
       /\ [id |-> job[w].payment, order |-> job[w].order, amount |-> job[w].amount] \in payments
       /\ \A e \in entries : e.kind = "payment" => e.payment # job[w].payment
       /\ \A v \in Clerks : PostingPayment(v) /\ job[v].payment = job[w].payment => v = w

CertificateInv ==
  /\ CertifiedOnce
  /\ \A x \in certificates : x.number <= lastFolio
  /\ \A w \in Clerks : job[w].summary \subseteq withholdings
  /\ \A w \in Clerks : pc[w] = "certificate" =>
       /\ job[w].seq <= lastFolio
       /\ \A x \in certificates : x.number # job[w].seq
       /\ \A v \in Clerks : pc[v] = "certificate" /\ job[v].seq = job[w].seq => v = w

NumberInv ==
  /\ NumbersAreFree
  /\ \A o \in OrderIds : orders[o].number <= lastNumber
  /\ \A w \in Clerks : pc[w] = "save" =>
       /\ job[w].seq \in 1..lastNumber
       /\ \A v \in Clerks : pc[v] = "save" /\ job[v].seq = job[w].seq => v = w

\* While a request receives an order nothing of it was posted or taken in yet, and
\* the total and the withholdings it read are those on record.
BuyerInv ==
  /\ ReceivedOnce
  /\ \A o \in OrderIds : orders[o].status \in {"draft", "confirmed"} =>
       takenIn[o] = 0 /\ \A e \in entries : e.kind = "receipt" => e.order # o
  /\ \A w \in Clerks : Receiving(w) =>
       /\ takenIn[job[w].order] = 0
       /\ job[w].total = orders[job[w].order].total
       /\ pc[w] # "load" => job[w].withheld = loadWithholdings(job[w].order)
       /\ pc[w] \in {"post", "entry"} => orders[job[w].order].status # "confirmed"
       /\ pc[w] # "entry" => \A e \in entries : e.kind = "receipt" => e.order # job[w].order
  /\ \A w \in Clerks : pc[w] \in {"withhold", "confirm"} =>
       /\ takenIn[job[w].order] = 0
       /\ \A e \in entries : e.kind = "receipt" => e.order # job[w].order

BillerInv ==
  /\ OneSupportDocument
  /\ \A w \in Clerks : \A d \in DocumentIds :
       /\ pc[w] = "draft" => ~InForce(d, job[w].order)
       /\ pc[w] \in {"existing", "link"} /\ InForce(d, job[w].order) => d = job[w].document
  /\ \A o \in OrderIds : \A d \in DocumentIds :
       orders[o].status # "deleted" /\ InForce(d, o) =>
         orders[o].document = d \/ \E w \in Clerks : pc[w] = "link" /\ job[w].order = o

PurchaseInv ==
  /\ TypeOK
  /\ LocalsOK
  /\ DraftInv
  /\ PaymentInv
  /\ CertificateInv
  /\ NumberInv
  /\ (OneBuyer => BuyerInv)
  /\ (OneBiller => BillerInv)
=============================================================================
