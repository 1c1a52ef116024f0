-------------------------- MODULE OrderToCashProofs --------------------------
(* Theorems about OrderToCash, for every number of sales, payments,         *)
(* documents and concurrent requests, every distribution of Duties and      *)
(* every choice of Faults.                                                  *)
EXTENDS OrderToCash, FiniteSetTheorems, WellFoundedInduction, TLAPS

Step(w) == \/ SaleStep(w) \/ PaymentStep(w) \/ JournalStep(w)
           \/ CounterStep(w) \/ InvoiceStep(w) \/ Failure(w)

\* A step of w leaves the locals of all other requests alone.
Others(w) == \A v \in Clerks \ {w} : pc'[v] = pc[v] /\ job'[v] = job[v]

\* What a step does to the request that takes it keeps the types.
Moved(w) ==
  /\ pc' \in [Clerks -> Steps] /\ job' \in [Clerks -> Jobs]
  /\ Others(w)

LEMMA toCentsType ==
  \A x \in Nat : toCents(x) \in Nat
BY DEF toCents, Rounded

LEMMA IdleType == Idle \in Jobs /\ NoOrder \in OrderRange
BY DEF Idle, Jobs, NoOrder, OrderRange, Kinds

LEMMA EndMoves ==
  ASSUME TypeOK, NEW w \in Clerks, End(w)
  PROVE  Moved(w) /\ pc'[w] = "idle" /\ job'[w] = Idle
BY IdleType DEF TypeOK, End, Goto, Moved, Others, Steps

LEMMA BeginMoves ==
  ASSUME TypeOK, NEW w \in Clerks, NEW p \in Steps, NEW j \in Jobs, Begin(w, p, j)
  PROVE  Moved(w) /\ pc'[w] = p /\ job'[w] = j
BY DEF TypeOK, Begin, Goto, Moved, Others

LEMMA GotoMoves ==
  ASSUME TypeOK, NEW w \in Clerks, NEW p \in Steps, Goto(w, p), UNCHANGED job
  PROVE  Moved(w) /\ pc'[w] = p /\ job'[w] = job[w]
BY DEF TypeOK, Goto, Moved, Others

LEMMA NextHandlerMoves ==
  ASSUME TypeOK, NEW w \in Clerks, NextHandler(w)
  PROVE  /\ Moved(w)
         /\ IF job[w].kind = "sale" THEN pc'[w] = "exit" /\ job'[w] = job[w]
            ELSE pc'[w] = "idle" /\ job'[w] = Idle
<1>1. "exit" \in Steps
  BY DEF Steps
<1> QED
  BY <1>1, EndMoves, GotoMoves DEF NextHandler

\* The other ways a request goes on with new locals.
LEMMA GivenMoves ==
  ASSUME TypeOK, NEW w \in Clerks, NEW p \in Steps, NEW j \in Jobs, Goto(w, p),
         job' = [job EXCEPT ![w] = j]
  PROVE  Moved(w) /\ pc'[w] = p /\ job'[w] = j
BY DEF TypeOK, Goto, Moved, Others

\* The locals a request begins with.
LEMMA Starts ==
  ASSUME TypeOK, NEW s \in SaleIds
  PROVE  /\ [Idle EXCEPT !.sale = s] \in Jobs
         /\ [Idle EXCEPT !.sale = s, !.order = sales[s].order] \in Jobs
         /\ \A a \in Amounts : [Idle EXCEPT !.sale = s, !.amount = a] \in Jobs
         /\ [Idle EXCEPT !.sale = s, !.order = sales[s].order, !.document = sales[s].invoice] \in Jobs
         /\ \A a \in Amounts : [Idle EXCEPT !.amount = a] \in Jobs
<1>1. sales[s].order \in OrderRange /\ sales[s].invoice \in DocumentIds \cup {NoDocument}
  BY DEF TypeOK, Sales
<1>2. \A a \in Amounts : a \in Nat
  BY OrderAssumption
<1> QED
  BY <1>1, <1>2, IdleType DEF Jobs, Idle, Kinds

LEMMA SaleTypes ==
  ASSUME TypeOK, LocalsOK, NEW w \in Clerks, SaleStep(w)
  PROVE  TypeOK' /\ Moved(w)
<1> USE DEF TypeOK
<1>1. ASSUME NEW o \in Orders, handleCreate(w, o) PROVE TypeOK' /\ Moved(w)
  <2>1. o \in OrderRange /\ lastNumber + 1 \in Nat
    BY OrderAssumption DEF OrderRange
  <2>2. [Idle EXCEPT !.order = o, !.seq = lastNumber + 1] \in Jobs
    BY <2>1, IdleType DEF Jobs, Idle
  <2>3. Moved(w)
    BY <1>1, <2>2, EndMoves, GivenMoves DEF handleCreate, NextSaleNumber, Lost, Steps
  <2> QED
    BY <1>1, <2>1, <2>3 DEF handleCreate, NextSaleNumber, Moved
<1>2. CASE DeleteRow(w)
  <2>1. job[w].sale \in SaleIds
    BY <1>2 DEF DeleteRow, LocalsOK
  <2>2. sales' \in [SaleIds -> Sales]
    BY <1>2, <2>1 DEF DeleteRow, Sales, SaleStatuses
  <2> QED
    BY <1>2, <2>2, EndMoves DEF DeleteRow, Moved
<1>3. ASSUME NEW status \in SaleStatuses, UpdateStatus(job[w].sale, status)
      PROVE  sales' \in [SaleIds -> Sales]
  BY <1>3 DEF UpdateStatus, Sales
<1>4. CASE CancelStatus(w)
  BY <1>3, <1>4, EndMoves DEF CancelStatus, Moved, SaleStatuses
<1>5. CASE ChecksPass(w)
  BY <1>5, GotoMoves DEF ChecksPass, Moved, database, Steps
<1>6. CASE ChecksRefuse(w)
  BY <1>6, EndMoves DEF ChecksRefuse, Moved, database
<1>7. CASE ConfirmStatus(w)
  <2>1. sales' \in [SaleIds -> Sales]
    BY <1>3, <1>7 DEF ConfirmStatus, SaleStatuses
  <2>2. [job[w] EXCEPT !.kind = "sale", !.amount = toCents(job[w].order.total)] \in Jobs
    BY toCentsType DEF Jobs, OrderRange, Kinds
  <2>3. Moved(w)
    <3>1. CASE Lost(w)
      BY <3>1, EndMoves DEF Lost
    <3>2. CASE ~Lost(w)
      <4>1. job' = [job EXCEPT ![w] = [job[w] EXCEPT !.kind = "sale",
                                                   !.amount = toCents(job[w].order.total)]]
        BY <1>7, <3>2 DEF ConfirmStatus
      <4> QED
        BY <1>7, <3>2, <4>1, <2>2, GivenMoves DEF ConfirmStatus, Steps, Posting
    <3> QED
      BY <3>1, <3>2
  <2> QED
    BY <1>7, <2>1, <2>3 DEF ConfirmStatus, Moved
<1>8. ASSUME NEW s \in SaleIds, Save(w, s) PROVE TypeOK' /\ Moved(w)
  <2>1. job[w].order \in OrderRange /\ job[w].seq \in Nat
    BY DEF Jobs
  <2>2. sales' \in [SaleIds -> Sales]
    BY <1>8, <2>1 DEF Save, Sales, SaleStatuses
  <2> QED
    BY <1>8, <2>2, EndMoves DEF Save, Moved
<1>9. ASSUME NEW s \in SaleIds, handleDeleteSale(w, s) \/ handleCancel(w, s) \/ handleConfirm(w, s)
      PROVE  TypeOK' /\ Moved(w)
  BY <1>9, Starts, BeginMoves DEF handleDeleteSale, Delete, handleCancel, Cancel, handleConfirm,
     Confirm, Steps, Moved, Begin, database
<1>10. ASSUME NEW s \in SaleIds, NEW o \in Orders, handleUpdate(w, s, o) PROVE TypeOK' /\ Moved(w)
  <2>1. o \in OrderRange
    BY OrderAssumption DEF OrderRange
  <2> QED
    BY <1>10, <2>1 DEF handleUpdate, Update, Sales, Moved, Others
<1> QED
  BY <1>1, <1>2, <1>4, <1>5, <1>6, <1>7, <1>8, <1>9, <1>10 DEF SaleStep

LEMMA PaymentTypes ==
  ASSUME TypeOK, LocalsOK, NEW w \in Clerks, PaymentStep(w)
  PROVE  TypeOK' /\ Moved(w)
<1> USE DEF TypeOK
<1>1. ASSUME NEW s \in SaleIds, NEW a \in Amounts, handleRecordPayment(w, s, a)
      PROVE TypeOK' /\ Moved(w)
  BY <1>1, Starts, BeginMoves DEF handleRecordPayment, Record, Steps, Moved, Begin, database
<1>2. ASSUME NEW p \in PaymentIds, SavePayment(w, p) PROVE TypeOK' /\ Moved(w)
  <2>1. job[w].sale \in SaleIds /\ job[w].amount \in Nat
    BY <1>2 DEF SavePayment, LocalsOK, Acting, Jobs
  <2>2. payments' \subseteq Payments
    BY <1>2, <2>1 DEF SavePayment, PaymentOf, Payments
  <2>3. [job[w] EXCEPT !.kind = "payment", !.payment = p] \in Jobs
    BY DEF Jobs, Kinds
  <2>4. Moved(w)
    <3>1. CASE Lost(w)
      BY <3>1, EndMoves DEF Lost
    <3>2. CASE ~Lost(w)
      <4>1. job' = [job EXCEPT ![w] = [job[w] EXCEPT !.kind = "payment", !.payment = p]]
        BY <1>2, <3>2 DEF SavePayment
      <4> QED
        BY <1>2, <3>2, <4>1, <2>3, GivenMoves DEF SavePayment, Steps, Posting
    <3> QED
      BY <3>1, <3>2
  <2> QED
    BY <1>2, <2>2, <2>4 DEF SavePayment, Moved
<1>3. CASE PaymentRefused(w)
  BY <1>3, EndMoves DEF PaymentRefused, Moved, database
<1> QED
  BY <1>1, <1>2, <1>3 DEF PaymentStep

LEMMA JournalTypes ==
  ASSUME TypeOK, LocalsOK, NEW w \in Clerks, JournalStep(w)
  PROVE  TypeOK' /\ Moved(w)
<1> USE DEF TypeOK
<1>1. ASSUME NEW a \in Amounts, handlePostJournal(w, a) PROVE TypeOK' /\ Moved(w)
  <2>1. [Idle EXCEPT !.amount = a] \in Jobs
    BY OrderAssumption, IdleType DEF Jobs, Idle
  <2> QED
    BY <1>1, <2>1, BeginMoves DEF handlePostJournal, PostJournal, Steps, Posting, Moved, Begin,
       database
<1>2. CASE GetPeriod(w)
  BY <1>2, GotoMoves, NextHandlerMoves DEF GetPeriod, Steps, Posting, Moved, database
<1>3. CASE CreatePeriod(w)
  BY <1>3, GotoMoves, NextHandlerMoves DEF CreatePeriod, Steps, Posting, Moved
<1>4. CASE NextVoucherSeq(w)
  <2>1. lastVoucher + 1 \in Nat
    OBVIOUS
  <2>2. [job[w] EXCEPT !.seq = lastVoucher + 1] \in Jobs
    BY <2>1 DEF Jobs
  <2>3. Moved(w)
    <3>1. CASE NextHandler(w)
      BY <3>1, NextHandlerMoves
    <3>2. CASE ~NextHandler(w)
      BY <1>4, <3>2, <2>2, GivenMoves DEF NextVoucherSeq, Steps, Posting
    <3> QED
      BY <3>1, <3>2
  <2> QED
    BY <1>4, <2>1, <2>3 DEF NextVoucherSeq, Moved
<1>5. CASE CreateEntry(w)
  <2>1. Entry(w) \in Entries
    BY DEF Entry, Entries, Jobs
  <2> QED
    BY <1>5, <2>1, NextHandlerMoves DEF CreateEntry, Moved
<1>6. CASE TakeOut(w)
  <2>1. job[w].sale \in SaleIds
    BY <1>6 DEF TakeOut, LocalsOK, Acting
  <2>2. exits' \in [SaleIds -> Nat]
    BY <1>6, <2>1 DEF TakeOut
  <2> QED
    BY <1>6, <2>2, EndMoves DEF TakeOut, Moved
<1>7. ASSUME NEW e \in entries, handleVoidJournal(w, e) PROVE TypeOK' /\ Moved(w)
  <2>1. e.voucher \in Nat
    BY DEF Entries
  <2>2. [Idle EXCEPT !.seq = e.voucher] \in Jobs
    BY <2>1, IdleType DEF Jobs, Idle
  <2> QED
    BY <1>7, <2>2, BeginMoves DEF handleVoidJournal, VoidJournal, Steps, Moved, Begin, database
<1>8. CASE VoidEntry(w)
  <2>1. \A e \in entries : Voided(e, job[w].seq) \in Entries
    BY DEF Voided, Entries
  <2> QED
    BY <1>8, <2>1, EndMoves DEF VoidEntry, Moved
<1>9. CASE Close(w) \/ Reopen(w)
  BY <1>9 DEF Close, Reopen, SetPeriod, Moved, Others
<1> QED
  BY <1>1, <1>2, <1>3, <1>4, <1>5, <1>6, <1>7, <1>8, <1>9 DEF JournalStep

LEMMA CounterTypes ==
  ASSUME TypeOK, NEW w \in Clerks, CounterStep(w)
  PROVE  TypeOK' /\ Moved(w)
<1> USE DEF TypeOK
<1>1. ASSUME NEW n \in 1..MaxNumber, handleSetNumberCounter(w, n) PROVE TypeOK' /\ Moved(w)
  BY <1>1, OrderAssumption DEF handleSetNumberCounter, SetSaleNumberCounter, Moved, Others
<1>2. ASSUME NEW n \in 1..MaxVoucher, handleSetVoucherCounter(w, n) PROVE TypeOK' /\ Moved(w)
  BY <1>2, OrderAssumption DEF handleSetVoucherCounter, SetVoucherCounter, Moved, Others
<1> QED
  BY <1>1, <1>2 DEF CounterStep

LEMMA InvoiceTypes ==
  ASSUME TypeOK, LocalsOK, NEW w \in Clerks, InvoiceStep(w)
  PROVE  TypeOK' /\ Moved(w)
<1> USE DEF TypeOK
<1>1. ASSUME NEW s \in SaleIds, handleCreateInvoiceFromSale(w, s) PROVE TypeOK' /\ Moved(w)
  <2>1. "draft" \in Steps /\ "existing" \in Steps
    BY DEF Steps
  <2>2. [Idle EXCEPT !.sale = s, !.order = sales[s].order, !.document = sales[s].invoice] \in Jobs
    BY Starts
  <2> DEFINE p == IF sales[s].invoice = NoDocument THEN "draft" ELSE "existing"
  <2>3. /\ p \in Steps
        /\ Begin(w, p, [Idle EXCEPT !.sale = s, !.order = sales[s].order,
                                   !.document = sales[s].invoice])
    BY <1>1, <2>1 DEF handleCreateInvoiceFromSale, FromSale
  <2> HIDE DEF p
  <2>4. Moved(w)
    BY <2>2, <2>3, BeginMoves
  <2> QED
    BY <2>3, <2>4 DEF Moved, Begin, database
<1>2. CASE CheckExisting(w)
  BY <1>2, EndMoves, GotoMoves DEF CheckExisting, Steps, Moved, database
<1>3. CASE SetInvoiceDocumentID(w)
  <2>1. job[w].document \in DocumentIds
    BY <1>3 DEF SetInvoiceDocumentID, LocalsOK
  <2>2. sales' \in [SaleIds -> Sales]
    BY <1>3, <2>1 DEF SetInvoiceDocumentID, Sales
  <2> QED
    BY <1>3, <2>2, EndMoves DEF SetInvoiceDocumentID, Moved
<1>4. ASSUME NEW d \in DocumentIds, CreateInvoiceDraft(w, d) PROVE TypeOK' /\ Moved(w)
  <2>1. [job[w] EXCEPT !.document = d] \in Jobs
    BY DEF Jobs
  <2>2. Moved(w)
    <3>1. CASE Lost(w)
      BY <3>1, EndMoves DEF Lost
    <3>2. CASE ~Lost(w)
      BY <1>4, <3>2, <2>1, GivenMoves DEF CreateInvoiceDraft, Steps
    <3> QED
      BY <3>1, <3>2
  <2>3. job[w].sale \in SaleIds \cup {NoSale} /\ job[w].order \in OrderRange
    BY DEF Jobs
  <2>4. documents' \in [DocumentIds -> Documents]
    BY <1>4, <2>3 DEF CreateInvoiceDraft, Documents, DocumentStatuses
  <2> QED
    BY <1>4, <2>2, <2>4 DEF CreateInvoiceDraft, Moved
<1> QED
  BY <1>1, <1>2, <1>3, <1>4 DEF InvoiceStep

LEMMA FailureTypes ==
  ASSUME TypeOK, NEW w \in Clerks, Failure(w)
  PROVE  TypeOK' /\ Moved(w)
BY EndMoves, NextHandlerMoves DEF TypeOK, Failure, StatementFails, Crash, Moved, database

LEMMA StepTypes ==
  ASSUME TypeOK, LocalsOK, NEW w \in Clerks, Step(w)
  PROVE  TypeOK' /\ Moved(w)
BY SaleTypes, PaymentTypes, JournalTypes, CounterTypes, InvoiceTypes, FailureTypes DEF Step

DocumentStepOf(d) == DocumentConfirmed(d) \/ DocumentFailed(d) \/ DeleteDraft(d)

LEMMA DocumentTypes ==
  ASSUME TypeOK, NEW d \in DocumentIds, DocumentStepOf(d)
  PROVE  TypeOK'
<1> USE DEF TypeOK
<1>1. documents' \in [DocumentIds -> Documents]
  BY DEF DocumentStepOf, DocumentConfirmed, DocumentFailed, DeleteDraft, DocumentStep, Documents,
         DocumentStatuses
<1> QED
  BY <1>1 DEF DocumentStepOf, DocumentConfirmed, DocumentFailed, DeleteDraft, DocumentStep

-----------------------------------------------------------------------------
(* Which steps write which table.                                          *)

WritesSales(w) ==
  \/ \E s \in SaleIds : Save(w, s) \/ \E o \in Orders : handleUpdate(w, s, o)
  \/ DeleteRow(w) \/ CancelStatus(w) \/ ConfirmStatus(w) \/ SetInvoiceDocumentID(w)

LEMMA Writers ==
  ASSUME NEW w \in Clerks, Step(w)
  PROVE  /\ sales' = sales \/ WritesSales(w)
         /\ payments' = payments \/ \E p \in PaymentIds : SavePayment(w, p)
         /\ exits' = exits \/ TakeOut(w)
         /\ documents' = documents \/ \E d \in DocumentIds : CreateInvoiceDraft(w, d)
         /\ entries' = entries \/ CreateEntry(w) \/ VoidEntry(w)
         /\ \/ lastNumber' = lastNumber
            \/ \E o \in Orders : handleCreate(w, o)
            \/ \E n \in 1..MaxNumber : handleSetNumberCounter(w, n)
         /\ \/ lastVoucher' = lastVoucher
            \/ NextVoucherSeq(w)
            \/ \E n \in 1..MaxVoucher : handleSetVoucherCounter(w, n)
<1> USE DEF WritesSales
<1>1. CASE SaleStep(w)
  BY <1>1 DEF SaleStep, handleCreate, NextSaleNumber, DeleteRow, CancelStatus, ChecksPass,
     ChecksRefuse,
     ConfirmStatus, Save, handleDeleteSale, Delete, handleCancel, Cancel, handleConfirm,
     Confirm, handleUpdate, Update, Begin, database
<1>2. CASE PaymentStep(w)
  BY <1>2 DEF PaymentStep, handleRecordPayment, Record, SavePayment, PaymentRefused, Begin,
     database
<1>3. CASE JournalStep(w)
  BY <1>3 DEF JournalStep, handlePostJournal, PostJournal, GetPeriod, CreatePeriod,
     NextVoucherSeq, CreateEntry,
     TakeOut, handleVoidJournal, VoidJournal, VoidEntry, Close, Reopen, SetPeriod, Begin, database
<1>4. CASE CounterStep(w)
  BY <1>4 DEF CounterStep, handleSetNumberCounter, SetSaleNumberCounter,
     handleSetVoucherCounter, SetVoucherCounter
<1>5. CASE InvoiceStep(w)
  BY <1>5 DEF InvoiceStep, handleCreateInvoiceFromSale, FromSale, CheckExisting,
     SetInvoiceDocumentID, CreateInvoiceDraft,
     Begin, database
<1>6. CASE Failure(w)
  BY <1>6 DEF Failure, StatementFails, Crash, database
<1> QED
  BY <1>1, <1>2, <1>3, <1>4, <1>5, <1>6 DEF Step

\* How a step changes the row of one sale.
SaleChange(w, s) ==
  \/ sales'[s] = sales[s]
  \/ /\ Save(w, s)
     /\ sales[s].status = "none" /\ ~Numbered(job[w].seq)
     /\ sales'[s] = [status |-> "draft", number |-> job[w].seq, order |-> job[w].order,
                     invoice |-> NoDocument]
  \/ \E o \in Orders : /\ handleUpdate(w, s, o)
                        /\ sales[s].status = "draft"
                        /\ sales'[s] = [sales[s] EXCEPT !.order = o]
  \/ /\ s = job[w].sale /\ sales[s].status # "none"
     /\ \/ /\ DeleteRow(w) /\ PaymentsOf(s) = {}
           /\ sales'[s] = [sales[s] EXCEPT !.status = "deleted"]
        \/ /\ sales[s].status # "deleted"
           /\ \/ CancelStatus(w) /\ sales'[s] = [sales[s] EXCEPT !.status = "cancelled"]
              \/ ConfirmStatus(w) /\ sales'[s] = [sales[s] EXCEPT !.status = "confirmed"]
              \/ SetInvoiceDocumentID(w) /\ sales'[s] = [sales[s] EXCEPT !.invoice = job[w].document]

LEMMA SaleChanges ==
  ASSUME TypeOK, LocalsOK, NEW w \in Clerks, NEW s \in SaleIds, Step(w)
  PROVE  SaleChange(w, s)
<1> USE DEF TypeOK, SaleChange
<1>1. ASSUME NEW r \in SaleIds, Save(w, r) PROVE SaleChange(w, s)
  BY <1>1 DEF Save
<1>2. ASSUME NEW r \in SaleIds, NEW o \in Orders, handleUpdate(w, r, o) PROVE SaleChange(w, s)
  BY <1>2 DEF handleUpdate, Update
<1>3. CASE DeleteRow(w)
  BY <1>3 DEF DeleteRow
<1>4. CASE CancelStatus(w)
  BY <1>4 DEF CancelStatus, UpdateStatus
<1>5. CASE ConfirmStatus(w)
  BY <1>5 DEF ConfirmStatus, UpdateStatus
<1>6. CASE SetInvoiceDocumentID(w)
  BY <1>6 DEF SetInvoiceDocumentID
<1> QED
  BY <1>1, <1>2, <1>3, <1>4, <1>5, <1>6, Writers DEF WritesSales

(* Where the request that takes a step goes.                               *)

\* From the handler of accounting to the next one.
ToExit(w) ==
  /\ pc[w] \in Posting /\ job[w].kind = "sale"
  /\ pc'[w] = "exit" /\ job'[w] = job[w]

\* The control flow of one request; the disjuncts name the statement it goes to.
Flow(w) ==
  \/ pc'[w] = pc[w] /\ job'[w] = job[w] /\ pc[w] = "idle"
  \/ pc'[w] = "idle" /\ job'[w] = Idle
  \/ pc'[w] = "save" /\ pc[w] = "idle" /\ job'[w].kind = "manual"
     /\ \E o \in Orders : handleCreate(w, o) /\ job'[w].seq = lastNumber + 1 /\ job'[w].order = o
  \/ pc'[w] \in {"delete", "cancel"} /\ pc[w] = "idle" /\ job'[w].kind = "manual"
     /\ job'[w].sale \in SaleIds /\ sales[job'[w].sale].status # "none"
  \/ pc'[w] = "check" /\ pc[w] = "idle" /\ job'[w].kind = "manual" /\ "confirm" \in Duties[w]
     /\ job'[w].sale \in SaleIds /\ sales[job'[w].sale].status = "draft"
     /\ job'[w].order = sales[job'[w].sale].order
  \/ pc'[w] = "status" /\ pc[w] = "check" /\ job'[w] = job[w]
  \/ pc'[w] = "period" /\ pc[w] = "status" /\ ConfirmStatus(w)
     /\ job'[w] = [job[w] EXCEPT !.kind = "sale", !.amount = toCents(job[w].order.total)]
  \/ pc'[w] = "pay" /\ pc[w] = "idle" /\ job'[w].kind = "manual"
     /\ job'[w].sale \in SaleIds /\ sales[job'[w].sale].status = "confirmed"
  \/ pc'[w] = "period" /\ pc[w] = "pay"
     /\ \E p \in PaymentIds : SavePayment(w, p)
          /\ job'[w] = [job[w] EXCEPT !.kind = "payment", !.payment = p]
  \/ pc'[w] = "period" /\ pc[w] = "idle" /\ job'[w].kind = "manual" /\ job'[w].sale = NoSale
  \/ pc'[w] \in {"open", "voucher"} /\ pc[w] \in {"period", "open"} /\ job'[w] = job[w]
  \/ pc'[w] = "entry" /\ pc[w] = "voucher" /\ NextVoucherSeq(w)
     /\ job'[w] = [job[w] EXCEPT !.seq = lastVoucher + 1]
  \/ ToExit(w)
  \/ pc'[w] = "void" /\ pc[w] = "idle" /\ job'[w].kind = "manual"
  \/ pc'[w] \in {"existing", "draft"} /\ pc[w] = "idle" /\ "bill" \in Duties[w]
     /\ job'[w].kind = "manual" /\ job'[w].sale \in SaleIds
     /\ sales[job'[w].sale].status = "confirmed"
     /\ job'[w].document = sales[job'[w].sale].invoice
     /\ job'[w].order = sales[job'[w].sale].order
     /\ (pc'[w] = "draft" <=> job'[w].document = NoDocument)
  \/ pc'[w] = "draft" /\ pc[w] = "existing" /\ job'[w] = job[w]
     /\ documents[job[w].document].status = "failed"
  \/ pc'[w] = "link" /\ pc[w] = "draft"
     /\ \E d \in DocumentIds : CreateInvoiceDraft(w, d)
          /\ job'[w] = [job[w] EXCEPT !.document = d]

LEMMA EndFlow ==
  ASSUME TypeOK, NEW w \in Clerks, End(w)
  PROVE  Flow(w)
BY EndMoves DEF Flow

LEMMA NextHandlerFlow ==
  ASSUME TypeOK, NEW w \in Clerks, pc[w] \in Posting, NextHandler(w)
  PROVE  Flow(w)
BY NextHandlerMoves DEF Flow, ToExit

LEMMA SaleFlow ==
  ASSUME TypeOK, NEW w \in Clerks, SaleStep(w)
  PROVE  Flow(w)
<1>1. ASSUME NEW o \in Orders, handleCreate(w, o) PROVE Flow(w)
  <2>1. o \in OrderRange /\ lastNumber + 1 \in Nat
    BY OrderAssumption DEF OrderRange, TypeOK
  <2>2. [Idle EXCEPT !.order = o, !.seq = lastNumber + 1] \in Jobs
    BY <2>1, IdleType DEF Jobs, Idle
  <2>3. CASE ~Lost(w)
    <3>1. pc'[w] = "save" /\ job'[w] = [Idle EXCEPT !.order = o, !.seq = lastNumber + 1]
      BY <1>1, <2>2, <2>3, GivenMoves DEF handleCreate, NextSaleNumber, Steps
    <3> QED
      BY <1>1, <3>1 DEF Flow, Idle, handleCreate, NextSaleNumber, Takes
  <2> QED
    BY <2>3, EndFlow DEF Lost
<1>2. CASE DeleteRow(w) \/ CancelStatus(w) \/ ChecksRefuse(w)
  BY <1>2, EndFlow DEF DeleteRow, CancelStatus, ChecksRefuse
<1>3. CASE ChecksPass(w)
  <2>1. pc'[w] = "status" /\ job'[w] = job[w]
    BY <1>3, GotoMoves DEF ChecksPass, Steps
  <2> QED
    BY <1>3, <2>1 DEF Flow, ChecksPass
<1>4. CASE ConfirmStatus(w)
  <2>1. CASE ~Lost(w)
    <3>1. pc'[w] = "period"
          /\ job'[w] = [job[w] EXCEPT !.kind = "sale", !.amount = toCents(job[w].order.total)]
      BY <1>4, <2>1 DEF ConfirmStatus, Goto, TypeOK
    <3> QED
      BY <1>4, <3>1 DEF Flow, ConfirmStatus
  <2> QED
    BY <2>1, EndFlow DEF Lost
<1>5. ASSUME NEW s \in SaleIds, Save(w, s) PROVE Flow(w)
  BY <1>5, EndFlow DEF Save
<1>6. ASSUME NEW s \in SaleIds, handleDeleteSale(w, s) \/ handleCancel(w, s) PROVE Flow(w)
  <2>1. pc'[w] \in {"delete", "cancel"} /\ job'[w] = [Idle EXCEPT !.sale = s]
    BY <1>6, Starts, BeginMoves DEF handleDeleteSale, Delete, handleCancel, Cancel, Steps
  <2> QED
    BY <1>6, <2>1 DEF Flow, handleDeleteSale, Delete, handleCancel, Cancel, Takes, Idle
<1>7. ASSUME NEW s \in SaleIds, handleConfirm(w, s) PROVE Flow(w)
  <2>1. pc'[w] = "check" /\ job'[w] = [Idle EXCEPT !.sale = s, !.order = sales[s].order]
    BY <1>7, Starts, BeginMoves DEF handleConfirm, Confirm, Steps
  <2> QED
    BY <1>7, <2>1 DEF Flow, handleConfirm, Confirm, Takes, Idle
<1>8. ASSUME NEW s \in SaleIds, NEW o \in Orders, handleUpdate(w, s, o) PROVE Flow(w)
  BY <1>8 DEF handleUpdate, Update, Flow, Takes
<1> QED
  BY <1>1, <1>2, <1>3, <1>4, <1>5, <1>6, <1>7, <1>8 DEF SaleStep

LEMMA PaymentFlow ==
  ASSUME TypeOK, NEW w \in Clerks, PaymentStep(w)
  PROVE  Flow(w)
<1>1. ASSUME NEW s \in SaleIds, NEW a \in Amounts, handleRecordPayment(w, s, a) PROVE Flow(w)
  <2>1. pc'[w] = "pay" /\ job'[w] = [Idle EXCEPT !.sale = s, !.amount = a]
    BY <1>1, Starts, BeginMoves DEF handleRecordPayment, Record, Steps
  <2> QED
    BY <1>1, <2>1 DEF Flow, handleRecordPayment, Record, Takes, Idle
<1>2. ASSUME NEW p \in PaymentIds, SavePayment(w, p) PROVE Flow(w)
  <2>1. CASE ~Lost(w)
    <3>1. pc'[w] = "period" /\ job'[w] = [job[w] EXCEPT !.kind = "payment", !.payment = p]
      BY <1>2, <2>1 DEF SavePayment, Goto, TypeOK
    <3>2. pc[w] = "pay"
      BY <1>2 DEF SavePayment
    <3> QED
      BY <1>2, <3>1, <3>2 DEF Flow
  <2> QED
    BY <2>1, EndFlow DEF Lost
<1>3. CASE PaymentRefused(w)
  BY <1>3, EndFlow DEF PaymentRefused
<1> QED
  BY <1>1, <1>2, <1>3 DEF PaymentStep

LEMMA JournalFlow ==
  ASSUME TypeOK, NEW w \in Clerks, JournalStep(w)
  PROVE  Flow(w)
<1>1. ASSUME NEW a \in Amounts, handlePostJournal(w, a) PROVE Flow(w)
  <2>1. [Idle EXCEPT !.amount = a] \in Jobs
    BY OrderAssumption, IdleType DEF Jobs, Idle
  <2>2. pc'[w] = "period" /\ job'[w] = [Idle EXCEPT !.amount = a]
    BY <1>1, <2>1, BeginMoves DEF handlePostJournal, PostJournal, Steps, Posting
  <2> QED
    BY <1>1, <2>2 DEF Flow, handlePostJournal, PostJournal, Takes, Idle
<1>2. CASE GetPeriod(w)
  <2>1. CASE NextHandler(w)
    BY <1>2, <2>1, NextHandlerFlow DEF GetPeriod, Posting
  <2>2. CASE ~NextHandler(w)
    <3>1. pc'[w] \in {"open", "voucher"} /\ job'[w] = job[w]
      BY <1>2, <2>2, GotoMoves DEF GetPeriod, Steps, Posting
    <3> QED
      BY <1>2, <3>1 DEF Flow, GetPeriod
  <2> QED
    BY <2>1, <2>2
<1>3. CASE CreatePeriod(w)
  <2>1. CASE NextHandler(w)
    BY <1>3, <2>1, NextHandlerFlow DEF CreatePeriod, Posting
  <2>2. CASE ~NextHandler(w)
    <3>1. pc'[w] = "voucher" /\ job'[w] = job[w]
      BY <1>3, <2>2, GotoMoves DEF CreatePeriod, Steps, Posting
    <3> QED
      BY <1>3, <3>1 DEF Flow, CreatePeriod
  <2> QED
    BY <2>1, <2>2
<1>4. CASE NextVoucherSeq(w)
  <2>1. CASE NextHandler(w)
    BY <1>4, <2>1, NextHandlerFlow DEF NextVoucherSeq, Posting
  <2>2. CASE ~NextHandler(w)
    <3>1. pc'[w] = "entry" /\ job'[w] = [job[w] EXCEPT !.seq = lastVoucher + 1]
      BY <1>4, <2>2 DEF NextVoucherSeq, Goto, TypeOK
    <3> QED
      BY <1>4, <3>1 DEF Flow, NextVoucherSeq
  <2> QED
    BY <2>1, <2>2
<1>5. CASE CreateEntry(w)
  BY <1>5, NextHandlerFlow DEF CreateEntry, Posting
<1>6. CASE TakeOut(w) \/ VoidEntry(w)
  BY <1>6, EndFlow DEF TakeOut, VoidEntry
<1>7. ASSUME NEW e \in entries, handleVoidJournal(w, e) PROVE Flow(w)
  <2>1. e.voucher \in Nat
    BY DEF Entries, TypeOK
  <2>2. [Idle EXCEPT !.seq = e.voucher] \in Jobs
    BY <2>1, IdleType DEF Jobs, Idle
  <2>3. pc'[w] = "void" /\ job'[w] = [Idle EXCEPT !.seq = e.voucher]
    BY <1>7, <2>2, BeginMoves DEF handleVoidJournal, VoidJournal, Steps
  <2> QED
    BY <1>7, <2>3 DEF Flow, handleVoidJournal, VoidJournal, Takes, Idle
<1>8. CASE Close(w) \/ Reopen(w)
  BY <1>8 DEF Close, Reopen, SetPeriod, Flow, Takes
<1> QED
  BY <1>1, <1>2, <1>3, <1>4, <1>5, <1>6, <1>7, <1>8 DEF JournalStep

LEMMA CounterFlow ==
  ASSUME NEW w \in Clerks, CounterStep(w)
  PROVE  Flow(w)
BY DEF CounterStep, handleSetNumberCounter, SetSaleNumberCounter, handleSetVoucherCounter,
   SetVoucherCounter, Flow, Takes

LEMMA InvoiceFlow ==
  ASSUME TypeOK, NEW w \in Clerks, InvoiceStep(w)
  PROVE  Flow(w)
<1>1. ASSUME NEW s \in SaleIds, handleCreateInvoiceFromSale(w, s) PROVE Flow(w)
  <2> DEFINE p == IF sales[s].invoice = NoDocument THEN "draft" ELSE "existing"
             j == [Idle EXCEPT !.sale = s, !.order = sales[s].order, !.document = sales[s].invoice]
  <2>1. p \in Steps /\ j \in Jobs /\ Begin(w, p, j)
    BY <1>1, Starts DEF handleCreateInvoiceFromSale, FromSale, Steps
  <2>2. p \in {"draft", "existing"} /\ (p = "draft" <=> sales[s].invoice = NoDocument)
    OBVIOUS
  <2>3. j.sale = s /\ j.document = sales[s].invoice /\ j.kind = "manual" /\ j.order = sales[s].order
    BY DEF Idle
  <2> HIDE DEF p, j
  <2>4. pc'[w] = p /\ job'[w] = j
    BY <2>1, BeginMoves
  <2> QED
    BY <1>1, <2>2, <2>3, <2>4 DEF Flow, handleCreateInvoiceFromSale, FromSale, Takes
<1>2. CASE CheckExisting(w)
  <2>1. CASE ~End(w)
    <3>1. pc'[w] = "draft" /\ job'[w] = job[w]
      BY <1>2, <2>1, GotoMoves DEF CheckExisting, Steps
    <3> QED
      BY <1>2, <2>1, <3>1 DEF Flow, CheckExisting
  <2> QED
    BY <2>1, EndFlow
<1>3. CASE SetInvoiceDocumentID(w)
  BY <1>3, EndFlow DEF SetInvoiceDocumentID
<1>4. ASSUME NEW d \in DocumentIds, CreateInvoiceDraft(w, d) PROVE Flow(w)
  <2>1. CASE ~Lost(w)
    <3>1. pc'[w] = "link" /\ job'[w] = [job[w] EXCEPT !.document = d]
      BY <1>4, <2>1 DEF CreateInvoiceDraft, Goto, TypeOK
    <3>2. pc[w] = "draft"
      BY <1>4 DEF CreateInvoiceDraft
    <3> QED
      BY <1>4, <3>1, <3>2 DEF Flow
  <2> QED
    BY <2>1, EndFlow DEF Lost
<1> QED
  BY <1>1, <1>2, <1>3, <1>4 DEF InvoiceStep

LEMMA FailureFlow ==
  ASSUME TypeOK, NEW w \in Clerks, Failure(w)
  PROVE  Flow(w)
BY EndFlow, NextHandlerFlow DEF Failure, StatementFails, Crash

LEMMA StepFlow ==
  ASSUME TypeOK, NEW w \in Clerks, Step(w)
  PROVE  Flow(w)
BY SaleFlow, PaymentFlow, JournalFlow, CounterFlow, InvoiceFlow, FailureFlow DEF Step

-----------------------------------------------------------------------------
(* The parts of the invariant, one after another.                          *)

LEMMA LocalsStep ==
  ASSUME TypeOK, LocalsOK, NEW w \in Clerks, Step(w)
  PROVE  LocalsOK'
<1>1. Flow(w) /\ Moved(w)
  BY StepFlow, StepTypes
<1>2. job[w] \in Jobs /\ Idle.kind = "manual"
  BY DEF TypeOK, Idle
<1>3. Acting(w)' \/ pc'[w] \in {"delete", "check", "status", "cancel"} => job'[w].sale \in SaleIds
  BY <1>1, <1>2 DEF Flow, ToExit, LocalsOK, Jobs, Acting, Posting
<1>4. pc'[w] \in {"existing", "link"} => job'[w].document \in DocumentIds
  <2>1. \A s \in SaleIds : sales[s].invoice \in DocumentIds \cup {NoDocument}
    BY DEF TypeOK, Sales
  <2> QED
    BY <1>1, <1>2, <2>1 DEF Flow, ToExit, LocalsOK, Jobs
<1>5. PostingPayment(w)' => job'[w].payment \in PaymentIds
  BY <1>1, <1>2 DEF Flow, ToExit, LocalsOK, Jobs, PostingPayment, Posting
<1>6. pc'[w] = "exit" => job'[w].kind = "sale"
  BY <1>1 DEF Flow, ToExit
<1>7. pc'[w] \notin Posting \cup {"exit"} => job'[w].kind = "manual"
  BY <1>1, <1>2 DEF Flow, ToExit, LocalsOK, Jobs, Posting
<1>8. Confirming(w)' => "confirm" \in Duties[w]
  BY <1>1, <1>2 DEF Flow, ToExit, LocalsOK, Jobs, Confirming, Posting
<1>9. pc'[w] \in {"existing", "draft", "link"} => "bill" \in Duties[w]
  BY <1>1 DEF Flow, ToExit, LocalsOK
<1>10. pc'[w] \in Posting /\ job'[w].kind = "manual" => job'[w].sale = NoSale
  BY <1>1, <1>2 DEF Flow, ToExit, LocalsOK, Jobs, Posting
<1> QED
  BY <1>1, <1>3, <1>4, <1>5, <1>6, <1>7, <1>8, <1>9, <1>10 DEF LocalsOK, Moved, Others, Acting,
     Confirming,
     PostingPayment

LEMMA VoucherStep ==
  ASSUME TypeOK, LocalsOK, VoucherInv, NEW w \in Clerks, Step(w)
  PROVE  VoucherInv'
<1>1. TypeOK' /\ Moved(w) /\ Flow(w)
  BY StepTypes, StepFlow
<1>2. pc'[w] = "entry" => NextVoucherSeq(w) /\ job'[w].seq = lastVoucher + 1
  BY <1>1 DEF Flow, ToExit, TypeOK, Jobs, Posting
<1>3. lastVoucher \in Nat /\ \A e \in entries : e.voucher \in Nat
  BY DEF TypeOK, Entries
<1>4. \A v \in Clerks \ {w} : pc'[v] = pc[v] /\ job'[v] = job[v]
  BY <1>1 DEF Moved, Others
<1>5. CASE NextVoucherSeq(w)
  <2>1. entries' = entries /\ lastVoucher' = lastVoucher + 1
    BY <1>5 DEF NextVoucherSeq
  <2>2. \A v \in Clerks : pc[v] = "entry" => job[v].seq <= lastVoucher /\ job[v].seq \in Nat
    BY DEF VoucherInv, TypeOK, Jobs
  <2>3. VouchersGivenOnce' /\ \A e \in entries' : e.voucher <= lastVoucher'
    BY <1>3, <2>1 DEF VoucherInv, VouchersGivenOnce
  <2>4. ASSUME NEW u \in Clerks, pc'[u] = "entry"
        PROVE  job'[u].seq <= lastVoucher' /\ \A e \in entries' : e.voucher # job'[u].seq
    BY <1>2, <1>3, <1>4, <2>1, <2>2, <2>4 DEF VoucherInv
  <2>5. ASSUME NEW u \in Clerks, NEW v \in Clerks, pc'[u] = "entry", pc'[v] = "entry",
               job'[v].seq = job'[u].seq
        PROVE  v = u
    BY <1>2, <1>3, <1>4, <2>2, <2>5 DEF VoucherInv
  <2> QED
    BY <2>3, <2>4, <2>5 DEF VoucherInv
<1>6. CASE CreateEntry(w)
  <2>1. entries' = entries \cup {Entry(w)} /\ lastVoucher' = lastVoucher /\ pc[w] = "entry"
    BY <1>6 DEF CreateEntry
  <2>2. Entry(w).voucher = job[w].seq
    BY DEF Entry
  <2>3. pc'[w] # "entry"
    BY <1>2, <2>1 DEF NextVoucherSeq
  <2>4. VouchersGivenOnce' /\ \A e \in entries' : e.voucher <= lastVoucher'
    BY <2>1, <2>2 DEF VoucherInv, VouchersGivenOnce
  <2> QED
    BY <1>4, <2>1, <2>2, <2>3, <2>4 DEF VoucherInv
<1>7. CASE VoidEntry(w)
  <2>1. \A e \in entries : Voided(e, job[w].seq).voucher = e.voucher
    BY DEF Voided, TypeOK, Entries
  <2>2. entries' = {Voided(e, job[w].seq) : e \in entries} /\ lastVoucher' = lastVoucher /\ pc'[w] # "entry"
    BY <1>2, <1>7 DEF VoidEntry, NextVoucherSeq
  <2> QED
    BY <1>4, <2>1, <2>2 DEF VoucherInv, VouchersGivenOnce
<1>8. ASSUME NEW n \in 1..MaxVoucher, handleSetVoucherCounter(w, n) PROVE VoucherInv'
  <2>1. n - 1 \in Nat /\ n - 1 > lastVoucher
    BY <1>8, OrderAssumption DEF handleSetVoucherCounter, SetVoucherCounter
  <2>2. \A v \in Clerks : job[v].seq \in Nat
    BY DEF TypeOK, Jobs
  <2> QED
    BY <1>3, <1>8, <2>1, <2>2 DEF handleSetVoucherCounter, SetVoucherCounter, VoucherInv,
       VouchersGivenOnce
<1>9. CASE entries' = entries /\ lastVoucher' = lastVoucher /\ ~NextVoucherSeq(w)
  BY <1>2, <1>4, <1>9 DEF VoucherInv, VouchersGivenOnce
<1> QED
  BY <1>5, <1>6, <1>7, <1>8, <1>9, Writers DEF CreateEntry, VoidEntry

LEMMA NumberStep ==
  ASSUME TypeOK, LocalsOK, NumberInv, NEW w \in Clerks, Step(w)
  PROVE  NumberInv'
<1>1. TypeOK' /\ Moved(w) /\ Flow(w)
  BY StepTypes, StepFlow
<1>2. \A v \in Clerks \ {w} : pc'[v] = pc[v] /\ job'[v] = job[v]
  BY <1>1 DEF Moved, Others
<1>3. pc'[w] = "save" => lastNumber' = lastNumber + 1 /\ sales' = sales /\ job'[w].seq = lastNumber + 1
  BY <1>1 DEF Flow, ToExit, handleCreate, NextSaleNumber
<1>4. lastNumber \in Nat /\ lastNumber' \in Nat /\ \A s \in SaleIds : sales[s].number \in Nat
  BY <1>1 DEF TypeOK, Sales
<1>5. lastNumber' >= lastNumber
  <2>1. ASSUME NEW n \in 1..MaxNumber, handleSetNumberCounter(w, n)
        PROVE lastNumber' >= lastNumber
    BY <1>4, <2>1, OrderAssumption DEF handleSetNumberCounter, SetSaleNumberCounter
  <2>2. ASSUME NEW o \in Orders, handleCreate(w, o) PROVE lastNumber' >= lastNumber
    BY <1>4, <2>2 DEF handleCreate, NextSaleNumber
  <2>3. lastNumber' = lastNumber => lastNumber' >= lastNumber
    BY <1>4
  <2> QED
    BY <2>1, <2>2, <2>3, Writers
<1>6. \A s \in SaleIds : \/ /\ sales'[s].number = sales[s].number
                            /\ sales[s].status = "deleted" => sales'[s].status = "deleted"
                         \/ /\ pc[w] = "save" /\ pc'[w] = "idle"
                            /\ sales'[s].number = job[w].seq
  <2>1. ASSUME NEW s \in SaleIds
        PROVE  \/ /\ sales'[s].number = sales[s].number
                  /\ sales[s].status = "deleted" => sales'[s].status = "deleted"
               \/ /\ pc[w] = "save" /\ pc'[w] = "idle" /\ sales'[s].number = job[w].seq
    <3>1. SaleChange(w, s) /\ sales[s] \in Sales
      BY SaleChanges DEF TypeOK
    <3>2. CASE Save(w, s)
      BY <3>1, <3>2, EndMoves DEF SaleChange, Save, Sales, handleUpdate, Update, DeleteRow,
         CancelStatus, ConfirmStatus,
         SetInvoiceDocumentID
    <3>3. CASE ~Save(w, s)
      BY <3>1, <3>3 DEF SaleChange, Sales
    <3> QED
      BY <3>2, <3>3
  <2> QED
    BY <2>1
<1>7. ASSUME NEW s \in SaleIds PROVE sales'[s].number <= lastNumber'
  BY <1>4, <1>5, <1>6 DEF NumberInv
<1>8. ASSUME NEW u \in Clerks, pc'[u] = "save"
      PROVE  /\ ~Numbered(job[u].seq)' 
             /\ job'[u].seq \in 1..lastNumber'
             /\ \A v \in Clerks : pc'[v] = "save" /\ job'[v].seq = job'[u].seq => v = u
  <2>1. CASE u = w
    <3>1. job'[u].seq = lastNumber + 1 /\ sales' = sales /\ lastNumber' = lastNumber + 1
      BY <1>3, <1>8, <2>1
    <3>2. ~Numbered(job[u].seq)'
      BY <1>4, <3>1 DEF NumberInv, Numbered
    <3>3. \A v \in Clerks \ {w} : pc'[v] = "save" => job'[v].seq \in 1..lastNumber
      BY <1>2 DEF NumberInv
    <3> QED
      BY <1>4, <2>1, <3>1, <3>2, <3>3
  <2>2. CASE u # w
    <3>1. pc[u] = "save" /\ job'[u] = job[u]
      BY <1>2, <1>8, <2>2
    <3>2. ~Numbered(job[u].seq)'
      BY <1>6, <2>2, <3>1 DEF NumberInv, NumbersAreFree, Numbered
    <3>3. job[u].seq \in 1..lastNumber
      BY <3>1 DEF NumberInv
    <3>4. ASSUME NEW v \in Clerks, pc'[v] = "save", job'[v].seq = job'[u].seq PROVE v = u
      BY <1>2, <1>3, <1>4, <2>2, <3>1, <3>3, <3>4 DEF NumberInv
    <3> QED
      BY <1>4, <1>5, <3>1, <3>2, <3>3, <3>4
  <2> QED
    BY <2>1, <2>2
<1> QED
  BY <1>7, <1>8 DEF NumberInv, NumbersAreFree

LEMMA PaymentInvStep ==
  ASSUME TypeOK, LocalsOK, PaymentInv, NEW w \in Clerks, Step(w)
  PROVE  PaymentInv'
<1>1. TypeOK' /\ Moved(w) /\ Flow(w)
  BY StepTypes, StepFlow
<1>2. \A v \in Clerks \ {w} : pc'[v] = pc[v] /\ job'[v] = job[v]
  BY <1>1 DEF Moved, Others
<1>3. job[w] \in Jobs
  BY DEF TypeOK
<1>4. ASSUME NEW p \in PaymentIds, SavePayment(w, p) PROVE PaymentInv'
  <2>1. /\ payments' = payments \cup {PaymentOf(w, p)} /\ entries' = entries
        /\ \A q \in payments : q.id # p
    BY <1>4 DEF SavePayment, Unpaid
  <2>2. PaymentOf(w, p).id = p /\ PaymentOf(w, p).sale = job[w].sale /\ PaymentOf(w, p).amount = job[w].amount
    BY DEF PaymentOf
  <2>3. \A e \in entries : e.kind = "payment" => e.payment # p
    BY <2>1 DEF PaymentInv, PaymentPostedOnce
  <2>4. \A v \in Clerks : PostingPayment(v) => job[v].payment # p
    BY <2>1 DEF PaymentInv
  <2>5. PaymentPostedOnce' /\ \A r, q \in payments' : r.id = q.id => r = q
    BY <2>1, <2>2 DEF PaymentInv, PaymentPostedOnce
  <2>6. PostingPayment(w)' =>
          job'[w].payment = p /\ job'[w].sale = job[w].sale /\ job'[w].amount = job[w].amount
    <3>1. CASE Lost(w)
      BY <3>1, EndMoves DEF Lost, PostingPayment, Posting
    <3>2. CASE ~Lost(w)
      <4>1. job'[w] = [job[w] EXCEPT !.kind = "payment", !.payment = p]
        BY <1>4, <3>2 DEF SavePayment, TypeOK
      <4> QED
        BY <1>3, <4>1 DEF Jobs
    <3> QED
      BY <3>1, <3>2
  <2>7. ASSUME NEW u \in Clerks, PostingPayment(u)'
        PROVE  /\ [id |-> job'[u].payment, sale |-> job'[u].sale, amount |-> job'[u].amount] \in payments'
               /\ \A e \in entries' : e.kind = "payment" => e.payment # job'[u].payment
               /\ \A v \in Clerks : PostingPayment(v)' /\ job'[v].payment = job'[u].payment => v = u
    <3>1. \A v \in Clerks \ {w} : PostingPayment(v)' => PostingPayment(v)
      BY <1>2 DEF PostingPayment
    <3>2. CASE u = w
      BY <1>2, <2>1, <2>3, <2>4, <2>6, <2>7, <3>1, <3>2 DEF PaymentOf
    <3>3. CASE u # w
      BY <1>2, <2>1, <2>4, <2>6, <2>7, <3>1, <3>3 DEF PaymentInv
    <3> QED
      BY <3>2, <3>3
  <2> QED
    BY <2>5, <2>7 DEF PaymentInv
<1>5. ASSUME payments' = payments, \A p \in PaymentIds : ~SavePayment(w, p), PostingPayment(w)'
      PROVE  /\ PostingPayment(w) /\ ~CreateEntry(w)
             /\ job'[w].payment = job[w].payment /\ job'[w].sale = job[w].sale
             /\ job'[w].amount = job[w].amount
  <2>1. pc[w] # "idle" /\ pc[w] # "status"
    BY <1>1, <1>3, <1>5 DEF Flow, ToExit, PostingPayment, Posting, Idle, Jobs
  <2>2. /\ PostingPayment(w)
        /\ job'[w].payment = job[w].payment /\ job'[w].sale = job[w].sale /\ job'[w].amount = job[w].amount
    BY <1>1, <1>3, <1>5, <2>1 DEF Flow, ToExit, PostingPayment, Posting, Idle, Jobs
  <2>3. ~CreateEntry(w)
    BY <1>5, <2>2, NextHandlerMoves DEF CreateEntry, PostingPayment, Posting
  <2> QED
    BY <2>2, <2>3
<1>6. ASSUME payments' = payments, \A p \in PaymentIds : ~SavePayment(w, p) PROVE PaymentInv'
  <2>1. \A v \in Clerks : PostingPayment(v)' =>
          /\ PostingPayment(v) /\ (v = w => ~CreateEntry(w))
          /\ job'[v].payment = job[v].payment /\ job'[v].sale = job[v].sale
          /\ job'[v].amount = job[v].amount
    BY <1>2, <1>5, <1>6 DEF PostingPayment
  <2>2. CASE entries' = entries
    BY <1>6, <2>1, <2>2 DEF PaymentInv, PaymentPostedOnce
  <2>3. CASE CreateEntry(w)
    <3>1. entries' = entries \cup {Entry(w)} /\ pc[w] \in Posting
      BY <2>3 DEF CreateEntry, Posting
    <3>2. /\ Entry(w).kind = job[w].kind /\ Entry(w).payment = job[w].payment
          /\ Entry(w).sale = job[w].sale /\ Entry(w).amount = job[w].amount
      BY DEF Entry
    <3>3. job[w].kind = "payment" => PostingPayment(w)
      BY <3>1 DEF PostingPayment
    <3>4. ASSUME NEW e \in entries', e.kind = "payment"
          PROVE  /\ [id |-> e.payment, sale |-> e.sale, amount |-> e.amount] \in payments'
                 /\ \A f \in entries' : f.kind = "payment" /\ f.payment = e.payment
                                          => f.voucher = e.voucher
      <4>1. CASE e = Entry(w)
        <5>1. /\ [id |-> e.payment, sale |-> e.sale, amount |-> e.amount] \in payments
              /\ \A f \in entries : f.kind = "payment" => f.payment # e.payment
          BY <3>2, <3>3, <3>4, <4>1 DEF PaymentInv
        <5> QED
          BY <1>6, <3>1, <4>1, <5>1
      <4>2. CASE e \in entries
        <5>1. /\ [id |-> e.payment, sale |-> e.sale, amount |-> e.amount] \in payments
              /\ \A f \in entries : f.kind = "payment" /\ f.payment = e.payment
                                       => f.voucher = e.voucher
          BY <3>4, <4>2 DEF PaymentInv, PaymentPostedOnce
        <5>2. Entry(w).kind = "payment" => Entry(w).payment # e.payment
          BY <3>2, <3>3, <3>4, <4>2 DEF PaymentInv
        <5> QED
          BY <1>6, <3>1, <5>1, <5>2
      <4> QED
        BY <3>1, <4>1, <4>2
    <3>5. ASSUME NEW u \in Clerks, PostingPayment(u)', NEW e \in entries', e.kind = "payment"
          PROVE  e.payment # job'[u].payment
      <4>1. u # w
        BY <2>1, <2>3, <3>5
      <4> QED
        BY <2>1, <3>1, <3>2, <3>3, <3>5, <4>1 DEF PaymentInv
    <3> QED
      BY <1>6, <2>1, <3>4, <3>5 DEF PaymentInv, PaymentPostedOnce
  <2>4. CASE VoidEntry(w)
    <3>1. \A e \in entries : LET f == Voided(e, job[w].seq) IN
            f.voucher = e.voucher /\ f.kind = e.kind /\ f.payment = e.payment /\ f.sale = e.sale
            /\ f.amount = e.amount
      BY DEF Voided, TypeOK, Entries
    <3>2. entries' = {Voided(e, job[w].seq) : e \in entries}
      BY <2>4 DEF VoidEntry
    <3>3. PaymentPostedOnce'
      BY <1>6, <3>1, <3>2 DEF PaymentInv, PaymentPostedOnce
    <3>4. ASSUME NEW u \in Clerks, PostingPayment(u)', NEW e \in entries', e.kind = "payment"
          PROVE  e.payment # job'[u].payment
      <4>1. PICK f \in entries : e = Voided(f, job[w].seq)
        BY <3>2
      <4>2. f.kind = "payment" /\ e.payment = f.payment
        BY <3>1, <3>4, <4>1
      <4>3. PostingPayment(u) /\ job'[u].payment = job[u].payment
        BY <2>1, <3>4
      <4> QED
        BY <4>2, <4>3 DEF PaymentInv
    <3> QED
      BY <1>6, <2>1, <3>3, <3>4 DEF PaymentInv
  <2> QED
    BY <2>2, <2>3, <2>4, Writers
<1> QED
  <2>1. payments' = payments \/ \E p \in PaymentIds : SavePayment(w, p)
    BY Writers
  <2> QED
    BY <1>4, <1>6, <2>1

LEMMA DraftStep ==
  ASSUME TypeOK, LocalsOK, DraftInv, NEW w \in Clerks, Step(w)
  PROVE  DraftInv'
<1>1. TypeOK' /\ Moved(w) /\ Flow(w) /\ job[w] \in Jobs
  BY StepTypes, StepFlow DEF TypeOK
<1>2. \A v \in Clerks \ {w} : pc'[v] = pc[v] /\ job'[v] = job[v]
  BY <1>1 DEF Moved, Others
<1>3. ASSUME NEW s \in SaleIds
      PROVE  /\ sales[s].status # "none" => sales'[s].status # "none"
             /\ sales[s].status \notin {"none", "draft"} => sales'[s].status \notin {"none", "draft"}
             /\ sales[s].status \in {"confirmed", "cancelled"} /\ PaymentsOf(s) # {}
                  => sales'[s].status \in {"confirmed", "cancelled"}
  <2>1. SaleChange(w, s) /\ sales[s] \in Sales
    BY SaleChanges DEF TypeOK
  <2> QED
    BY <2>1 DEF SaleChange, Sales
<1>4. ASSUME NEW s \in SaleIds, sales'[s].status \in {"none", "draft"}
      PROVE  Untouched(s)'
  <2>1. Untouched(s) /\ (Acting(w) => job[w].sale # s)
    BY <1>3, <1>4 DEF DraftInv, NoEffectOfADraft
  <2>2. exits'[s] = 0
    <3>1. CASE TakeOut(w)
      BY <2>1, <3>1 DEF TakeOut, Acting, Untouched, TypeOK
    <3> QED
      BY <2>1, <3>1, Writers DEF Untouched
  <2>3. \A e \in entries' : e.sale # s
    <3>1. CASE CreateEntry(w)
      <4>1. job[w].sale # s
        BY <2>1, <3>1, OrderAssumption DEF CreateEntry, LocalsOK, Acting, Posting
      <4> QED
        BY <2>1, <3>1, <4>1 DEF CreateEntry, Entry, Untouched
    <3>2. CASE VoidEntry(w)
      <4>1. \A e \in entries : Voided(e, job[w].seq).sale = e.sale
        BY DEF Voided, TypeOK, Entries
      <4> QED
        BY <2>1, <3>2, <4>1 DEF VoidEntry, Untouched
    <3> QED
      BY <2>1, <3>1, <3>2, Writers DEF Untouched
  <2>4. \A d \in DocumentIds : documents'[d].sale # s
    <3>1. ASSUME NEW c \in DocumentIds, CreateInvoiceDraft(w, c), NEW d \in DocumentIds
          PROVE  documents'[d].sale # s
      BY <2>1, <3>1 DEF CreateInvoiceDraft, Acting, Untouched, TypeOK
    <3> QED
      BY <2>1, <3>1, Writers DEF Untouched
  <2>5. PaymentsOf(s)' = {}
    <3>1. ASSUME NEW p \in PaymentIds, SavePayment(w, p) PROVE PaymentsOf(s)' = {}
      BY <2>1, <3>1 DEF SavePayment, PaymentOf, Acting, Untouched, PaymentsOf, SaleOf
    <3> QED
      BY <2>1, <3>1, Writers DEF Untouched, PaymentsOf
  <2> QED
    BY <2>2, <2>3, <2>4, <2>5 DEF Untouched
<1>5. ASSUME NEW p \in payments' PROVE sales'[p.sale].status \in {"confirmed", "cancelled"}
  <2>1. CASE p \in payments
    <3>1. p.sale \in SaleIds /\ PaymentsOf(p.sale) # {}
      BY <2>1 DEF TypeOK, Payments, PaymentsOf, SaleOf
    <3> QED
      BY <1>3, <2>1, <3>1 DEF DraftInv, NoEffectOfADraft
  <2>2. ASSUME NEW q \in PaymentIds, SavePayment(w, q), p \notin payments
        PROVE  sales'[p.sale].status \in {"confirmed", "cancelled"}
    <3>1. p.sale = job[w].sale /\ sales' = sales /\ Acting(w) /\ p.sale \in SaleIds
      BY <1>5, <2>2 DEF SavePayment, PaymentOf, Acting, LocalsOK
    <3>2. sales[p.sale].status \notin {"none", "draft", "deleted"} /\ sales[p.sale].status \in SaleStatuses
      BY <2>2, <3>1 DEF SavePayment, DraftInv, TypeOK, Sales
    <3> QED
      BY <3>1, <3>2 DEF SaleStatuses
  <2> QED
    BY <1>5, <2>1, <2>2, Writers
<1>6. Acting(w)' => sales'[job'[w].sale].status \notin {"none", "draft"}
  <2>1. CASE ConfirmStatus(w)
    <3>1. job[w].sale \in SaleIds /\ sales[job[w].sale].status # "none"
      BY <2>1 DEF ConfirmStatus, LocalsOK, DraftInv
    <3>2. sales'[job[w].sale].status \notin {"none", "draft"}
      BY <2>1, <3>1 DEF ConfirmStatus, UpdateStatus, TypeOK, Sales
    <3>3. Acting(w)' => job'[w].sale = job[w].sale
      BY <1>1, <2>1 DEF ConfirmStatus, Flow, ToExit, Acting, Posting, Jobs
    <3> QED
      BY <3>2, <3>3
  <2>2. CASE ~ConfirmStatus(w)
    <3>1. Acting(w)' =>
            \/ job'[w].sale \in SaleIds /\ sales[job'[w].sale].status = "confirmed"
            \/ job'[w].sale = job[w].sale /\ Acting(w)
      BY <1>1, <2>2 DEF Flow, ToExit, Acting, Posting, Jobs
    <3>2. Acting(w) => job[w].sale \in SaleIds /\ sales[job[w].sale].status \notin {"none", "draft"}
      BY DEF DraftInv, LocalsOK
    <3> QED
      BY <1>3, <3>1, <3>2
  <2> QED
    BY <2>1, <2>2
<1>7. ASSUME NEW v \in Clerks \ {w}, Acting(v)'
      PROVE  sales'[job'[v].sale].status \notin {"none", "draft"}
  <2>1. Acting(v) /\ job'[v] = job[v] /\ job[v].sale \in SaleIds
    BY <1>2, <1>7 DEF Acting, LocalsOK
  <2> QED
    BY <1>3, <2>1 DEF DraftInv
<1>8. ASSUME NEW v \in Clerks, pc'[v] \in {"delete", "check", "status", "cancel"}
      PROVE  sales'[job'[v].sale].status # "none"
  <2>1. job'[v].sale \in SaleIds /\ sales[job'[v].sale].status # "none"
    <3>1. CASE v = w
      BY <1>1, <1>8, <3>1 DEF Flow, ToExit, LocalsOK, DraftInv
    <3>2. CASE v # w
      BY <1>2, <1>8, <3>2 DEF LocalsOK, DraftInv
    <3> QED
      BY <3>1, <3>2
  <2> QED
    BY <1>3, <2>1
<1> QED
  BY <1>4, <1>5, <1>6, <1>7, <1>8 DEF DraftInv, NoEffectOfADraft

-----------------------------------------------------------------------------
(* One desk, one biller.                                                   *)

LEMMA DeskStep ==
  ASSUME TypeOK, LocalsOK, DraftInv, OneDesk, DeskInv, NEW w \in Clerks, Step(w)
  PROVE  DeskInv'
<1>1. TypeOK' /\ Moved(w) /\ Flow(w) /\ job[w] \in Jobs /\ LocalsOK'
  BY StepTypes, StepFlow, LocalsStep DEF TypeOK
<1>2. \A v \in Clerks \ {w} : pc'[v] = pc[v] /\ job'[v] = job[v]
  BY <1>1 DEF Moved, Others
\* A request that confirms is the only one, and no sale is edited meanwhile.
<1>3. \A u, v \in Clerks : Confirming(u) /\ Confirming(v) => u = v
  BY DEF OneDesk, LocalsOK
<1>4. ASSUME NEW s \in SaleIds, sales[s].status \notin {"none", "draft"}
      PROVE  sales'[s].order = sales[s].order
  <2>1. SaleChange(w, s) /\ sales[s] \in Sales
    BY SaleChanges DEF TypeOK
  <2> QED
    BY <1>4, <2>1 DEF SaleChange, Sales
<1>5. ASSUME NEW v \in Clerks, Confirming(v)
      PROVE  job[v].sale \in SaleIds /\ sales'[job[v].sale].order = sales[job[v].sale].order
  <2>1. job[v].sale \in SaleIds /\ sales[job[v].sale].status # "none"
    BY <1>5 DEF Confirming, Acting, LocalsOK, DraftInv
  <2>2. SaleChange(w, job[v].sale) /\ sales[job[v].sale] \in Sales
    BY <2>1, SaleChanges DEF TypeOK
  <2>3. ASSUME NEW o \in Orders, handleUpdate(w, job[v].sale, o) PROVE FALSE
    BY <1>5, <2>3 DEF handleUpdate, Update, Takes, OneDesk, LocalsOK, Confirming, Posting
  <2> QED
    BY <2>1, <2>2, <2>3 DEF SaleChange, Sales
<1>6. ASSUME NEW s \in SaleIds
      PROVE  exits'[s] = exits[s] \/ (TakeOut(w) /\ job[w].sale = s /\ exits[s] = 0 /\ exits'[s] = 1)
  <2>1. CASE TakeOut(w)
    <3>1. Confirming(w)
      BY <2>1 DEF TakeOut, Confirming
    <3> QED
      BY <2>1, <3>1 DEF TakeOut, DeskInv, TypeOK
  <2> QED
    BY <2>1, Writers
\* The entries of a sale after the step.
<1>7. ASSUME NEW e \in entries', e.kind = "sale"
      PROVE  \/ \E f \in entries : /\ f.kind = "sale" /\ f.sale = e.sale
                                   /\ f.amount = e.amount /\ f.voucher = e.voucher
             \/ CreateEntry(w) /\ e = Entry(w) /\ Confirming(w)
  <2>1. CASE VoidEntry(w)
    <3>1. PICK f \in entries : e = Voided(f, job[w].seq)
      BY <2>1 DEF VoidEntry
    <3>2. f.kind = e.kind /\ f.sale = e.sale /\ f.amount = e.amount /\ f.voucher = e.voucher
      BY <3>1 DEF Voided, TypeOK, Entries
    <3> QED
      BY <1>7, <3>2
  <2>2. CASE CreateEntry(w)
    BY <1>7, <2>2 DEF CreateEntry, Entry, Confirming, Posting
  <2> QED
    BY <1>7, <2>1, <2>2, Writers
<1>8. ASSUME CreateEntry(w), job[w].kind = "sale"
      PROVE  /\ Confirming(w) /\ job[w].sale \in SaleIds
             /\ Entry(w).amount = toCents(sales'[job[w].sale].order.total)
             /\ Entry(w).sale = job[w].sale
             /\ \A f \in entries : f.kind = "sale" => f.sale # job[w].sale
  <2>1. Confirming(w) /\ pc[w] \in Posting /\ pc[w] # "exit"
    BY <1>8 DEF CreateEntry, Confirming, Posting
  <2> QED
    BY <1>5, <2>1 DEF DeskInv, Entry
<1>9. ASSUME NEW s \in SaleIds
      PROVE  /\ exits'[s] <= 1
             /\ \A e \in entries' : e.kind = "sale" /\ e.sale = s =>
                  /\ e.amount = toCents(sales'[s].order.total)
                  /\ \A f \in entries' : f.kind = "sale" /\ f.sale = s => f.voucher = e.voucher
  <2>1. exits'[s] <= 1
    BY <1>6 DEF DeskInv, SoldOnce
  <2>2. ASSUME NEW f \in entries, f.kind = "sale", f.sale = s
        PROVE  f.amount = toCents(sales'[s].order.total)
    <3>1. sales[s].status \notin {"none", "draft"}
      BY <2>2 DEF DraftInv, NoEffectOfADraft, Untouched
    <3> QED
      BY <1>4, <2>2, <3>1 DEF DeskInv, SoldOnce
  <2>3. ASSUME NEW e \in entries', e.kind = "sale", e.sale = s
        PROVE  e.amount = toCents(sales'[s].order.total)
    BY <1>7, <1>8, <2>2, <2>3 DEF Entry
  <2>4. ASSUME NEW e \in entries', NEW f \in entries', e.kind = "sale", e.sale = s,
               f.kind = "sale", f.sale = s
        PROVE  f.voucher = e.voucher
    <3>1. CASE CreateEntry(w) /\ job[w].kind = "sale" /\ job[w].sale = s
      <4>1. \A g \in entries : g.kind = "sale" => g.sale # s
        BY <1>8, <3>1
      <4> QED
        BY <1>7, <2>4, <4>1
    <3>2. CASE ~(CreateEntry(w) /\ job[w].kind = "sale" /\ job[w].sale = s)
      <4>1. PICK g \in entries : g.kind = "sale" /\ g.sale = s /\ g.voucher = e.voucher
        BY <1>7, <2>4, <3>2 DEF Entry
      <4>2. PICK h \in entries : h.kind = "sale" /\ h.sale = s /\ h.voucher = f.voucher
        BY <1>7, <2>4, <3>2 DEF Entry
      <4> QED
        BY <4>1, <4>2 DEF DeskInv, SoldOnce
    <3> QED
      BY <3>1, <3>2
  <2> QED
    BY <2>1, <2>3, <2>4
<1>10. ASSUME NEW u \in Clerks, Confirming(u)'
       PROVE  /\ exits'[job'[u].sale] = 0
              /\ job'[u].order = sales'[job'[u].sale].order
              /\ pc'[u] \in Posting => job'[u].amount = toCents(job'[u].order.total)
              /\ pc'[u] # "exit" => \A e \in entries' : e.kind = "sale" => e.sale # job'[u].sale
  \* It begins with a draft, in whose name nothing was done, or it goes on.
  <2>1. \/ /\ u = w /\ pc[w] = "idle" /\ pc'[w] = "check" /\ job'[w].sale \in SaleIds
           /\ sales[job'[w].sale].status = "draft"
           /\ job'[w].order = sales[job'[w].sale].order
        \/ /\ Confirming(u) /\ job'[u].sale = job[u].sale /\ job'[u].order = job[u].order
           /\ pc'[u] \in Posting => job'[u].amount = toCents(job'[u].order.total)
           /\ pc'[u] # "exit" => pc[u] # "exit"
    <3>1. CASE u # w
      BY <1>2, <1>10, <3>1 DEF Confirming, DeskInv
    <3>2. CASE u = w
      <4>1. CASE pc[w] = "idle"
        BY <1>1, <1>10, <3>2, <4>1 DEF Flow, ToExit, Confirming, Posting, Idle
      <4>2. CASE pc[w] # "idle"
        <5>1. Confirming(w) /\ job'[w].sale = job[w].sale /\ job'[w].order = job[w].order
              /\ (pc'[w] # "exit" => pc[w] # "exit")
          BY <1>1, <1>10, <3>2, <4>2 DEF Flow, ToExit, Confirming, Posting, Idle, Jobs, LocalsOK
        <5>2. pc'[w] \in Posting => job'[w].amount = toCents(job'[w].order.total)
          BY <1>1, <1>10, <3>2, <4>2, <5>1 DEF Flow, ToExit, Confirming, Posting, Idle, Jobs,
             DeskInv
        <5> QED
          BY <3>2, <5>1, <5>2
      <4> QED
        BY <4>1, <4>2
    <3> QED
      BY <3>1, <3>2
  <2>2. CASE pc[w] = "idle" /\ u = w /\ pc'[w] = "check"
    <3>1. /\ job'[w].sale \in SaleIds /\ sales[job'[w].sale].status = "draft"
          /\ job'[w].order = sales[job'[w].sale].order
      BY <2>1, <2>2 DEF Confirming, Posting
    <3>2. Untouched(job'[w].sale)
      BY <3>1 DEF DraftInv, NoEffectOfADraft
    <3>3. ~TakeOut(w) /\ ~CreateEntry(w) /\ ~VoidEntry(w) /\ ~WritesSales(w)
      BY <2>2 DEF TakeOut, CreateEntry, VoidEntry, WritesSales, Save, DeleteRow, CancelStatus,
         ConfirmStatus, SetInvoiceDocumentID, handleUpdate, Update
    <3>4. sales' = sales /\ exits' = exits /\ entries' = entries
      BY <3>3, Writers
    <3> QED
      BY <2>2, <3>1, <3>2, <3>4 DEF Untouched, Posting
  <2>3. CASE /\ Confirming(u) /\ job'[u].sale = job[u].sale /\ job'[u].order = job[u].order
             /\ pc'[u] \in Posting => job'[u].amount = toCents(job'[u].order.total)
             /\ pc'[u] # "exit" => pc[u] # "exit"
    <3>1. /\ exits[job[u].sale] = 0
          /\ job'[u].order = sales'[job'[u].sale].order
          /\ job[u].sale \in SaleIds
          /\ pc'[u] # "exit" => \A e \in entries : e.kind = "sale" => e.sale # job[u].sale
      BY <1>5, <2>3 DEF DeskInv
    <3>2. TakeOut(w) => w # u
      BY <1>10, EndMoves DEF TakeOut, Confirming, Posting
    <3>3. exits'[job'[u].sale] = 0
      <4>1. TakeOut(w) => Confirming(w)
        BY DEF TakeOut, Confirming
      <4> QED
        BY <1>3, <1>6, <2>3, <3>1, <3>2, <4>1
    <3>4. CreateEntry(w) /\ Confirming(w) => u = w /\ pc'[w] = "exit"
      <4>1. CreateEntry(w) /\ Confirming(w) => job[w].kind = "sale"
        BY DEF CreateEntry, Confirming, Posting
      <4> QED
        BY <1>3, <2>3, <4>1, NextHandlerMoves DEF CreateEntry
    <3>5. pc'[u] # "exit" => \A e \in entries' : e.kind = "sale" => e.sale # job'[u].sale
      BY <1>7, <2>3, <3>1, <3>4
    <3> QED
      BY <2>3, <3>1, <3>3, <3>5
  <2> QED
    BY <2>1, <2>2, <2>3
<1> QED
  BY <1>9, <1>10 DEF DeskInv, SoldOnce

LEMMA BillerStep ==
  ASSUME TypeOK, LocalsOK, DraftInv, OneBiller, BillerInv, NEW w \in Clerks, Step(w)
  PROVE  BillerInv'
<1>1. TypeOK' /\ Moved(w) /\ Flow(w) /\ job[w] \in Jobs /\ LocalsOK'
  BY StepTypes, StepFlow, LocalsStep DEF TypeOK
<1>2. \A v \in Clerks \ {w} : pc'[v] = pc[v] /\ job'[v] = job[v]
  BY <1>1 DEF Moved, Others
<1> DEFINE AtInvoice(v) == pc[v] \in {"existing", "draft", "link"}
\* A request that makes an invoice is the only one, and nothing it does fails.
<1>3. \A v \in Clerks : AtInvoice(v) => /\ "bill" \in Duties[v] /\ Faults[v] = {}
                                        /\ \A u \in Clerks : "bill" \in Duties[u] => u = v
  BY DEF LocalsOK, OneBiller
\* Only a step that links changes the invoice of a sale that has documents.
<1>4. ASSUME NEW s \in SaleIds, NEW d \in DocumentIds, documents[d].sale = s
      PROVE  /\ \/ sales'[s].invoice = sales[s].invoice
                \/ SetInvoiceDocumentID(w) /\ s = job[w].sale /\ sales'[s].invoice = job[w].document
             /\ sales[s].status = "deleted" => sales'[s].status = "deleted"
  <2>1. SaleChange(w, s) /\ sales[s] \in Sales
    BY SaleChanges DEF TypeOK
  <2>2. sales[s].status # "none"
    BY <1>4 DEF DraftInv, NoEffectOfADraft, Untouched
  <2> QED
    BY <2>1, <2>2 DEF SaleChange, Sales
<1>5. ASSUME NEW v \in Clerks, AtInvoice(v) PROVE job[v].sale \in SaleIds
  BY <1>5 DEF LocalsOK, Acting
<1>6. CASE \E d \in DocumentIds : CreateInvoiceDraft(w, d)
  <2>1. PICK d \in DocumentIds : CreateInvoiceDraft(w, d)
    BY <1>6
  <2>2. /\ pc[w] = "draft" /\ documents[d].status = "none" /\ sales' = sales
        /\ documents' = [documents EXCEPT ![d] = [status |-> "draft", sale |-> job[w].sale,
                                                       order |-> job[w].order]]
    BY <2>1 DEF CreateInvoiceDraft, Undrafted
  <2>3. ~Lost(w)
    BY <1>3, <2>2 DEF Lost
  <2>4. pc'[w] = "link" /\ job'[w].sale = job[w].sale /\ job'[w].document = d
    <3>1. pc'[w] = "link" /\ job'[w] = [job[w] EXCEPT !.document = d]
      BY <2>1, <2>3 DEF CreateInvoiceDraft, Goto, TypeOK
    <3> QED
      BY <1>1, <3>1 DEF Jobs
  <2>5. \A v \in Clerks \ {w} : ~AtInvoice(v) /\ ~AtInvoice(v)'
    BY <1>2, <1>3, <2>2
  <2>6. ASSUME NEW c \in DocumentIds, NEW s \in SaleIds
        PROVE  InForce(c, s)' => (c = d /\ s = job[w].sale) \/ (c # d /\ InForce(c, s))
    BY <2>2 DEF InForce, TypeOK
  <2>7. job[w].sale \in SaleIds /\ \A c \in DocumentIds : ~InForce(c, job[w].sale)
    BY <1>5, <2>2 DEF BillerInv
  <2>8. OneInvoice'
    BY <2>6, <2>7 DEF BillerInv, OneInvoice
  <2>9. ASSUME NEW s \in SaleIds, NEW c \in DocumentIds, sales'[s].status # "deleted", InForce(c, s)'
        PROVE  sales'[s].invoice = c \/ \E v \in Clerks : pc'[v] = "link" /\ job'[v].sale = s
    <3>1. CASE s = job[w].sale
      BY <2>4, <3>1
    <3>2. CASE s # job[w].sale
      <4>1. InForce(c, s) /\ sales[s].status # "deleted"
        BY <2>2, <2>6, <2>9, <3>2
      <4>2. \A v \in Clerks : pc[v] # "link"
        BY <2>2, <2>5
      <4> QED
        BY <2>2, <4>1, <4>2 DEF BillerInv
    <3> QED
      BY <3>1, <3>2
  <2>10. ASSUME NEW v \in Clerks, NEW c \in DocumentIds
         PROVE  /\ pc'[v] = "draft" => ~InForce(c, job[v].sale)'
                /\ pc'[v] \in {"existing", "link"} /\ InForce(c, job[v].sale)' => c = job'[v].document
    BY <2>4, <2>5, <2>6, <2>7
  <2> QED
    BY <2>8, <2>9, <2>10 DEF BillerInv
<1>7. CASE documents' = documents
  <2>1. \A c \in DocumentIds, s \in SaleIds : InForce(c, s)' <=> InForce(c, s)
    BY <1>7 DEF InForce
  <2>2. OneInvoice'
    BY <2>1 DEF BillerInv, OneInvoice
  <2>3. ASSUME NEW s \in SaleIds, NEW c \in DocumentIds, sales'[s].status # "deleted", InForce(c, s)'
        PROVE  sales'[s].invoice = c \/ \E v \in Clerks : pc'[v] = "link" /\ job'[v].sale = s
    <3>1. InForce(c, s) /\ documents[c].sale = s /\ sales[s].status # "deleted"
      BY <1>4, <2>1, <2>3 DEF InForce
    <3>2. CASE SetInvoiceDocumentID(w) /\ s = job[w].sale
      <4>1. c = job[w].document
        BY <3>1, <3>2 DEF BillerInv, SetInvoiceDocumentID
      <4>2. sales[s].status # "none"
        BY <3>1 DEF DraftInv, NoEffectOfADraft, Untouched
      <4> QED
        BY <3>1, <3>2, <4>1, <4>2 DEF SetInvoiceDocumentID, TypeOK, Sales
    <3>3. CASE ~(SetInvoiceDocumentID(w) /\ s = job[w].sale)
      <4>1. sales'[s].invoice = sales[s].invoice
        BY <1>4, <3>1, <3>3
      <4>2. ASSUME NEW v \in Clerks, pc[v] = "link", job[v].sale = s
            PROVE  pc'[v] = "link" /\ job'[v].sale = s
        <5>1. CASE v = w
          <6>1. InvoiceStep(w) => SetInvoiceDocumentID(w)
            BY <4>2, <5>1 DEF InvoiceStep, handleCreateInvoiceFromSale, FromSale, CheckExisting,
               CreateInvoiceDraft, Takes
          <6>2. ~Failure(w)
            BY <1>3, <4>2, <5>1 DEF Failure, StatementFails, Crash
          <6>3. ~SaleStep(w) /\ ~CounterStep(w)
            BY <4>2, <5>1 DEF SaleStep, handleCreate, NextSaleNumber, DeleteRow, CancelStatus,
               ChecksPass, ChecksRefuse,
               ConfirmStatus, Save, handleDeleteSale, Delete, handleCancel, Cancel,
               handleConfirm, Confirm, handleUpdate, Update, Takes, CounterStep,
               handleSetNumberCounter, SetSaleNumberCounter, handleSetVoucherCounter,
               SetVoucherCounter
          <6>4. ~PaymentStep(w) /\ ~JournalStep(w)
            BY <4>2, <5>1 DEF PaymentStep, handleRecordPayment, Record, SavePayment,
               PaymentRefused, Takes, JournalStep,
               handlePostJournal, PostJournal, GetPeriod, CreatePeriod, NextVoucherSeq,
               CreateEntry, TakeOut, handleVoidJournal, VoidJournal,
               VoidEntry, Close, Reopen, SetPeriod
          <6> QED
            BY <3>3, <4>2, <5>1, <6>1, <6>2, <6>3, <6>4 DEF Step
        <5>2. CASE v # w
          BY <1>2, <4>2, <5>2
        <5> QED
          BY <5>1, <5>2
      <4> QED
        BY <3>1, <4>1, <4>2 DEF BillerInv
    <3> QED
      BY <3>2, <3>3
  <2>4. ASSUME NEW v \in Clerks, NEW c \in DocumentIds, AtInvoice(v)'
        PROVE  /\ pc'[v] = "draft" => ~InForce(c, job[v].sale)'
               /\ pc'[v] \in {"existing", "link"} /\ InForce(c, job[v].sale)' => c = job'[v].document
    <3>1. CASE v # w
      <4>1. AtInvoice(v) /\ job'[v] = job[v] /\ pc'[v] = pc[v]
        BY <1>2, <2>4, <3>1
      <4> QED
        BY <1>5, <2>1, <4>1 DEF BillerInv
    <3>2. CASE v = w /\ pc[w] = "idle"
      <4>1. /\ "bill" \in Duties[w] /\ job'[w].sale \in SaleIds
            /\ sales[job'[w].sale].status = "confirmed"
            /\ job'[w].document = sales[job'[w].sale].invoice
            /\ (pc'[w] = "draft" <=> job'[w].document = NoDocument)
            /\ pc'[w] # "link"
        BY <1>1, <2>4, <3>2 DEF Flow, ToExit, Posting
      <4>2. \A u \in Clerks : pc[u] # "link"
        BY <1>3, <3>2, <4>1
      <4>3. InForce(c, job'[w].sale) => sales[job'[w].sale].invoice = c
        BY <4>1, <4>2 DEF BillerInv
      <4>4. c # NoDocument
        BY OrderAssumption
      <4>5. InForce(c, job[w].sale)' <=> InForce(c, job'[w].sale)
        BY <1>7 DEF InForce
      <4> QED
        BY <3>2, <4>1, <4>3, <4>4, <4>5
    <3>3. CASE v = w /\ pc[w] # "idle"
      <4>1. /\ pc[w] = "existing" /\ pc'[w] = "draft" /\ job'[w] = job[w]
            /\ documents[job[w].document].status = "failed"
        <5>1. ASSUME NEW d \in DocumentIds, CreateInvoiceDraft(w, d) PROVE FALSE
          <6>1. documents[d].status = "none" /\ documents'[d].status = "draft"
            BY <5>1 DEF CreateInvoiceDraft, Undrafted, TypeOK
          <6> QED
            BY <1>7, <6>1
        <5> QED
          BY <1>1, <2>4, <3>3, <5>1 DEF Flow, ToExit, Posting
      <4>2. InForce(c, job[w].sale) => c = job[w].document
        BY <4>1 DEF BillerInv
      <4>3. ~InForce(job[w].document, job[w].sale)
        BY <4>1 DEF InForce
      <4>4. InForce(c, job[w].sale)' <=> InForce(c, job[w].sale)
        BY <1>7, <4>1 DEF InForce
      <4> QED
        BY <3>3, <4>1, <4>2, <4>3, <4>4
    <3> QED
      BY <3>1, <3>2, <3>3
  <2> QED
    BY <2>2, <2>3, <2>4 DEF BillerInv
<1> QED
  BY <1>6, <1>7, Writers

\* An invoice is made from what its sale sells, which no step changes any more.
LEMMA BilledStep ==
  ASSUME TypeOK, LocalsOK, DraftInv, BilledInv, NEW w \in Clerks, Step(w)
  PROVE  BilledInv'
<1>1. TypeOK' /\ Moved(w) /\ Flow(w) /\ job[w] \in Jobs
  BY StepTypes, StepFlow DEF TypeOK
<1>2. \A v \in Clerks \ {w} : pc'[v] = pc[v] /\ job'[v] = job[v]
  BY <1>1 DEF Moved, Others
<1>3. ASSUME NEW s \in SaleIds
      PROVE  /\ sales'[s].status # "none" => sales'[s].order \in Orders
             /\ sales[s].status \notin {"none", "draft"} => sales'[s].order = sales[s].order
  <2>1. SaleChange(w, s) /\ sales[s] \in Sales
    BY SaleChanges DEF TypeOK
  <2>2. Save(w, s) => job[w].order \in Orders
    BY DEF Save, BilledInv
  <2>3. sales[s].status # "none" => sales[s].order \in Orders
    BY DEF BilledInv
  <2>4. CASE sales[s].status = "none"
    <3>1. sales'[s] = sales[s] \/ (Save(w, s) /\ sales'[s].order = job[w].order)
      BY <2>1, <2>4 DEF SaleChange
    <3> QED
      BY <2>2, <2>4, <3>1
  <2>5. CASE sales[s].status # "none"
    <3>1. \/ sales'[s].order = sales[s].order
          \/ \E o \in Orders : sales[s].status = "draft" /\ sales'[s] = [sales[s] EXCEPT !.order = o]
      BY <2>1, <2>5 DEF SaleChange, Sales
    <3>2. \A o \in Orders : [sales[s] EXCEPT !.order = o].order = o
      BY <2>1 DEF Sales
    <3> QED
      BY <2>3, <2>5, <3>1, <3>2
  <2> QED
    BY <2>4, <2>5
<1>4. \A v \in Clerks : pc'[v] = "save" => job'[v].order \in Orders
  <2>1. pc'[w] = "save" => job'[w].order \in Orders
    BY <1>1 DEF Flow, ToExit, BilledInv
  <2> QED
    BY <1>2, <2>1 DEF BilledInv
<1>5. ASSUME NEW v \in Clerks, pc'[v] \in {"existing", "draft"}
      PROVE  job'[v].order = sales'[job'[v].sale].order
  <2>1. CASE pc[v] \in {"existing", "draft"} /\ job'[v] = job[v]
    <3>1. job[v].sale \in SaleIds /\ sales[job[v].sale].status \notin {"none", "draft"}
      BY <2>1 DEF LocalsOK, DraftInv, Acting
    <3> QED
      BY <1>3, <2>1, <3>1 DEF BilledInv
  <2>2. CASE v = w /\ pc[w] = "idle"
    <3>1. /\ job'[w].sale \in SaleIds /\ sales[job'[w].sale].status = "confirmed"
          /\ job'[w].order = sales[job'[w].sale].order
      BY <1>1, <1>5, <2>2 DEF Flow, ToExit, Posting
    <3> QED
      BY <1>3, <2>2, <3>1
  <2>3. CASE v = w /\ pc[w] # "idle"
    <3>1. pc[w] = "existing" /\ job'[w] = job[w]
      BY <1>1, <1>5, <2>3 DEF Flow, ToExit, Posting
    <3> QED
      BY <2>1, <2>3, <3>1
  <2> QED
    BY <1>2, <1>5, <2>1, <2>2, <2>3
<1>6. ASSUME NEW d \in DocumentIds, documents'[d].sale \in SaleIds
      PROVE  documents'[d].order = sales'[documents'[d].sale].order
  <2>1. CASE documents'[d] = documents[d]
    <3>1. sales[documents[d].sale].status \notin {"none", "draft"}
      BY <1>6, <2>1 DEF DraftInv, NoEffectOfADraft, Untouched
    <3> QED
      BY <1>3, <1>6, <2>1, <3>1 DEF BilledInv
  <2>2. CASE documents'[d] # documents[d]
    <3>1. PICK c \in DocumentIds : CreateInvoiceDraft(w, c)
      BY <2>2, Writers
    <3>2. /\ pc[w] = "draft" /\ sales' = sales
          /\ documents'[d] = [status |-> "draft", sale |-> job[w].sale, order |-> job[w].order]
      BY <2>2, <3>1 DEF CreateInvoiceDraft, TypeOK
    <3> QED
      BY <3>2 DEF BilledInv
  <2> QED
    BY <2>1, <2>2
<1>7. ASSUME NEW e \in entries', e.kind = "sale"
      PROVE  e.sale \in SaleIds
  <2>1. CASE e \in entries
    BY <1>7, <2>1 DEF BilledInv
  <2>2. CASE CreateEntry(w) /\ e = Entry(w)
    BY <1>7, <2>2 DEF CreateEntry, Entry, LocalsOK, Acting, Posting
  <2>3. CASE VoidEntry(w)
    <3>1. PICK f \in entries : e = Voided(f, job[w].seq)
      BY <2>3 DEF VoidEntry
    <3>2. e.kind = f.kind /\ e.sale = f.sale
      BY <3>1 DEF Voided, TypeOK, Entries
    <3> QED
      BY <1>7, <3>2 DEF BilledInv
  <2> QED
    BY <2>1, <2>2, <2>3, Writers DEF CreateEntry
<1> QED
  BY <1>3, <1>4, <1>5, <1>6, <1>7 DEF BilledInv

\* What becomes of a document never brings one back into force.
LEMMA DocumentStepInv ==
  ASSUME OrderInv, NEW d \in DocumentIds, DocumentStepOf(d)
  PROVE  OrderInv'
<1>1. TypeOK' /\ TypeOK
  BY DocumentTypes DEF OrderInv
<1>2. UNCHANGED <<sales, lastNumber, payments, exits, period, entries, lastVoucher, pc, job>>
  BY DEF DocumentStepOf, DocumentConfirmed, DocumentFailed, DeleteDraft, DocumentStep
<1>3. \A c \in DocumentIds : documents'[c].sale = documents[c].sale
  BY <1>1 DEF DocumentStepOf, DocumentConfirmed, DocumentFailed, DeleteDraft, DocumentStep,
     TypeOK,
     Documents
<1>4. \A c \in DocumentIds, s \in SaleIds : InForce(c, s)' => InForce(c, s)
  BY <1>1 DEF DocumentStepOf, DocumentConfirmed, DocumentFailed, DeleteDraft, DocumentStep,
     TypeOK,
     Documents, InForce
<1>5. LocalsOK'
  BY <1>2 DEF OrderInv, LocalsOK, Acting, Confirming, PostingPayment
<1>6. DraftInv'
  BY <1>2, <1>3 DEF OrderInv, DraftInv, NoEffectOfADraft, Untouched, PaymentsOf, SaleOf, Acting
<1>10. BilledInv'
  <2>1. \A c \in DocumentIds : documents'[c].order = documents[c].order
    BY <1>1 DEF DocumentStepOf, DocumentConfirmed, DocumentFailed, DeleteDraft, DocumentStep,
       TypeOK, Documents
  <2> QED
    BY <1>2, <1>3, <2>1 DEF OrderInv, BilledInv
<1>7. VoucherInv' /\ PaymentInv' /\ NumberInv'
  BY <1>2 DEF OrderInv, VoucherInv, VouchersGivenOnce, PaymentInv, PaymentPostedOnce,
     PostingPayment,
     NumberInv, NumbersAreFree, Numbered
<1>8. OneDesk => DeskInv'
  BY <1>2 DEF OrderInv, DeskInv, SoldOnce, Confirming
<1>9. ASSUME OneBiller PROVE BillerInv'
  <2>1. BillerInv
    BY <1>9 DEF OrderInv
  <2>2. OneInvoice'
    BY <1>4, <2>1 DEF BillerInv, OneInvoice
  <2>3. ASSUME NEW v \in Clerks, NEW c \in DocumentIds, pc[v] \in {"existing", "draft", "link"}
        PROVE  InForce(c, job[v].sale)' => InForce(c, job[v].sale)
    <3>1. job[v].sale \in SaleIds /\ job'[v].sale = job[v].sale
      BY <1>2, <2>3 DEF OrderInv, LocalsOK, Acting
    <3>2. InForce(c, job[v].sale)' <=> documents'[c].sale = job[v].sale /\ documents'[c].status \in {"draft", "live"}
      BY <3>1 DEF InForce
    <3> QED
      BY <1>4, <3>1, <3>2 DEF InForce
  <2> QED
    BY <1>2, <1>4, <2>1, <2>2, <2>3 DEF BillerInv
<1> QED
  BY <1>1, <1>5, <1>6, <1>7, <1>8, <1>9, <1>10 DEF OrderInv, OneDesk, OneBiller

-----------------------------------------------------------------------------

LEMMA InitInv ==
  ASSUME Init
  PROVE  OrderInv
<1> USE DEF Init
<1>1. TypeOK
  BY IdleType DEF TypeOK, Sales, SaleStatuses, Documents, DocumentStatuses, Steps
<1>2. \A w \in Clerks : pc[w] = "idle" /\ job[w].kind = "manual"
  BY DEF Idle
<1>3. LocalsOK
  BY <1>2 DEF LocalsOK, Acting, Confirming, PostingPayment, Posting
<1>4. DraftInv
  BY <1>2, OrderAssumption DEF DraftInv, NoEffectOfADraft, Untouched, PaymentsOf, Acting, Posting
<1>5. VoucherInv /\ PaymentInv /\ NumberInv
  BY <1>2 DEF VoucherInv, VouchersGivenOnce, PaymentInv, PaymentPostedOnce, PostingPayment,
     Posting,
     NumberInv, NumbersAreFree
<1>7. BilledInv
  BY <1>2, OrderAssumption DEF BilledInv
<1>6. DeskInv /\ BillerInv
  BY <1>2 DEF DeskInv, SoldOnce, Confirming, Posting, BillerInv, OneInvoice, InForce
<1> QED
  BY <1>1, <1>3, <1>4, <1>5, <1>6, <1>7 DEF OrderInv

LEMMA StepInv ==
  ASSUME OrderInv, [Next]_vars
  PROVE  OrderInv'
<1>1. ASSUME NEW w \in Clerks, Step(w) PROVE OrderInv'
  <2>1. TypeOK /\ LocalsOK /\ DraftInv /\ VoucherInv /\ PaymentInv /\ NumberInv /\ BilledInv
    BY DEF OrderInv
  <2>2. /\ TypeOK' /\ LocalsOK' /\ DraftInv' /\ VoucherInv' /\ PaymentInv' /\ NumberInv'
        /\ BilledInv'
    BY <1>1, <2>1, StepTypes, LocalsStep, DraftStep, VoucherStep, PaymentInvStep, NumberStep,
       BilledStep
  <2>3. OneDesk => DeskInv'
    BY <1>1, <2>1, DeskStep DEF OrderInv
  <2>4. OneBiller => BillerInv'
    BY <1>1, <2>1, BillerStep DEF OrderInv
  <2> QED
    BY <2>2, <2>3, <2>4 DEF OrderInv, OneDesk, OneBiller
<1>2. ASSUME NEW d \in DocumentIds, DocumentStepOf(d) PROVE OrderInv'
  BY <1>2, DocumentStepInv
<1>3. CASE UNCHANGED vars
  BY <1>3 DEF vars, OrderInv, TypeOK, LocalsOK, DraftInv, NoEffectOfADraft, Untouched,
     PaymentsOf, SaleOf,
     VoucherInv, VouchersGivenOnce, PaymentInv, PaymentPostedOnce, NumberInv, NumbersAreFree,
     Numbered,
     OneDesk, DeskInv, SoldOnce, OneBiller, BillerInv, OneInvoice, InForce, Acting, Confirming,
     PostingPayment, BilledInv
<1> QED
  BY <1>1, <1>2, <1>3 DEF Next, Step, DocumentStepOf

\* The inductive invariant: what each request holds while it is under way, beside
\* the tables, for every interleaving of every number of requests.
THEOREM OrderInvariant == Spec => []OrderInv
<1>1. Init => OrderInv
  BY InitInv
<1>2. OrderInv /\ [Next]_vars => OrderInv'
  BY StepInv
<1> QED
  BY <1>1, <1>2, PTL DEF Spec

\* Nothing is posted, taken out of stock, paid or invoiced in the name of a sale that
\* did not leave the draft, and no sale with a payment disappears.
THEOREM NoEffectOfADraftHolds == Spec => []NoEffectOfADraft
<1>1. OrderInv => NoEffectOfADraft
  BY DEF OrderInv, DraftInv
<1> QED
  BY <1>1, OrderInvariant, PTL

\* NextVoucherSeq and Create are two statements, yet no number is in two entries.
THEOREM VouchersGivenOnceHolds == Spec => []VouchersGivenOnce
<1>1. OrderInv => VouchersGivenOnce
  BY DEF OrderInv, VoucherInv
<1> QED
  BY <1>1, OrderInvariant, PTL

\* SalePaymentRecorded is published after the INSERT, once, with what it wrote.
THEOREM PaymentPostedOnceHolds == Spec => []PaymentPostedOnce
<1>1. OrderInv => PaymentPostedOnce
  BY DEF OrderInv, PaymentInv
<1> QED
  BY <1>1, OrderInvariant, PTL

\* NextSaleNumber and Save are two statements and the counter can be set by hand,
\* yet a number that was given is free when it is saved.
THEOREM NumbersAreFreeHolds == Spec => []NumbersAreFree
<1>1. OrderInv => NumbersAreFree
  BY DEF OrderInv, NumberInv
<1> QED
  BY <1>1, OrderInvariant, PTL

\* One desk: a sale is taken out of stock once and posted once, for its total.
THEOREM SoldOnceHolds == Spec => []SoldOnce
<1>1. OrderInv => SoldOnce
  BY DEF OrderInv, DeskInv, SoldOnce
<1> QED
  BY <1>1, OrderInvariant, PTL

\* One biller whose statements succeed: one invoice in force per sale.
THEOREM OneInvoiceHolds == Spec => []OneInvoice
<1>1. OrderInv => OneInvoice
  BY DEF OrderInv, BillerInv, OneInvoice
<1> QED
  BY <1>1, OrderInvariant, PTL

-----------------------------------------------------------------------------
(* Sums over finite sets: what the fold of the community modules comes to. *)

\* f adds up g over each subset of S.
SumsUp(f, g, S) ==
  f = [s \in SUBSET S |-> IF s = {} THEN 0
                          ELSE g[CHOOSE x \in s : TRUE] + f[s \ {CHOOSE x \in s : TRUE}]]

\* Among subsets of a finite set there is one that holds no other.
LEMMA MinimalSubset ==
  ASSUME NEW S, IsFiniteSet(S), NEW C, C \subseteq SUBSET S, C # {}
  PROVE  \E T \in C : \A U \in C : U \subseteq T => U = T
<1>1. C \subseteq FiniteSubsetsOf(S)
  BY FS_FiniteSubsetsOfFinite
<1>2. PICK T \in C : \A U \in C : ~ (<<U, T>> \in StrictSubsetOrdering(S))
  BY <1>1, FS_StrictSubsetOrderingWellFounded, WFMin
<1>3. ASSUME NEW U \in C, U \subseteq T, U # T
      PROVE  <<U, T>> \in StrictSubsetOrdering(S)
  <2> U \in SUBSET S /\ T \in SUBSET S
    OBVIOUS
  <2>1. <<U, T>> \in (SUBSET S) \X (SUBSET S)
    OBVIOUS
  <2>2. <<U, T>>[1] = U /\ <<U, T>>[2] = T
    OBVIOUS
  <2> QED BY <2>1, <2>2, <1>3 DEF StrictSubsetOrdering
<1>4. \A U \in C : U \subseteq T => U = T
  BY <1>2, <1>3
<1> QED BY <1>4

\* The sum of a set depends on nothing else.
LEMMA SumsUpUnique ==
  ASSUME NEW S, IsFiniteSet(S), NEW T, T \subseteq S, NEW g, NEW f, NEW h,
         SumsUp(f, g, S), SumsUp(h, g, T)
  PROVE  f[T] = h[T]
<1> DEFINE C == {s \in SUBSET T : f[s] # h[s]}
<1>1. SUFFICES ASSUME C # {} PROVE FALSE
  OBVIOUS
<1>2. IsFiniteSet(T)
  BY FS_Subset
<1>3. PICK s \in C : \A u \in C : u \subseteq s => u = s
  <2> C \subseteq SUBSET T
    OBVIOUS
  <2> HIDE DEF C
  <2> QED BY <1>1, <1>2, MinimalSubset
<1> DEFINE x == CHOOSE x \in s : TRUE
<1>4. s \in SUBSET T /\ s \in SUBSET S /\ f[s] # h[s]
  BY <1>3
<1>5. s # {} 
  BY <1>4 DEF SumsUp
<1>6. x \in s
  BY <1>5
<1>7. s \ {x} \in SUBSET T /\ s \ {x} \in SUBSET S /\ s \ {x} # s
  BY <1>4, <1>6
<1>8. f[s \ {x}] = h[s \ {x}]
  BY <1>3, <1>7
<1>9. f[s] = g[x] + f[s \ {x}] /\ h[s] = g[x] + h[s \ {x}]
  BY <1>4, <1>5 DEF SumsUp
<1> QED BY <1>4, <1>8, <1>9

\* A sum over the subsets of S is one over those of a part of S.
LEMMA SumsUpRestricted ==
  ASSUME NEW S, NEW T, T \subseteq S, NEW g, NEW f, SumsUp(f, g, S),
         NEW h, h = [s \in SUBSET T |-> f[s]]
  PROVE  SumsUp(h, g, T)
<1>1. ASSUME NEW s \in SUBSET T
      PROVE  h[s] = IF s = {} THEN 0
                    ELSE g[CHOOSE x \in s : TRUE] + h[s \ {CHOOSE x \in s : TRUE}]
  <2>1. s \in SUBSET S /\ \A y : s \ {y} \in SUBSET T
    OBVIOUS
  <2>2. f[s] = IF s = {} THEN 0
               ELSE g[CHOOSE x \in s : TRUE] + f[s \ {CHOOSE x \in s : TRUE}]
    BY <2>1 DEF SumsUp
  <2> QED
    BY <2>1, <2>2
<1>2. h = [s \in SUBSET T |-> h[s]]
  OBVIOUS
<1> QED
  BY <1>1, <1>2 DEF SumsUp

\* There is such a sum for every finite set.
LEMMA SumsUpExists ==
  ASSUME NEW S, IsFiniteSet(S), NEW g
  PROVE  \E f : SumsUp(f, g, S)
<1> DEFINE C == {T \in SUBSET S : ~ \E f : SumsUp(f, g, T)}
<1>1. SUFFICES ASSUME C # {} PROVE FALSE
  <2> S \in SUBSET S
    OBVIOUS
  <2> QED OBVIOUS
<1>3. PICK T \in C : \A u \in C : u \subseteq T => u = T
  <2> C \subseteq SUBSET S
    OBVIOUS
  <2> HIDE DEF C
  <2> QED BY <1>1, MinimalSubset
<1>4. T \in SUBSET S /\ ~ \E f : SumsUp(f, g, T)
  BY <1>3
<1>5. \A U \in SUBSET T : U # T => \E f : SumsUp(f, g, U)
  BY <1>3, <1>4
<1> DEFINE F(U) == CHOOSE f : SumsUp(f, g, U)
           pick(s) == CHOOSE x \in s : TRUE
           val(s) == IF s = {} THEN 0 ELSE g[pick(s)] + F(s \ {pick(s)})[s \ {pick(s)}]
           v == [s \in SUBSET T |-> val(s)]
<1>6. \A U \in SUBSET T : U # T => SumsUp(F(U), g, U)
  BY <1>5
<1>7. \A s : s # {} => pick(s) \in s
  OBVIOUS
<1>8. ASSUME NEW s \in SUBSET T, s # T
      PROVE  v[s] = F(s)[s]
  <2>1. CASE s = {}
    <3>1. SumsUp(F(s), g, s) /\ s \in SUBSET s
      BY <1>6, <1>8
    <3>2. F(s)[s] = 0
      BY <3>1, <2>1 DEF SumsUp
    <3> QED BY <3>2, <2>1
  <2>2. CASE s # {}
    <3> DEFINE u == s \ {pick(s)}
    <3>1. u \in SUBSET T /\ u # T /\ u \subseteq s /\ s \in SUBSET s /\ u \in SUBSET s
      BY <1>7, <1>8, <2>2
    <3>2. SumsUp(F(s), g, s) /\ SumsUp(F(u), g, u)
      BY <3>1, <1>6, <1>8
    <3>3. IsFiniteSet(s)
      BY <1>4, FS_Subset
    <3>4. F(s)[u] = F(u)[u]
      <4> HIDE DEF F, u
      <4> QED BY <3>1, <3>2, <3>3, SumsUpUnique
    <3>5. F(s)[s] = g[pick(s)] + F(s)[u]
      BY <3>1, <3>2, <2>2 DEF SumsUp
    <3>6. v[s] = g[pick(s)] + F(u)[u]
      BY <2>2
    <3> QED BY <3>4, <3>5, <3>6
  <2> QED BY <2>1, <2>2
<1>9. ASSUME NEW s \in SUBSET T
      PROVE  v[s] = IF s = {} THEN 0 ELSE g[pick(s)] + v[s \ {pick(s)}]
  <2>1. CASE s = {}
    BY <2>1
  <2>2. CASE s # {}
    <3> DEFINE u == s \ {pick(s)}
    <3>1. u \in SUBSET T /\ u # T
      BY <1>7, <2>2
    <3>2. v[u] = F(u)[u]
      <4> HIDE DEF v, F, u
      <4> QED BY <3>1, <1>8
    <3>3. v[s] = g[pick(s)] + F(u)[u]
      BY <2>2
    <3> HIDE DEF v, F
    <3> QED BY <3>2, <3>3, <2>2
  <2> QED BY <2>1, <2>2
<1>10. v = [s \in SUBSET T |-> v[s]]
  OBVIOUS
<1>11. SumsUp(v, g, T)
  <2> HIDE DEF v
  <2> QED BY <1>9, <1>10 DEF SumsUp
<1> QED BY <1>4, <1>11

\* Sums of numbers are numbers.
LEMMA SumsUpType ==
  ASSUME NEW S, IsFiniteSet(S), NEW g, NEW R \in {Nat, Int}, \A x \in S : g[x] \in R, NEW f, SumsUp(f, g, S)
  PROVE  \A s \in SUBSET S : f[s] \in R
<1> DEFINE C == {s \in SUBSET S : f[s] \notin R}
<1>1. SUFFICES ASSUME C # {} PROVE FALSE
  OBVIOUS
<1>3. PICK s \in C : \A u \in C : u \subseteq s => u = s
  <2> C \subseteq SUBSET S
    OBVIOUS
  <2> HIDE DEF C
  <2> QED BY <1>1, MinimalSubset
<1> DEFINE x == CHOOSE x \in s : TRUE
<1>4. s \in SUBSET S /\ f[s] \notin R
  BY <1>3
<1>5. s # {}
  BY <1>4 DEF SumsUp
<1>6. x \in s
  BY <1>5
<1>7. s \ {x} \in SUBSET S /\ s \ {x} # s
  BY <1>4, <1>6
<1>8. f[s \ {x}] \in R
  BY <1>3, <1>7
<1>9. f[s] = g[x] + f[s \ {x}]
  BY <1>4, <1>5 DEF SumsUp
<1>10. g[x] \in R
  BY <1>4, <1>6
<1> HIDE DEF x
<1> QED BY <1>4, <1>8, <1>9, <1>10

\* In whatever order.
LEMMA SumsUpElement ==
  ASSUME NEW S, IsFiniteSet(S), NEW g, \A x \in S : g[x] \in Int, NEW f, SumsUp(f, g, S)
  PROVE  \A s \in SUBSET S : \A x \in s : f[s] = g[x] + f[s \ {x}]
<1> DEFINE C == {s \in SUBSET S : \E x \in s : f[s] # g[x] + f[s \ {x}]}
<1>1. SUFFICES ASSUME C # {} PROVE FALSE
  OBVIOUS
<1>3. PICK s \in C : \A u \in C : u \subseteq s => u = s
  <2> C \subseteq SUBSET S
    OBVIOUS
  <2> HIDE DEF C
  <2> QED BY <1>1, MinimalSubset
<1>4. s \in SUBSET S
  BY <1>3
<1>5. PICK x \in s : f[s] # g[x] + f[s \ {x}]
  BY <1>3
<1> DEFINE y == CHOOSE z \in s : TRUE
<1>6. y \in s
  BY <1>5
<1>7. f[s] = g[y] + f[s \ {y}]
  BY <1>4, <1>5 DEF SumsUp
<1> HIDE DEF y
<1>8. x # y
  BY <1>5, <1>7
<1>9. \A u \in SUBSET S : u \subseteq s /\ u # s => \A z \in u : f[u] = g[z] + f[u \ {z}]
  BY <1>3
<1>10. f[s \ {y}] = g[x] + f[(s \ {y}) \ {x}]
  <2>1. s \ {y} \in SUBSET S /\ s \ {y} \subseteq s /\ s \ {y} # s /\ x \in s \ {y}
    BY <1>4, <1>6, <1>8
  <2> QED BY <2>1, <1>9
<1>11. f[s \ {x}] = g[y] + f[(s \ {x}) \ {y}]
  <2>1. s \ {x} \in SUBSET S /\ s \ {x} \subseteq s /\ s \ {x} # s /\ y \in s \ {x}
    BY <1>4, <1>6, <1>8
  <2> QED BY <2>1, <1>9
<1>12. (s \ {x}) \ {y} = (s \ {y}) \ {x}
  OBVIOUS
<1>13. f[(s \ {y}) \ {x}] \in Int /\ g[x] \in Int /\ g[y] \in Int
  <2>1. (s \ {y}) \ {x} \in SUBSET S
    BY <1>4
  <2>2. \A u \in SUBSET S : f[u] \in Int
    BY SumsUpType
  <2> QED BY <2>1, <2>2, <1>4, <1>6
<1> DEFINE r == f[(s \ {y}) \ {x}]
<1>14. f[s] = g[y] + (g[x] + r) /\ f[s \ {x}] = g[y] + r
  BY <1>7, <1>10, <1>11, <1>12
<1>15. r \in Int
  BY <1>13
<1> HIDE DEF r
<1>16. f[s] = g[x] + f[s \ {x}]
  BY <1>13, <1>14, <1>15
<1> QED BY <1>5, <1>16

\* A sum of sums is the sum of what is summed.
LEMMA SumsUpPlus ==
  ASSUME NEW S, IsFiniteSet(S), NEW a, NEW b, NEW c, NEW f, NEW g, NEW h,
         \A x \in S : a[x] \in Int /\ b[x] \in Int /\ c[x] = a[x] + b[x],
         SumsUp(f, a, S), SumsUp(g, b, S), SumsUp(h, c, S)
  PROVE  \A s \in SUBSET S : h[s] = f[s] + g[s]
<1> DEFINE C == {s \in SUBSET S : h[s] # f[s] + g[s]}
<1>1. SUFFICES ASSUME C # {} PROVE FALSE
  OBVIOUS
<1>2. PICK s \in C : \A u \in C : u \subseteq s => u = s
  <2> C \subseteq SUBSET S
    OBVIOUS
  <2> HIDE DEF C
  <2> QED BY <1>1, MinimalSubset
<1> DEFINE x == CHOOSE x \in s : TRUE
<1>3. s \in SUBSET S /\ h[s] # f[s] + g[s]
  BY <1>2
<1>4. s # {}
  BY <1>3 DEF SumsUp
<1>5. x \in s
  BY <1>4
<1>6. s \ {x} \in SUBSET S /\ s \ {x} # s
  BY <1>3, <1>5
<1>7. h[s \ {x}] = f[s \ {x}] + g[s \ {x}]
  BY <1>2, <1>6
<1>8. f[s] = a[x] + f[s \ {x}] /\ g[s] = b[x] + g[s \ {x}] /\ h[s] = c[x] + h[s \ {x}]
  BY <1>3, <1>4 DEF SumsUp
<1>9. a[x] \in Int /\ b[x] \in Int /\ c[x] = a[x] + b[x]
  BY <1>3, <1>5
<1>10. f[s \ {x}] \in Int /\ g[s \ {x}] \in Int
  <2>1. \A t \in SUBSET S : f[t] \in Int
    BY SumsUpType
  <2>2. \A t \in SUBSET S : g[t] \in Int
    BY SumsUpType
  <2> QED BY <1>6, <2>1, <2>2
<1> HIDE DEF x
<1> QED BY <1>3, <1>7, <1>8, <1>9, <1>10

\* Two sets that have nothing in common add up apart.
LEMMA SumsUpDisjoint ==
  ASSUME NEW S, IsFiniteSet(S), NEW a, \A x \in S : a[x] \in Int, NEW f, SumsUp(f, a, S),
         NEW A, A \subseteq S, NEW B, B \subseteq S, B \cap A = {}
  PROVE  f[A \cup B] = f[A] + f[B]
<1> DEFINE C == {s \in SUBSET S : s \cap A = {} /\ f[A \cup s] # f[A] + f[s]}
<1>1. SUFFICES ASSUME C # {} PROVE FALSE
  <2> B \in SUBSET S
    OBVIOUS
  <2> QED OBVIOUS
<1>2. PICK s \in C : \A u \in C : u \subseteq s => u = s
  <2> C \subseteq SUBSET S
    OBVIOUS
  <2> HIDE DEF C
  <2> QED BY <1>1, MinimalSubset
<1>3. s \in SUBSET S /\ s \cap A = {} /\ f[A \cup s] # f[A] + f[s]
  BY <1>2
<1>4. \A t \in SUBSET S : f[t] \in Int
  BY SumsUpType
<1>6. CASE s = {}
  <2>1. f[s] = 0 /\ A \cup s = A
    BY <1>6 DEF SumsUp
  <2>2. f[A] \in Int
    BY <1>4
  <2>3. f[A \cup s] = f[A]
    BY <2>1
  <2> DEFINE fA == f[A]
  <2>4. fA \in Int /\ fA # fA + 0
    BY <1>3, <2>1, <2>2, <2>3
  <2> HIDE DEF fA
  <2> QED BY <2>4
<1>7. CASE s # {}
  <2>1. PICK x : x \in s
    BY <1>7
  <2>2. s \ {x} \in SUBSET S /\ s \ {x} # s /\ (s \ {x}) \cap A = {}
    BY <1>3, <2>1
  <2>3. f[A \cup (s \ {x})] = f[A] + f[s \ {x}]
    BY <1>2, <2>2
  <2>4. A \cup s \in SUBSET S /\ x \in A \cup s /\ (A \cup s) \ {x} = A \cup (s \ {x})
    BY <1>3, <2>1
  <2>7. f[A] \in Int /\ f[s \ {x}] \in Int /\ a[x] \in Int
    BY <1>3, <1>4, <2>1, <2>2
  <2>5. f[A \cup s] = a[x] + f[(A \cup s) \ {x}]
    BY <2>4, SumsUpElement
  <2>6. f[s] = a[x] + f[s \ {x}]
    <3>1. s \in SUBSET S /\ x \in s
      BY <1>3, <2>1
    <3>2. \A y \in s : f[s] = a[y] + f[s \ {y}]
      BY <3>1, SumsUpElement
    <3> QED BY <3>1, <3>2
  <2>8. f[A \cup s] = a[x] + (f[A] + f[s \ {x}])
    BY <2>3, <2>4, <2>5
  <2> QED BY <1>3, <2>6, <2>7, <2>8
<1> QED BY <1>6, <1>7

\* What every summand loses of a hundred times another, the sum loses as often.
LEMMA SumsUpLoss ==
  ASSUME NEW S, IsFiniteSet(S), NEW a, NEW b, NEW f, NEW g,
         \A x \in S : a[x] \in Int /\ b[x] \in Int /\ a[x] - 100 * b[x] \in 0 .. 200,
         SumsUp(f, a, S), SumsUp(g, b, S)
  PROVE  \A s \in SUBSET S : f[s] - 100 * g[s] \in 0 .. 200 * Cardinality(s)
<1> DEFINE C == {s \in SUBSET S : f[s] - 100 * g[s] \notin 0 .. 200 * Cardinality(s)}
<1>1. SUFFICES ASSUME C # {} PROVE FALSE
  OBVIOUS
<1>2. PICK s \in C : \A u \in C : u \subseteq s => u = s
  <2> C \subseteq SUBSET S
    OBVIOUS
  <2> HIDE DEF C
  <2> QED BY <1>1, MinimalSubset
<1> DEFINE x == CHOOSE x \in s : TRUE
<1>3. s \in SUBSET S /\ f[s] - 100 * g[s] \notin 0 .. 200 * Cardinality(s)
  BY <1>2
<1>4. s # {}
  <2>1. SUFFICES ASSUME s = {} PROVE FALSE
    OBVIOUS
  <2>2. f[s] = 0 /\ g[s] = 0
    BY <1>3, <2>1 DEF SumsUp
  <2>3. Cardinality(s) = 0
    BY <2>1, FS_EmptySet
  <2> QED BY <1>3, <2>2, <2>3
<1>5. x \in s
  BY <1>4
<1>6. s \ {x} \in SUBSET S /\ s \ {x} # s
  BY <1>3, <1>5
<1>7. f[s \ {x}] - 100 * g[s \ {x}] \in 0 .. 200 * Cardinality(s \ {x})
  BY <1>2, <1>6
<1>8. f[s] = a[x] + f[s \ {x}] /\ g[s] = b[x] + g[s \ {x}]
  BY <1>3, <1>4 DEF SumsUp
<1>9. a[x] \in Int /\ b[x] \in Int /\ a[x] - 100 * b[x] \in 0 .. 200
  BY <1>3, <1>5
<1>10. f[s \ {x}] \in Int /\ g[s \ {x}] \in Int
  <2>1. \A t \in SUBSET S : f[t] \in Int
    BY SumsUpType
  <2>2. \A t \in SUBSET S : g[t] \in Int
    BY SumsUpType
  <2> QED BY <1>6, <2>1, <2>2
<1>11. Cardinality(s) = Cardinality(s \ {x}) + 1 /\ Cardinality(s \ {x}) \in Nat
  <2>1. IsFiniteSet(s)
    BY <1>3, FS_Subset
  <2> HIDE DEF x
  <2>2. Cardinality(s) \in Nat /\ Cardinality(s \ {x}) = Cardinality(s) - 1
    BY <1>5, <2>1, FS_RemoveElement, FS_CardinalityType
  <2>3. IsFiniteSet(s \ {x})
    BY <2>1, FS_Subset
  <2>4. Cardinality(s \ {x}) \in Nat
    BY <2>3, FS_CardinalityType
  <2> QED BY <2>2, <2>4
<1> DEFINE m == f[s \ {x}]
           n == g[s \ {x}]
           k == Cardinality(s \ {x})
<1>12. /\ m \in Int /\ n \in Int /\ k \in Nat /\ m - 100 * n \in 0 .. 200 * k
       /\ (a[x] + m) - 100 * (b[x] + n) \notin 0 .. 200 * (k + 1)
  BY <1>3, <1>7, <1>8, <1>10, <1>11
<1> HIDE DEF x, m, n, k
<1> QED BY <1>9, <1>12

-----------------------------------------------------------------------------
(* The sums of the model.                                                  *)

\* The total of a sale.
LEMMA OrderAdds ==
  ASSUME NEW lines, IsFiniteSet(DOMAIN lines), NEW g, \A i \in DOMAIN lines : g[i] = LineTotal(lines[i]),
         NEW f, SumsUp(f, g, DOMAIN lines)
  PROVE  SumOf(LineTotal, lines) = f[DOMAIN lines]
<1> DEFINE S == DOMAIN lines
           Eq(h) == h = [s \in SUBSET S |-> IF s = {} THEN 0
                          ELSE LineTotal(lines[CHOOSE x \in s : TRUE]) + h[s \ {CHOOSE x \in s : TRUE}]]
<1>1. SumOf(LineTotal, lines) = (CHOOSE h : Eq(h))[S]
  BY DEF SumOf, MapThenSumSet, MapThenFoldSet
<1>2. ASSUME NEW h PROVE Eq(h) <=> SumsUp(h, g, S)
  <2>1. \A s \in SUBSET S : s # {} => g[CHOOSE x \in s : TRUE] = LineTotal(lines[CHOOSE x \in s : TRUE])
    OBVIOUS
  <2>2. [s \in SUBSET S |-> IF s = {} THEN 0
            ELSE LineTotal(lines[CHOOSE x \in s : TRUE]) + h[s \ {CHOOSE x \in s : TRUE}]] =
        [s \in SUBSET S |-> IF s = {} THEN 0
            ELSE g[CHOOSE x \in s : TRUE] + h[s \ {CHOOSE x \in s : TRUE}]]
    BY <2>1
  <2> QED BY <2>2 DEF SumsUp
<1>3. Eq(f)
  BY <1>2
<1> HIDE DEF Eq
<1>4. Eq(CHOOSE h : Eq(h))
  BY <1>3
<1>5. SumsUp(CHOOSE h : Eq(h), g, S)
  BY <1>2, <1>4
<1>6. (CHOOSE h : Eq(h))[S] = f[S]
  BY <1>5, SumsUpUnique
<1> QED BY <1>1, <1>6

\* What an invoice asks for.
LEMMA InvoiceAdds ==
  ASSUME NEW lines, IsFiniteSet(DOMAIN lines), NEW g, \A i \in DOMAIN lines : g[i] = lines[i].base + lines[i].tax,
         NEW f, SumsUp(f, g, DOMAIN lines)
  PROVE  computeTotals(lines) = f[DOMAIN lines]
<1> DEFINE S == DOMAIN lines
           F(i) == lines[i].base + lines[i].tax
           Eq(h) == h = [s \in SUBSET S |-> IF s = {} THEN 0
                          ELSE F(CHOOSE x \in s : TRUE) + h[s \ {CHOOSE x \in s : TRUE}]]
<1>1. computeTotals(lines) = (CHOOSE h : Eq(h))[S]
  BY DEF computeTotals, SumOf, MapThenSumSet, MapThenFoldSet
<1>2. ASSUME NEW h PROVE Eq(h) <=> SumsUp(h, g, S)
  <2>1. \A s \in SUBSET S : s # {} => g[CHOOSE x \in s : TRUE] = F(CHOOSE x \in s : TRUE)
    OBVIOUS
  <2> HIDE DEF F
  <2>2. [s \in SUBSET S |-> IF s = {} THEN 0
            ELSE F(CHOOSE x \in s : TRUE) + h[s \ {CHOOSE x \in s : TRUE}]] =
        [s \in SUBSET S |-> IF s = {} THEN 0
            ELSE g[CHOOSE x \in s : TRUE] + h[s \ {CHOOSE x \in s : TRUE}]]
    BY <2>1
  <2> QED BY <2>2 DEF SumsUp
<1>3. Eq(f)
  BY <1>2
<1> HIDE DEF Eq
<1>4. Eq(CHOOSE h : Eq(h))
  BY <1>3
<1>5. SumsUp(CHOOSE h : Eq(h), g, S)
  BY <1>2, <1>4
<1>6. (CHOOSE h : Eq(h))[S] = f[S]
  BY <1>5, SumsUpUnique
<1> QED BY <1>1, <1>6

\* The bases of the lines of one rate.
LEMMA BasesAdd ==
  ASSUME NEW lines, IsFiniteSet(DOMAIN lines), NEW g, \A i \in DOMAIN lines : g[i] = lines[i].base,
         NEW f, SumsUp(f, g, DOMAIN lines)
  PROVE  SumOf(LAMBDA l : l.base, lines) = f[DOMAIN lines]
<1> DEFINE S == DOMAIN lines
           F(i) == lines[i].base
           Eq(h) == h = [s \in SUBSET S |-> IF s = {} THEN 0
                          ELSE F(CHOOSE x \in s : TRUE) + h[s \ {CHOOSE x \in s : TRUE}]]
<1>1. SumOf(LAMBDA l : l.base, lines) = (CHOOSE h : Eq(h))[S]
  BY DEF SumOf, MapThenSumSet, MapThenFoldSet
<1>2. ASSUME NEW h PROVE Eq(h) <=> SumsUp(h, g, S)
  <2>1. \A s \in SUBSET S : s # {} => g[CHOOSE x \in s : TRUE] = F(CHOOSE x \in s : TRUE)
    OBVIOUS
  <2> HIDE DEF F
  <2>2. [s \in SUBSET S |-> IF s = {} THEN 0
            ELSE F(CHOOSE x \in s : TRUE) + h[s \ {CHOOSE x \in s : TRUE}]] =
        [s \in SUBSET S |-> IF s = {} THEN 0
            ELSE g[CHOOSE x \in s : TRUE] + h[s \ {CHOOSE x \in s : TRUE}]]
    BY <2>1
  <2> QED BY <2>2 DEF SumsUp
<1>3. Eq(f)
  BY <1>2
<1> HIDE DEF Eq
<1>4. Eq(CHOOSE h : Eq(h))
  BY <1>3
<1>5. SumsUp(CHOOSE h : Eq(h), g, S)
  BY <1>2, <1>4
<1>6. (CHOOSE h : Eq(h))[S] = f[S]
  BY <1>5, SumsUpUnique
<1> QED BY <1>1, <1>6

\* Their taxes.
LEMMA TaxesAdd ==
  ASSUME NEW lines, IsFiniteSet(DOMAIN lines), NEW g, \A i \in DOMAIN lines : g[i] = lines[i].tax,
         NEW f, SumsUp(f, g, DOMAIN lines)
  PROVE  SumOf(LAMBDA l : l.tax, lines) = f[DOMAIN lines]
<1> DEFINE S == DOMAIN lines
           F(i) == lines[i].tax
           Eq(h) == h = [s \in SUBSET S |-> IF s = {} THEN 0
                          ELSE F(CHOOSE x \in s : TRUE) + h[s \ {CHOOSE x \in s : TRUE}]]
<1>1. SumOf(LAMBDA l : l.tax, lines) = (CHOOSE h : Eq(h))[S]
  BY DEF SumOf, MapThenSumSet, MapThenFoldSet
<1>2. ASSUME NEW h PROVE Eq(h) <=> SumsUp(h, g, S)
  <2>1. \A s \in SUBSET S : s # {} => g[CHOOSE x \in s : TRUE] = F(CHOOSE x \in s : TRUE)
    OBVIOUS
  <2> HIDE DEF F
  <2>2. [s \in SUBSET S |-> IF s = {} THEN 0
            ELSE F(CHOOSE x \in s : TRUE) + h[s \ {CHOOSE x \in s : TRUE}]] =
        [s \in SUBSET S |-> IF s = {} THEN 0
            ELSE g[CHOOSE x \in s : TRUE] + h[s \ {CHOOSE x \in s : TRUE}]]
    BY <2>1
  <2> QED BY <2>2 DEF SumsUp
<1>3. Eq(f)
  BY <1>2
<1> HIDE DEF Eq
<1>4. Eq(CHOOSE h : Eq(h))
  BY <1>3
<1>5. SumsUp(CHOOSE h : Eq(h), g, S)
  BY <1>2, <1>4
<1>6. (CHOOSE h : Eq(h))[S] = f[S]
  BY <1>5, SumsUpUnique
<1> QED BY <1>1, <1>6

\* What the taxes of a document add up to.
LEMMA DocumentAdds ==
  ASSUME NEW S, IsFiniteSet(S), NEW g, \A t \in S : g[t] = t.base + t.tax,
         NEW f, SumsUp(f, g, S)
  PROVE  MapThenSumSet(LAMBDA t : t.base + t.tax, S) = f[S]
<1> DEFINE F(t) == t.base + t.tax
           Eq(h) == h = [s \in SUBSET S |-> IF s = {} THEN 0
                          ELSE F(CHOOSE x \in s : TRUE) + h[s \ {CHOOSE x \in s : TRUE}]]
<1>1. MapThenSumSet(LAMBDA t : t.base + t.tax, S) = (CHOOSE h : Eq(h))[S]
  BY DEF MapThenSumSet, MapThenFoldSet
<1>2. ASSUME NEW h PROVE Eq(h) <=> SumsUp(h, g, S)
  <2>1. \A s \in SUBSET S : s # {} => g[CHOOSE x \in s : TRUE] = F(CHOOSE x \in s : TRUE)
    OBVIOUS
  <2> HIDE DEF F
  <2>2. [s \in SUBSET S |-> IF s = {} THEN 0
            ELSE F(CHOOSE x \in s : TRUE) + h[s \ {CHOOSE x \in s : TRUE}]] =
        [s \in SUBSET S |-> IF s = {} THEN 0
            ELSE g[CHOOSE x \in s : TRUE] + h[s \ {CHOOSE x \in s : TRUE}]]
    BY <2>1
  <2> QED BY <2>2 DEF SumsUp
<1>3. Eq(f)
  BY <1>2
<1> HIDE DEF Eq
<1>4. Eq(CHOOSE h : Eq(h))
  BY <1>3
<1>5. SumsUp(CHOOSE h : Eq(h), g, S)
  BY <1>2, <1>4
<1>6. (CHOOSE h : Eq(h))[S] = f[S]
  BY <1>5, SumsUpUnique
<1> QED BY <1>1, <1>6

-----------------------------------------------------------------------------
(* An invoice against the sale it is made from.                            *)

\* A fraction of a cent is dropped, or a whole cent.
LEMMA TruncatedLoses ==
  ASSUME NEW x \in Nat, NEW c \in Truncated(x)
  PROVE  c \in Nat /\ x - 100 * c \in 0 .. 100
<1>1. x \div 100 \in Int /\ x % 100 \in 0 .. 99 /\ x = 100 * (x \div 100) + (x % 100)
  OBVIOUS
<1>2. c = x \div 100 \/ (x > 0 /\ x % 100 = 0 /\ c = x \div 100 - 1)
  BY DEF Truncated
<1> DEFINE q == x \div 100
           m == x % 100
<1>3. q \in Int /\ m \in 0 .. 99 /\ x = 100 * q + m /\ (c = q \/ (x > 0 /\ m = 0 /\ c = q - 1))
  BY <1>1, <1>2
<1> HIDE DEF q, m
<1> QED BY <1>3

\* A line is its subtotal and its tax, also when each of them has been rounded.
LEMMA LineAmounts ==
  ASSUME NEW l \in LineRange
  PROVE  Subtotal(l) \in Nat /\ TaxAmount(l) \in Nat /\ LineTotal(l) = Subtotal(l) + TaxAmount(l)
<1>1. l.quantity \in Nat /\ l.price \in Nat /\ 100 - l.discount \in Nat /\ l.rate \in Nat
  BY DEF LineRange
<1>2. \A m, n \in Nat : m * n \in Nat
  OBVIOUS
<1>3. Subtotal(l) \in Nat
  <2>1. l.quantity * l.price \in Nat
    BY <1>1, <1>2
  <2> QED BY <2>1, <1>1, <1>2 DEF Subtotal
<1> DEFINE s == Subtotal(l)
           r == l.rate
           p == s * r
<1>4. s \in Nat /\ r \in Nat /\ p \in Nat
  BY <1>1, <1>2, <1>3
<1>5. TaxAmount(l) = (p + 50) \div 100
  BY DEF TaxAmount, Rounded
<1>6. s * (100 + r) = 100 * s + p
  <2> HIDE DEF s, r
  <2> QED BY <1>4
<1>7. LineTotal(l) = (100 * s + p + 50) \div 100
  BY <1>6 DEF LineTotal, Rounded
<1> HIDE DEF s, r, p
<1>8. (p + 50) \div 100 \in Nat /\ (100 * s + p + 50) \div 100 = s + (p + 50) \div 100
  BY <1>4
<1> QED BY <1>4, <1>5, <1>7, <1>8 DEF s

\* Line by line.
LEMMA InvoiceLines ==
  ASSUME NEW lines \in Seq(LineRange), NEW invoice \in saleLinesToCof(lines)
  PROVE  /\ DOMAIN invoice = DOMAIN lines
         /\ \A i \in DOMAIN lines :
              /\ invoice[i].base \in Nat /\ invoice[i].tax \in Nat
              /\ LineTotal(lines[i]) \in Nat
              /\ LineTotal(lines[i]) - 100 * (invoice[i].base + invoice[i].tax) \in 0 .. 200
<1> DEFINE cents(l) == Truncated(Subtotal(l)) \X Truncated(TaxAmount(l))
<1>1. PICK c : /\ \A i \in DOMAIN lines : c[i] \in cents(lines[i])
               /\ invoice = [i \in DOMAIN lines |-> InvoiceLine(lines[i], c[i][1], c[i][2])]
  BY DEF saleLinesToCof
<1>2. ASSUME NEW i \in DOMAIN lines
      PROVE  /\ invoice[i].base \in Nat /\ invoice[i].tax \in Nat
             /\ LineTotal(lines[i]) \in Nat
             /\ LineTotal(lines[i]) - 100 * (invoice[i].base + invoice[i].tax) \in 0 .. 200
  <2>1. invoice[i].base = c[i][1] /\ invoice[i].tax = c[i][2]
    BY <1>1 DEF InvoiceLine
  <2>2. c[i][1] \in Truncated(Subtotal(lines[i])) /\ c[i][2] \in Truncated(TaxAmount(lines[i]))
    BY <1>1
  <2>3. lines[i] \in LineRange
    OBVIOUS
  <2> DEFINE s == Subtotal(lines[i])
             x == TaxAmount(lines[i])
             b == invoice[i].base
             t == invoice[i].tax
  <2>4. s \in Nat /\ x \in Nat /\ LineTotal(lines[i]) = s + x
    BY <2>3, LineAmounts
  <2>5. b \in Nat /\ s - 100 * b \in 0 .. 100
    BY <2>1, <2>2, <2>4, TruncatedLoses
  <2>6. t \in Nat /\ x - 100 * t \in 0 .. 100
    BY <2>1, <2>2, <2>4, TruncatedLoses
  <2> HIDE DEF s, x, b, t
  <2>7. s + x \in Nat /\ (s + x) - 100 * (b + t) \in 0 .. 200
    BY <2>4, <2>5, <2>6
  <2> QED BY <2>4, <2>5, <2>6, <2>7 DEF b, t
<1>3. DOMAIN invoice = DOMAIN lines
  BY <1>1
<1> QED BY <1>2, <1>3

\* The whole of an invoice asks for what was posted, but for two cents a line.
LEMMA InvoiceLoses ==
  ASSUME NEW lines \in Seq(LineRange), NEW invoice \in saleLinesToCof(lines)
  PROVE  toCents(Order(lines).total) - computeTotals(invoice) \in 0 .. 2 * Len(lines)
<1> DEFINE S == DOMAIN lines
           a == [i \in S |-> LineTotal(lines[i])]
           b == [i \in S |-> invoice[i].base + invoice[i].tax]
<1>1. S = 1 .. Len(lines) /\ Len(lines) \in Nat
  OBVIOUS
<1>2. IsFiniteSet(S) /\ Cardinality(S) = Len(lines)
  BY <1>1, FS_Interval
<1>3. PICK f : SumsUp(f, a, S)
  BY <1>2, SumsUpExists
<1>4. PICK g : SumsUp(g, b, S)
  BY <1>2, SumsUpExists
<1>5. \A i \in S : a[i] \in Nat /\ b[i] \in Nat /\ a[i] - 100 * b[i] \in 0 .. 200
  BY InvoiceLines
<1>6. SumOf(LineTotal, lines) = f[S]
  BY <1>2, <1>3, OrderAdds
<1>7. computeTotals(invoice) = g[S]
  <2>1. DOMAIN invoice = S
    BY InvoiceLines
  <2> QED BY <1>2, <1>4, <2>1, InvoiceAdds
<1>8. Order(lines).total = f[S]
  BY <1>6 DEF Order
<1> HIDE DEF a, b, S
<1>9. S \in SUBSET S
  OBVIOUS
<1>10. f[S] \in Nat /\ g[S] \in Nat
  <2>1. \A s \in SUBSET S : f[s] \in Nat
    BY <1>2, <1>3, <1>5, SumsUpType
  <2>2. \A s \in SUBSET S : g[s] \in Nat
    BY <1>2, <1>4, <1>5, SumsUpType
  <2> QED BY <1>9, <2>1, <2>2
<1>11. f[S] - 100 * g[S] \in 0 .. 200 * Cardinality(S)
  <2>1. \A i \in S : a[i] \in Int /\ b[i] \in Int /\ a[i] - 100 * b[i] \in 0 .. 200
    BY <1>5
  <2> QED BY <2>1, <1>2, <1>3, <1>4, <1>9, SumsUpLoss
<1> DEFINE p == f[S]
           q == g[S]
           n == Len(lines)
<1>12. p \in Nat /\ q \in Nat /\ n \in Nat /\ p - 100 * q \in 0 .. 200 * n
  BY <1>1, <1>2, <1>10, <1>11
<1>13. toCents(Order(lines).total) = (p + 50) \div 100 /\ computeTotals(invoice) = q
  BY <1>7, <1>8 DEF toCents, Rounded
<1> HIDE DEF p, q, n
<1>14. (p + 50) \div 100 - q \in 0 .. 2 * n
  BY <1>12
<1> QED BY <1>13, <1>14 DEF n

\* What the lines of an invoice say at each rate adds up to what they say.
LEMMA TaxesAddUp ==
  ASSUME NEW invoice, IsFiniteSet(DOMAIN invoice),
         \A i \in DOMAIN invoice : invoice[i].base \in Nat /\ invoice[i].tax \in Nat
  PROVE  MapThenSumSet(LAMBDA t : t.base + t.tax, aggregateTaxes(invoice)) = computeTotals(invoice)
<1> DEFINE S == DOMAIN invoice
           gb == [i \in S |-> invoice[i].base]
           gt == [i \in S |-> invoice[i].tax]
           gs == [i \in S |-> invoice[i].base + invoice[i].tax]
           D(r) == {j \in S : invoice[j].percent = r}
           at(r) == [i \in D(r) |-> invoice[i]]
           rates == {invoice[i].percent : i \in S}
           tax(r) == [percent |-> r, base |-> SumOf(LAMBDA l : l.base, at(r)), tax |-> SumOf(LAMBDA l : l.tax, at(r))]
           T == {tax(r) : r \in rates}
<1>0. IsFiniteSet(S)
  OBVIOUS
<1>1. aggregateTaxes(invoice) = T
  BY DEF aggregateTaxes
<1>2. PICK fb : SumsUp(fb, gb, S)
  BY SumsUpExists
<1>3. PICK ft : SumsUp(ft, gt, S)
  BY SumsUpExists
<1>4. PICK fs : SumsUp(fs, gs, S)
  BY SumsUpExists
<1>5. \A s \in SUBSET S : fs[s] = fb[s] + ft[s]
  <2>1. \A i \in S : gb[i] \in Int /\ gt[i] \in Int /\ gs[i] = gb[i] + gt[i]
    OBVIOUS
  <2> HIDE DEF gb, gt, gs, S
  <2> QED BY <1>0, <1>2, <1>3, <1>4, <2>1, SumsUpPlus
<1>6. \A i \in S : gs[i] \in Int
  OBVIOUS
<1>7. ASSUME NEW r
      PROVE  tax(r).percent = r /\ tax(r).base + tax(r).tax = fs[D(r)]
  <2>1. D(r) \in SUBSET S /\ DOMAIN at(r) = D(r)
    OBVIOUS
  <2>2. IsFiniteSet(D(r))
    BY <2>1, FS_Subset
  <2> DEFINE hb == [s \in SUBSET D(r) |-> fb[s]]
             ht == [s \in SUBSET D(r) |-> ft[s]]
  <2>3. SumsUp(hb, gb, D(r))
    <3> HIDE DEF gb, D, S
    <3> QED BY <1>2, <2>1, SumsUpRestricted
  <2>4. SumsUp(ht, gt, D(r))
    <3> HIDE DEF gt, D, S
    <3> QED BY <1>3, <2>1, SumsUpRestricted
  <2>5. \A i \in D(r) : gb[i] = at(r)[i].base /\ gt[i] = at(r)[i].tax
    OBVIOUS
  <2>6. SumOf(LAMBDA l : l.base, at(r)) = hb[D(r)]
    <3> HIDE DEF gb, D, S, at, hb
    <3> QED BY <2>1, <2>2, <2>3, <2>5, BasesAdd
  <2>7. SumOf(LAMBDA l : l.tax, at(r)) = ht[D(r)]
    <3> HIDE DEF gt, D, S, at, ht
    <3> QED BY <2>1, <2>2, <2>4, <2>5, TaxesAdd
  <2>8. hb[D(r)] = fb[D(r)] /\ ht[D(r)] = ft[D(r)]
    OBVIOUS
  <2>9. tax(r).percent = r /\ tax(r).base = SumOf(LAMBDA l : l.base, at(r)) /\ tax(r).tax = SumOf(LAMBDA l : l.tax, at(r))
    OBVIOUS
  <2> HIDE DEF tax, D, S, at, hb, ht
  <2> QED BY <1>5, <2>1, <2>6, <2>7, <2>8, <2>9
<1>8. IsFiniteSet(T)
  <2> DEFINE onto == [i \in S |-> tax(invoice[i].percent)]
  <2>1. onto \in Surjection(S, T)
    <3> HIDE DEF tax
    <3> QED BY DEF Surjection
  <2> HIDE DEF onto, S, T
  <2> QED BY <1>0, <2>1, FS_Surjection
<1> DEFINE G == [t \in T |-> t.base + t.tax]
           P(U) == {i \in S : tax(invoice[i].percent) \in U}
<1>9. PICK F : SumsUp(F, G, T)
  <2> HIDE DEF T, G
  <2> QED BY <1>8, SumsUpExists
<1> HIDE DEF tax
<1>10. \A U \in SUBSET T : F[U] = fs[P(U)]
  <2> DEFINE C == {U \in SUBSET T : F[U] # fs[P(U)]}
  <2>1. SUFFICES ASSUME C # {} PROVE FALSE
    OBVIOUS
  <2>2. PICK U \in C : \A V \in C : V \subseteq U => V = U
    <3> C \subseteq SUBSET T
      OBVIOUS
    <3> HIDE DEF C
    <3> QED BY <1>8, <2>1, MinimalSubset
  <2>3. U \in SUBSET T /\ F[U] # fs[P(U)]
    BY <2>2
  <2> HIDE DEF G
  <2>4. CASE U = {}
    <3>1. F[U] = 0
      BY <1>9, <2>3, <2>4 DEF SumsUp
    <3>2. P(U) = {}
      BY <2>4
    <3>3. fs[{}] = 0
      <4> HIDE DEF gs
      <4> QED BY <1>4 DEF SumsUp
    <3> QED BY <2>3, <3>1, <3>2, <3>3
  <2>5. CASE U # {}
    <3> DEFINE t == CHOOSE y \in U : TRUE
               V == U \ {t}
    <3>1. t \in U
      BY <2>5
    <3>2. F[U] = G[t] + F[V]
      BY <1>9, <2>3, <2>5 DEF SumsUp
    <3> HIDE DEF t
    <3>3. V \in SUBSET T /\ V \subseteq U /\ V # U
      BY <2>3, <3>1
    <3>4. F[V] = fs[P(V)]
      BY <2>2, <3>3
    <3>5. PICK r \in rates : t = tax(r)
      BY <2>3, <3>1
    <3>6. G[t] = fs[D(r)]
      <4>1. t \in T
        BY <2>3, <3>1
      <4>2. G[t] = t.base + t.tax
        BY <4>1 DEF G
      <4> QED BY <1>7, <3>5, <4>2
    <3>7. \A i \in S : tax(invoice[i].percent) = t <=> invoice[i].percent = r
      BY <1>7, <3>5
    <3>8. P(U) = P(V) \cup D(r) /\ D(r) \cap P(V) = {}
      BY <3>1, <3>7
    <3>9. P(V) \in SUBSET S /\ D(r) \in SUBSET S
      OBVIOUS
    <3>10. fs[P(V) \cup D(r)] = fs[P(V)] + fs[D(r)]
      <4> DEFINE A == P(V)
                 B == D(r)
      <4>1. A \subseteq S /\ B \subseteq S /\ B \cap A = {}
        BY <3>8, <3>9
      <4>2. IsFiniteSet(S) /\ SumsUp(fs, gs, S) /\ \A i \in S : gs[i] \in Int
        BY <1>0, <1>4, <1>6
      <4> HIDE DEF gs, S, A, B
      <4>3. fs[A \cup B] = fs[A] + fs[B]
        BY ONLY <4>1, <4>2, SumsUpDisjoint
      <4> QED BY <4>3 DEF A, B
    <3>11. fs[P(V)] \in Int /\ fs[D(r)] \in Int
      <4>1. \A s \in SUBSET S : fs[s] \in Int
        <5> HIDE DEF gs, S
        <5> QED BY <1>0, <1>4, <1>6, SumsUpType
      <4> QED BY <3>9, <4>1
    <3> HIDE DEF P, D, V, S, T, rates
    <3> QED BY <2>3, <3>2, <3>4, <3>6, <3>8, <3>10, <3>11
  <2> QED BY <2>4, <2>5
<1>11. P(T) = S
  OBVIOUS
<1>12. MapThenSumSet(LAMBDA t : t.base + t.tax, T) = F[T]
  <2>1. \A t \in T : G[t] = t.base + t.tax
    OBVIOUS
  <2> HIDE DEF T, G
  <2> QED BY <1>8, <1>9, <2>1, DocumentAdds
<1>13. computeTotals(invoice) = fs[S]
  <2>1. \A i \in S : gs[i] = invoice[i].base + invoice[i].tax
    OBVIOUS
  <2> HIDE DEF gs
  <2> QED BY <1>4, <2>1, InvoiceAdds
<1>14. F[T] = fs[S]
  <2> T \in SUBSET T
    OBVIOUS
  <2> HIDE DEF P, T, S
  <2> QED BY <1>10, <1>11
<1> HIDE DEF T, S
<1> QED BY <1>1, <1>12, <1>13, <1>14

\* What the invoice of a sale asks for is what was posted, whatever was read when.
THEOREM BilledAsPostedHolds == Spec => []BilledAsPosted
<1>1. OrderInv => BilledAsPosted
  <2> SUFFICES ASSUME OrderInv, OneDesk, NEW d \in DocumentIds, NEW e \in entries,
                      e.kind = "sale", e.sale = documents[d].sale,
                      NEW invoice \in saleLinesToCof(documents[d].order.lines)
               PROVE  /\ e.amount - computeTotals(invoice) \in 0..2 * Len(documents[d].order.lines)
                      /\ MapThenSumSet(LAMBDA t : t.base + t.tax, aggregateTaxes(invoice)) = computeTotals(invoice)
    BY DEF BilledAsPosted
  <2> DEFINE s == documents[d].sale
             o == documents[d].order
  <2>1. s \in SaleIds /\ o = sales[s].order
    BY DEF OrderInv, BilledInv
  <2>2. e.amount = toCents(o.total)
    BY <2>1 DEF OrderInv, DeskInv, SoldOnce
  <2>3. sales[s].status # "none"
    BY <2>1 DEF OrderInv, DraftInv, NoEffectOfADraft, Untouched
  <2>4. o \in Orders
    BY <2>1, <2>3 DEF OrderInv, BilledInv
  <2>5. o.lines \in Seq(LineRange) /\ o = Order(o.lines)
    BY <2>4, OrderAssumption
  <2> DEFINE lines == o.lines
  <2>6. e.amount = toCents(Order(lines).total)
    BY <2>2, <2>5
  <2>7. lines \in Seq(LineRange) /\ invoice \in saleLinesToCof(lines)
    BY <2>5
  <2> HIDE DEF lines
  <2>8. e.amount - computeTotals(invoice) \in 0..2 * Len(lines)
    BY <2>6, <2>7, InvoiceLoses
  <2>9. MapThenSumSet(LAMBDA t : t.base + t.tax, aggregateTaxes(invoice)) = computeTotals(invoice)
    <3>1. DOMAIN invoice = 1 .. Len(lines) /\ Len(lines) \in Nat
      BY <2>7, InvoiceLines
    <3>2. IsFiniteSet(DOMAIN invoice)
      BY <3>1, FS_Interval
    <3>3. \A i \in DOMAIN invoice : invoice[i].base \in Nat /\ invoice[i].tax \in Nat
      BY <2>7, InvoiceLines
    <3> QED BY <3>2, <3>3, TaxesAddUp
  <2> QED BY <2>8, <2>9 DEF lines
<1> QED
  BY <1>1, OrderInvariant, PTL
=============================================================================
