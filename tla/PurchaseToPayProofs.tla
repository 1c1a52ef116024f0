------------------------- MODULE PurchaseToPayProofs -------------------------
(* Theorems about PurchaseToPay, for every number of orders, withholdings, *)
(* payments, documents, concepts and concurrent requests, every            *)
(* distribution of Duties and every choice of Faults.                      *)
EXTENDS PurchaseToPay, FiniteSetTheorems, TLAPS

Step(w) == \/ OrderStep(w) \/ WithholdingStep(w) \/ ReceiptStep(w)
           \/ PaymentStep(w) \/ DocumentsStep(w) \/ Failure(w)

\* A step of w leaves the locals of all other requests alone.
Others(w) == \A v \in Clerks \ {w} : pc'[v] = pc[v] /\ job'[v] = job[v]

\* What a step does to the request that takes it keeps the types.
Moved(w) ==
  /\ pc' \in [Clerks -> Steps] /\ job' \in [Clerks -> Jobs]
  /\ Others(w)

Ends(w) == pc'[w] = "idle" /\ job'[w] = Idle
Goes(w, step) == pc'[w] = step /\ job'[w] = job[w]

LEMMA IdleType == Idle \in Jobs
BY DEF Idle, Jobs, Kinds

LEMMA EndMoves ==
  ASSUME TypeOK, NEW w \in Clerks, End(w)
  PROVE  Moved(w) /\ Ends(w)
BY IdleType DEF TypeOK, End, Goto, Moved, Others, Steps, Ends

LEMMA BeginMoves ==
  ASSUME TypeOK, NEW w \in Clerks, NEW p \in Steps, NEW j \in Jobs, Begin(w, p, j)
  PROVE  Moved(w) /\ pc'[w] = p /\ job'[w] = j
BY DEF TypeOK, Begin, Goto, Moved, Others

LEMMA GotoMoves ==
  ASSUME TypeOK, NEW w \in Clerks, NEW p \in Steps, Goto(w, p), UNCHANGED job
  PROVE  Moved(w) /\ Goes(w, p)
BY DEF TypeOK, Goto, Moved, Others, Goes

\* The other ways a request goes on with new locals.
LEMMA GivenMoves ==
  ASSUME TypeOK, NEW w \in Clerks, NEW p \in Steps, NEW j \in Jobs, Goto(w, p),
         job' = [job EXCEPT ![w] = j]
  PROVE  Moved(w) /\ pc'[w] = p /\ job'[w] = j
BY DEF TypeOK, Goto, Moved, Others

LEMMA NextHandlerMoves ==
  ASSUME TypeOK, NEW w \in Clerks, NextHandler(w)
  PROVE  Moved(w) /\ (IF job[w].kind = "receipt" THEN Goes(w, "entry") ELSE Ends(w))
BY EndMoves, GotoMoves DEF NextHandler, Steps

\* The locals a request begins with.
LEMMA Starts ==
  ASSUME TypeOK, NEW o \in OrderIds
  PROVE  /\ [Idle EXCEPT !.order = o] \in Jobs
         /\ [Idle EXCEPT !.order = o, !.total = orders[o].total] \in Jobs
         /\ \A a \in Amounts : [Idle EXCEPT !.order = o, !.amount = a] \in Jobs
         /\ [Idle EXCEPT !.order = o, !.document = orders[o].document] \in Jobs
<1>1. orders[o].total \in Nat /\ orders[o].document \in DocumentIds \cup {NoDocument}
  BY DEF TypeOK, Orders
<1>2. \A a \in Amounts : a \in Nat
  BY PurchaseAssumption
<1> QED
  BY <1>1, <1>2, IdleType DEF Jobs, Idle, Kinds

-----------------------------------------------------------------------------
(* Where the request that takes a step goes.                               *)

\* It begins; the disjuncts name the statement it goes to.
Begins(w) ==
  \/ pc'[w] = "save" /\ lastNumber' = lastNumber + 1 /\ orders' = orders
     /\ \E t \in Totals : job'[w] = [Idle EXCEPT !.total = t, !.seq = lastNumber']
  \/ \E o \in OrderIds :
       /\ pc'[w] \in {"delete", "confirm", "cancel"} /\ orders[o].status # "none"
       /\ pc'[w] = "confirm" => orders[o].status = "draft" /\ "confirm" \in Duties[w]
       /\ job'[w] = [Idle EXCEPT !.order = o] /\ UNCHANGED database
  \/ \E o \in OrderIds, a \in Amounts :
       /\ \/ pc'[w] = "withhold" /\ orders[o].status = "confirmed" /\ "withhold" \in Duties[w]
          \/ pc'[w] = "pay" /\ orders[o].status = "received"
       /\ job'[w] = [Idle EXCEPT !.order = o, !.amount = a] /\ UNCHANGED database
  \/ \E o \in OrderIds :
       /\ pc'[w] = "load" /\ orders[o].status = "confirmed" /\ "receive" \in Duties[w]
       /\ job'[w] = [Idle EXCEPT !.order = o, !.total = orders[o].total] /\ UNCHANGED database
  \/ pc'[w] = "folio" /\ job'[w] = [Idle EXCEPT !.summary = withholdings] /\ UNCHANGED database
  \/ \E o \in OrderIds :
       /\ pc'[w] = IF orders[o].document = NoDocument THEN "draft" ELSE "existing"
       /\ orders[o].status = "received" /\ "bill" \in Duties[w]
       /\ job'[w] = [Idle EXCEPT !.order = o, !.document = orders[o].document]
       /\ UNCHANGED database

\* It goes on.
Continues(w) ==
  \/ LoadWithholdings(w) /\ pc'[w] = "receive"
     /\ job'[w] = [job[w] EXCEPT !.withheld = loadWithholdings(job[w].order)]
  \/ ReceiveStatus(w) /\ Goes(w, "post")
  \/ pc[w] = "post" /\ job[w].kind = "receipt" /\ Goes(w, "entry")
  \/ pc[w] = "pay" /\ pc'[w] = "post"
     /\ \E p \in PaymentIds : /\ SavePayment(w, p) /\ Exists(job[w].order)
                              /\ job'[w] = [job[w] EXCEPT !.kind = "payment", !.payment = p]
  \/ NextCertificateNumber(w) /\ pc'[w] = "certificate"
     /\ job'[w] = [job[w] EXCEPT !.seq = lastFolio + 1]
  \/ pc[w] = "certificate" /\ pc'[w] = "folio"
     /\ \E c \in Concepts : job'[w] = [job[w] EXCEPT !.summary = Rest(w, c)]
  \/ CheckExisting(w) /\ Goes(w, "draft") /\ documents[job[w].document].status = "failed"
  \/ pc[w] = "draft" /\ pc'[w] = "link"
     /\ \E d \in DocumentIds : /\ CreateSupportDocumentDraft(w, d)
                               /\ job'[w] = [job[w] EXCEPT !.document = d]

Flow(w) ==
  \/ pc[w] = "idle" /\ Goes(w, "idle")
  \/ pc[w] = "idle" /\ Begins(w)
  \/ pc[w] # "idle" /\ Continues(w)
  \/ Ends(w)

Sound(w) == TypeOK' /\ Moved(w) /\ Flow(w)

LEMMA LostMoves ==
  ASSUME TypeOK, NEW w \in Clerks, Lost(w)
  PROVE  Moved(w) /\ Flow(w)
BY EndMoves DEF Lost, Flow

LEMMA StatusType ==
  ASSUME TypeOK, NEW o \in OrderIds, NEW s \in Statuses, UpdateStatus(o, s)
  PROVE  orders' \in [OrderIds -> Orders]
BY DEF UpdateStatus, TypeOK, Orders

LEMMA OrderTypes ==
  ASSUME TypeOK, LocalsOK, NEW w \in Clerks, OrderStep(w)
  PROVE  Sound(w)
<1> USE DEF Sound
<1>1. ASSUME NEW t \in Totals, handleCreate(w, t) PROVE Sound(w)
  <2>1. lastNumber' = lastNumber + 1 /\ lastNumber' \in Nat /\ t \in Nat /\ pc[w] = "idle"
    BY <1>1, PurchaseAssumption DEF handleCreate, Create, NextPurchaseNumber, Takes, TypeOK
  <2> DEFINE j == [Idle EXCEPT !.total = t, !.seq = lastNumber']
  <2>2. j \in Jobs
    BY <2>1, IdleType DEF Jobs, Idle
  <2>3. Lost(w) \/ (Goto(w, "save") /\ job' = [job EXCEPT ![w] = j])
    BY <1>1 DEF handleCreate, Create
  <2>4. Lost(w) \/ (Moved(w) /\ pc'[w] = "save" /\ job'[w] = j)
    <3> HIDE DEF j
    <3> QED
      BY <2>2, <2>3, GivenMoves DEF Steps
  <2>5. Moved(w) /\ Flow(w)
    BY <1>1, <2>1, <2>4, LostMoves DEF Flow, Begins, handleCreate, Create
  <2> QED
    BY <1>1, <2>1, <2>5 DEF handleCreate, Create, TypeOK, Moved
<1>2. ASSUME NEW n \in 1..MaxNumber, handleSetNumberCounter(w, n) PROVE Sound(w)
  BY <1>2, PurchaseAssumption DEF handleSetNumberCounter, SetPurchaseNumberCounter, Takes, TypeOK,
     Moved, Others, Flow, Goes
<1>3. CASE DeleteRow(w)
  <2>1. job[w].order \in OrderIds
    BY <1>3 DEF DeleteRow, LocalsOK
  <2>2. orders' \in [OrderIds -> Orders]
    BY <1>3, <2>1 DEF DeleteRow, TypeOK, Orders, Statuses
  <2> QED
    BY <1>3, <2>2, EndMoves DEF DeleteRow, TypeOK, Moved, Flow
<1>4. CASE ConfirmStatus(w) \/ CancelStatus(w)
  <2>1. job[w].order \in OrderIds
    BY <1>4 DEF ConfirmStatus, CancelStatus, LocalsOK
  <2>2. orders' \in [OrderIds -> Orders]
    BY <1>4, <2>1, StatusType DEF ConfirmStatus, CancelStatus, Statuses
  <2> QED
    BY <1>4, <2>2, EndMoves DEF ConfirmStatus, CancelStatus, TypeOK, Moved, Flow
<1>5. ASSUME NEW o \in OrderIds, Save(w, o) PROVE Sound(w)
  <2>1. job[w].seq \in Nat /\ job[w].total \in Nat
    BY DEF TypeOK, Jobs
  <2>2. orders' \in [OrderIds -> Orders]
    BY <1>5, <2>1 DEF Save, TypeOK, Orders, Statuses
  <2> QED
    BY <1>5, <2>2, EndMoves DEF Save, TypeOK, Moved, Flow
<1>6. ASSUME NEW o \in OrderIds, handleDelete(w, o) \/ handleConfirm(w, o) \/ handleCancel(w, o)
      PROVE  Sound(w)
  <2>1. /\ UNCHANGED database /\ pc[w] = "idle" /\ orders[o].status # "none"
        /\ handleConfirm(w, o) => orders[o].status = "draft" /\ "confirm" \in Duties[w]
    BY <1>6 DEF handleDelete, Delete, handleConfirm, Confirm, handleCancel, Cancel, Takes, GetByID, Begin
  <2>2. /\ Moved(w) /\ job'[w] = [Idle EXCEPT !.order = o]
        /\ \/ pc'[w] \in {"delete", "cancel"}
           \/ pc'[w] = "confirm" /\ handleConfirm(w, o)
    BY <1>6, Starts, BeginMoves DEF handleDelete, Delete, handleConfirm, Confirm, handleCancel, Cancel, Steps
  <2> QED
    BY <2>1, <2>2 DEF Flow, Begins, database, TypeOK, Moved
<1>7. ASSUME NEW o \in OrderIds, NEW t \in Totals, handleUpdate(w, o, t) PROVE Sound(w)
  <2>1. t \in Nat
    BY PurchaseAssumption
  <2>2. orders' \in [OrderIds -> Orders]
    BY <1>7, <2>1 DEF handleUpdate, UpdateOrder, Update, TypeOK, Orders
  <2> QED
    BY <1>7, <2>2 DEF handleUpdate, UpdateOrder, Takes, TypeOK, Moved, Others, Flow, Goes
<1> QED
  BY <1>1, <1>2, <1>3, <1>4, <1>5, <1>6, <1>7 DEF OrderStep

LEMMA WithholdingTypes ==
  ASSUME TypeOK, LocalsOK, NEW w \in Clerks, WithholdingStep(w)
  PROVE  Sound(w)
<1> USE DEF Sound
<1>1. ASSUME NEW o \in OrderIds, NEW a \in Amounts, handleAddWithholding(w, o, a) PROVE Sound(w)
  <2>1. UNCHANGED database /\ pc[w] = "idle" /\ orders[o].status = "confirmed" /\ "withhold" \in Duties[w]
    BY <1>1 DEF handleAddWithholding, AddWithholding, Takes, GetByID, Begin
  <2>2. Moved(w) /\ pc'[w] = "withhold" /\ job'[w] = [Idle EXCEPT !.order = o, !.amount = a]
    BY <1>1, Starts, BeginMoves DEF handleAddWithholding, AddWithholding, Steps
  <2> QED
    BY <2>1, <2>2 DEF Flow, Begins, database, TypeOK, Moved
<1>2. ASSUME NEW h \in WithholdingIds, NEW c \in Concepts, SaveWithholding(w, h, c) PROVE Sound(w)
  <2>1. job[w].order \in OrderIds /\ job[w].amount \in Nat
    BY <1>2 DEF SaveWithholding, LocalsOK, Acting, TypeOK, Jobs
  <2>2. withholdings' \subseteq Withholdings
    BY <1>2, <2>1 DEF SaveWithholding, TypeOK, Withholdings
  <2> QED
    BY <1>2, <2>2, EndMoves DEF SaveWithholding, TypeOK, Moved, Flow
<1>3. CASE handleIssueCertificates(w)
  <2>1. [Idle EXCEPT !.summary = withholdings] \in Jobs
    BY IdleType DEF Jobs, Idle, TypeOK
  <2>2. UNCHANGED database /\ pc[w] = "idle"
    BY <1>3 DEF handleIssueCertificates, IssueCertificates, Takes, Begin
  <2>3. Moved(w) /\ pc'[w] = "folio" /\ job'[w] = [Idle EXCEPT !.summary = withholdings]
    BY <1>3, <2>1, BeginMoves DEF handleIssueCertificates, IssueCertificates, Steps
  <2> QED
    BY <2>2, <2>3 DEF Flow, Begins, database, TypeOK, Moved
<1>4. CASE NextCertificateNumber(w)
  <2>1. lastFolio + 1 \in Nat /\ job[w] \in Jobs
    BY DEF TypeOK
  <2> DEFINE j == [job[w] EXCEPT !.seq = lastFolio + 1]
  <2>2. j \in Jobs
    BY <2>1 DEF Jobs
  <2>3. Lost(w) \/ (Goto(w, "certificate") /\ job' = [job EXCEPT ![w] = j])
    BY <1>4 DEF NextCertificateNumber
  <2>4. Lost(w) \/ (Moved(w) /\ pc'[w] = "certificate" /\ job'[w] = j)
    <3> HIDE DEF j
    <3> QED
      BY <2>2, <2>3, GivenMoves DEF Steps
  <2>5. Moved(w) /\ Flow(w)
    <3>1. pc[w] # "idle"
      BY <1>4 DEF NextCertificateNumber
    <3> QED
      BY <1>4, <2>4, <3>1, LostMoves DEF Flow, Continues
  <2> QED
    BY <1>4, <2>1, <2>5 DEF NextCertificateNumber, TypeOK, Moved
<1>5. ASSUME NEW c \in Concepts, CreateCertificate(w, c) PROVE Sound(w)
  <2>1. job[w] \in Jobs /\ job[w].summary \subseteq Withholdings /\ job[w].seq \in Nat
    BY DEF TypeOK, Jobs
  <2>2. Certificate(w, c) \in Certificates
    BY <2>1 DEF Certificate, OfConcept, Certificates
  <2>3. certificates' \subseteq Certificates
    BY <1>5, <2>2 DEF CreateCertificate, TypeOK
  <2> DEFINE j == [job[w] EXCEPT !.summary = Rest(w, c)]
  <2>4. j \in Jobs
    BY <2>1 DEF Jobs, Rest, OfConcept
  <2>5. End(w) \/ Lost(w) \/ (Goto(w, "folio") /\ job' = [job EXCEPT ![w] = j])
    BY <1>5 DEF CreateCertificate, NextConcept
  <2>6. End(w) \/ Lost(w) \/ (Moved(w) /\ pc'[w] = "folio" /\ job'[w] = j)
    <3> HIDE DEF j
    <3> QED
      BY <2>4, <2>5, GivenMoves DEF Steps
  <2>7. Moved(w) /\ Flow(w)
    <3>1. pc[w] = "certificate"
      BY <1>5 DEF CreateCertificate
    <3> QED
      BY <2>6, <3>1, LostMoves, EndMoves DEF Flow, Continues
  <2> QED
    BY <1>5, <2>3, <2>7 DEF CreateCertificate, TypeOK, Moved
<1> QED
  BY <1>1, <1>2, <1>3, <1>4, <1>5 DEF WithholdingStep

LEMMA ReceiptTypes ==
  ASSUME TypeOK, LocalsOK, NEW w \in Clerks, ReceiptStep(w)
  PROVE  Sound(w)
<1> USE DEF Sound
<1>1. ASSUME NEW o \in OrderIds, handleReceive(w, o) PROVE Sound(w)
  <2>1. UNCHANGED database /\ pc[w] = "idle" /\ orders[o].status = "confirmed" /\ "receive" \in Duties[w]
    BY <1>1 DEF handleReceive, Receive, Takes, GetByID, Begin
  <2>2. Moved(w) /\ pc'[w] = "load" /\ job'[w] = [Idle EXCEPT !.order = o, !.total = orders[o].total]
    BY <1>1, Starts, BeginMoves DEF handleReceive, Receive, Steps
  <2> QED
    BY <2>1, <2>2 DEF Flow, Begins, database, TypeOK, Moved
<1>2. CASE LoadWithholdings(w)
  <2> DEFINE j == [job[w] EXCEPT !.withheld = loadWithholdings(job[w].order)]
  <2>1. j \in Jobs
    BY DEF TypeOK, Jobs, loadWithholdings
  <2>2. Goto(w, "receive") /\ job' = [job EXCEPT ![w] = j]
    BY <1>2 DEF LoadWithholdings
  <2>3. Moved(w) /\ pc'[w] = "receive" /\ job'[w] = j
    <3> HIDE DEF j
    <3> QED
      BY <2>1, <2>2, GivenMoves DEF Steps
  <2>4. pc[w] # "idle" /\ UNCHANGED database
    BY <1>2 DEF LoadWithholdings
  <2> QED
    BY <1>2, <2>3, <2>4 DEF database, TypeOK, Moved, Flow, Continues
<1>3. CASE ReceiveStatus(w)
  <2>1. job[w].order \in OrderIds
    BY <1>3 DEF ReceiveStatus, LocalsOK, Acting, Receiving
  <2>2. orders' \in [OrderIds -> Orders]
    BY <1>3, <2>1, StatusType DEF ReceiveStatus, Statuses
  <2>3. Moved(w) /\ Flow(w)
    BY <1>3, GotoMoves, LostMoves DEF ReceiveStatus, Steps, Flow, Continues
  <2> QED
    BY <1>3, <2>2, <2>3 DEF ReceiveStatus, TypeOK, Moved
<1>4. CASE Post(w)
  <2>1. job[w].order \in OrderIds /\ job[w] \in Jobs
    BY <1>4 DEF Post, LocalsOK, Acting, Receiving, PostingPayment, TypeOK, Jobs, Kinds
  <2>2. Cardinality(entries) \in Nat
    BY FS_CardinalityType DEF TypeOK
  <2>3. Entry(w) \in Entries
    BY <2>1, <2>2 DEF Entry, Entries, Jobs
  <2>4. entries' \subseteq Entries /\ IsFiniteSet(entries')
    BY <1>4, <2>3, FS_AddElement DEF Post, TypeOK
  <2>5. Moved(w) /\ Flow(w)
    BY <1>4, NextHandlerMoves DEF Post, Flow, Continues
  <2> QED
    BY <1>4, <2>4, <2>5 DEF Post, TypeOK, Moved
<1>5. CASE TakeIn(w)
  <2>1. job[w].order \in OrderIds
    BY <1>5 DEF TakeIn, LocalsOK, Acting, Receiving
  <2>2. takenIn' \in [OrderIds -> Nat]
    BY <1>5, <2>1 DEF TakeIn, TypeOK
  <2> QED
    BY <1>5, <2>2, EndMoves DEF TakeIn, TypeOK, Moved, Flow
<1> QED
  BY <1>1, <1>2, <1>3, <1>4, <1>5 DEF ReceiptStep

LEMMA PaymentTypes ==
  ASSUME TypeOK, LocalsOK, NEW w \in Clerks, PaymentStep(w)
  PROVE  Sound(w)
<1> USE DEF Sound
<1>1. ASSUME NEW o \in OrderIds, NEW a \in Amounts, handleRecordPayment(w, o, a) PROVE Sound(w)
  <2>1. UNCHANGED database /\ pc[w] = "idle" /\ orders[o].status = "received"
    BY <1>1 DEF handleRecordPayment, Record, Takes, GetByID, Begin
  <2>2. Moved(w) /\ pc'[w] = "pay" /\ job'[w] = [Idle EXCEPT !.order = o, !.amount = a]
    BY <1>1, Starts, BeginMoves DEF handleRecordPayment, Record, Steps
  <2> QED
    BY <2>1, <2>2 DEF Flow, Begins, database, TypeOK, Moved
<1>2. ASSUME NEW p \in PaymentIds, SavePayment(w, p) PROVE Sound(w)
  <2>1. job[w].order \in OrderIds /\ job[w].amount \in Nat /\ job[w] \in Jobs
    BY <1>2 DEF SavePayment, LocalsOK, Acting, TypeOK, Jobs
  <2>2. payments' \subseteq Payments
    BY <1>2, <2>1 DEF SavePayment, PaymentOf, Payments, TypeOK
  <2> DEFINE j == [job[w] EXCEPT !.kind = "payment", !.payment = p]
  <2>3. j \in Jobs
    BY <2>1 DEF Jobs, Kinds
  <2>4. End(w) \/ Lost(w) \/ (Exists(job[w].order) /\ Goto(w, "post") /\ job' = [job EXCEPT ![w] = j])
    BY <1>2 DEF SavePayment
  <2>5. End(w) \/ Lost(w) \/ (Exists(job[w].order) /\ Moved(w) /\ pc'[w] = "post" /\ job'[w] = j)
    <3> HIDE DEF j
    <3> QED
      BY <2>3, <2>4, GivenMoves DEF Steps
  <2>6. Moved(w) /\ Flow(w)
    <3>1. pc[w] = "pay"
      BY <1>2 DEF SavePayment
    <3> QED
      BY <1>2, <2>5, <3>1, LostMoves, EndMoves DEF Flow, Continues
  <2> QED
    BY <1>2, <2>2, <2>6 DEF SavePayment, TypeOK, Moved
<1> QED
  BY <1>1, <1>2 DEF PaymentStep

LEMMA DocumentsTypes ==
  ASSUME TypeOK, LocalsOK, NEW w \in Clerks, DocumentsStep(w)
  PROVE  Sound(w)
<1> USE DEF Sound
<1>1. ASSUME NEW o \in OrderIds, handleCreateSupportDocFromPurchase(w, o) PROVE Sound(w)
  <2>1. UNCHANGED database /\ pc[w] = "idle" /\ orders[o].status = "received" /\ "bill" \in Duties[w]
    BY <1>1 DEF handleCreateSupportDocFromPurchase, FromPurchase, Takes, GetByID, Begin
  <2> DEFINE p == IF orders[o].document = NoDocument THEN "draft" ELSE "existing"
             j == [Idle EXCEPT !.order = o, !.document = orders[o].document]
  <2>2. p \in Steps /\ j \in Jobs /\ Begin(w, p, j)
    BY <1>1, Starts DEF handleCreateSupportDocFromPurchase, FromPurchase, Steps
  <2>3. Moved(w) /\ pc'[w] = p /\ job'[w] = j
    <3> HIDE DEF p, j
    <3> QED
      BY <2>2, BeginMoves
  <2> QED
    BY <2>1, <2>3 DEF Flow, Begins, database, TypeOK, Moved
<1>2. CASE CheckExisting(w)
  <2>1. Moved(w) /\ Flow(w)
    BY <1>2, GotoMoves, EndMoves DEF CheckExisting, Steps, Flow, Continues
  <2> QED
    BY <1>2, <2>1 DEF CheckExisting, database, TypeOK, Moved
<1>3. CASE SetSupportDocumentID(w)
  <2>1. job[w].document \in DocumentIds /\ job[w].order \in OrderIds
    BY <1>3 DEF SetSupportDocumentID, LocalsOK, Acting, Billing
  <2>2. orders' \in [OrderIds -> Orders]
    BY <1>3, <2>1 DEF SetSupportDocumentID, TypeOK, Orders
  <2> QED
    BY <1>3, <2>2, EndMoves DEF SetSupportDocumentID, TypeOK, Moved, Flow
<1>4. ASSUME NEW d \in DocumentIds, CreateSupportDocumentDraft(w, d) PROVE Sound(w)
  <2>1. job[w].order \in OrderIds /\ job[w] \in Jobs /\ pc[w] = "draft"
    BY <1>4 DEF CreateSupportDocumentDraft, LocalsOK, Acting, Billing, TypeOK
  <2>2. documents' \in [DocumentIds -> Documents]
    BY <1>4, <2>1 DEF CreateSupportDocumentDraft, TypeOK, Documents, DocumentStatuses
  <2> DEFINE j == [job[w] EXCEPT !.document = d]
  <2>3. j \in Jobs
    BY <2>1 DEF Jobs
  <2>4. Lost(w) \/ (Goto(w, "link") /\ job' = [job EXCEPT ![w] = j])
    BY <1>4 DEF CreateSupportDocumentDraft
  <2>5. Lost(w) \/ (Moved(w) /\ pc'[w] = "link" /\ job'[w] = j)
    <3> HIDE DEF j
    <3> QED
      BY <2>3, <2>4, GivenMoves DEF Steps
  <2>6. Moved(w) /\ Flow(w)
    BY <1>4, <2>1, <2>5, LostMoves DEF Flow, Continues
  <2> QED
    BY <1>4, <2>2, <2>6 DEF CreateSupportDocumentDraft, TypeOK, Moved
<1> QED
  BY <1>1, <1>2, <1>3, <1>4 DEF DocumentsStep

LEMMA FailureTypes ==
  ASSUME TypeOK, NEW w \in Clerks, Failure(w)
  PROVE  Sound(w)
<1>1. Moved(w) /\ Flow(w) /\ UNCHANGED database
  BY EndMoves, NextHandlerMoves DEF Failure, StatementFails, Crash, Flow, Continues
<1> QED
  BY <1>1 DEF TypeOK, Moved, Sound, database

LEMMA StepSound ==
  ASSUME TypeOK, LocalsOK, NEW w \in Clerks, Step(w)
  PROVE  Sound(w)
BY OrderTypes, WithholdingTypes, ReceiptTypes, PaymentTypes, DocumentsTypes, FailureTypes DEF Step

DocumentStepOf(d) == DocumentConfirmed(d) \/ DocumentFailed(d) \/ DeleteDraft(d)

LEMMA DocumentTypes ==
  ASSUME TypeOK, NEW d \in DocumentIds, DocumentStepOf(d)
  PROVE  TypeOK'
<1>1. documents' \in [DocumentIds -> Documents]
  BY DEF DocumentStepOf, DocumentConfirmed, DocumentFailed, DeleteDraft, DocumentStep, Documents,
         DocumentStatuses, TypeOK
<1> QED
  BY <1>1 DEF DocumentStepOf, DocumentConfirmed, DocumentFailed, DeleteDraft, DocumentStep, TypeOK

-----------------------------------------------------------------------------
(* Which steps write which table.                                          *)

WritesOrders(w) ==
  \/ \E o \in OrderIds : Save(w, o) \/ \E t \in Totals : handleUpdate(w, o, t)
  \/ DeleteRow(w) \/ ConfirmStatus(w) \/ CancelStatus(w) \/ ReceiveStatus(w)
  \/ SetSupportDocumentID(w)

LEMMA Writers ==
  ASSUME NEW w \in Clerks, Step(w)
  PROVE  /\ orders' = orders \/ WritesOrders(w)
         /\ withholdings' = withholdings
              \/ \E h \in WithholdingIds, c \in Concepts : SaveWithholding(w, h, c)
         /\ payments' = payments \/ \E p \in PaymentIds : SavePayment(w, p)
         /\ documents' = documents \/ \E d \in DocumentIds : CreateSupportDocumentDraft(w, d)
         /\ entries' = entries \/ Post(w)
         /\ takenIn' = takenIn \/ TakeIn(w)
         /\ certificates' = certificates \/ \E c \in Concepts : CreateCertificate(w, c)
         /\ lastFolio' = lastFolio \/ NextCertificateNumber(w)
         /\ \/ lastNumber' = lastNumber
            \/ \E t \in Totals : handleCreate(w, t)
            \/ \E n \in 1..MaxNumber : handleSetNumberCounter(w, n)
<1> USE DEF WritesOrders
<1>1. CASE OrderStep(w)
  BY <1>1 DEF OrderStep, handleCreate, Create, handleSetNumberCounter, SetPurchaseNumberCounter,
     DeleteRow, ConfirmStatus, CancelStatus, Save, handleDelete, Delete, handleConfirm, Confirm,
     handleCancel, Cancel, handleUpdate, UpdateOrder, Begin, database
<1>2. CASE WithholdingStep(w)
  BY <1>2 DEF WithholdingStep, handleAddWithholding, AddWithholding, SaveWithholding,
     handleIssueCertificates, IssueCertificates, NextCertificateNumber, CreateCertificate,
     Begin, database
<1>3. CASE ReceiptStep(w)
  BY <1>3 DEF ReceiptStep, handleReceive, Receive, LoadWithholdings, ReceiveStatus, Post, TakeIn,
     Begin, database
<1>4. CASE PaymentStep(w)
  BY <1>4 DEF PaymentStep, handleRecordPayment, Record, SavePayment, Begin, database
<1>5. CASE DocumentsStep(w)
  BY <1>5 DEF DocumentsStep, handleCreateSupportDocFromPurchase, FromPurchase, CheckExisting,
     SetSupportDocumentID, CreateSupportDocumentDraft, Begin, database
<1>6. CASE Failure(w)
  BY <1>6 DEF Failure, StatementFails, Crash, database
<1> QED
  BY <1>1, <1>2, <1>3, <1>4, <1>5, <1>6 DEF Step

\* How a step changes the row of one order.
OrderChange(w, o) ==
  \/ orders'[o] = orders[o]
  \/ /\ Save(w, o)
     /\ orders[o].status = "none" /\ ~Numbered(job[w].seq)
     /\ orders'[o] = [status |-> "draft", number |-> job[w].seq, total |-> job[w].total,
                      document |-> NoDocument]
  \/ \E t \in Totals : /\ handleUpdate(w, o, t)
                       /\ orders[o].status = "draft"
                       /\ orders'[o] = [orders[o] EXCEPT !.total = t]
  \/ /\ o = job[w].order /\ Exists(o)
     /\ \/ /\ DeleteRow(w) /\ loadWithholdings(o) = {} /\ PaymentsOf(o) = {}
           /\ orders'[o] = [orders[o] EXCEPT !.status = "deleted"]
        \/ ConfirmStatus(w) /\ orders'[o] = [orders[o] EXCEPT !.status = "confirmed"]
        \/ CancelStatus(w) /\ orders'[o] = [orders[o] EXCEPT !.status = "cancelled"]
        \/ ReceiveStatus(w) /\ orders'[o] = [orders[o] EXCEPT !.status = "received"]
        \/ SetSupportDocumentID(w) /\ orders'[o] = [orders[o] EXCEPT !.document = job[w].document]

LEMMA OrderChanges ==
  ASSUME TypeOK, LocalsOK, NEW w \in Clerks, NEW o \in OrderIds, Step(w)
  PROVE  OrderChange(w, o)
<1> USE DEF TypeOK, OrderChange
<1>1. ASSUME NEW r \in OrderIds, Save(w, r) PROVE OrderChange(w, o)
  BY <1>1 DEF Save
<1>2. ASSUME NEW r \in OrderIds, NEW t \in Totals, handleUpdate(w, r, t) PROVE OrderChange(w, o)
  BY <1>2 DEF handleUpdate, UpdateOrder, Update
<1>3. CASE DeleteRow(w)
  BY <1>3 DEF DeleteRow
<1>4. CASE ConfirmStatus(w) \/ CancelStatus(w) \/ ReceiveStatus(w)
  BY <1>4 DEF ConfirmStatus, CancelStatus, ReceiveStatus, UpdateStatus
<1>5. CASE SetSupportDocumentID(w)
  BY <1>5 DEF SetSupportDocumentID
<1> QED
  BY <1>1, <1>2, <1>3, <1>4, <1>5, Writers DEF WritesOrders

-----------------------------------------------------------------------------
(* The parts of the invariant, one after another.                          *)

LEMMA LocalsStep ==
  ASSUME TypeOK, LocalsOK, NEW w \in Clerks, Step(w)
  PROVE  LocalsOK'
<1>1. Flow(w) /\ Moved(w)
  BY StepSound DEF Sound
<1>2. job[w] \in Jobs /\ Idle.kind = "receipt" /\ Idle.withheld = {}
  BY DEF TypeOK, Idle
<1> USE DEF Flow, Begins, Continues, Goes, Ends, LocalsOK, Jobs, Idle,
        LoadWithholdings, ReceiveStatus, NextCertificateNumber, CheckExisting
<1>3. Acting(w)' \/ pc'[w] \in {"delete", "confirm", "cancel"} => job'[w].order \in OrderIds
  BY <1>1, <1>2 DEF Acting, Receiving, PostingPayment, Billing
<1>4. pc'[w] \in {"existing", "link"} => job'[w].document \in DocumentIds
  <2>1. \A o \in OrderIds : orders[o].document \in DocumentIds \cup {NoDocument}
    BY DEF TypeOK, Orders
  <2> QED
    BY <1>1, <1>2, <2>1
<1>5. PostingPayment(w)' => job'[w].payment \in PaymentIds /\ job'[w].withheld = {}
  BY <1>1, <1>2 DEF PostingPayment
<1>6. pc'[w] # "post" => job'[w].kind = "receipt"
  BY <1>1, <1>2
<1>7. pc'[w] = "pay" => job'[w].withheld = {}
  BY <1>1, <1>2
<1>8. Receiving(w)' => "receive" \in Duties[w]
  BY <1>1, <1>2 DEF Receiving
<1>9. /\ pc'[w] = "withhold" => "withhold" \in Duties[w]
      /\ pc'[w] = "confirm" => "confirm" \in Duties[w]
      /\ Billing(w)' => "bill" \in Duties[w]
  BY <1>1, <1>2 DEF Billing
<1> QED
  BY <1>1, <1>3, <1>4, <1>5, <1>6, <1>7, <1>8, <1>9 DEF LocalsOK, Moved, Others, Acting,
     Receiving, PostingPayment, Billing

LEMMA CertificateStep ==
  ASSUME TypeOK, LocalsOK, CertificateInv, NEW w \in Clerks, Step(w)
  PROVE  CertificateInv'
<1>1. Flow(w) /\ Others(w)
  BY StepSound DEF Sound, Moved
<1>2. \A v \in Clerks \ {w} : pc'[v] = pc[v] /\ job'[v] = job[v]
  BY <1>1 DEF Others
<1>3. withholdings \subseteq withholdings'
  BY Writers DEF SaveWithholding
<1>4. lastFolio \in Nat /\ lastFolio <= lastFolio' /\ lastFolio' \in Nat
      /\ \A v \in Clerks : job[v].seq \in Nat
  BY Writers DEF NextCertificateNumber, TypeOK, Jobs
<1>5. ASSUME NEW v \in Clerks PROVE job'[v].summary \subseteq withholdings'
  <2>1. job[v].summary \subseteq withholdings /\ job[w].summary \subseteq withholdings
    BY DEF CertificateInv
  <2>2. CASE v = w
    <3>1. job[w] \in Jobs
      BY DEF TypeOK
    <3>2. job'[w].summary \subseteq job[w].summary \cup withholdings
      <4>1. CASE Begins(w) \/ Ends(w)
        <5>1. /\ Idle.summary = {} /\ [Idle EXCEPT !.summary = withholdings].summary = withholdings
              /\ \A t \in Totals : [Idle EXCEPT !.total = t, !.seq = lastNumber'].summary = {}
          BY DEF Idle
        <5>2. \A o \in OrderIds :
                /\ [Idle EXCEPT !.order = o].summary = {}
                /\ [Idle EXCEPT !.order = o, !.total = orders[o].total].summary = {}
                /\ [Idle EXCEPT !.order = o, !.document = orders[o].document].summary = {}
                /\ \A a \in Amounts : [Idle EXCEPT !.order = o, !.amount = a].summary = {}
          BY DEF Idle
        <5> QED
          BY <4>1, <5>1, <5>2, Zenon DEF Begins, Ends
      <4>2. CASE Continues(w) \/ Goes(w, "idle")
        BY <3>1, <4>2 DEF Continues, Goes, Jobs, Rest
      <4> QED
        BY <1>1, <4>1, <4>2 DEF Flow
    <3> QED
      BY <1>3, <2>1, <2>2, <3>2
  <2> QED
    BY <1>2, <1>3, <2>1, <2>2
<1>6. pc'[w] = "certificate" => /\ NextCertificateNumber(w) /\ job'[w].seq = lastFolio + 1
                               /\ lastFolio' = lastFolio + 1 /\ certificates' = certificates
  <2>1. job[w] \in Jobs
    BY DEF TypeOK
  <2> QED
    BY <1>1, <2>1 DEF Flow, Begins, Continues, Goes, Ends, Jobs, NextCertificateNumber,
       LoadWithholdings, ReceiveStatus, CheckExisting
\* The certificate that is made, if one is.
<1>7. \/ certificates' = certificates
      \/ \E c \in Concepts :
           /\ pc[w] = "certificate" /\ ~Certified(c) /\ OfConcept(job[w].summary, c) # {}
           /\ certificates' = certificates \cup {Certificate(w, c)} /\ lastFolio' = lastFolio
  BY Writers DEF CreateCertificate
<1>8. CertifiedOnce' /\ \A x \in certificates' : x.number <= lastFolio'
  <2>1. ASSUME NEW x \in certificates
        PROVE  /\ x.rows # {} /\ x.rows \subseteq OfConcept(withholdings', x.concept)
               /\ x.number <= lastFolio'
    <3>1. x.rows # {} /\ x.rows \subseteq OfConcept(withholdings, x.concept) /\ x.number <= lastFolio
      BY DEF CertificateInv, CertifiedOnce
    <3>2. x.number \in Nat
      BY DEF TypeOK, Certificates
    <3> QED
      BY <1>3, <1>4, <3>1, <3>2 DEF OfConcept
  <2>2. CASE certificates' = certificates
    BY <2>1, <2>2 DEF CertificateInv, CertifiedOnce, OfConcept
  <2>3. ASSUME NEW c \in Concepts, pc[w] = "certificate", ~Certified(c),
               OfConcept(job[w].summary, c) # {},
               certificates' = certificates \cup {Certificate(w, c)}, lastFolio' = lastFolio
        PROVE  CertifiedOnce' /\ \A x \in certificates' : x.number <= lastFolio'
    <3> DEFINE new == Certificate(w, c)
    <3>1. /\ new.number = job[w].seq /\ new.concept = c /\ new.rows = OfConcept(job[w].summary, c)
      BY DEF Certificate
    <3>2. /\ job[w].summary \subseteq withholdings' /\ job[w].seq <= lastFolio
          /\ \A x \in certificates : x.number # job[w].seq
      BY <1>3, <2>3 DEF CertificateInv
    <3>3. new.rows \subseteq OfConcept(withholdings', c)
      BY <3>1, <3>2 DEF OfConcept
    <3>4. \A x \in certificates : x.number # new.number /\ x.concept # new.concept
      BY <2>3, <3>1, <3>2 DEF Certified
    <3>5. \A x, y \in certificates : x.number = y.number \/ x.concept = y.concept => x = y
      BY DEF CertificateInv, CertifiedOnce
    <3> HIDE DEF new
    <3>6. \A x, y \in certificates' : x.number = y.number \/ x.concept = y.concept => x = y
      BY <2>3, <3>4, <3>5 DEF new
    <3>7. \A x \in certificates' : x.rows # {} /\ x.rows \subseteq OfConcept(withholdings', x.concept)
                                   /\ x.number <= lastFolio'
      BY <2>1, <2>3, <3>1, <3>2, <3>3 DEF new
    <3> QED
      BY <3>6, <3>7 DEF CertifiedOnce, OfConcept
  <2> QED
    BY <1>7, <2>2, <2>3
<1>9. ASSUME NEW u \in Clerks, pc'[u] = "certificate"
      PROVE  /\ job'[u].seq <= lastFolio'
             /\ \A x \in certificates' : x.number # job'[u].seq
             /\ \A v \in Clerks : pc'[v] = "certificate" /\ job'[v].seq = job'[u].seq => v = u
  <2>1. \A v \in Clerks : pc[v] = "certificate" =>
          /\ job[v].seq <= lastFolio /\ \A x \in certificates : x.number # job[v].seq
          /\ \A z \in Clerks : pc[z] = "certificate" /\ job[z].seq = job[v].seq => z = v
    BY DEF CertificateInv
  <2>2. CASE u = w
    <3>1. \A x \in certificates : x.number <= lastFolio /\ x.number \in Nat
      BY DEF CertificateInv, TypeOK, Certificates
    <3> QED
      BY <1>2, <1>4, <1>6, <1>9, <2>1, <2>2, <3>1
  <2>3. CASE u # w
    <3>1. pc[u] = "certificate" /\ job'[u] = job[u]
      BY <1>2, <1>9, <2>3
    <3>2. \A x \in certificates' : x.number # job[u].seq
      BY <1>7, <2>1, <2>3, <3>1 DEF Certificate
    <3> QED
      BY <1>2, <1>4, <1>6, <2>1, <2>3, <3>1, <3>2
  <2> QED
    BY <2>2, <2>3
<1> QED
  BY <1>5, <1>8, <1>9 DEF CertificateInv

LEMMA NumberStep ==
  ASSUME TypeOK, LocalsOK, NumberInv, NEW w \in Clerks, Step(w)
  PROVE  NumberInv'
<1>1. TypeOK' /\ Flow(w) /\ Others(w)
  BY StepSound DEF Sound, Moved
<1>2. \A v \in Clerks \ {w} : pc'[v] = pc[v] /\ job'[v] = job[v]
  BY <1>1 DEF Others
<1>3. pc'[w] = "save" => lastNumber' = lastNumber + 1 /\ orders' = orders /\ job'[w].seq = lastNumber + 1
  BY <1>1 DEF Flow, Begins, Continues, Goes, Ends, Idle, LoadWithholdings, ReceiveStatus,
     NextCertificateNumber, CheckExisting
<1>4. lastNumber \in Nat /\ lastNumber' \in Nat /\ \A o \in OrderIds : orders[o].number \in Nat
  BY <1>1 DEF TypeOK, Orders
<1>5. lastNumber' >= lastNumber
  <2>1. ASSUME NEW n \in 1..MaxNumber, handleSetNumberCounter(w, n)
        PROVE lastNumber' >= lastNumber
    BY <1>4, <2>1, PurchaseAssumption DEF handleSetNumberCounter, SetPurchaseNumberCounter
  <2>2. ASSUME NEW t \in Totals, handleCreate(w, t) PROVE lastNumber' >= lastNumber
    BY <1>4, <2>2 DEF handleCreate, Create, NextPurchaseNumber
  <2>3. lastNumber' = lastNumber => lastNumber' >= lastNumber
    BY <1>4
  <2> QED
    BY <2>1, <2>2, <2>3, Writers
<1>6. ASSUME NEW o \in OrderIds
      PROVE  \/ /\ orders'[o].number = orders[o].number
                /\ orders[o].status = "deleted" => orders'[o].status = "deleted"
             \/ pc[w] = "save" /\ pc'[w] = "idle" /\ orders'[o].number = job[w].seq
  <2>1. OrderChange(w, o) /\ orders[o] \in Orders
    BY OrderChanges DEF TypeOK
  <2>2. Save(w, o) => pc[w] = "save" /\ pc'[w] = "idle"
    BY EndMoves DEF Save, Ends
  <2>3. CASE Save(w, o)
    <3>1. orders'[o] = orders[o] \/ orders'[o].number = job[w].seq
      BY <2>1, <2>3 DEF Save, TypeOK
    <3> QED
      BY <2>2, <2>3, <3>1
  <2>4. CASE ~Save(w, o)
    BY <2>1, <2>4 DEF OrderChange, Orders, Exists, GetByID
  <2> QED
    BY <2>3, <2>4
<1>7. ASSUME NEW o \in OrderIds PROVE orders'[o].number <= lastNumber'
  <2>1. job[w].seq \in Nat
    BY DEF TypeOK, Jobs
  <2> QED
    BY <1>4, <1>5, <1>6, <2>1 DEF NumberInv
<1>8. ASSUME NEW u \in Clerks, pc'[u] = "save"
      PROVE  /\ ~Numbered(job[u].seq)'
             /\ job'[u].seq \in 1..lastNumber'
             /\ \A v \in Clerks : pc'[v] = "save" /\ job'[v].seq = job'[u].seq => v = u
  <2>1. CASE u = w
    <3>1. job'[u].seq = lastNumber + 1 /\ orders' = orders /\ lastNumber' = lastNumber + 1
      BY <1>3, <1>8, <2>1
    <3>2. ~Numbered(job[u].seq)'
      BY <1>4, <3>1 DEF NumberInv, Numbered
    <3>3. \A v \in Clerks \ {w} : pc'[v] = "save" => job'[v].seq \in 1..lastNumber
      BY <1>2 DEF NumberInv
    <3> QED
      BY <1>4, <2>1, <3>1, <3>2, <3>3
  <2>2. CASE u # w
    <3>1. pc[u] = "save" /\ job'[u] = job[u]
      BY <1>2, <1>8, <2>2
    <3>2. ~Numbered(job[u].seq)'
      BY <1>6, <2>2, <3>1 DEF NumberInv, NumbersAreFree, Numbered
    <3>3. job[u].seq \in 1..lastNumber
      BY <3>1 DEF NumberInv
    <3>4. ASSUME NEW v \in Clerks, pc'[v] = "save", job'[v].seq = job'[u].seq PROVE v = u
      BY <1>2, <1>3, <1>4, <2>2, <3>1, <3>3, <3>4 DEF NumberInv
    <3> QED
      BY <1>4, <1>5, <3>1, <3>2, <3>3, <3>4
  <2> QED
    BY <2>1, <2>2
<1> QED
  BY <1>7, <1>8 DEF NumberInv, NumbersAreFree

LEMMA PaymentInvStep ==
  ASSUME TypeOK, LocalsOK, PaymentInv, NEW w \in Clerks, Step(w)
  PROVE  PaymentInv'
<1>1. Flow(w) /\ Others(w) /\ job[w] \in Jobs
  BY StepSound DEF Sound, Moved, TypeOK
<1>2. \A v \in Clerks \ {w} : pc'[v] = pc[v] /\ job'[v] = job[v]
  BY <1>1 DEF Others
\* The step by which a request comes to post a payment.
<1>3. ASSUME PostingPayment(w)'
      PROVE  \E p \in PaymentIds :
               /\ SavePayment(w, p) /\ Exists(job[w].order) /\ pc[w] = "pay"
               /\ job'[w].payment = p /\ job'[w].order = job[w].order /\ job'[w].amount = job[w].amount
  <2>1. ~Begins(w) /\ ~Ends(w) /\ ~Goes(w, "idle")
    BY <1>3 DEF PostingPayment, Begins, Ends, Goes
  <2>2. Continues(w)
    BY <1>1, <2>1 DEF Flow
  <2>3. ~(ReceiveStatus(w) /\ Goes(w, "post"))
    BY <1>3 DEF ReceiveStatus, Goes, LocalsOK, PostingPayment
  <2> QED
    BY <1>1, <1>3, <2>2, <2>3 DEF Continues, Goes, PostingPayment, Jobs
<1>4. ASSUME NEW p \in PaymentIds, SavePayment(w, p), Exists(job[w].order) PROVE PaymentInv'
  <2>1. /\ payments' = payments \cup {PaymentOf(w, p)} /\ entries' = entries
        /\ \A q \in payments : q.id # p
    BY <1>4 DEF SavePayment, Unpaid
  <2>2. /\ PaymentOf(w, p).id = p /\ PaymentOf(w, p).order = job[w].order
        /\ PaymentOf(w, p).amount = job[w].amount
    BY DEF PaymentOf
  <2>3. \A e \in entries : e.kind = "payment" => e.payment # p
    BY <2>1 DEF PaymentInv, PaymentPostedOnce
  <2>4. \A v \in Clerks : PostingPayment(v) => job[v].payment # p
    BY <2>1 DEF PaymentInv
  <2>5. PaymentPostedOnce' /\ \A r, q \in payments' : r.id = q.id => r = q
    BY <2>1, <2>2 DEF PaymentInv, PaymentPostedOnce
  <2>6. PostingPayment(w)' => /\ job'[w].payment = p /\ job'[w].order = job[w].order
                              /\ job'[w].amount = job[w].amount
    <3> SUFFICES ASSUME PostingPayment(w)'
                 PROVE  job'[w].payment = p /\ job'[w].order = job[w].order
                        /\ job'[w].amount = job[w].amount
      OBVIOUS
    <3>1. PICK q \in PaymentIds :
            /\ SavePayment(w, q) /\ Exists(job[w].order)
            /\ job'[w].payment = q /\ job'[w].order = job[w].order /\ job'[w].amount = job[w].amount
      BY <1>3
    <3>2. payments' = payments \cup {PaymentOf(w, q)} /\ PaymentOf(w, q).id = q
          /\ \A r \in payments : r.id # q
      BY <3>1 DEF SavePayment, PaymentOf, Unpaid
    <3>3. p = q
      BY <2>1, <2>2, <3>2
    <3> QED
      BY <3>1, <3>3
  <2>7. ASSUME NEW u \in Clerks, PostingPayment(u)'
        PROVE  /\ [id |-> job'[u].payment, order |-> job'[u].order, amount |-> job'[u].amount] \in payments'
               /\ \A e \in entries' : e.kind = "payment" => e.payment # job'[u].payment
               /\ \A v \in Clerks : PostingPayment(v)' /\ job'[v].payment = job'[u].payment => v = u
    <3>1. \A v \in Clerks \ {w} : PostingPayment(v)' => PostingPayment(v)
      BY <1>2 DEF PostingPayment
    <3>2. CASE u = w
      BY <1>2, <2>1, <2>3, <2>4, <2>6, <2>7, <3>1, <3>2 DEF PaymentOf
    <3>3. CASE u # w
      BY <1>2, <2>1, <2>4, <2>6, <2>7, <3>1, <3>3 DEF PaymentInv
    <3> QED
      BY <3>2, <3>3
  <2> QED
    BY <2>5, <2>7 DEF PaymentInv
<1>5. ASSUME payments' = payments, ~PostingPayment(w)' PROVE PaymentInv'
  <2>1. \A v \in Clerks : PostingPayment(v)' => v # w /\ PostingPayment(v) /\ job'[v] = job[v]
    BY <1>2, <1>5 DEF PostingPayment
  <2>2. CASE entries' = entries
    BY <1>5, <2>1, <2>2 DEF PaymentInv, PaymentPostedOnce
  <2>3. CASE Post(w) /\ entries' # entries
    <3> DEFINE new == Entry(w)
    <3>1. entries' = entries \cup {new} /\ pc[w] = "post"
      BY <2>3 DEF Post
    <3>2. /\ new.kind = job[w].kind /\ new.payment = job[w].payment
          /\ new.order = job[w].order
          /\ job[w].kind = "payment" => new.amount = job[w].amount
      BY DEF Entry
    <3>3. job[w].kind = "payment" => PostingPayment(w)
      BY <3>1 DEF PostingPayment
    <3> HIDE DEF new
    <3>4. new.kind = "payment" =>
            /\ [id |-> new.payment, order |-> new.order, amount |-> new.amount] \in payments
            /\ \A f \in entries : f.kind = "payment" => f.payment # new.payment
            /\ \A v \in Clerks : PostingPayment(v) /\ job[v].payment = new.payment => v = w
      BY <3>2, <3>3 DEF PaymentInv
    <3>5. PaymentPostedOnce'
      BY <1>5, <3>1, <3>4 DEF PaymentInv, PaymentPostedOnce
    <3>6. ASSUME NEW u \in Clerks, PostingPayment(u)', NEW e \in entries', e.kind = "payment"
          PROVE  e.payment # job'[u].payment
      BY <2>1, <3>1, <3>4, <3>6 DEF PaymentInv
    <3> QED
      BY <1>5, <2>1, <3>5, <3>6 DEF PaymentInv
  <2> QED
    BY <2>2, <2>3, Writers
<1> QED
  <2>1. CASE payments' = payments
    <3>1. ASSUME NEW p \in PaymentIds, SavePayment(w, p), Exists(job[w].order) PROVE FALSE
      <4>1. payments' = payments \cup {PaymentOf(w, p)} /\ \A q \in payments : q.id # p
        BY <3>1 DEF SavePayment, Unpaid
      <4>2. PaymentOf(w, p).id = p
        BY DEF PaymentOf
      <4> QED
        BY <2>1, <4>1, <4>2
    <3> QED
      BY <1>3, <1>5, <2>1, <3>1
  <2>2. CASE \E p \in PaymentIds : SavePayment(w, p) /\ payments' # payments
    BY <1>4, <2>2 DEF SavePayment
  <2> QED
    BY <2>1, <2>2, Writers

\* What a step leaves of an order that is past the draft, and in whose name it acts.
LEMMA PastDraft ==
  ASSUME TypeOK, LocalsOK, NEW w \in Clerks, Step(w), NEW o \in OrderIds
  PROVE  /\ orders[o].status # "none" => orders'[o].status # "none"
         /\ orders[o].status \notin {"none", "draft"} =>
              orders'[o].status \notin {"none", "draft"} /\ orders'[o].total = orders[o].total
         /\ orders[o].status = "deleted" => orders'[o].status = "deleted"
         /\ /\ orders[o].status \in {"confirmed", "received", "cancelled"}
            /\ loadWithholdings(o) # {} \/ PaymentsOf(o) # {}
            => orders'[o].status \in {"confirmed", "received", "cancelled"}
<1>1. OrderChange(w, o) /\ orders[o] \in Orders
  BY OrderChanges DEF TypeOK
<1> QED
  BY <1>1 DEF OrderChange, Orders, Exists, GetByID

\* A request that acts in the name of an order began after it left the draft.
LEMMA ActingGoesOn ==
  ASSUME TypeOK, LocalsOK, NEW w \in Clerks, Step(w), Acting(w)'
  PROVE  \/ pc[w] = "idle" /\ orders[job'[w].order].status \in {"confirmed", "received"}
            /\ orders' = orders
         \/ Acting(w) /\ job'[w].order = job[w].order
<1>1. Flow(w) /\ job[w] \in Jobs
  BY StepSound DEF Sound, TypeOK
<1>2. CASE pc[w] = "idle" /\ Begins(w)
  BY <1>2 DEF Begins, Acting, Receiving, PostingPayment, Billing, database, Idle
<1>3. CASE pc[w] # "idle" /\ Continues(w)
  BY <1>1, <1>3 DEF Continues, Acting, Receiving, PostingPayment, Billing, Goes, Jobs,
     LoadWithholdings, ReceiveStatus, NextCertificateNumber, CheckExisting, LocalsOK
<1> QED
  BY <1>1, <1>2, <1>3 DEF Flow, Goes, Ends, Acting, Receiving, PostingPayment, Billing

LEMMA DraftStep ==
  ASSUME TypeOK, LocalsOK, DraftInv, NEW w \in Clerks, Step(w)
  PROVE  DraftInv'
<1>1. Flow(w) /\ Others(w) /\ job[w] \in Jobs /\ LocalsOK'
  BY StepSound, LocalsStep DEF Sound, Moved, TypeOK
<1>2. \A v \in Clerks \ {w} : pc'[v] = pc[v] /\ job'[v] = job[v]
  BY <1>1 DEF Others
<1>3. ASSUME NEW o \in OrderIds, orders'[o].status \in {"none", "draft"}
      PROVE  Untouched(o)'
  <2>1. Untouched(o) /\ (Acting(w) => job[w].order # o)
    BY <1>3, PastDraft DEF DraftInv, NoEffectOfADraft
  <2>2. takenIn'[o] = 0
    BY <2>1, Writers DEF TakeIn, Acting, Receiving, Untouched, TypeOK
  <2>3. \A e \in entries' : e.order # o
    <3>1. Post(w) => Acting(w)
      BY <1>1 DEF Post, Acting, Receiving, PostingPayment, Jobs, Kinds
    <3> QED
      BY <2>1, <3>1, Writers DEF Post, Entry, Untouched
  <2>4. \A d \in DocumentIds : documents'[d].order # o
    <3>1. ASSUME NEW c \in DocumentIds, CreateSupportDocumentDraft(w, c), NEW d \in DocumentIds
          PROVE  documents'[d].order # o
      BY <2>1, <3>1 DEF CreateSupportDocumentDraft, Acting, Billing, Untouched, TypeOK
    <3> QED
      BY <2>1, <3>1, Writers DEF Untouched
  <2> QED
    BY <2>2, <2>3, <2>4 DEF Untouched
<1>4. ASSUME NEW r \in (withholdings \cup payments)'
      PROVE  orders'[r.order].status \in {"confirmed", "received", "cancelled"}
  <2>1. CASE r \in withholdings \cup payments
    <3>1. r.order \in OrderIds /\ (loadWithholdings(r.order) # {} \/ PaymentsOf(r.order) # {})
      BY <2>1 DEF TypeOK, Withholdings, Payments, loadWithholdings, PaymentsOf
    <3> QED
      BY <2>1, <3>1, PastDraft DEF DraftInv, NoEffectOfADraft
  <2>2. CASE r \notin withholdings \cup payments
    <3>1. /\ r.order = job[w].order /\ Exists(job[w].order) /\ orders' = orders
          /\ pc[w] \in {"withhold", "pay"}
      <4>1. CASE r \in withholdings'
        <5>1. PICK h \in WithholdingIds, c \in Concepts : SaveWithholding(w, h, c)
          BY <2>2, <4>1, Writers
        <5> DEFINE new == [id |-> h, order |-> job[w].order, concept |-> c, amount |-> job[w].amount]
        <5>2. new.order = job[w].order
          OBVIOUS
        <5> HIDE DEF new
        <5>3. /\ withholdings' = IF Exists(job[w].order) THEN withholdings \cup {new} ELSE withholdings
              /\ pc[w] = "withhold" /\ orders' = orders
          BY <5>1 DEF SaveWithholding, new
        <5> QED
          BY <2>2, <4>1, <5>2, <5>3
      <4>2. CASE r \in payments'
        <5>1. PICK p \in PaymentIds : SavePayment(w, p)
          BY <2>2, <4>2, Writers
        <5>2. PaymentOf(w, p).order = job[w].order
          BY DEF PaymentOf
        <5> QED
          BY <2>2, <4>2, <5>1, <5>2 DEF SavePayment
      <4> QED
        BY <4>1, <4>2
    <3>2. orders[r.order].status \notin {"none", "draft", "deleted"} /\ job[w].order \in OrderIds
      BY <3>1 DEF Exists, GetByID, DraftInv, Acting, LocalsOK
    <3> QED
      BY <3>1, <3>2 DEF TypeOK, Orders, Statuses
  <2> QED
    BY <2>1, <2>2
<1>5. ASSUME NEW v \in Clerks, Acting(v)'
      PROVE  orders'[job'[v].order].status \notin {"none", "draft"}
  <2>1. job'[v].order \in OrderIds
    BY <1>1, <1>5 DEF LocalsOK
  <2>2. \/ Acting(v) /\ job'[v].order = job[v].order
        \/ orders[job'[v].order].status \in {"confirmed", "received"}
    BY <1>2, <1>5, ActingGoesOn DEF Acting, Receiving, PostingPayment, Billing
  <2>3. orders[job'[v].order].status \notin {"none", "draft"}
    BY <2>2 DEF DraftInv
  <2> QED
    BY <2>1, <2>3, PastDraft
<1>6. ASSUME NEW v \in Clerks, pc'[v] \in {"delete", "confirm", "cancel"}
      PROVE  orders'[job'[v].order].status # "none"
  <2>1. job'[v].order \in OrderIds /\ orders[job'[v].order].status # "none"
    <3>1. CASE v = w
      <4>1. Begins(w)
        BY <1>1, <1>6, <3>1 DEF Flow, Continues, Goes, Ends
      <4>2. PICK o \in OrderIds : orders[o].status # "none" /\ job'[w] = [Idle EXCEPT !.order = o]
        BY <1>6, <3>1, <4>1 DEF Begins
      <4> QED
        BY <3>1, <4>2 DEF Idle
    <3>2. CASE v # w
      BY <1>2, <1>6, <3>2 DEF LocalsOK, DraftInv
    <3> QED
      BY <3>1, <3>2
  <2> QED
    BY <2>1, PastDraft
<1> QED
  BY <1>3, <1>4, <1>5, <1>6 DEF DraftInv, NoEffectOfADraft

\* One goroutine at a time edits, confirms, withholds and receives: what it read of
\* the order it acts on is still on record when it writes.
LEMMA BuyerStep ==
  ASSUME TypeOK, LocalsOK, DraftInv, OneBuyer, BuyerInv, NEW w \in Clerks, Step(w)
  PROVE  BuyerInv'
<1>1. Flow(w) /\ Others(w) /\ job[w] \in Jobs /\ LocalsOK' /\ DraftInv'
  BY StepSound, LocalsStep, DraftStep DEF Sound, Moved, TypeOK
<1>2. \A v \in Clerks \ {w} : pc'[v] = pc[v] /\ job'[v] = job[v]
  BY <1>1 DEF Others
<1> DEFINE Buys(v) == Receiving(v) \/ pc[v] \in {"withhold", "confirm"}
<1>3. \A u, v \in Clerks : Buys(u) /\ Buys(v) => u = v
  BY DEF OneBuyer, Buying, LocalsOK
<1>4. \A v \in Clerks : Buys(v) =>
        /\ job[v].order \in OrderIds /\ takenIn[job[v].order] = 0
        /\ pc[v] # "entry" => \A e \in entries : e.kind = "receipt" => e.order # job[v].order
  BY DEF BuyerInv, LocalsOK, Acting, Receiving
<1>5. ASSUME NEW o \in OrderIds
      PROVE  \/ takenIn'[o] = takenIn[o]
             \/ TakeIn(w) /\ Receiving(w) /\ job[w].order = o /\ takenIn[o] = 0 /\ takenIn'[o] = 1
  BY <1>4, Writers DEF TakeIn, Receiving, TypeOK
\* The entries of receipts after the step.
<1>6. ASSUME NEW e \in entries', e.kind = "receipt"
      PROVE  \/ e \in entries
             \/ /\ Receiving(w) /\ pc[w] = "post" /\ entries' = entries \cup {e}
                /\ e.order = job[w].order /\ e.amount = job[w].total /\ e.withheld = job[w].withheld
                /\ orders' = orders /\ withholdings' = withholdings
  <2>1. CASE Post(w) /\ e \notin entries
    <3>1. /\ pc[w] = "post" /\ e = Entry(w) /\ entries' = entries \cup {e}
          /\ orders' = orders /\ withholdings' = withholdings
      BY <2>1 DEF Post
    <3>2. /\ e.kind = job[w].kind /\ e.order = job[w].order /\ e.withheld = job[w].withheld
          /\ job[w].kind = "receipt" => e.amount = job[w].total
      BY <3>1 DEF Entry
    <3> QED
      BY <1>6, <3>1, <3>2 DEF Receiving
  <2> QED
    BY <1>6, <2>1, Writers
<1>7. ASSUME NEW o \in OrderIds
      PROVE  \/ loadWithholdings(o)' = loadWithholdings(o)
             \/ pc[w] = "withhold" /\ job[w].order = o /\ entries' = entries
  <2>1. ASSUME NEW h \in WithholdingIds, NEW c \in Concepts, SaveWithholding(w, h, c),
               job[w].order # o
        PROVE  loadWithholdings(o)' = loadWithholdings(o)
    <3> DEFINE new == [id |-> h, order |-> job[w].order, concept |-> c, amount |-> job[w].amount]
    <3>1. new.order = job[w].order
      OBVIOUS
    <3> HIDE DEF new
    <3>2. withholdings' = IF Exists(job[w].order) THEN withholdings \cup {new} ELSE withholdings
      BY <2>1 DEF SaveWithholding, new
    <3> QED
      BY <2>1, <3>1, <3>2 DEF loadWithholdings
  <2>2. ASSUME NEW h \in WithholdingIds, NEW c \in Concepts, SaveWithholding(w, h, c)
        PROVE  pc[w] = "withhold" /\ entries' = entries
    BY <2>2 DEF SaveWithholding
  <2>3. withholdings' = withholdings => loadWithholdings(o)' = loadWithholdings(o)
    BY DEF loadWithholdings
  <2> QED
    BY <2>1, <2>2, <2>3, Writers
\* What an order that is past the draft has on record does not change while it is
\* posted or received.
<1>8. ASSUME NEW o \in OrderIds, orders[o].status \notin {"none", "draft"},
             ~(pc[w] = "withhold" /\ job[w].order = o)
      PROVE  /\ orders'[o].total = orders[o].total
             /\ loadWithholdings(o)' = loadWithholdings(o)
             /\ NetPayable(o)' = NetPayable(o)
  <2>1. orders'[o].total = orders[o].total /\ loadWithholdings(o)' = loadWithholdings(o)
    BY <1>7, <1>8, PastDraft
  <2> QED
    BY <2>1 DEF NetPayable, TotalWithholding
<1>9. ASSUME NEW o \in OrderIds
      PROVE  /\ takenIn'[o] <= 1
             /\ \A e \in entries' : e.kind = "receipt" /\ e.order = o =>
                  /\ SupplierAmount(e) = NetPayable(o)'
                  /\ e.withheld = loadWithholdings(o)'
                  /\ \A f \in entries' : f.kind = "receipt" /\ f.order = o => f = e
  <2>1. takenIn'[o] <= 1
    BY <1>5 DEF BuyerInv, ReceivedOnce
  <2>2. ASSUME NEW e \in entries', e.kind = "receipt", e.order = o, e \in entries
        PROVE  /\ SupplierAmount(e) = NetPayable(o)' /\ e.withheld = loadWithholdings(o)'
               /\ \A f \in entries' : f.kind = "receipt" /\ f.order = o => f = e
    <3>1. orders[o].status \notin {"none", "draft"}
      BY <2>2 DEF DraftInv, NoEffectOfADraft, Untouched
    <3>2. /\ ~(pc[w] = "withhold" /\ job[w].order = o)
          /\ ~(Receiving(w) /\ pc[w] = "post" /\ job[w].order = o)
      BY <1>4, <2>2
    <3>3. SupplierAmount(e) = NetPayable(o) /\ e.withheld = loadWithholdings(o)
          /\ \A f \in entries : f.kind = "receipt" /\ f.order = o => f = e
      BY <2>2 DEF BuyerInv, ReceivedOnce
    <3> QED
      BY <1>6, <1>8, <3>1, <3>2, <3>3
  <2>3. ASSUME NEW e \in entries', e.kind = "receipt", e.order = o, e \notin entries
        PROVE  /\ SupplierAmount(e) = NetPayable(o)' /\ e.withheld = loadWithholdings(o)'
               /\ \A f \in entries' : f.kind = "receipt" /\ f.order = o => f = e
    <3>1. /\ Receiving(w) /\ pc[w] = "post" /\ entries' = entries \cup {e}
          /\ job[w].order = o /\ e.amount = job[w].total /\ e.withheld = job[w].withheld
          /\ orders' = orders /\ withholdings' = withholdings
      BY <1>6, <2>3
    <3>2. /\ job[w].total = orders[o].total /\ job[w].withheld = loadWithholdings(o)
          /\ \A f \in entries : f.kind = "receipt" => f.order # o
      BY <3>1 DEF BuyerInv
    <3>3. loadWithholdings(o)' = loadWithholdings(o)
      BY <3>1 DEF loadWithholdings
    <3>4. NetPayable(o)' = NetPayable(o)
      BY <3>1, <3>3 DEF NetPayable, TotalWithholding
    <3>5. SupplierAmount(e) = NetPayable(o)
      BY <3>1, <3>2 DEF SupplierAmount, NetPayable, TotalWithholding
    <3> QED
      BY <3>1, <3>2, <3>3, <3>4, <3>5
  <2> QED
    BY <2>1, <2>2, <2>3
\* An order that was not received yet.
<1>10. ASSUME NEW o \in OrderIds, orders'[o].status \in {"draft", "confirmed"}
       PROVE  takenIn'[o] = 0 /\ \A e \in entries' : e.kind = "receipt" => e.order # o
  <2>1. OrderChange(w, o) /\ orders[o] \in Orders
    BY OrderChanges DEF TypeOK
  <2>2. \/ orders[o].status \in {"none", "draft", "confirmed"}
        \/ pc[w] = "confirm" /\ job[w].order = o
    BY <1>10, <2>1 DEF OrderChange, Orders, ConfirmStatus
  <2>3. takenIn[o] = 0 /\ \A e \in entries : e.kind = "receipt" => e.order # o
    BY <1>4, <2>2 DEF BuyerInv, DraftInv, NoEffectOfADraft, Untouched
  <2>4. ~(Receiving(w) /\ pc[w] \in {"post", "entry"} /\ job[w].order = o)
    <3> SUFFICES ASSUME Receiving(w), pc[w] \in {"post", "entry"}, job[w].order = o PROVE FALSE
      OBVIOUS
    <3>1. orders[o].status # "confirmed"
      BY DEF BuyerInv
    <3>2. orders[o].status \notin {"none", "draft"}
      BY DEF DraftInv, Acting
    <3> QED
      BY <2>2, <3>1, <3>2
  <2>5. takenIn'[o] = 0
    BY <1>5, <2>3, <2>4 DEF TakeIn
  <2> QED
    BY <1>6, <2>3, <2>4, <2>5
\* A request that goes on does so in the name of the same order; one that begins finds
\* an order that was not received.
<1>11. ASSUME NEW u \in Clerks, Buys(u)'
       PROVE  /\ takenIn'[job'[u].order] = 0
              /\ pc'[u] # "entry" => \A e \in entries' : e.kind = "receipt" => e.order # job'[u].order
  <2>1. CASE u = w /\ pc[w] = "idle"
    <3>1. /\ job'[w].order \in OrderIds /\ orders[job'[w].order].status \in {"draft", "confirmed"}
          /\ orders' = orders
      BY <1>1, <1>11, <2>1 DEF Flow, Begins, Goes, Ends, Receiving, Idle, database
    <3> QED
      BY <1>10, <2>1, <3>1
  <2>2. CASE u = w /\ pc[w] # "idle"
    <3>1. /\ Receiving(w) /\ job'[w].order = job[w].order
          /\ \/ pc[w] \in {"load", "receive"} /\ pc'[w] # "entry" /\ entries' = entries
                /\ takenIn' = takenIn
             \/ pc[w] = "post" /\ pc'[w] = "entry"
      <4>1. Continues(w)
        BY <1>1, <1>11, <2>2 DEF Flow, Ends, Idle, Receiving
      <4> QED
        BY <1>1, <1>11, <2>2, <4>1 DEF Continues, Goes, Receiving, Jobs, LocalsOK, LoadWithholdings,
           ReceiveStatus, NextCertificateNumber, CheckExisting, database
    <3>2. ~TakeIn(w) \/ pc[w] = "entry"
      BY DEF TakeIn
    <3> QED
      BY <1>4, <1>5, <2>2, <3>1, <3>2
  <2>3. CASE u # w
    <3>1. Buys(u) /\ job'[u] = job[u] /\ pc'[u] = pc[u]
      BY <1>2, <1>11, <2>3 DEF Receiving
    <3>2. ~Buys(w)
      BY <1>3, <2>3, <3>1
    <3> QED
      BY <1>4, <1>5, <1>6, <3>1, <3>2
  <2> QED
    BY <2>1, <2>2, <2>3
<1>12. ASSUME NEW u \in Clerks, Receiving(u)'
       PROVE  /\ job'[u].total = orders'[job'[u].order].total
              /\ pc'[u] # "load" => job'[u].withheld = {h \in withholdings' : h.order = job'[u].order}
              /\ pc'[u] \in {"post", "entry"} => orders'[job'[u].order].status # "confirmed"
  <2>1. CASE u = w /\ pc[w] = "idle"
    <3>1. pc'[w] = "load" /\ job'[w].total = orders[job'[w].order].total /\ orders' = orders
      BY <1>1, <1>12, <2>1 DEF Flow, Begins, Goes, Ends, Receiving, Idle, database
    <3> QED
      BY <2>1, <3>1
  <2>2. CASE u = w /\ pc[w] # "idle"
    <3>1. Continues(w)
      BY <1>1, <1>12, <2>2 DEF Flow, Ends, Idle, Receiving
    <3>2. /\ Receiving(w) /\ job'[w].order = job[w].order /\ job'[w].total = job[w].total
          /\ pc'[w] # "load"
          /\ \/ pc[w] = "load" /\ job'[w].withheld = loadWithholdings(job[w].order) /\ pc'[w] = "receive"
             \/ pc[w] # "load" /\ job'[w].withheld = job[w].withheld
          /\ \/ pc'[w] = "receive"
             \/ ReceiveStatus(w)
             \/ pc[w] = "post"
      BY <1>1, <1>12, <2>2, <3>1 DEF Continues, Goes, Receiving, Jobs, LocalsOK, LoadWithholdings,
         ReceiveStatus, NextCertificateNumber, CheckExisting
    <3>9. PICK o \in OrderIds : o = job[w].order
      BY <3>2 DEF LocalsOK, Acting, Receiving
    <3>3. orders[o].status \notin {"none", "draft"} /\ pc[w] # "withhold"
      BY <3>2, <3>9 DEF DraftInv, Acting, Receiving
    <3>4. /\ job[w].total = orders[o].total
          /\ pc[w] # "load" => job[w].withheld = loadWithholdings(o)
          /\ pc[w] = "post" => orders[o].status # "confirmed"
      BY <3>2, <3>9 DEF BuyerInv
    <3>5. orders'[o].total = orders[o].total /\ loadWithholdings(o)' = loadWithholdings(o)
      BY <1>8, <3>3
    <3>6. {h \in withholdings' : h.order = job'[w].order} = loadWithholdings(o)'
      BY <3>2, <3>9 DEF loadWithholdings
    <3>7. pc[w] = "post" => orders'[o].status = orders[o].status
      <4>1. OrderChange(w, o) /\ orders[o] \in Orders
        BY <3>3, OrderChanges DEF TypeOK
      <4> QED
        BY <3>9, <4>1 DEF OrderChange, Orders, Save, handleUpdate, Takes, DeleteRow, ConfirmStatus,
           CancelStatus, ReceiveStatus, SetSupportDocumentID
    <3>8. ReceiveStatus(w) => orders'[o].status # "confirmed"
      BY <3>3, <3>9 DEF ReceiveStatus, UpdateStatus, Exists, GetByID, TypeOK, Orders
    <3> QED
      BY <2>2, <3>2, <3>4, <3>5, <3>6, <3>7, <3>8, <3>9
  <2>3. CASE u # w
    <3>1. Receiving(u) /\ job'[u] = job[u] /\ pc'[u] = pc[u]
      BY <1>2, <1>12, <2>3 DEF Receiving
    <3>8. PICK o \in OrderIds : o = job[u].order
      BY <3>1 DEF LocalsOK, Acting, Receiving
    <3>2. ~Buys(w)
      BY <1>3, <2>3, <3>1
    <3>3. orders[o].status \notin {"none", "draft"}
      BY <3>1, <3>8 DEF DraftInv, Acting, Receiving
    <3>4. /\ job[u].total = orders[o].total
          /\ pc[u] # "load" => job[u].withheld = loadWithholdings(o)
          /\ pc[u] \in {"post", "entry"} => orders[o].status # "confirmed"
      BY <3>1, <3>8 DEF BuyerInv
    <3>5. orders'[o].total = orders[o].total /\ loadWithholdings(o)' = loadWithholdings(o)
      BY <1>8, <3>2, <3>3
    <3>6. {h \in withholdings' : h.order = job'[u].order} = loadWithholdings(o)'
      BY <3>1, <3>8 DEF loadWithholdings
    <3>7. orders[o].status # "confirmed" => orders'[o].status # "confirmed"
      <4>1. OrderChange(w, o) /\ orders[o] \in Orders
        BY <3>3, OrderChanges DEF TypeOK
      <4>2. pc[w] # "confirm"
        BY <3>2
      <4>3. \/ orders'[o] = orders[o]
            \/ orders'[o].status \in {"draft", "deleted", "cancelled", "received"}
            \/ orders'[o] = [orders[o] EXCEPT !.document = job[w].document]
        <5>1. CASE \E t \in Totals : /\ handleUpdate(w, o, t) /\ orders[o].status = "draft"
                                    /\ orders'[o] = [orders[o] EXCEPT !.total = t]
          BY <4>1, <5>1 DEF Orders
        <5>2. CASE ConfirmStatus(w)
          BY <4>2, <5>2 DEF ConfirmStatus
        <5> QED
          BY <4>1, <5>1, <5>2 DEF OrderChange, Orders
      <4> QED
        BY <4>1, <4>3 DEF Orders
    <3> QED
      BY <3>1, <3>4, <3>5, <3>6, <3>7, <3>8
  <2> QED
    BY <2>1, <2>2, <2>3
<1>13. ReceivedOnce'
  BY <1>9 DEF ReceivedOnce
<1>14. \A v \in Clerks : Receiving(v)' => Buys(v)'
  OBVIOUS
<1>15. \A v \in Clerks : pc'[v] \in {"withhold", "confirm"} => Buys(v)' /\ pc'[v] # "entry"
  OBVIOUS
<1> HIDE DEF Buys
<1> QED
  BY <1>10, <1>11, <1>12, <1>13, <1>14, <1>15 DEF BuyerInv, loadWithholdings

\* One goroutine makes documents from orders, and nothing it does fails: the document
\* it found, or made, is the only one that can be in force when it links it.
LEMMA BillerStep ==
  ASSUME TypeOK, LocalsOK, DraftInv, OneBiller, BillerInv, NEW w \in Clerks, Step(w)
  PROVE  BillerInv'
<1>1. Flow(w) /\ Others(w) /\ job[w] \in Jobs /\ LocalsOK'
  BY StepSound, LocalsStep DEF Sound, Moved, TypeOK
<1>2. \A v \in Clerks \ {w} : pc'[v] = pc[v] /\ job'[v] = job[v]
  BY <1>1 DEF Others
<1>3. \A v \in Clerks : Billing(v) => /\ "bill" \in Duties[v] /\ Faults[v] = {}
                                      /\ \A u \in Clerks : "bill" \in Duties[u] => u = v
  BY DEF LocalsOK, OneBiller
\* Only a step that links changes the document of an order that has documents.
<1>4. ASSUME NEW o \in OrderIds, NEW d \in DocumentIds, documents[d].order = o
      PROVE  /\ \/ orders'[o].document = orders[o].document
                \/ SetSupportDocumentID(w) /\ o = job[w].order
                   /\ orders'[o].document = job[w].document
             /\ orders[o].status = "deleted" => orders'[o].status = "deleted"
  <2>1. OrderChange(w, o) /\ orders[o] \in Orders
    BY OrderChanges DEF TypeOK
  <2>2. orders[o].status # "none"
    BY <1>4 DEF DraftInv, NoEffectOfADraft, Untouched
  <2> QED
    BY <2>1, <2>2, PastDraft DEF OrderChange, Orders
<1>5. ASSUME NEW v \in Clerks, Billing(v) PROVE job[v].order \in OrderIds
  BY <1>5 DEF LocalsOK, Acting
<1>6. CASE \E d \in DocumentIds : CreateSupportDocumentDraft(w, d)
  <2>1. PICK d \in DocumentIds : CreateSupportDocumentDraft(w, d)
    BY <1>6
  <2>2. /\ pc[w] = "draft" /\ documents[d].status = "none" /\ orders' = orders
        /\ documents' = [documents EXCEPT ![d] = [status |-> "draft", order |-> job[w].order]]
    BY <2>1 DEF CreateSupportDocumentDraft
  <2>3. ~Lost(w)
    BY <1>3, <2>2 DEF Lost, Billing
  <2>4. pc'[w] = "link" /\ job'[w].order = job[w].order /\ job'[w].document = d
    <3>1. pc'[w] = "link" /\ job'[w] = [job[w] EXCEPT !.document = d]
      BY <2>1, <2>3 DEF CreateSupportDocumentDraft, Goto, TypeOK
    <3> QED
      BY <1>1, <3>1 DEF Jobs
  <2>5. \A v \in Clerks \ {w} : ~Billing(v) /\ ~Billing(v)'
    BY <1>2, <1>3, <2>2 DEF Billing
  <2>6. ASSUME NEW c \in DocumentIds, NEW o \in OrderIds
        PROVE  InForce(c, o)' => (c = d /\ o = job[w].order) \/ (c # d /\ InForce(c, o))
    BY <2>2 DEF InForce, TypeOK
  <2>7. job[w].order \in OrderIds /\ \A c \in DocumentIds : ~InForce(c, job[w].order)
    BY <1>5, <2>2 DEF BillerInv, Billing
  <2>8. OneSupportDocument'
    BY <2>6, <2>7 DEF BillerInv, OneSupportDocument
  <2>9. ASSUME NEW o \in OrderIds, NEW c \in DocumentIds, orders'[o].status # "deleted", InForce(c, o)'
        PROVE  orders'[o].document = c \/ \E v \in Clerks : pc'[v] = "link" /\ job'[v].order = o
    <3>1. CASE o = job[w].order
      BY <2>4, <3>1
    <3>2. CASE o # job[w].order
      <4>1. InForce(c, o) /\ orders[o].status # "deleted"
        BY <2>2, <2>6, <2>9, <3>2
      <4>2. \A v \in Clerks : pc[v] # "link"
        BY <2>2, <2>5 DEF Billing
      <4> QED
        BY <2>2, <4>1, <4>2 DEF BillerInv
    <3> QED
      BY <3>1, <3>2
  <2>10. ASSUME NEW v \in Clerks, NEW c \in DocumentIds
         PROVE  /\ pc'[v] = "draft" => ~InForce(c, job[v].order)'
                /\ pc'[v] \in {"existing", "link"} /\ InForce(c, job[v].order)' => c = job'[v].document
    BY <2>4, <2>5, <2>6, <2>7 DEF Billing
  <2> QED
    BY <2>8, <2>9, <2>10 DEF BillerInv
<1>7. CASE documents' = documents
  <2>1. \A c \in DocumentIds, o \in OrderIds : InForce(c, o)' <=> InForce(c, o)
    BY <1>7 DEF InForce
  <2>2. OneSupportDocument'
    BY <2>1 DEF BillerInv, OneSupportDocument
  <2>3. ASSUME NEW o \in OrderIds, NEW c \in DocumentIds, orders'[o].status # "deleted", InForce(c, o)'
        PROVE  orders'[o].document = c \/ \E v \in Clerks : pc'[v] = "link" /\ job'[v].order = o
    <3>1. InForce(c, o) /\ documents[c].order = o /\ orders[o].status # "deleted"
      BY <1>4, <2>1, <2>3 DEF InForce
    <3>2. CASE SetSupportDocumentID(w) /\ o = job[w].order
      <4>1. c = job[w].document
        BY <3>1, <3>2 DEF BillerInv, SetSupportDocumentID
      <4>2. orders[o].status # "none"
        BY <3>1 DEF DraftInv, NoEffectOfADraft, Untouched
      <4> QED
        BY <3>1, <3>2, <4>1, <4>2 DEF SetSupportDocumentID, Exists, GetByID, TypeOK, Orders
    <3>3. CASE ~(SetSupportDocumentID(w) /\ o = job[w].order)
      <4>1. orders'[o].document = orders[o].document
        BY <1>4, <3>1, <3>3
      <4>2. ASSUME NEW v \in Clerks, pc[v] = "link", job[v].order = o
            PROVE  pc'[v] = "link" /\ job'[v].order = o
        <5>1. CASE v = w
          <6>1. DocumentsStep(w) => SetSupportDocumentID(w)
            BY <4>2, <5>1 DEF DocumentsStep, handleCreateSupportDocFromPurchase, FromPurchase,
               CheckExisting, CreateSupportDocumentDraft, Takes
          <6>2. ~Failure(w)
            BY <1>3, <4>2, <5>1 DEF Failure, StatementFails, Crash, Billing
          <6>3. OrderStep(w) => UNCHANGED <<pc, job>>
            BY <4>2, <5>1 DEF OrderStep, handleCreate, handleSetNumberCounter, DeleteRow,
               ConfirmStatus, CancelStatus, Save, handleDelete, handleCancel, handleConfirm,
               handleUpdate, Takes
          <6>4. ~WithholdingStep(w) /\ ~ReceiptStep(w) /\ ~PaymentStep(w)
            BY <4>2, <5>1 DEF WithholdingStep, handleAddWithholding, SaveWithholding,
               handleIssueCertificates, NextCertificateNumber, CreateCertificate, Takes,
               ReceiptStep, handleReceive, LoadWithholdings, ReceiveStatus, Post, TakeIn,
               PaymentStep, handleRecordPayment, SavePayment
          <6> QED
            BY <3>3, <4>2, <5>1, <6>1, <6>2, <6>3, <6>4 DEF Step
        <5>2. CASE v # w
          BY <1>2, <4>2, <5>2
        <5> QED
          BY <5>1, <5>2
      <4> QED
        BY <3>1, <4>1, <4>2 DEF BillerInv
    <3> QED
      BY <3>2, <3>3
  <2>4. ASSUME NEW v \in Clerks, NEW c \in DocumentIds, Billing(v)'
        PROVE  /\ pc'[v] = "draft" => ~InForce(c, job[v].order)'
               /\ pc'[v] \in {"existing", "link"} /\ InForce(c, job[v].order)' => c = job'[v].document
    <3>1. CASE v # w
      <4>1. Billing(v) /\ job'[v] = job[v] /\ pc'[v] = pc[v]
        BY <1>2, <2>4, <3>1 DEF Billing
      <4> QED
        BY <1>5, <2>1, <4>1 DEF BillerInv
    <3>2. CASE v = w /\ pc[w] = "idle"
      <4>1. PICK o \in OrderIds :
              /\ pc'[w] = IF orders[o].document = NoDocument THEN "draft" ELSE "existing"
              /\ orders[o].status = "received" /\ "bill" \in Duties[w]
              /\ job'[w] = [Idle EXCEPT !.order = o, !.document = orders[o].document]
        BY <1>1, <2>4, <3>2 DEF Flow, Begins, Billing, Goes, Ends
      <4>2. job'[w].order = o /\ job'[w].document = orders[o].document
        BY <4>1 DEF Idle
      <4>3. \A u \in Clerks : pc[u] # "link"
        BY <1>3, <3>2, <4>1 DEF Billing
      <4>4. InForce(c, o) => orders[o].document = c
        BY <4>1, <4>3 DEF BillerInv
      <4>5. c # NoDocument
        BY PurchaseAssumption
      <4>6. InForce(c, job[w].order)' <=> InForce(c, o)
        BY <1>7, <4>2 DEF InForce
      <4> QED
        BY <3>2, <4>1, <4>2, <4>4, <4>5, <4>6
    <3>3. CASE v = w /\ pc[w] # "idle"
      <4>1. /\ pc[w] = "existing" /\ pc'[w] = "draft" /\ job'[w] = job[w]
            /\ documents[job[w].document].status = "failed"
        <5>1. ASSUME NEW d \in DocumentIds, CreateSupportDocumentDraft(w, d) PROVE FALSE
          <6>1. documents[d].status = "none" /\ documents'[d].status = "draft"
            BY <5>1 DEF CreateSupportDocumentDraft, TypeOK
          <6> QED
            BY <1>7, <6>1
        <5> QED
          BY <1>1, <2>4, <3>3, <5>1 DEF Flow, Ends, Continues, Goes, Billing, CheckExisting
      <4>2. InForce(c, job[w].order) => c = job[w].document
        BY <4>1 DEF BillerInv
      <4>3. ~InForce(job[w].document, job[w].order)
        BY <4>1 DEF InForce
      <4>4. InForce(c, job[w].order)' <=> InForce(c, job[w].order)
        BY <1>7, <4>1 DEF InForce
      <4> QED
        BY <3>3, <4>1, <4>2, <4>3, <4>4
    <3> QED
      BY <3>1, <3>2, <3>3
  <2> QED
    BY <2>2, <2>3, <2>4 DEF BillerInv, Billing
<1> QED
  BY <1>6, <1>7, Writers

\* What becomes of a document never brings one back into force.
LEMMA DocumentStepInv ==
  ASSUME PurchaseInv, NEW d \in DocumentIds, DocumentStepOf(d)
  PROVE  PurchaseInv'
<1> USE DEF DocumentStepOf, DocumentConfirmed, DocumentFailed, DeleteDraft, DocumentStep
<1>1. TypeOK' /\ TypeOK
  BY DocumentTypes DEF PurchaseInv
<1>2. UNCHANGED <<orders, lastNumber, withholdings, payments, entries, takenIn, certificates,
                  lastFolio, pc, job>>
  OBVIOUS
<1>3. \A c \in DocumentIds : documents'[c].order = documents[c].order
  BY <1>1 DEF TypeOK, Documents
<1>4. \A c \in DocumentIds, o \in OrderIds : InForce(c, o)' => InForce(c, o)
  BY <1>1 DEF TypeOK, Documents, InForce
<1>5. LocalsOK'
  BY <1>2 DEF PurchaseInv, LocalsOK, Acting, Receiving, PostingPayment, Billing
<1>6. DraftInv'
  BY <1>2, <1>3 DEF PurchaseInv, DraftInv, NoEffectOfADraft, Untouched, Acting, Receiving,
     PostingPayment, Billing
<1>7. PaymentInv' /\ CertificateInv' /\ NumberInv'
  BY <1>2 DEF PurchaseInv, PaymentInv, PaymentPostedOnce, PostingPayment, CertificateInv,
     CertifiedOnce, NumberInv, NumbersAreFree, Numbered
<1>8. OneBuyer => BuyerInv'
  BY <1>2 DEF PurchaseInv, BuyerInv, ReceivedOnce, Receiving, NetPayable, TotalWithholding,
     loadWithholdings
<1>9. ASSUME OneBiller PROVE BillerInv'
  <2>1. BillerInv
    BY <1>9 DEF PurchaseInv
  <2>2. OneSupportDocument'
    BY <1>4, <2>1 DEF BillerInv, OneSupportDocument
  <2>3. ASSUME NEW v \in Clerks, NEW c \in DocumentIds, Billing(v)
        PROVE  InForce(c, job[v].order)' => InForce(c, job[v].order)
    <3>1. job[v].order \in OrderIds /\ job'[v].order = job[v].order
      BY <1>2, <2>3 DEF PurchaseInv, LocalsOK, Acting
    <3>2. InForce(c, job[v].order)' <=>
            documents'[c].order = job[v].order /\ documents'[c].status \in {"draft", "live"}
      BY <3>1 DEF InForce
    <3> QED
      BY <1>4, <3>1, <3>2 DEF InForce
  <2> QED
    BY <1>2, <1>4, <2>1, <2>2, <2>3 DEF BillerInv, Billing
<1> QED
  BY <1>1, <1>5, <1>6, <1>7, <1>8, <1>9 DEF PurchaseInv, OneBuyer, OneBiller

-----------------------------------------------------------------------------

LEMMA InitInv ==
  ASSUME Init
  PROVE  PurchaseInv
<1> USE DEF Init
<1>1. TypeOK
  BY IdleType, FS_EmptySet DEF TypeOK, Orders, Statuses, Documents, DocumentStatuses, Steps
<1>2. \A w \in Clerks : pc[w] = "idle" /\ job[w].kind = "receipt" /\ job[w].summary = {}
  BY DEF Idle
<1>3. LocalsOK
  BY <1>2 DEF LocalsOK, Acting, Receiving, PostingPayment, Billing
<1>4. DraftInv
  BY <1>2, PurchaseAssumption DEF DraftInv, NoEffectOfADraft, Untouched, Acting, Receiving,
     PostingPayment, Billing
<1>5. PaymentInv /\ CertificateInv /\ NumberInv
  BY <1>2 DEF PaymentInv, PaymentPostedOnce, PostingPayment, CertificateInv, CertifiedOnce,
     NumberInv, NumbersAreFree
<1>6. BuyerInv /\ BillerInv
  BY <1>2 DEF BuyerInv, ReceivedOnce, Receiving, BillerInv, OneSupportDocument, InForce
<1> QED
  BY <1>1, <1>3, <1>4, <1>5, <1>6 DEF PurchaseInv

LEMMA StepInv ==
  ASSUME PurchaseInv, [Next]_vars
  PROVE  PurchaseInv'
<1>1. ASSUME NEW w \in Clerks, Step(w) PROVE PurchaseInv'
  <2>1. TypeOK /\ LocalsOK /\ DraftInv /\ PaymentInv /\ CertificateInv /\ NumberInv
    BY DEF PurchaseInv
  <2>2. TypeOK' /\ LocalsOK' /\ DraftInv' /\ PaymentInv' /\ CertificateInv' /\ NumberInv'
    BY <1>1, <2>1, StepSound, LocalsStep, DraftStep, PaymentInvStep, CertificateStep, NumberStep
       DEF Sound
  <2>3. OneBuyer => BuyerInv'
    BY <1>1, <2>1, BuyerStep DEF PurchaseInv
  <2>4. OneBiller => BillerInv'
    BY <1>1, <2>1, BillerStep DEF PurchaseInv
  <2> QED
    BY <2>2, <2>3, <2>4 DEF PurchaseInv, OneBuyer, OneBiller
<1>2. ASSUME NEW d \in DocumentIds, DocumentStepOf(d) PROVE PurchaseInv'
  BY <1>2, DocumentStepInv
<1>3. CASE UNCHANGED vars
  <2> USE <1>3 DEF vars, PurchaseInv
  <2>1. TypeOK' /\ LocalsOK'
    BY DEF TypeOK, LocalsOK, Acting, Receiving, PostingPayment, Billing
  <2>2. DraftInv'
    BY DEF DraftInv, NoEffectOfADraft, Untouched, Acting, Receiving, PostingPayment, Billing
  <2>3. PaymentInv' /\ CertificateInv' /\ NumberInv'
    BY DEF PaymentInv, PaymentPostedOnce, PostingPayment, CertificateInv, CertifiedOnce,
       NumberInv, NumbersAreFree, Numbered
  <2>4. OneBuyer => BuyerInv'
    BY DEF BuyerInv, ReceivedOnce, Receiving, NetPayable, TotalWithholding, loadWithholdings
  <2>5. OneBiller => BillerInv'
    BY DEF BillerInv, OneSupportDocument, InForce
  <2> QED
    BY <2>1, <2>2, <2>3, <2>4, <2>5 DEF OneBuyer, OneBiller
<1> QED
  BY <1>1, <1>2, <1>3 DEF Next, Step, DocumentStepOf

\* The inductive invariant: what each request holds while it is under way, beside
\* the tables, for every interleaving of every number of requests.
THEOREM PurchaseInvariant == Spec => []PurchaseInv
<1>1. Init => PurchaseInv
  BY InitInv
<1>2. PurchaseInv /\ [Next]_vars => PurchaseInv'
  BY StepInv
<1> QED
  BY <1>1, <1>2, PTL DEF Spec

\* Nothing is withheld, received, paid or invoiced in the name of an order that did
\* not leave the draft, and an order with a withholding or a payment keeps its row:
\* Delete checks the status in one statement and deletes in another.
THEOREM NoEffectOfADraftHolds == Spec => []NoEffectOfADraft
<1>1. PurchaseInv => NoEffectOfADraft
  BY DEF PurchaseInv, DraftInv
<1> QED
  BY <1>1, PurchaseInvariant, PTL

\* PurchasePaymentRecorded is published after the INSERT, once, with what it wrote.
THEOREM PaymentPostedOnceHolds == Spec => []PaymentPostedOnce
<1>1. PurchaseInv => PaymentPostedOnce
  BY DEF PurchaseInv, PaymentInv
<1> QED
  BY <1>1, PurchaseInvariant, PTL

\* Two requests to issue certificates may both find a concept without one, and take
\* a folio each: one certificate is written, for withholdings that are on record.
THEOREM CertifiedOnceHolds == Spec => []CertifiedOnce
<1>1. PurchaseInv => CertifiedOnce
  BY DEF PurchaseInv, CertificateInv
<1> QED
  BY <1>1, PurchaseInvariant, PTL

\* NextPurchaseNumber and Save are two statements and the counter can be set by
\* hand, yet a number that was given is free when it is saved.
THEOREM NumbersAreFreeHolds == Spec => []NumbersAreFree
<1>1. PurchaseInv => NumbersAreFree
  BY DEF PurchaseInv, NumberInv
<1> QED
  BY <1>1, PurchaseInvariant, PTL

\* One buyer: an order is taken in and posted once, for the net amount on record.
THEOREM ReceivedOnceHolds == Spec => []ReceivedOnce
<1>1. PurchaseInv => ReceivedOnce
  BY DEF PurchaseInv, BuyerInv, ReceivedOnce
<1> QED
  BY <1>1, PurchaseInvariant, PTL

\* One biller whose statements succeed: one support document in force per order.
THEOREM OneSupportDocumentHolds == Spec => []OneSupportDocument
<1>1. PurchaseInv => OneSupportDocument
  BY DEF PurchaseInv, BillerInv, OneSupportDocument
<1> QED
  BY <1>1, PurchaseInvariant, PTL
=============================================================================
