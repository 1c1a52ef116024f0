------------------------------ MODULE FrontOffice ------------------------------
(***************************************************************************)
(* The desks that prepare what the rest of the system works with: quotes   *)
(* (sales/application/quote.go, quote_email.go), customers and suppliers   *)
(* (thirdparty), warehouses and the settings of the company (company),     *)
(* products (product), and electronic documents of every type from the     *)
(* draft to the mail (electronic/application/create_draft.go, confirm.go,  *)
(* send_email.go).                                                         *)
(*                                                                         *)
(* A request is named for its handler and begins with what its use case    *)
(* reads and checks; each statement it makes afterwards is a step.  What   *)
(* becomes of a sale is in OrderToCash, of a warehouse in Inventory, of    *)
(* the number of a document and its way to the DIAN in ElectronicIssuing.  *)
(***************************************************************************)
EXTENDS Desks, Integers, FiniteSets

CONSTANTS
  Quotes, Sales, Lines, \* Lines: what a quote offers, its customer and prices included
  MaxNumber,            \* bound on the numbers given
  Parties, Identities,  \* Identities: type and number of an identification
  MaxTime,              \* bound on the dates of consent
  Warehouses, Products, Codes,
  Documents,
  Ranges, RangeType,    \* numbering ranges, and the type of document each is for
  Values, Profiles,     \* Values: of a credential, a logo or a colour
  NoRow, Deleted        \* in place of a row: none yet, and none any more

\* DianDocumentTypeCode 01, 91, 92, 05 and 95.
Types == {"invoice", "credit note", "debit note", "support document", "adjustment note"}

Requests == {"quote", "quote counter", "edit quote", "send", "mail", "decide", "convert",
             "delete quote", "party", "edit party", "drop role", "warehouse",
             "edit warehouse", "deactivate", "default", "resolve", "profile", "credentials",
             "clear", "logo", "color", "product", "edit product", "delete product",
             "draft", "edit draft", "clone", "delete draft", "confirm", "mail document"}
            \cup Types \* of which drafts are made and edited

\* What refers to a document that was issued.
Notes == {"credit note", "debit note", "adjustment note"}
\* What is issued about a supplier.
Supports == {"support document", "adjustment note"}

ASSUME FrontOfficeAssumption ==
  /\ MaxNumber \in Nat /\ MaxTime \in Nat
  /\ "none" \notin Values
  /\ RangeType \in [Ranges -> Types]
  /\ NoRow # Deleted

VARIABLES
  quotes,     \* sales.quotes with their lines
  mailed,     \* quote -> what its customer received last, or NoRow
  sales,      \* the rows of sales.sales that were made from quotes
  counter,    \* sales.number_counters: the last number of quotes and of sales
  parties,    \* thirdparty.parties
  clock,      \* the last date written
  warehouses, \* company.warehouses of one company
  products,   \* product -> its code
  company,    \* the row of company.companies
  documents,  \* electronic.documents
  received    \* document -> what its addressee received last, or NoRow

quoteTables == <<quotes, mailed, sales, counter>>
partyTables == <<parties, clock>>
documentTables == <<documents, received>>
\* The frame of an action of one desk.
otherThanQuotes == <<partyTables, warehouses, products, company, documentTables>>
otherThanParties == <<quoteTables, warehouses, products, company, documentTables>>
otherThanWarehouses == <<quoteTables, partyTables, products, company, documentTables>>
otherThanProducts == <<quoteTables, partyTables, warehouses, company, documentTables>>
otherThanCompany == <<quoteTables, partyTables, warehouses, products, documentTables>>
otherThanDocuments == <<quoteTables, partyTables, warehouses, products, company>>
database == <<quoteTables, otherThanQuotes>>
vars == <<duties, quotes, mailed, sales, counter, parties, clock, warehouses, products, company,
          documents, received, pc, job>>

\* Nothing makes a quote "expired".
QuoteStatuses == {"draft", "sent", "accepted", "rejected"}
QuoteRows == [status : QuoteStatuses, lines : Lines, number : Nat]
SaleRows  == [quote : Quotes, lines : Lines, number : Nat]

\* habeas_data_consent and its date, 0 when there is none.
Roles     == {"customer", "supplier"}
PartyRows == [identity : Identities, consent : BOOLEAN, since : Nat, roles : SUBSET Roles]
\* What a client sends of a party.
Forms == [identity : Identities, natural : BOOLEAN, consent : BOOLEAN]

WarehouseRows == [code : Codes \cup {"PRINCIPAL"}, active : BOOLEAN, default : BOOLEAN]

\* Groups of columns that are written together, a secret with what it belongs to.
Kinds == {"software", "ne_software", "certificate"}
CompanyRows == [profile : Profiles, credentials : [Kinds -> Values \cup {"none"}],
                logo : Values \cup {"none"}, color : Values \cup {"none"}]

\* lines: with their totals, which are computed of them and written with them.
\* reference: whether there is a billing_reference.  signed: what the signed XML says.
DocumentRows == [type : Types, range : Ranges, lines : Lines, supplier : BOOLEAN,
                 reference : BOOLEAN, status : {"draft", "built"}, signed : Lines \cup {NoRow}]

ASSUME RowsAssumption ==
  \A none \in {NoRow, Deleted} :
    none \notin QuoteRows \cup SaleRows \cup PartyRows \cup WarehouseRows \cup DocumentRows

Row(r) == r \notin {NoRow, Deleted}

\* The locals of a request, by the desk it is at.
QuoteJobs     == [quote : Quotes \cup {NoRow}, lines : Lines \cup {NoRow}, number : Nat,
                  status : QuoteStatuses]
PartyJobs     == [party : Parties \cup {NoRow}, row : PartyRows]
WarehouseJobs == [warehouse : Warehouses \cup {NoRow}, code : Codes \cup {"PRINCIPAL"},
                  first : BOOLEAN]
ProductJobs   == [product : Products \cup {NoRow}, code : Codes]
CompanyJobs   == [row : CompanyRows]
DocumentJobs  == [document : Documents, draft : DocumentRows]
Idle == [desk |-> "none"]
Jobs == QuoteJobs \cup PartyJobs \cup WarehouseJobs \cup ProductJobs \cup CompanyJobs
        \cup DocumentJobs \cup {Idle}

QuoteSteps     == {"quote number", "save quote", "quote mail", "quote status", "sale number",
                   "save sale", "delete quote"}
PartySteps     == {"save party", "update party", "delete party"}
WarehouseSteps == {"save warehouse", "update warehouse", "active", "promote"}
ProductSteps   == {"save product", "update product"}
DocumentSteps  == {"update draft", "sign", "document mail"}
Steps == {"idle", "update profile"} \cup QuoteSteps \cup PartySteps \cup WarehouseSteps
         \cup ProductSteps \cup DocumentSteps

Init ==
  /\ duties \in Shifts
  /\ quotes = [q \in Quotes |-> NoRow]
  /\ mailed = [q \in Quotes |-> NoRow]
  /\ sales = [s \in Sales |-> NoRow]
  /\ counter = [quote |-> 0, sale |-> 0]
  /\ parties = [p \in Parties |-> NoRow]
  /\ clock = 0
  /\ warehouses = [h \in Warehouses |-> NoRow]
  /\ products = [p \in Products |-> NoRow]
  /\ \E profile \in Profiles :
       company = [profile |-> profile, credentials |-> [k \in Kinds |-> "none"],
                  logo |-> "none", color |-> "none"]
  /\ documents = [d \in Documents |-> NoRow]
  /\ received = [d \in Documents |-> NoRow]
  /\ pc = [w \in Clerks |-> "idle"]
  /\ job = [w \in Clerks |-> Idle]

End(w) == Goes(w, "idle", Idle)

\* A statement was done; the request goes on, or ends because its reply was lost.
Done(w, step, j) == Goes(w, step, j) \/ ("failure" \in Faults[w] /\ End(w))

Begin(w, step, j) ==
  /\ Goes(w, step, j)
  /\ UNCHANGED database

-----------------------------------------------------------------------------
(* Quotes.                                                                 *)

QuoteJob(q, l, status) == [quote |-> q, lines |-> l, number |-> 0, status |-> status]

QuoteIs(q, status) == Row(quotes[q]) /\ quotes[q].status = status

CreateQuote(w, l) == Begin(w, "quote number", QuoteJob(NoRow, l, "draft"))

handleCreateQuote(w, l) == Takes(w, "quote") /\ CreateQuote(w, l)

\* The counter of the year moves on in a statement of its own.
NextNumber(w, kind, step) ==
  /\ counter[kind] < MaxNumber
  /\ counter' = [counter EXCEPT ![kind] = @ + 1]
  /\ Done(w, step, [job[w] EXCEPT !.number = counter[kind] + 1])
  /\ UNCHANGED <<quotes, mailed, sales, otherThanQuotes>>

NextQuoteNumber(w) == pc[w] = "quote number" /\ NextNumber(w, "quote", "save quote")

SaveQuote(w) ==
  /\ pc[w] = "save quote"
  /\ \E q \in Quotes :
       /\ quotes[q] = NoRow
       /\ quotes' = [quotes EXCEPT ![q] = [status |-> "draft", lines |-> job[w].lines,
                                          number |-> job[w].number]]
  /\ End(w)
  /\ UNCHANGED <<mailed, sales, counter, otherThanQuotes>>

\* Only forward (ErrNumberCounterBackwards).
SetQuoteNumberCounter(w, next) ==
  /\ Takes(w, "quote counter")
  /\ next - 1 > counter.quote
  /\ counter' = [counter EXCEPT !.quote = next - 1]
  /\ UNCHANGED <<quotes, mailed, sales, otherThanQuotes, pc, job>>

\* Variant: without a look at the status.
UpdateQuoteAnyStatus(q, l) ==
  /\ Row(quotes[q])
  /\ quotes' = [quotes EXCEPT ![q].lines = l]

\* One transaction, with the row locked while its status is looked at.
UpdateQuote(q, l) ==
  /\ QuoteIs(q, "draft")
  /\ quotes' = [quotes EXCEPT ![q].lines = l]

handleUpdateQuote(w, q, l) ==
  /\ Takes(w, "edit quote")
  /\ UpdateQuote(q, l)
  /\ UNCHANGED <<mailed, sales, counter, otherThanQuotes, pc, job>>

\* Without a mail: the status is all that changes.
SendQuote(w, q) ==
  /\ QuoteIs(q, "draft")
  /\ Begin(w, "quote status", QuoteJob(q, NoRow, "sent"))

handleSendQuote(w, q) == Takes(w, "send") /\ SendQuote(w, q)

\* The document of the mail is made of what was read here.
SendQuoteEmail(w, q) ==
  /\ QuoteIs(q, "draft")
  /\ Begin(w, "quote mail", QuoteJob(q, quotes[q].lines, "sent"))

handleSendQuoteEmail(w, q) == Takes(w, "mail") /\ SendQuoteEmail(w, q)

Notify(w) ==
  /\ pc[w] = "quote mail"
  /\ mailed' = [mailed EXCEPT ![job[w].quote] = job[w].lines]
  /\ Done(w, "quote status", job[w])
  /\ UNCHANGED <<quotes, sales, counter, otherThanQuotes>>

\* Accept and Reject; how long the quote was valid is not looked at.
Decide(w, q, status) ==
  /\ QuoteIs(q, "sent")
  /\ Begin(w, "quote status", QuoteJob(q, NoRow, status))

handleAcceptQuote(w, q) == Takes(w, "decide") /\ Decide(w, q, "accepted")
handleRejectQuote(w, q) == Takes(w, "decide") /\ Decide(w, q, "rejected")

\* By id, whatever the status is now.
UpdateQuoteStatus(w) ==
  /\ pc[w] = "quote status"
  /\ quotes' = IF Row(quotes[job[w].quote])
               THEN [quotes EXCEPT ![job[w].quote].status = job[w].status] ELSE quotes
  /\ End(w)
  /\ UNCHANGED <<mailed, sales, counter, otherThanQuotes>>

\* The quote stays accepted, and may be converted again.
ConvertToSale(w, q) ==
  /\ QuoteIs(q, "accepted")
  /\ Begin(w, "sale number", QuoteJob(q, quotes[q].lines, "accepted"))

handleConvertQuoteToSale(w, q) == Takes(w, "convert") /\ ConvertToSale(w, q)

NextSaleNumber(w) == pc[w] = "sale number" /\ NextNumber(w, "sale", "save sale")

\* The payment means of the quote are left behind.
SaveSale(w) ==
  /\ pc[w] = "save sale"
  /\ \E s \in Sales :
       /\ sales[s] = NoRow
       /\ sales' = [sales EXCEPT ![s] = [quote |-> job[w].quote, lines |-> job[w].lines,
                                        number |-> job[w].number]]
  /\ End(w)
  /\ UNCHANGED <<quotes, mailed, counter, otherThanQuotes>>

DeleteQuote(w, q) ==
  /\ QuoteIs(q, "draft")
  /\ Begin(w, "delete quote", QuoteJob(q, NoRow, "draft"))

handleDeleteQuote(w, q) == Takes(w, "delete quote") /\ DeleteQuote(w, q)

\* By id, whatever the status is now.
DeleteQuoteRow(w) ==
  /\ pc[w] = "delete quote"
  /\ quotes' = [quotes EXCEPT ![job[w].quote] = Deleted]
  /\ End(w)
  /\ UNCHANGED <<mailed, sales, counter, otherThanQuotes>>

-----------------------------------------------------------------------------
(* Customers and suppliers, which are roles of a party.                    *)

PartyJob(p, row) == [party |-> p, row |-> row]

\* Variant: the date is that of the last edit.
applySharedNow(row, f) ==
  LET consent == f.natural /\ f.consent IN
  [row EXCEPT !.identity = f.identity, !.consent = consent,
              !.since = IF consent THEN clock + 1 ELSE 0]

\* Only a natural person consents, and the date is that of the first time.
applyShared(row, f) ==
  LET consent == f.natural /\ f.consent IN
  [row EXCEPT !.identity = f.identity, !.consent = consent,
              !.since = IF ~ consent THEN 0
                        ELSE IF row.consent /\ row.since # 0 THEN row.since ELSE clock + 1]

applyRole(row, role) == [row EXCEPT !.roles = @ \cup {role}]

\* The request goes on to write a row that may bear a new date.
GoesToWrite(w, step, p, row) ==
  /\ row.since <= MaxTime
  /\ clock' = IF row.since > clock THEN row.since ELSE clock
  /\ Goes(w, step, PartyJob(p, row))
  /\ UNCHANGED <<parties, otherThanParties>>

Known(identity) == {p \in Parties : Row(parties[p]) /\ parties[p].identity = identity}

\* Whoever is already known in the other role gets this one too.
CreateParty(w, role, f) ==
  \/ \E p \in Known(f.identity) :
       /\ role \notin parties[p].roles
       /\ GoesToWrite(w, "update party", p, applyRole(applyShared(parties[p], f), role))
  \/ LET new == [identity |-> f.identity, consent |-> FALSE, since |-> 0, roles |-> {}] IN
     /\ Known(f.identity) = {}
     /\ GoesToWrite(w, "save party", NoRow, applyRole(applyShared(new, f), role))

handleCreateParty(w, role, f) == Takes(w, "party") /\ CreateParty(w, role, f)

\* UNIQUE (company_id, identification_type_code, identification_number).
SaveParty(w) ==
  /\ pc[w] = "save party"
  /\ \/ /\ Known(job[w].row.identity) = {}
        /\ \E p \in Parties : parties[p] = NoRow /\ parties' = [parties EXCEPT ![p] = job[w].row]
     \/ Known(job[w].row.identity) # {} /\ UNCHANGED parties
  /\ End(w)
  /\ UNCHANGED <<clock, otherThanParties>>

\* Whatever role is edited, the party has it from then on.
UpdateParty(w, p, role, f) ==
  /\ Row(parties[p])
  /\ GoesToWrite(w, "update party", p, applyRole(applyShared(parties[p], f), role))

handleUpdateParty(w, p, role, f) == Takes(w, "edit party") /\ UpdateParty(w, p, role, f)

\* The whole row as it was read and changed.
UpdatePartyRow(w) ==
  LET p == job[w].party IN
  /\ pc[w] = "update party"
  /\ parties' = IF Row(parties[p]) /\ Known(job[w].row.identity) \subseteq {p}
                THEN [parties EXCEPT ![p] = job[w].row] ELSE parties
  /\ End(w)
  /\ UNCHANGED <<clock, otherThanParties>>

DeleteRole(w, p, role) ==
  LET rest == parties[p].roles \ {role} IN
  /\ Row(parties[p]) /\ role \in parties[p].roles
  /\ Begin(w, IF rest = {} THEN "delete party" ELSE "update party",
           PartyJob(p, [parties[p] EXCEPT !.roles = rest]))

handleDeleteParty(w, p, role) == Takes(w, "drop role") /\ DeleteRole(w, p, role)

\* By id, whatever roles there are now.
DeletePartyRow(w) ==
  /\ pc[w] = "delete party"
  /\ parties' = [parties EXCEPT ![job[w].party] = Deleted]
  /\ End(w)
  /\ UNCHANGED <<clock, otherThanParties>>

-----------------------------------------------------------------------------
(* Warehouses.                                                             *)

WarehouseJob(h, code, first) == [warehouse |-> h, code |-> code, first |-> first]

Existing == {h \in Warehouses : Row(warehouses[h])}
Defaults == {h \in Existing : warehouses[h].default}
CodeOf(code) == {h \in Existing : warehouses[h].code = code}

\* The first one is born the default.
CreateWarehouse(w, code) == Begin(w, "save warehouse", WarehouseJob(NoRow, code, Existing = {}))

handleCreateWarehouse(w, code) == Takes(w, "warehouse") /\ CreateWarehouse(w, code)

\* UNIQUE (company_id, code), idx_warehouses_one_default_per_company.
WarehouseTaken(code, first) == CodeOf(code) # {} \/ (first /\ Defaults # {})

SaveWarehouse(w) ==
  /\ pc[w] = "save warehouse"
  /\ \/ /\ ~ WarehouseTaken(job[w].code, job[w].first)
        /\ \E h \in Warehouses :
             /\ warehouses[h] = NoRow
             /\ warehouses' = [warehouses EXCEPT ![h] = [code |-> job[w].code, active |-> TRUE,
                                                        default |-> job[w].first]]
     \/ WarehouseTaken(job[w].code, job[w].first) /\ UNCHANGED warehouses
  /\ End(w)
  /\ UNCHANGED otherThanWarehouses

\* Without a new code it keeps the one that was read.
UpdateWarehouse(w, h, code) ==
  /\ h \in Existing
  /\ code \in Codes \cup {warehouses[h].code}
  /\ Begin(w, "update warehouse", WarehouseJob(h, code, FALSE))

handleUpdateWarehouse(w, h, code) == Takes(w, "edit warehouse") /\ UpdateWarehouse(w, h, code)

UpdateWarehouseRow(w) ==
  LET h == job[w].warehouse IN
  /\ pc[w] = "update warehouse"
  /\ warehouses' = IF CodeOf(job[w].code) \subseteq {h}
                   THEN [warehouses EXCEPT ![h].code = job[w].code] ELSE warehouses
  /\ End(w)
  /\ UNCHANGED otherThanWarehouses

\* The default stays the default.
DeactivateWarehouse(h) == h \in Existing /\ warehouses' = [warehouses EXCEPT ![h].active = FALSE]

handleDeactivateWarehouse(w, h) ==
  /\ Takes(w, "deactivate")
  /\ DeactivateWarehouse(h)
  /\ UNCHANGED <<otherThanWarehouses, pc, job>>

\* Variant: the old default is left as it is.
SetDefaultOnly(h) == h \in Existing /\ warehouses' = [warehouses EXCEPT ![h].default = TRUE]

\* One transaction.  Of two at a time the index turns one away.
SetDefault(h) ==
  /\ h \in Existing
  /\ warehouses' = [g \in Warehouses |-> IF g \in Existing
                                         THEN [warehouses[g] EXCEPT !.default = (g = h)]
                                         ELSE warehouses[g]]

handleSetDefaultWarehouse(w, h) ==
  /\ Takes(w, "default")
  /\ SetDefault(h)
  /\ UNCHANGED <<otherThanWarehouses, pc, job>>

\* For a sale or a receipt that names no warehouse.
GetOrCreateDefault(w) ==
  /\ Takes(w, "resolve")
  /\ Defaults = {}
  /\ Begin(w, "active", WarehouseJob(NoRow, "PRINCIPAL", TRUE))

\* The oldest active one; which that is is left open.
PickActive(w) ==
  LET active == {h \in Existing : warehouses[h].active} IN
  /\ pc[w] = "active"
  /\ \/ \E h \in active : Begin(w, "promote", [job[w] EXCEPT !.warehouse = h])
     \/ active = {} /\ Begin(w, "save warehouse", job[w])

Promote(w) ==
  /\ pc[w] = "promote"
  /\ SetDefault(job[w].warehouse)
  /\ End(w)
  /\ UNCHANGED otherThanWarehouses

-----------------------------------------------------------------------------
(* Products.                                                               *)

CodedBy(code) == {p \in Products : products[p] = code}

CreateProduct(w, code) ==
  /\ CodedBy(code) = {}
  /\ Begin(w, "save product", [product |-> NoRow, code |-> code])

handleCreateProduct(w, code) == Takes(w, "product") /\ CreateProduct(w, code)

\* UNIQUE (company_id, code).
SaveProduct(w) ==
  /\ pc[w] = "save product"
  /\ \/ /\ CodedBy(job[w].code) = {}
        /\ \E p \in Products :
             products[p] = NoRow /\ products' = [products EXCEPT ![p] = job[w].code]
     \/ CodedBy(job[w].code) # {} /\ UNCHANGED products
  /\ End(w)
  /\ UNCHANGED otherThanProducts

UpdateProduct(w, p, code) ==
  /\ Row(products[p])
  /\ Begin(w, "update product", [product |-> p, code |-> code])

handleUpdateProduct(w, p, code) == Takes(w, "edit product") /\ UpdateProduct(w, p, code)

UpdateProductRow(w) ==
  LET p == job[w].product IN
  /\ pc[w] = "update product"
  /\ products' = IF Row(products[p]) /\ CodedBy(job[w].code) \subseteq {p}
                 THEN [products EXCEPT ![p] = job[w].code] ELSE products
  /\ End(w)
  /\ UNCHANGED otherThanProducts

DeleteProduct(p) == Row(products[p]) /\ products' = [products EXCEPT ![p] = Deleted]

handleDeleteProduct(w, p) ==
  /\ Takes(w, "delete product")
  /\ DeleteProduct(p)
  /\ UNCHANGED <<otherThanProducts, pc, job>>

-----------------------------------------------------------------------------
(* The settings of the company.                                            *)

UpdateProfile(w, profile) ==
  Begin(w, "update profile", [row |-> [company EXCEPT !.profile = profile]])

handleUpdateProfile(w, profile) == Takes(w, "profile") /\ UpdateProfile(w, profile)

\* Of the row that was read, the columns of the profile alone.
ProfileColumns(row) == company' = [company EXCEPT !.profile = row.profile]

UpdateProfileRow(w) ==
  /\ pc[w] = "update profile"
  /\ ProfileColumns(job[w].row)
  /\ End(w)
  /\ UNCHANGED otherThanCompany

\* The requests of one statement on the company.
Settings(w, request) ==
  /\ Takes(w, request)
  /\ UNCHANGED <<otherThanCompany, pc, job>>

\* The groups that were sent; the others stay.
UpdateCredentials(sent) ==
  company' = [company EXCEPT !.credentials =
                [k \in Kinds |-> IF k \in DOMAIN sent THEN sent[k] ELSE @[k]]]

handleUpdateCredentials(w, sent) == Settings(w, "credentials") /\ UpdateCredentials(sent)

ClearCredential(kind) == company' = [company EXCEPT !.credentials[kind] = "none"]

handleClearSoftware(w) == Settings(w, "clear") /\ ClearCredential("software")
handleClearNeSoftware(w) == Settings(w, "clear") /\ ClearCredential("ne_software")
handleClearCertificate(w) == Settings(w, "clear") /\ ClearCredential("certificate")

SetLogo(value) == company' = [company EXCEPT !.logo = value]

handleUpdateLogo(w, value) == Settings(w, "logo") /\ SetLogo(value)
handleDeleteLogo(w) == Settings(w, "logo") /\ SetLogo("none")

UpdateBrandColor(value) == company' = [company EXCEPT !.color = value]

handleUpdateSettings(w, value) == Settings(w, "color") /\ UpdateBrandColor(value)

-----------------------------------------------------------------------------
(* Electronic documents, from the draft to the mail.  What Confirm does    *)
(* with the number and the DIAN is in ElectronicIssuing: here a document   *)
(* that got its signed XML is "built" from then on.                        *)

Drafts == {d \in Documents : Row(documents[d]) /\ documents[d].status = "draft"}

\* validateBase and validateNote compare the type of the range with the route's;
\* validateSupport does not.
Valid(route, r) == route \in Supports \/ RangeType[r] = route

\* What a route writes of a document.
Merged(row, route, r, l) ==
  [row EXCEPT !.range = r, !.lines = l,
              !.supplier = @ \/ route \in Supports, !.reference = @ \/ route \in Notes]

\* Create inserts one row.
CreateRow(row) ==
  \E d \in Documents : documents[d] = NoRow /\ documents' = [documents EXCEPT ![d] = row]

CreateDraft(route, r, l) ==
  /\ Valid(route, r)
  /\ CreateRow([type |-> route, range |-> r, lines |-> l, supplier |-> route \in Supports,
                reference |-> route \in Notes, status |-> "draft", signed |-> NoRow])

CreateInvoiceDraft(r, l)         == CreateDraft("invoice", r, l)
CreateCreditNoteDraft(r, l)      == CreateDraft("credit note", r, l)
CreateDebitNoteDraft(r, l)       == CreateDraft("debit note", r, l)
CreateSupportDocumentDraft(r, l) == CreateDraft("support document", r, l)
CreateAdjustmentNoteDraft(r, l)  == CreateDraft("adjustment note", r, l)

\* The requests of one statement on the documents.
OfDocuments(w, request) ==
  /\ Takes(w, request)
  /\ UNCHANGED <<otherThanDocuments, received, pc, job>>

handleCreateInvoiceDraft(w, r, l) ==
  OfDocuments(w, "draft") /\ "invoice" \in duties[w] /\ CreateInvoiceDraft(r, l)
handleCreateCreditNoteDraft(w, r, l) ==
  OfDocuments(w, "draft") /\ "credit note" \in duties[w] /\ CreateCreditNoteDraft(r, l)
handleCreateDebitNoteDraft(w, r, l) ==
  OfDocuments(w, "draft") /\ "debit note" \in duties[w] /\ CreateDebitNoteDraft(r, l)
handleCreateSupportDocDraft(w, r, l) ==
  OfDocuments(w, "draft") /\ "support document" \in duties[w] /\ CreateSupportDocumentDraft(r, l)
handleCreateAdjustmentNoteDraft(w, r, l) ==
  OfDocuments(w, "draft") /\ "adjustment note" \in duties[w] /\ CreateAdjustmentNoteDraft(r, l)

\* getOwnedDraft.  That the document is of the route's type is not looked at.
UpdateDraft(w, d, route, r, l) ==
  /\ d \in Drafts /\ Valid(route, r)
  /\ Begin(w, "update draft", [document |-> d, draft |-> Merged(documents[d], route, r, l)])

UpdateInvoiceDraft(w, d, r, l)         == UpdateDraft(w, d, "invoice", r, l)
UpdateCreditNoteDraft(w, d, r, l)      == UpdateDraft(w, d, "credit note", r, l)
UpdateDebitNoteDraft(w, d, r, l)       == UpdateDraft(w, d, "debit note", r, l)
UpdateSupportDocumentDraft(w, d, r, l) == UpdateDraft(w, d, "support document", r, l)
UpdateAdjustmentNoteDraft(w, d, r, l)  == UpdateDraft(w, d, "adjustment note", r, l)

handleUpdateInvoiceDraft(w, d, r, l) ==
  Takes(w, "edit draft") /\ "invoice" \in duties[w] /\ UpdateInvoiceDraft(w, d, r, l)
handleUpdateCreditNoteDraft(w, d, r, l) ==
  Takes(w, "edit draft") /\ "credit note" \in duties[w] /\ UpdateCreditNoteDraft(w, d, r, l)
handleUpdateDebitNoteDraft(w, d, r, l) ==
  Takes(w, "edit draft") /\ "debit note" \in duties[w] /\ UpdateDebitNoteDraft(w, d, r, l)
handleUpdateSupportDocDraft(w, d, r, l) ==
  Takes(w, "edit draft") /\ "support document" \in duties[w] /\ UpdateSupportDocumentDraft(w, d, r, l)
handleUpdateAdjustmentNoteDraft(w, d, r, l) ==
  Takes(w, "edit draft") /\ "adjustment note" \in duties[w] /\ UpdateAdjustmentNoteDraft(w, d, r, l)

Write(d, row) ==
  documents' = [documents EXCEPT ![d] = [row EXCEPT !.status = documents[d].status,
                                                    !.signed = documents[d].signed]]

\* Variant: without AND status = 'draft'.
UpdateDraftAnyStatus(d, row) == Row(documents[d]) /\ Write(d, row)

\* Not the status and not what Confirm writes.
UpdateDraftColumns(d, row) == d \in Drafts /\ Write(d, row)

\* A statement that applies to a draft alone; of another it changes nothing.
OnDraft(w, step) ==
  /\ pc[w] = step
  /\ End(w)
  /\ UNCHANGED <<received, otherThanDocuments>>

NoDraft(d) == d \notin Drafts /\ UNCHANGED documents

UpdateDraftRow(w) ==
  LET d == job[w].document IN
  OnDraft(w, "update draft") /\ (UpdateDraftColumns(d, job[w].draft) \/ NoDraft(d))

\* Variant: the clone keeps the signed XML.
CloneWhole(d) == Row(documents[d]) /\ CreateRow([documents[d] EXCEPT !.status = "draft"])

\* Of any status; without a number, a signature or a QR of its own.
CloneDraft(d) ==
  Row(documents[d]) /\ CreateRow([documents[d] EXCEPT !.status = "draft", !.signed = NoRow])

handleCloneDocument(w, d) == OfDocuments(w, "clone") /\ CloneDraft(d)

DeleteDraft(d) == d \in Drafts /\ documents' = [documents EXCEPT ![d] = Deleted]

handleDeleteDraft(w, d) == OfDocuments(w, "delete draft") /\ DeleteDraft(d)

\* The XML is built and signed of the row that was read here.
Confirm(w, d) ==
  /\ d \in Drafts
  /\ documents[d].type \in Notes => documents[d].reference
  /\ documents[d].type \in Supports => documents[d].supplier
  /\ Begin(w, "sign", [document |-> d, draft |-> documents[d]])

handleConfirmDocument(w, d) == Takes(w, "confirm") /\ Confirm(w, d)

\* The signed XML, the number and the status, and none of the other columns.
ConfirmColumns(d, row) ==
  /\ d \in Drafts
  /\ documents' = [documents EXCEPT ![d].status = "built", ![d].signed = row.lines]

PersistBuilt(w) ==
  LET d == job[w].document IN
  OnDraft(w, "sign") /\ (ConfirmColumns(d, job[w].draft) \/ NoDraft(d))

\* Once signed, whatever the DIAN says.  The PDF and the XML in the mail are of the row
\* that was read here.
SendDocument(w, d) ==
  /\ Row(documents[d]) /\ documents[d].signed # NoRow
  /\ Begin(w, "document mail", [document |-> d, draft |-> documents[d]])

handleSendDocumentEmail(w, d) == Takes(w, "mail document") /\ SendDocument(w, d)

DocumentMail(w) ==
  /\ pc[w] = "document mail"
  /\ received' = [received EXCEPT ![job[w].document] = job[w].draft.lines]
  /\ End(w)
  /\ UNCHANGED <<otherThanDocuments, documents>>

-----------------------------------------------------------------------------

\* A statement is not applied, or a mail not sent, and the request answers with its
\* error.
StepFails(w) ==
  /\ "failure" \in Faults[w]
  /\ pc[w] # "idle"
  /\ End(w)
  /\ UNCHANGED database

Crash(w) ==
  /\ "crash" \in Faults[w]
  /\ pc[w] # "idle"
  /\ End(w)
  /\ UNCHANGED database

QuoteStep(w) ==
  \/ \E l \in Lines : handleCreateQuote(w, l)
  \/ \E n \in 1..MaxNumber : SetQuoteNumberCounter(w, n)
  \/ \E q \in Quotes :
       \/ \E l \in Lines : handleUpdateQuote(w, q, l)
       \/ handleSendQuote(w, q) \/ handleSendQuoteEmail(w, q) \/ handleAcceptQuote(w, q)
       \/ handleRejectQuote(w, q) \/ handleConvertQuoteToSale(w, q) \/ handleDeleteQuote(w, q)
  \/ NextQuoteNumber(w) \/ SaveQuote(w) \/ Notify(w) \/ UpdateQuoteStatus(w)
  \/ NextSaleNumber(w) \/ SaveSale(w) \/ DeleteQuoteRow(w)

PartyStep(w) ==
  \/ \E role \in Roles : \/ \E f \in Forms : \/ handleCreateParty(w, role, f)
                                          \/ \E p \in Parties : handleUpdateParty(w, p, role, f)
                         \/ \E p \in Parties : handleDeleteParty(w, p, role)
  \/ SaveParty(w) \/ UpdatePartyRow(w) \/ DeletePartyRow(w)

WarehouseStep(w) ==
  \/ \E code \in Codes : handleCreateWarehouse(w, code)
  \/ \E h \in Warehouses :
       \/ \E code \in Codes \cup {"PRINCIPAL"} : handleUpdateWarehouse(w, h, code)
       \/ handleDeactivateWarehouse(w, h) \/ handleSetDefaultWarehouse(w, h)
  \/ GetOrCreateDefault(w)
  \/ SaveWarehouse(w) \/ UpdateWarehouseRow(w) \/ PickActive(w) \/ Promote(w)

ProductStep(w) ==
  \/ \E code \in Codes : \/ handleCreateProduct(w, code)
                         \/ \E p \in Products : handleUpdateProduct(w, p, code)
  \/ \E p \in Products : handleDeleteProduct(w, p)
  \/ SaveProduct(w) \/ UpdateProductRow(w)

CompanyStep(w) ==
  \/ \E profile \in Profiles : handleUpdateProfile(w, profile)
  \/ \E kinds \in SUBSET Kinds : \E sent \in [kinds -> Values] : handleUpdateCredentials(w, sent)
  \/ handleClearSoftware(w) \/ handleClearNeSoftware(w) \/ handleClearCertificate(w)
  \/ \E value \in Values : handleUpdateLogo(w, value) \/ handleUpdateSettings(w, value)
  \/ handleDeleteLogo(w) \/ UpdateProfileRow(w)

\* Requests of a document, by its route.
DocumentRequest(w) ==
  \E r \in Ranges : \E l \in Lines :
    \/ handleCreateInvoiceDraft(w, r, l) \/ handleCreateCreditNoteDraft(w, r, l)
    \/ handleCreateDebitNoteDraft(w, r, l) \/ handleCreateSupportDocDraft(w, r, l)
    \/ handleCreateAdjustmentNoteDraft(w, r, l)
    \/ \E d \in Documents :
         \/ handleUpdateInvoiceDraft(w, d, r, l) \/ handleUpdateCreditNoteDraft(w, d, r, l)
         \/ handleUpdateDebitNoteDraft(w, d, r, l) \/ handleUpdateSupportDocDraft(w, d, r, l)
         \/ handleUpdateAdjustmentNoteDraft(w, d, r, l)

DocumentStep(w) ==
  \/ DocumentRequest(w)
  \/ \E d \in Documents : \/ handleCloneDocument(w, d) \/ handleDeleteDraft(w, d)
                          \/ handleConfirmDocument(w, d) \/ handleSendDocumentEmail(w, d)
  \/ UpdateDraftRow(w) \/ PersistBuilt(w) \/ DocumentMail(w)

Failure(w) == StepFails(w) \/ Crash(w)

Next ==
  /\ \E w \in Clerks : QuoteStep(w) \/ PartyStep(w) \/ WarehouseStep(w) \/ ProductStep(w)
                        \/ CompanyStep(w) \/ DocumentStep(w) \/ Failure(w)
  /\ UNCHANGED duties

Spec == Init /\ [][Next]_vars

-----------------------------------------------------------------------------
(* Properties.                                                             *)

TypeOK ==
  /\ duties \in Shifts
  /\ quotes \in [Quotes -> QuoteRows \cup {NoRow, Deleted}]
  /\ mailed \in [Quotes -> Lines \cup {NoRow}]
  /\ sales \in [Sales -> SaleRows \cup {NoRow}]
  /\ counter \in [{"quote", "sale"} -> Nat]
  /\ parties \in [Parties -> PartyRows \cup {NoRow, Deleted}]
  /\ clock \in Nat
  /\ warehouses \in [Warehouses -> WarehouseRows \cup {NoRow}]
  /\ products \in [Products -> Codes \cup {NoRow, Deleted}]
  /\ company \in CompanyRows
  /\ documents \in [Documents -> DocumentRows \cup {NoRow, Deleted}]
  /\ received \in [Documents -> Lines \cup {NoRow}]
  /\ pc \in [Clerks -> Steps]
  /\ job \in [Clerks -> Jobs]

\* What the customer has in his mail is what was quoted, and stays so once the quote is
\* sent.  An edit while the mail is on its way gets past the look at the status, and a
\* mail whose status could not be written is of a draft that goes on changing.
MailedIsQuoted ==
  OneAt({"edit quote", "mail"}) /\ Spared({"mail"}) => \A q \in Quotes :
    Row(quotes[q]) /\ quotes[q].status # "draft" /\ mailed[q] # NoRow =>
      mailed[q] = quotes[q].lines

\* A sale is of what its customer accepted, however many clerks are at the quote
\* between one and the other.
SaleAsAccepted ==
  \A s \in Sales : Row(sales[s]) /\ Row(quotes[sales[s].quote]) =>
    sales[s].lines = quotes[sales[s].quote].lines

\* While a party consents, the date of its consent stays what it was (the comment in
\* applyShared).  A request that read the party before another withdrew and renewed
\* the consent brings the old date back.
ConsentKept ==
  [][OneAt({"party", "edit party", "drop role"}) => \A p \in Parties :
       Row(parties[p]) /\ Row(parties'[p]) /\ parties[p].consent /\ parties'[p].consent =>
         parties'[p].since = parties[p].since]_vars

\* Whoever creates, promotes and resolves warehouses, at a time and with failures, a
\* company that has any has one default: a sale that names none finds the one meant.
OneDefaultWarehouse == Existing # {} => \E h \in Existing : Defaults = {h}

\* What the addressee of a document got by mail, which is final for both, is what is on
\* record of it: no request that began while it was a draft changes it or removes it
\* later, however many clerks edit, confirm and mail it at a time.
ReceivedAsOnRecord ==
  \A d \in Documents :
    received[d] # NoRow => Row(documents[d]) /\ documents[d].lines = received[d]

\* The lines on record, of which its PDF is made, are the ones that were signed.
\* The status in the WHERE of the edit and of the confirmation does not see to it: an
\* edit between Confirm's read and its write changes the draft that is then marked as
\* signed.
SignedIsStored ==
  OneAt({"edit draft", "confirm"}) => \A d \in Documents :
    Row(documents[d]) /\ documents[d].signed # NoRow => documents[d].signed = documents[d].lines

-----------------------------------------------------------------------------
(* The inductive invariant.                                                *)

\* What a request of quotes has read.  From the acceptance on the lines stay.
QuoteJobOK(w) ==
  pc[w] \in QuoteSteps =>
    /\ job[w] \in QuoteJobs
    /\ pc[w] \notin {"quote status", "delete quote"} => job[w].lines \in Lines
    /\ pc[w] = "quote mail" => "mail" \in duties[w]
    /\ pc[w] \in {"quote mail", "quote status"} => job[w].status # "draft"
    /\ pc[w] \notin {"quote number", "save quote"} =>
         job[w].quote \in Quotes /\ quotes[job[w].quote] # NoRow
    /\ pc[w] \in {"sale number", "save sale"} /\ Row(quotes[job[w].quote]) =>
         /\ quotes[job[w].quote].status # "draft"
         /\ quotes[job[w].quote].lines = job[w].lines

\* What was mailed or sold of a quote.
QuotesInv ==
  /\ \A w \in Clerks : QuoteJobOK(w)
  /\ \A q \in Quotes : mailed[q] # NoRow => quotes[q] # NoRow
  /\ \A s \in Sales : Row(sales[s]) =>
       LET q == sales[s].quote IN
       /\ quotes[q] # NoRow
       /\ Row(quotes[q]) => quotes[q].status # "draft" /\ quotes[q].lines = sales[s].lines

\* A draft that was mailed is about to be marked as sent.
Sending(q) == \E w \in Clerks : pc[w] = "quote status" /\ "mail" \in duties[w] /\ job[w].quote = q

MailInv ==
  /\ \A w \in Clerks : pc[w] = "quote mail" /\ Row(quotes[job[w].quote]) =>
       quotes[job[w].quote].lines = job[w].lines
  /\ \A q \in Quotes : mailed[q] # NoRow /\ Row(quotes[q]) =>
       /\ quotes[q].lines = mailed[q]
       /\ quotes[q].status # "draft" \/ Sending(q)

OfParties == {"party", "edit party", "drop role"}

Dated(row) == row.consent => row.since # 0

PartyJobOK(w) ==
  pc[w] \in PartySteps =>
    /\ job[w] \in PartyJobs
    /\ OfParties \cap duties[w] # {}
    /\ pc[w] # "save party" => job[w].party \in Parties /\ parties[job[w].party] # NoRow
    /\ pc[w] # "delete party" => Dated(job[w].row)

PartiesInv ==
  /\ \A w \in Clerks : PartyJobOK(w)
  /\ \A p \in Parties : Row(parties[p]) => Dated(parties[p])

\* Nobody else writes the party that a request has read.
ConsentInv ==
  \A w \in Clerks : pc[w] = "update party" =>
    LET row == parties[job[w].party] IN
    Row(row) /\ row.consent /\ job[w].row.consent => job[w].row.since = row.since

\* A warehouse is never removed.
WarehouseJobOK(w) ==
  pc[w] \in WarehouseSteps =>
    /\ job[w] \in WarehouseJobs
    /\ pc[w] \in {"update warehouse", "promote"} => job[w].warehouse \in Existing
    /\ pc[w] = "save warehouse" => job[w].first \/ Existing # {}
    /\ pc[w] = "active" => job[w].first

WarehousesInv == (\A w \in Clerks : WarehouseJobOK(w)) /\ OneDefaultWarehouse

OtherJobOK(w) ==
  /\ pc[w] \in ProductSteps => job[w] \in ProductJobs
  /\ pc[w] = "update product" => job[w].product \in Products
  /\ pc[w] = "update profile" => job[w] \in CompanyJobs

\* What is mailed is final.
DocumentJobOK(w) ==
  pc[w] \in DocumentSteps =>
    /\ job[w] \in DocumentJobs
    /\ documents[job[w].document] # NoRow
    /\ pc[w] = "update draft" => "edit draft" \in duties[w]
    /\ pc[w] = "sign" => "confirm" \in duties[w]
    /\ pc[w] = "document mail" =>
         LET row == documents[job[w].document] IN
         Row(row) /\ row.status = "built" /\ row.lines = job[w].draft.lines

DocumentsInv ==
  /\ \A w \in Clerks : DocumentJobOK(w)
  /\ \A d \in Documents :
       /\ Row(documents[d]) /\ documents[d].signed # NoRow => documents[d].status = "built"
       /\ received[d] # NoRow =>
            /\ Row(documents[d]) /\ documents[d].status = "built"
            /\ documents[d].lines = received[d]

\* Nobody edits the draft that a confirmation has read.
SignInv ==
  /\ \A w \in Clerks : pc[w] = "sign" /\ job[w].document \in Drafts =>
       documents[job[w].document].lines = job[w].draft.lines
  /\ \A d \in Documents :
       Row(documents[d]) /\ documents[d].signed # NoRow => documents[d].signed = documents[d].lines

MailOrderly == OneAt({"edit quote", "mail"}) /\ Spared({"mail"})

FrontOfficeInv ==
  /\ TypeOK
  /\ QuotesInv /\ (MailOrderly => MailInv)
  /\ PartiesInv /\ (OneAt(OfParties) => ConsentInv)
  /\ WarehousesInv
  /\ \A w \in Clerks : OtherJobOK(w)
  /\ DocumentsInv /\ (OneAt({"edit draft", "confirm"}) => SignInv)
=============================================================================
