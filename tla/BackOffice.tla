------------------------------ MODULE BackOffice ------------------------------
(***************************************************************************)
(* The desks of accounting that work on what has been posted: fixed assets *)
(* and their depreciation (accounting/application/fixed_asset.go), voiding *)
(* of entries and closing of months (void_journal.go, manage_period.go),   *)
(* the bank statement (bank.go), the reconciliation of entries with each   *)
(* other (reconciliation.go), budgets (budget.go), tax declarations        *)
(* (tax_declarations.go), the exchange rate (exchange_rate.go,             *)
(* trm_scheduler.go), and the types of vouchers and the bank accounts that *)
(* postings and statements refer to (get_journal.go, bank.go).             *)
(*                                                                         *)
(* An entry stands for its line on the account at hand: the accumulated    *)
(* depreciation of each asset, the bank, or the customers.  What the       *)
(* entries of sales and purchases contain is in OrderToCash and            *)
(* PurchaseToPay.                                                          *)
(***************************************************************************)
EXTENDS Integers, FiniteSetsExt

CONSTANTS
  Assets, Cost, Salvage, Life, \* acquisition_cost, salvage_value, useful_life_months
  Months,    \* accounting periods
  Entries,   \* identifiers of journal entries
  VoucherTypes, \* codes of the company's own; Standard stands for those of the system
  Banks,     \* bank accounts
  Statement, \* lines of the bank statement
  Budgets, Accounts,
  Bimesters, \* the periods that are declared, in their order: integers
  Movements, \* what the ledger may say of a period: credits and debits of an account
  Tariffs,   \* what may be set as a tariff: rate and surcharge, in basis points
  Days,      \* the days the server runs: integers from 1
  Pairs,     \* the pairs of currencies, <<from, to>>, that rates are captured of
  Clerks,    \* goroutines that serve requests
  Shifts,    \* the ways to divide the requests among them
  Faults,    \* goroutine -> "crash", it dies; "database", a statement fails, or is
             \* applied and its reply lost
  NoAsset, NoMonth, NoEntry, NoLine, NoBudget, NoAccount, Standard

Requests == {"register", "depreciate", "dispose", "post", "void", "close", "reopen",
             "add line", "reconcile", "mark", "remark", "unmark",
             "budget", "budget line", "approve", "iva", "ica", "income", "declare late",
             "tariff", "file", "rate", "lookup", "sync", "daily",
             "voucher type", "own voucher", "bank"}

\* The one pair that the service is asked about.
Official == <<"USD", "COP">>

ASSUME BackOfficeAssumption ==
  /\ Cost \in [Assets -> Nat \ {0}] /\ Salvage \in [Assets -> Nat] /\ Life \in [Assets -> Nat \ {0}]
  /\ Shifts \subseteq [Clerks -> SUBSET Requests]
  /\ Faults \in [Clerks -> SUBSET {"crash", "database"}]
  /\ NoAsset \notin Assets /\ NoMonth \notin Months /\ NoEntry \notin Entries
  /\ "none" \notin Entries \cup {NoEntry}
  /\ Bimesters \subseteq Nat /\ Days \subseteq Nat \ {0} /\ 1 \in Days /\ Official \in Pairs
  /\ Movements \subseteq [credit : Nat, debit : Nat] /\ Tariffs \subseteq [rate : Nat, surcharge : Nat]
  /\ Standard \notin VoucherTypes
  /\ NoLine \notin Statement /\ NoBudget \notin Budgets /\ NoAccount \notin Accounts

VARIABLES
  duties,      \* who serves what; never changes
  assets,      \* asset -> fixed_assets.status, "none" before there is a row
  accumulated, \* asset -> the sum of its depreciation_entries
  runs,        \* the months with a completed row in depreciation_runs
  entries,     \* journal_entries with their lines
  periods,     \* month -> accounting_periods.status, "none" before there is a row
  statement,   \* bank_statement_lines: "none", no row yet; the entry, or NoEntry
  marks,       \* reconciliation_marks: entry -> "none", no row; the other, or NoEntry
  budgets,     \* budget -> budgets.status, "none" before and after its row
  lines,       \* budget_lines: <<budget, account>>
  declarations,\* iva_declarations, ica_declarations, income_tax_declarations
  tariff,      \* the row of ica_tariffs for the year, as a set of at most one
  rates,       \* day and pair -> exchange_rates.source, "none" before there is a row
  today,       \* the date in Bogota
  voucherTypes, \* code -> voucher_types.is_active, "none" before there is a row
  banks,       \* account -> bank_accounts.is_active, "none" before there is a row
  pc,          \* request -> the statement it is at
  job          \* request -> its local variables

assetTables  == <<assets, accumulated, runs>>
ledgerTables == <<entries, periods>>
bankTables   == <<statement, marks>>
budgetTables == <<budgets, lines>>
database == <<assetTables, ledgerTables, bankTables, budgetTables>>
\* What the desks of taxes and of the exchange rate work on, and the others do not.
taxTables == <<declarations, tariff, rates, today>>
registers == <<voucherTypes, banks>>
vars == <<duties, assets, accumulated, runs, entries, periods, statement, marks, budgets,
          lines, declarations, tariff, rates, today, voucherTypes, banks, pc, job>>

AssetStatuses  == {"ACTIVE", "FULLY_DEPRECIATED", "DISPOSED"}
\* Nothing closes a budget (CLOSED).
BudgetStatuses == {"DRAFT", "APPROVED"}

\* amounts: of a depreciation, what each asset loses; of a disposal, what had been
\* depreciated of it.
EntryRows == [status : {"none", "POSTED", "VOID"}, source : {"manual", "depreciation", "disposal"},
              month : Months \cup {NoMonth}, asset : Assets \cup {NoAsset},
              amounts : [Assets -> Nat]]
NoAmounts == [a \in Assets |-> 0]
NoEntryRow == [status |-> "none", source |-> "manual", month |-> NoMonth, asset |-> NoAsset,
               amounts |-> NoAmounts]

Links == Entries \cup {NoEntry, "none"}

Steps == {"idle", "period", "new period", "has run", "list", "quota", "status", "post", "record",
          "accumulated", "retire", "dispose", "enter", "void period", "void", "close",
          "reopen", "reconcile", "mark", "mark other", "upsert", "delete line", "delete lines", "delete",
          "approve", "carry", "declare", "fetch", "fetch daily", "hour", "set rate",
          "voucher type", "deactivate"}

\* Of the income tax, with a declaration a year, nothing is carried forward.
Taxes == {"iva", "ica", "income"}
DeclarationRows == [tax : Taxes, period : Nat, net : Int, previous : Nat, pay : Nat, carry : Nat,
                    status : {"DRAFT", "FILED"}]

\* The locals of the requests of taxes and of the exchange rate.
TaxJobs  == [tax : Taxes, period : Nat, net : Int, previous : Nat]
RateJobs == [day : Days, pair : Pairs, tries : 0..2]

\* The source of a rate is free text: that of the service, or any other.
Sources == {"MANUAL", "SUPERFINANCIERA"}

\* todo: the assets of the run that it has not come to yet.
Jobs == [month : Months \cup {NoMonth}, asset : Assets \cup {NoAsset}, todo : SUBSET Assets,
         amounts : [Assets -> Nat], entry : Entries \cup {NoEntry},
         other : Entries \cup {NoEntry}, line : Statement \cup {NoLine},
         budget : Budgets \cup {NoBudget}, account : Accounts \cup {NoAccount},
         type : VoucherTypes \cup {Standard}]

Idle == [month |-> NoMonth, asset |-> NoAsset, todo |-> {}, amounts |-> NoAmounts,
         entry |-> NoEntry, other |-> NoEntry, line |-> NoLine, budget |-> NoBudget,
         account |-> NoAccount, type |-> Standard]

\* Where no clerk registers assets, or bank accounts, they are there from the start.
Init ==
  /\ duties \in Shifts
  /\ assets = [a \in Assets |-> IF \E w \in Clerks : "register" \in duties[w] THEN "none"
                                ELSE "ACTIVE"]
  /\ accumulated = NoAmounts
  /\ runs = {}
  /\ entries = [e \in Entries |-> NoEntryRow]
  /\ periods = [m \in Months |-> "none"]
  /\ statement = [l \in Statement |-> "none"]
  /\ marks = [e \in Entries |-> "none"]
  /\ budgets = [b \in Budgets |-> "none"]
  /\ lines = {}
  /\ declarations = {}
  /\ tariff = {}
  /\ rates = [dp \in Days \X Pairs |-> "none"]
  /\ today = 1
  /\ voucherTypes = [t \in VoucherTypes |-> "none"]
  /\ banks = [b \in Banks |-> IF \E w \in Clerks : "bank" \in duties[w] THEN "none" ELSE "active"]
  /\ pc = [w \in Clerks |-> "idle"]
  /\ job = [w \in Clerks |-> Idle]

Goto(w, step) == pc' = [pc EXCEPT ![w] = step]

End(w) ==
  /\ Goto(w, "idle")
  /\ job' = [job EXCEPT ![w] = Idle]

\* The request goes on at a step with j for its locals.
Goes(w, step, j) ==
  /\ Goto(w, step)
  /\ job' = [job EXCEPT ![w] = j]

\* A statement was applied; the request goes on, or ends because its reply was lost.
Applied(w, step, j) ==
  Goes(w, step, j) \/ ("database" \in Faults[w] /\ End(w))

Takes(w, request) == pc[w] = "idle" /\ request \in duties[w]

Begin(w, step, j) ==
  /\ Goes(w, step, j)
  /\ UNCHANGED database

-----------------------------------------------------------------------------
(* Months.  A request that posts begins with the month.                    *)

\* What the request does once its month is open.
AfterPeriod(w) ==
  IF job[w].entry # NoEntry THEN IF job[w].type = Standard THEN "enter" ELSE "voucher type"
  ELSE IF job[w].asset # NoAsset THEN "accumulated" ELSE "has run"

GetByYearMonth(w) ==
  /\ pc[w] = "period"
  /\ \/ periods[job[w].month] = "none" /\ Goes(w, "new period", job[w])
     \/ periods[job[w].month] = "OPEN" /\ Goes(w, AfterPeriod(w), job[w])
     \/ periods[job[w].month] = "CLOSED" /\ End(w)
  /\ UNCHANGED database

\* (company, year, month) is UNIQUE: of two that make the same month one fails.
CreatePeriod(w) ==
  /\ pc[w] = "new period"
  /\ \/ /\ periods[job[w].month] = "none"
        /\ periods' = [periods EXCEPT ![job[w].month] = "OPEN"]
        /\ Applied(w, AfterPeriod(w), job[w])
     \/ periods[job[w].month] # "none" /\ End(w) /\ UNCHANGED periods
  /\ UNCHANGED <<assetTables, entries, bankTables, budgetTables>>

Close(w, m) ==
  /\ periods[m] = "OPEN"
  /\ Begin(w, "close", [Idle EXCEPT !.month = m])

handleClosePeriod(w, m) == Takes(w, "close") /\ Close(w, m)

Reopen(w, m) ==
  /\ periods[m] = "CLOSED"
  /\ Begin(w, "reopen", [Idle EXCEPT !.month = m])

handleReopenPeriod(w, m) == Takes(w, "reopen") /\ Reopen(w, m)

SetPeriod(w, step, status) ==
  /\ pc[w] = step
  /\ periods' = [periods EXCEPT ![job[w].month] = status]
  /\ End(w)
  /\ UNCHANGED <<assetTables, entries, bankTables, budgetTables>>

ClosePeriod(w)  == SetPeriod(w, "close", "CLOSED")
ReopenPeriod(w) == SetPeriod(w, "reopen", "OPEN")

-----------------------------------------------------------------------------
(* Entries.                                                                *)

NewEntry(source, j) ==
  [status |-> "POSTED", source |-> source, month |-> j.month, asset |-> j.asset,
   amounts |-> j.amounts]

\* journals.Create, an entry with its lines in one transaction; the month is not
\* looked at again.
CreateEntry(w, e, source) ==
  /\ entries[e].status = "none"
  /\ entries' = [entries EXCEPT ![e] = NewEntry(source, job[w])]

\* An entry made by hand: it was balanced before the request came to the month.
PostJournal(w, e, m, t) ==
  /\ entries[e].status = "none"
  /\ Begin(w, "period", [Idle EXCEPT !.month = m, !.entry = e, !.type = t])

handlePostJournal(w, e, m, t) ==
  /\ Takes(w, IF t = Standard THEN "post" ELSE "own voucher")
  /\ PostJournal(w, e, m, t)

\* It is not looked at again when the number is taken and the entry made.
IsRegisteredVoucherType(w) ==
  /\ pc[w] = "voucher type"
  /\ IF voucherTypes[job[w].type] = "active" THEN Goes(w, "enter", job[w]) ELSE End(w)
  /\ UNCHANGED database

EnterJournal(w) ==
  /\ pc[w] = "enter"
  /\ CreateEntry(w, job[w].entry, "manual")
  /\ End(w)
  /\ UNCHANGED <<assetTables, periods, bankTables, budgetTables>>

VoidJournal(w, e) ==
  /\ entries[e].status = "POSTED"
  /\ Begin(w, "void period", [Idle EXCEPT !.entry = e, !.month = entries[e].month])

handleVoidJournal(w, e) == Takes(w, "void") /\ VoidJournal(w, e)

CheckVoidPeriod(w) ==
  /\ pc[w] = "void period"
  /\ IF periods[job[w].month] = "CLOSED" THEN End(w) ELSE Goes(w, "void", job[w])
  /\ UNCHANGED database

\* Neither the depreciation it belongs to nor its reconciliation is looked at.
Void(w) ==
  /\ pc[w] = "void"
  /\ entries' = [entries EXCEPT ![job[w].entry].status = "VOID"]
  /\ End(w)
  /\ UNCHANGED <<assetTables, periods, bankTables, budgetTables>>

-----------------------------------------------------------------------------
(* Depreciation of a month.                                                *)

\* A salvage value above the cost is not turned away.
CreateFixedAsset(a) ==
  /\ assets[a] = "none"
  /\ assets' = [assets EXCEPT ![a] = "ACTIVE"]
  /\ UNCHANGED <<accumulated, runs, ledgerTables, bankTables, budgetTables, pc, job>>

handleCreateFixedAsset(w, a) == Takes(w, "register") /\ CreateFixedAsset(a)

RunDepreciation(w, m) == Begin(w, "period", [Idle EXCEPT !.month = m])

handleRunDepreciation(w, m) == Takes(w, "depreciate") /\ RunDepreciation(w, m)

\* Variant: the run is only refused by the index, after the entry has been posted.
HasRunForPeriodLater(w) ==
  /\ pc[w] = "has run"
  /\ Goes(w, "list", job[w])
  /\ UNCHANGED database

HasRunForPeriod(w) ==
  /\ pc[w] = "has run"
  /\ IF job[w].month \in runs THEN End(w) ELSE Goes(w, "list", job[w])
  /\ UNCHANGED database

ListAssets(w) ==
  /\ pc[w] = "list"
  /\ Goes(w, "quota", [job[w] EXCEPT !.todo = {a \in Assets : assets[a] = "ACTIVE"}])
  /\ UNCHANGED database

Depreciable(a) == Cost[a] - Salvage[a]

\* By cents: the remainder of the division comes after the useful life.
MonthlyDepreciation(a) == Depreciable(a) \div Life[a]

\* Variant: the same every month.
QuotaWhole(a, done) ==
  IF Depreciable(a) - done <= 0 THEN 0 ELSE MonthlyDepreciation(a)

\* What a month takes from an asset of which so much has been depreciated.
Quota(a, done) ==
  LET remaining == Depreciable(a) - done IN
  IF remaining <= 0 THEN 0
  ELSE IF MonthlyDepreciation(a) > remaining THEN remaining ELSE MonthlyDepreciation(a)

\* The assets come in the order of their codes; one that reaches its salvage value is
\* marked so at once, before the entry is posted.
NextAsset(w) ==
  /\ pc[w] = "quota"
  /\ \E a \in job[w].todo :
       LET amount == Quota(a, accumulated[a])
           j == [job[w] EXCEPT !.todo = @ \ {a}, !.amounts[a] = amount]
       IN IF amount > 0 /\ amount = Depreciable(a) - accumulated[a]
          THEN Goes(w, "status", [j EXCEPT !.asset = a]) ELSE Goes(w, "quota", j)
  /\ UNCHANGED database

\* Its error is not looked at.
SetFullyDepreciated(w) ==
  /\ pc[w] = "status"
  /\ \/ assets' = [assets EXCEPT ![job[w].asset] = "FULLY_DEPRECIATED"]
     \/ "database" \in Faults[w] /\ UNCHANGED assets
  /\ Goes(w, "quota", [job[w] EXCEPT !.asset = NoAsset])
  /\ UNCHANGED <<accumulated, runs, ledgerTables, bankTables, budgetTables>>

EndOfList(w) ==
  /\ pc[w] = "quota"
  /\ job[w].todo = {}
  /\ IF job[w].amounts = NoAmounts THEN End(w) ELSE Goes(w, "post", job[w])
  /\ UNCHANGED database

PostDepreciation(w) ==
  /\ pc[w] = "post"
  /\ \E e \in Entries : CreateEntry(w, e, "depreciation")
  /\ Applied(w, "record", job[w])
  /\ UNCHANGED <<assetTables, periods, bankTables, budgetTables>>

\* depreciation_runs_period_unique_idx: the second run of a month is turned away, after
\* its entry has been posted.
CreateRun(w) ==
  /\ pc[w] = "record"
  /\ IF job[w].month \in runs THEN UNCHANGED <<runs, accumulated>>
     ELSE /\ runs' = runs \cup {job[w].month}
          /\ accumulated' = [a \in Assets |-> accumulated[a] + job[w].amounts[a]]
  /\ End(w)
  /\ UNCHANGED <<assets, ledgerTables, bankTables, budgetTables>>

-----------------------------------------------------------------------------
(* Disposal of an asset.  The accounts that the gain or loss goes to always *)
(* have a default (fixed_asset_repository.go:30).                          *)

Dispose(w, a, m) ==
  /\ assets[a] \notin {"none", "DISPOSED"}
  /\ Begin(w, "period", [Idle EXCEPT !.asset = a, !.month = m])

handleDisposeFixedAsset(w, a, m) == Takes(w, "dispose") /\ Dispose(w, a, m)

GetAccumulated(w) ==
  /\ pc[w] = "accumulated"
  /\ Goes(w, "retire", [job[w] EXCEPT !.amounts[job[w].asset] = accumulated[job[w].asset]])
  /\ UNCHANGED database

PostDisposal(w) ==
  /\ pc[w] = "retire"
  /\ \E e \in Entries : CreateEntry(w, e, "disposal")
  /\ Applied(w, "dispose", job[w])
  /\ UNCHANGED <<assetTables, periods, bankTables, budgetTables>>

\* Variant: the asset stays on the books.
SetDisposedForgotten(w) ==
  /\ pc[w] = "dispose"
  /\ End(w)
  /\ UNCHANGED database

SetDisposed(w) ==
  /\ pc[w] = "dispose"
  /\ assets' = [assets EXCEPT ![job[w].asset] = "DISPOSED"]
  /\ End(w)
  /\ UNCHANGED <<accumulated, runs, ledgerTables, bankTables, budgetTables>>

-----------------------------------------------------------------------------
(* The bank statement.                                                     *)

\* The account has to be there; whether it is active is not looked at.
AddStatementLine(l) ==
  /\ \E b \in Banks : banks[b] # "none"
  /\ statement[l] = "none"
  /\ statement' = [statement EXCEPT ![l] = NoEntry]
  /\ UNCHANGED <<assetTables, ledgerTables, marks, budgetTables, pc, job>>

handleAddStatementLine(w, l) == Takes(w, "add line") /\ AddStatementLine(l)

Posted == {e \in Entries : entries[e].status = "POSTED"}

\* FindCandidates: posted, and not yet taken by a line of the statement.
Candidates == {e \in Posted : \A l \in Statement : statement[l] # e}

\* A clerk picks one of the candidates for a line.
PickCandidate(l, e) == statement[l] # "none" /\ e \in Candidates

handleReconcile(w, l, e) ==
  /\ Takes(w, "reconcile")
  /\ PickCandidate(l, e)
  /\ Begin(w, "reconcile", [Idle EXCEPT !.line = l, !.entry = e])

\* Once per line of the statement (is_reconciled = FALSE); the entry is not looked at.
Reconcile(w) ==
  /\ pc[w] = "reconcile"
  /\ statement' = IF statement[job[w].line] = NoEntry
                  THEN [statement EXCEPT ![job[w].line] = job[w].entry] ELSE statement
  /\ End(w)
  /\ UNCHANGED <<assetTables, ledgerTables, marks, budgetTables>>

-----------------------------------------------------------------------------
(* Entries that settle each other.                                         *)

OpenLines == {e \in Posted : marks[e] = "none"}

\* From the list of open lines, alone or with another of them.
Mark(w, e, f) ==
  /\ e \in OpenLines
  /\ f \in (OpenLines \ {e}) \cup {NoEntry}
  /\ Begin(w, "mark", [Idle EXCEPT !.entry = e, !.other = f])

\* Any two lines: nothing is checked of them.
Remark(w, e, f) ==
  /\ e \in Posted /\ f \in Posted \ {e}
  /\ Begin(w, "mark", [Idle EXCEPT !.entry = e, !.other = f])

handleMarkReconciled(w, e, f) ==
  \/ Takes(w, "mark") /\ Mark(w, e, f)
  \/ Takes(w, "remark") /\ Remark(w, e, f)

\* ON CONFLICT (journal_line_id) DO UPDATE.
MarkOne(w) ==
  /\ pc[w] = "mark"
  /\ marks' = [marks EXCEPT ![job[w].entry] = job[w].other]
  /\ IF job[w].other = NoEntry THEN End(w) ELSE Applied(w, "mark other", job[w])
  /\ UNCHANGED <<assetTables, ledgerTables, statement, budgetTables>>

MarkOther(w) ==
  /\ pc[w] = "mark other"
  /\ marks' = [marks EXCEPT ![job[w].other] = job[w].entry]
  /\ End(w)
  /\ UNCHANGED <<assetTables, ledgerTables, statement, budgetTables>>

\* Variant: only the row of the line itself.
UnmarkOne(e) ==
  /\ marks[e] # "none"
  /\ marks' = [marks EXCEPT ![e] = "none"]
  /\ UNCHANGED <<assetTables, ledgerTables, statement, budgetTables, pc, job>>

\* The row of the line and those that name it.
Unmark(e) ==
  /\ marks[e] # "none"
  /\ marks' = [f \in Entries |-> IF f = e \/ marks[f] = e THEN "none" ELSE marks[f]]
  /\ UNCHANGED <<assetTables, ledgerTables, statement, budgetTables, pc, job>>

handleUnmarkReconciled(w, e) == Takes(w, "unmark") /\ Unmark(e)

-----------------------------------------------------------------------------
(* Budgets.                                                                *)

CreateBudget(b) ==
  /\ budgets[b] = "none"
  /\ budgets' = [budgets EXCEPT ![b] = "DRAFT"]
  /\ UNCHANGED <<assetTables, ledgerTables, bankTables, lines, pc, job>>

handleCreateBudget(w, b) == Takes(w, "budget") /\ CreateBudget(b)

DeleteBudget(w, b) ==
  /\ budgets[b] = "DRAFT"
  /\ Begin(w, "delete lines", [Idle EXCEPT !.budget = b])

handleDeleteBudget(w, b) == Takes(w, "budget") /\ DeleteBudget(w, b)

DeleteBudgetLines(w) ==
  /\ pc[w] = "delete lines"
  /\ lines' = {l \in lines : l[1] # job[w].budget}
  /\ Applied(w, "delete", job[w])
  /\ UNCHANGED <<assetTables, ledgerTables, bankTables, budgets>>

\* By id, whatever its status is now; a line that was added meanwhile goes with it
\* (ON DELETE CASCADE).
DeleteBudgetRow(w) ==
  /\ pc[w] = "delete"
  /\ budgets' = [budgets EXCEPT ![job[w].budget] = "none"]
  /\ lines' = {l \in lines : l[1] # job[w].budget}
  /\ End(w)
  /\ UNCHANGED <<assetTables, ledgerTables, bankTables>>

\* Of an approved budget as well: only a closed one would be refused.
SetLine(w, b, c) ==
  /\ budgets[b] # "none"
  /\ Begin(w, "upsert", [Idle EXCEPT !.budget = b, !.account = c])

handleSetBudgetLine(w, b, c) == Takes(w, "budget line") /\ SetLine(w, b, c)

\* A budget that is gone turns the line away.
UpsertLine(w) ==
  /\ pc[w] = "upsert"
  /\ lines' = IF budgets[job[w].budget] = "none" THEN lines
              ELSE lines \cup {<<job[w].budget, job[w].account>>}
  /\ End(w)
  /\ UNCHANGED <<assetTables, ledgerTables, bankTables, budgets>>

DeleteLine(w, b, c) ==
  /\ budgets[b] = "DRAFT"
  /\ Begin(w, "delete line", [Idle EXCEPT !.budget = b, !.account = c])

handleDeleteBudgetLine(w, b, c) == Takes(w, "budget line") /\ DeleteLine(w, b, c)

DeleteLineRow(w) ==
  /\ pc[w] = "delete line"
  /\ lines' = lines \ {<<job[w].budget, job[w].account>>}
  /\ End(w)
  /\ UNCHANGED <<assetTables, ledgerTables, bankTables, budgets>>

\* SetStatus, whatever the status is.
ApproveBudget(w, b) ==
  /\ budgets[b] # "none"
  /\ Begin(w, "approve", [Idle EXCEPT !.budget = b])

handleApproveBudget(w, b) == Takes(w, "approve") /\ ApproveBudget(w, b)

UpdateStatus(w) ==
  /\ pc[w] = "approve"
  /\ budgets' = IF budgets[job[w].budget] = "none" THEN budgets
                ELSE [budgets EXCEPT ![job[w].budget] = "APPROVED"]
  /\ End(w)
  /\ UNCHANGED <<assetTables, ledgerTables, bankTables, lines>>

-----------------------------------------------------------------------------
(* Tax declarations.  A period is declared once and its declaration is never made *)
(* anew, whatever is posted in the period afterwards.                             *)

Declared(tax) == {d.period : d \in {e \in declarations : e.tax = tax}}

\* A clerk declares the periods in their order, or does not.
InOrder(w, tax, p) ==
  /\ Takes(w, tax)
  /\ "declare late" \in duties[w] \/ \A q \in Declared(tax) : q < p

\* Its first statement reads the ledger.
GenerateTax(w, step, tax, p, net) ==
  /\ Begin(w, step, [tax |-> tax, period |-> p, net |-> net, previous |-> 0])
  /\ UNCHANGED taxTables

\* Account 2408: sales credit it and purchases debit it.
GenerateIVA(w, p, m) == GenerateTax(w, "carry", "iva", p, m.credit - m.debit)

handleGenerateIVA(w, p, m) == InOrder(w, "iva", p) /\ GenerateIVA(w, p, m)

bp(amount, rate) == (amount * rate) \div 10000

\* debit: the deductions.
GenerateICA(w, p, m) ==
  \E t \in tariff :
    LET base == IF m.credit > m.debit THEN m.credit - m.debit ELSE 0
        tax  == bp(base, t.rate)
    IN GenerateTax(w, "carry", "ica", p, tax + bp(tax, t.surcharge))

handleGenerateICA(w, p, m) == InOrder(w, "ica", p) /\ GenerateICA(w, p, m)

\* income_tax_rates holds the rate of the year.
GenerateIncomeTax(w, p, m, rate) ==
  GenerateTax(w, "declare", "income", p,
              IF m.credit > m.debit THEN bp(m.credit - m.debit, rate) ELSE 0)

handleGenerateIncomeTax(w, p, m, rate) ==
  InOrder(w, "income", p) /\ GenerateIncomeTax(w, p, m, rate)

\* Variant: the oldest declaration.
FirstCarryForward(tax, p) ==
  {d \in declarations : d.tax = tax /\ d.period < p /\ \A q \in Declared(tax) : q < p => d.period <= q}

\* The last declaration before the period, or none.
LastCarryForward(tax, p) ==
  {d \in declarations : d.tax = tax /\ d.period < p /\ \A q \in Declared(tax) : q < p => q <= d.period}

\* Of a column of declarations: of the last one alone, what it has.
Total(column, rows) == MapThenSumSet(LAMBDA d : d[column], rows)

GetLastCarryForward(w) ==
  LET last == LastCarryForward(job[w].tax, job[w].period) IN
  /\ pc[w] = "carry"
  /\ Goes(w, "declare", [job[w] EXCEPT !.previous = Total("carry", last)])
  /\ UNCHANGED taxTables

\* What is over is paid, what is short is carried forward.
Declaration(j) ==
  LET total == j.net - j.previous IN
  [tax |-> j.tax, period |-> j.period, net |-> j.net, previous |-> j.previous,
   pay |-> IF total > 0 THEN total ELSE 0, carry |-> IF total > 0 THEN 0 ELSE -total,
   status |-> "DRAFT"]

\* UNIQUE (company_id, period_start, period_end), and likewise of the other taxes.
CreateDeclaration(w) ==
  /\ pc[w] = "declare"
  /\ declarations' = declarations \cup
       IF job[w].period \in Declared(job[w].tax) THEN {} ELSE {Declaration(job[w])}
  /\ End(w)
  /\ UNCHANGED <<tariff, rates, today>>

\* ON CONFLICT (municipality_code, ciiu_code, fiscal_year) DO UPDATE.
SetTariff(t) ==
  /\ t.rate > 0
  /\ tariff' = {t}
  /\ UNCHANGED <<declarations, rates, today, pc, job>>

handleSetICATariff(w, t) == Takes(w, "tariff") /\ SetTariff(t)

\* Whatever its status was.
MarkFiled(w, tax, d) ==
  /\ Takes(w, "file")
  /\ d.tax = tax
  /\ declarations' = (declarations \ {d}) \cup {[d EXCEPT !.status = "FILED"]}
  /\ UNCHANGED <<tariff, rates, today, pc, job>>

handleFileIVA(w, d)       == MarkFiled(w, "iva", d)
handleFileICA(w, d)       == MarkFiled(w, "ica", d)
handleFileIncomeTax(w, d) == MarkFiled(w, "income", d)

-----------------------------------------------------------------------------
(* The rate of a pair of currencies on a day: captured by hand, or, of dollars in *)
(* pesos, asked of an external service.                                         *)

\* ON CONFLICT (rate_date, from_currency, to_currency) DO UPDATE.
SetExchangeRate(d, p, source) ==
  /\ rates' = [rates EXCEPT ![<<d, p>>] = source]
  /\ UNCHANGED <<declarations, tariff, today, pc, job>>

handleSetExchangeRate(w, d, p, source) == Takes(w, "rate") /\ SetExchangeRate(d, p, source)

Asks(w, step, d, p, tries) ==
  /\ Begin(w, step, [day |-> d, pair |-> p, tries |-> tries])
  /\ UNCHANGED taxTables

\* Variant: the row that is there is not looked at.
FetchAlways(w, d, p) == Asks(w, "fetch", d, p, 0)

\* Of a pair that has no row on that day the service is asked, whatever the pair is,
\* about dollars.
GetOrFetch(w, d, p) ==
  /\ rates[<<d, p>>] = "none"
  /\ Asks(w, "fetch", d, p, 0)

\* Only the currency to convert from is in the request.
handleLookupExchangeRate(w, d, p) ==
  Takes(w, "lookup") /\ p[2] = "COP" /\ GetOrFetch(w, d, p)

\* Today's rate, on demand.
Sync(w) == Asks(w, "fetch", today, Official, 1)

handleSyncExchangeRate(w) == Takes(w, "sync") /\ Sync(w)

\* At one in the morning, on the one goroutine that does nothing else.
RunTRMDailySync(w) == Takes(w, "daily") /\ Asks(w, "fetch daily", today, Official, 1)

\* The service answers, or does not within its time.
FetchTRM(w) ==
  /\ \/ pc[w] \in {"fetch", "fetch daily"} /\ Goes(w, "set rate", job[w])
     \/ pc[w] = "fetch" /\ End(w)
     \/ /\ pc[w] = "fetch daily"
        /\ IF job[w].tries = 2 THEN End(w) ELSE Goes(w, "hour", job[w])
  /\ UNCHANGED <<database, taxTables>>

\* An hour after the first attempt of a day, for whatever day it is by then.
TryAgain(w) == pc[w] = "hour" /\ Asks(w, "fetch daily", today, Official, 2)

SaveRate(w) ==
  /\ pc[w] = "set rate"
  /\ rates' = [rates EXCEPT ![<<job[w].day, Official>>] = "SUPERFINANCIERA"]
  /\ End(w)
  /\ UNCHANGED <<declarations, tariff, today>>

\* Only in a division where somebody asks for the date.
Midnight ==
  /\ \E w \in Clerks : {"sync", "daily"} \cap duties[w] # {}
  /\ today + 1 \in Days
  /\ today' = today + 1
  /\ UNCHANGED <<declarations, tariff, rates, pc, job>>

-----------------------------------------------------------------------------
(* The registers: types of vouchers, bank accounts.                        *)

\* ON CONFLICT DO UPDATE, of all its columns.
RegisterVoucherType(t, status) ==
  /\ voucherTypes' = [voucherTypes EXCEPT ![t] = status]
  /\ UNCHANGED banks

\* Creates a type or corrects its name; either way it is active afterwards.
handleCreateVoucherType(w, t) ==
  /\ Takes(w, "voucher type")
  /\ RegisterVoucherType(t, "active")
  /\ UNCHANGED <<pc, job>>

handleDeactivateVoucherType(w, t) ==
  /\ Takes(w, "voucher type")
  /\ voucherTypes[t] # "none"
  /\ Goes(w, "deactivate", [Idle EXCEPT !.type = t])
  /\ UNCHANGED registers

DeactivateVoucherType(w) ==
  /\ pc[w] = "deactivate"
  /\ RegisterVoucherType(job[w].type, "inactive")
  /\ End(w)

\* The account of the ledger it is kept on was looked up and may be posted to.
CreateAccount(b) == banks[b] = "none" /\ banks' = [banks EXCEPT ![b] = "active"]

DeactivateAccount(b) == banks[b] # "none" /\ banks' = [banks EXCEPT ![b] = "inactive"]

handleCreateBankAccount(w, b) ==
  /\ Takes(w, "bank")
  /\ CreateAccount(b)
  /\ UNCHANGED <<voucherTypes, pc, job>>

handleDeactivateBankAccount(w, b) ==
  /\ Takes(w, "bank")
  /\ DeactivateAccount(b)
  /\ UNCHANGED <<voucherTypes, pc, job>>

-----------------------------------------------------------------------------

\* A statement is not applied and the request answers with its error; that of the
\* status of a fully depreciated asset is in SetFullyDepreciated.
StatementFails(w) ==
  /\ "database" \in Faults[w]
  /\ pc[w] \notin {"idle", "status"}
  /\ End(w)
  /\ UNCHANGED <<database, taxTables, registers>>

Crash(w) ==
  /\ "crash" \in Faults[w]
  /\ pc[w] # "idle"
  /\ End(w)
  /\ UNCHANGED <<database, taxTables, registers>>

LedgerStep(w) ==
  \/ \E m \in Months : \/ handleClosePeriod(w, m) \/ handleReopenPeriod(w, m)
                        \/ \E e \in Entries, t \in VoucherTypes \cup {Standard} :
                             handlePostJournal(w, e, m, t)
  \/ \E e \in Entries : handleVoidJournal(w, e)
  \/ GetByYearMonth(w) \/ CreatePeriod(w) \/ ClosePeriod(w) \/ ReopenPeriod(w)
  \/ IsRegisteredVoucherType(w)
  \/ EnterJournal(w) \/ CheckVoidPeriod(w) \/ Void(w)

AssetStep(w) ==
  \/ \E a \in Assets : handleCreateFixedAsset(w, a)
  \/ \E m \in Months : \/ handleRunDepreciation(w, m)
                        \/ \E a \in Assets : handleDisposeFixedAsset(w, a, m)
  \/ HasRunForPeriod(w) \/ ListAssets(w) \/ NextAsset(w) \/ SetFullyDepreciated(w)
  \/ EndOfList(w) \/ PostDepreciation(w) \/ CreateRun(w)
  \/ GetAccumulated(w) \/ PostDisposal(w) \/ SetDisposed(w)

BankStep(w) ==
  \/ \E l \in Statement : \/ handleAddStatementLine(w, l)
                           \/ \E e \in Entries : handleReconcile(w, l, e)
  \/ \E e \in Entries : \/ handleUnmarkReconciled(w, e)
                        \/ \E f \in Entries \cup {NoEntry} : handleMarkReconciled(w, e, f)
  \/ Reconcile(w) \/ MarkOne(w) \/ MarkOther(w)

BudgetStep(w) ==
  \/ \E b \in Budgets :
       \/ handleCreateBudget(w, b) \/ handleDeleteBudget(w, b) \/ handleApproveBudget(w, b)
       \/ \E c \in Accounts : handleSetBudgetLine(w, b, c) \/ handleDeleteBudgetLine(w, b, c)
  \/ DeleteBudgetLines(w) \/ DeleteBudgetRow(w) \/ UpsertLine(w) \/ DeleteLineRow(w)
  \/ UpdateStatus(w)

TaxStep(w) ==
  \/ \E p \in Bimesters, m \in Movements :
       \/ handleGenerateIVA(w, p, m)
       \/ handleGenerateICA(w, p, m)
       \/ \E t \in Tariffs : handleGenerateIncomeTax(w, p, m, t.rate)
  \/ GetLastCarryForward(w) \/ CreateDeclaration(w)
  \/ \E t \in Tariffs : handleSetICATariff(w, t)
  \/ \E d \in declarations :
       handleFileIVA(w, d) \/ handleFileICA(w, d) \/ handleFileIncomeTax(w, d)

RateStep(w) ==
  \/ \E d \in Days, p \in Pairs :
       \/ \E source \in Sources : handleSetExchangeRate(w, d, p, source)
       \/ handleLookupExchangeRate(w, d, p)
  \/ handleSyncExchangeRate(w) \/ RunTRMDailySync(w) \/ FetchTRM(w) \/ TryAgain(w) \/ SaveRate(w)

RegisterStep(w) ==
  \/ \E t \in VoucherTypes : handleCreateVoucherType(w, t) \/ handleDeactivateVoucherType(w, t)
  \/ DeactivateVoucherType(w)
  \/ \E b \in Banks : handleCreateBankAccount(w, b) \/ handleDeactivateBankAccount(w, b)

Failure(w) == StatementFails(w) \/ Crash(w)

Next ==
  /\ \/ /\ \E w \in Clerks : LedgerStep(w) \/ AssetStep(w) \/ BankStep(w) \/ BudgetStep(w)
        /\ UNCHANGED <<taxTables, registers>>
     \/ /\ Midnight \/ \E w \in Clerks : TaxStep(w) \/ RateStep(w)
        /\ UNCHANGED <<database, registers>>
     \/ (\E w \in Clerks : RegisterStep(w)) /\ UNCHANGED <<database, taxTables>>
     \/ \E w \in Clerks : Failure(w)
  /\ UNCHANGED duties

Spec == Init /\ [][Next]_vars

-----------------------------------------------------------------------------
(* Properties.                                                             *)

TypeOK ==
  /\ duties \in Shifts
  /\ assets \in [Assets -> AssetStatuses \cup {"none"}]
  /\ accumulated \in [Assets -> Nat]
  /\ runs \subseteq Months
  /\ entries \in [Entries -> EntryRows]
  /\ \A e \in Entries : entries[e].status = "none" => entries[e] = NoEntryRow
  /\ periods \in [Months -> {"none", "OPEN", "CLOSED"}]
  /\ statement \in [Statement -> Links]
  /\ marks \in [Entries -> Links]
  /\ budgets \in [Budgets -> BudgetStatuses \cup {"none"}]
  /\ lines \subseteq Budgets \X Accounts
  /\ pc \in [Clerks -> Steps]
  /\ declarations \subseteq DeclarationRows /\ IsFiniteSet(declarations)
  /\ tariff \subseteq Tariffs
  /\ rates \in [Days \X Pairs -> Sources \cup {"none"}]
  /\ today \in Days
  /\ voucherTypes \in [VoucherTypes -> {"none", "active", "inactive"}]
  /\ banks \in [Banks -> {"none", "active", "inactive"}]
  /\ job \in [Clerks -> Jobs \cup TaxJobs \cup RateJobs]

\* One goroutine at a time serves requests of these kinds, and where it says so none
\* of those that do dies or meets a failing statement.  The code sees to neither.
OneAt(kinds) ==
  \A v, w \in Clerks : kinds \cap duties[v] # {} /\ kinds \cap duties[w] # {} => v = w
Spared(kinds) == \A w \in Clerks : kinds \cap duties[w] # {} => Faults[w] = {}

DepreciationOf(m) ==
  {e \in Entries : entries[e].status # "none" /\ entries[e].source = "depreciation" /\ entries[e].month = m}
DisposalOf(a) ==
  {e \in Entries : entries[e].status # "none" /\ entries[e].source = "disposal" /\ entries[e].asset = a}

At(m) == \E w \in Clerks : pc[w] = "record" /\ job[w].month = m

\* Whatever fails on the way and whatever is disposed of, voided or closed meanwhile,
\* no asset loses more than it may.  Runs of two months at a time read the same sum.
NeverOverDepreciated ==
  OneAt({"depreciate"}) => \A a \in Assets :
    accumulated[a] > 0 => accumulated[a] <= Depreciable(a)

\* The expense of a month is in the books once, and the books and the assets agree on
\* it.  A crash between the entry and the run leaves an entry that the next attempt
\* posts again, and of two runs at a time one has posted when it is turned away.
DepreciatedOnce ==
  OneAt({"depreciate"}) /\ Spared({"depreciate"}) => \A m \in Months :
    /\ \A e, f \in DepreciationOf(m) : e = f
    /\ DepreciationOf(m) # {} <=> m \in runs \/ At(m)

\* An asset leaves the books once, with all that has been depreciated of it before and
\* ever after.  A run that listed it before marks it again as if it were there, and a
\* crash before its status leaves it there.
RetiredAtBookValue ==
  OneAt({"depreciate", "dispose"}) /\ Spared({"depreciate", "dispose"}) => \A a \in Assets :
    /\ \A e \in DisposalOf(a) : entries[e].amounts[a] = accumulated[a]
    /\ \A e, f \in DisposalOf(a) : e = f

\* What settles another is settled by it, so that undoing one side reopens both
\* (reconciliation_repository.go:38).  That takes marks between lines that are open,
\* and both statements of them: marking a line anew leaves its old counterpart behind.
Marking == {"mark", "remark", "unmark"}
MarksPaired ==
  OneAt(Marking) /\ Spared(Marking) /\ (\A w \in Clerks : "remark" \notin duties[w]) =>
    \A e \in Entries : marks[e] \in Entries =>
      marks[marks[e]] = e \/ (\E w \in Clerks : pc[w] = "mark other" /\ job[w].other = marks[e])

\* Over the periods that were declared, what is paid and what is still carried forward
\* is what was owed: no credit is used twice and none is lost.  Declared late, or two at
\* a time, a period takes the credit that another has taken.
CreditUsedOnce ==
  (\A w \in Clerks : "declare late" \notin duties[w]) =>
    \A tax \in {"iva", "ica"} : OneAt({tax}) =>
      LET ds   == {d \in declarations : d.tax = tax}
          last == {d \in ds : \A e \in ds : e.period <= d.period}
      IN Total("net", ds) = Total("pay", ds) - Total("carry", last)

\* A rate that was captured by hand is replaced by hand, by whoever synchronises that
\* day and by the scheduler; of the official pair also by a lookup of another pair that
\* has no rate that day, which asks for the official one and saves it over what is
\* there.  A lookup of the official pair itself replaces none.  One that found no row
\* overwrites what is captured while it asks, so captures and lookups take turns here.
ManualRateKept ==
  [][OneAt({"rate", "lookup"}) => \A d \in Days, p \in Pairs :
       rates[<<d, p>>] = "MANUAL" /\ rates'[<<d, p>>] # "MANUAL" =>
         \/ \E w \in Clerks : "rate" \in duties[w] /\ UNCHANGED pc
         \/ /\ p = Official
            /\ \E w \in Clerks : /\ pc[w] = "set rate" /\ job[w].day = d
                                 /\ job[w].tries > 0 \/ job[w].pair # Official]_vars

-----------------------------------------------------------------------------
(* The inductive invariant.                                                *)

PeriodSteps   == {"period", "new period"}
RunSteps      == {"has run", "list", "quota", "status", "post", "record"}
DisposalSteps == {"accumulated", "retire", "dispose"}
TaxSteps      == {"carry", "declare"}
RateSteps     == {"fetch", "fetch daily", "hour", "set rate"}

OnItsWay(w)   == pc[w] \in PeriodSteps /\ job[w].entry = NoEntry
Depreciates(w) == pc[w] \in RunSteps \/ (OnItsWay(w) /\ job[w].asset = NoAsset)
Disposes(w)    == pc[w] \in DisposalSteps \/ (OnItsWay(w) /\ job[w].asset # NoAsset)
Quotas(w)      == pc[w] \in {"quota", "status", "post", "record"}

\* What a request carries at each step, and who may be there.
LocalOK(w) ==
  /\ pc[w] = "idle" => job[w] = Idle
  /\ pc[w] \in TaxSteps => job[w] \in TaxJobs /\ job[w].tax \in duties[w]
  /\ pc[w] \in RateSteps => job[w] \in RateJobs
  /\ pc[w] \notin TaxSteps \cup RateSteps => job[w] \in Jobs
  /\ Depreciates(w) => "depreciate" \in duties[w] /\ job[w].month \in Months
  /\ Depreciates(w) /\ ~ Quotas(w) => job[w].amounts = NoAmounts
  /\ Disposes(w) => "dispose" \in duties[w] /\ job[w].asset \in Assets
  /\ pc[w] = "status" => job[w].asset \in Assets
  /\ pc[w] \in {"mark", "mark other"} =>
       {"mark", "remark"} \cap duties[w] # {} /\ job[w].entry \in Entries
  /\ pc[w] = "mark other" => job[w].other \in Entries
  /\ pc[w] = "upsert" => job[w].budget \in Budgets /\ job[w].account \in Accounts
  /\ pc[w] \in {"fetch", "set rate"} /\ job[w].tries = 0 => "lookup" \in duties[w]
  /\ pc[w] \in {"fetch daily", "hour"} => job[w].tries > 0

LocalsOK == \A w \in Clerks : LocalOK(w)

\* What a run takes from an asset was looked up by the only one who changes it.
QuotasOK ==
  OneAt({"depreciate"}) =>
    /\ \A a \in Assets : accumulated[a] > 0 => accumulated[a] <= Depreciable(a)
    /\ \A w \in Clerks : Quotas(w) =>
         \A a \in Assets : job[w].amounts[a] > 0 => accumulated[a] + job[w].amounts[a] <= Depreciable(a)

\* A run that is under way was not there when it looked, and is not there yet.
RunsOK ==
  OneAt({"depreciate"}) /\ Spared({"depreciate"}) =>
    /\ \A m \in Months : /\ \A e, f \in DepreciationOf(m) : e = f
                         /\ DepreciationOf(m) # {} <=> m \in runs \/ At(m)
    /\ \A w \in Clerks : pc[w] = "list" \/ Quotas(w) => job[w].month \notin runs

\* What a request is about to retire is still there, and what has been retired is in
\* no run.
DisposalsOK ==
  OneAt({"depreciate", "dispose"}) /\ Spared({"depreciate", "dispose"}) =>
    /\ \A a \in Assets :
         /\ \A e \in DisposalOf(a) : entries[e].amounts[a] = accumulated[a]
         /\ \A e, f \in DisposalOf(a) : e = f
         /\ DisposalOf(a) # {} =>
              assets[a] = "DISPOSED" \/ (\E w \in Clerks : pc[w] = "dispose" /\ job[w].asset = a)
    /\ \A w \in Clerks :
         /\ Disposes(w) => assets[job[w].asset] \notin {"none", "DISPOSED"}
         /\ pc[w] = "retire" => job[w].amounts[job[w].asset] = accumulated[job[w].asset]
         /\ pc[w] = "status" => assets[job[w].asset] # "DISPOSED"
         /\ Quotas(w) => \A a \in Assets :
              (a \in job[w].todo \/ job[w].amounts[a] > 0) => assets[a] # "DISPOSED"

\* Two lines that are about to be marked are open, and one that is half marked is named
\* by the other alone.
MarksOK ==
  OneAt(Marking) /\ Spared(Marking) /\ (\A w \in Clerks : "remark" \notin duties[w]) =>
    /\ \A e \in Entries : marks[e] \in Entries =>
         marks[marks[e]] = e \/ (\E w \in Clerks : pc[w] = "mark other" /\ job[w].other = marks[e])
    /\ \A w \in Clerks :
         /\ pc[w] \in {"mark", "mark other"} =>
              /\ job[w].entry # job[w].other
              /\ job[w].other \in Entries => marks[job[w].other] = "none"
         /\ pc[w] = "mark" => marks[job[w].entry] = "none"
         /\ pc[w] = "mark other" =>
              /\ marks[job[w].entry] = job[w].other
              /\ \A e \in Entries : marks[e] = job[w].other => e = job[w].entry

\* A period is declared once, and one that is being declared comes after all others.
OneDeclaration ==
  \A d, e \in declarations : d.tax = e.tax /\ d.period = e.period => d = e

CreditsOK ==
  (\A w \in Clerks : "declare late" \notin duties[w]) =>
    \A tax \in {"iva", "ica"} : OneAt({tax}) =>
      LET ds   == {d \in declarations : d.tax = tax}
          last == {d \in ds : \A e \in ds : e.period <= d.period}
      IN /\ Total("net", ds) = Total("pay", ds) - Total("carry", last)
         /\ \A w \in Clerks : pc[w] \in TaxSteps /\ job[w].tax = tax =>
              /\ \A d \in ds : d.period < job[w].period
              /\ pc[w] = "declare" => job[w].previous = Total("carry", last)

\* A lookup of the official pair asks about a day that nobody has captured meanwhile.
LookupsOK ==
  OneAt({"rate", "lookup"}) => \A w \in Clerks :
    pc[w] \in {"fetch", "set rate"} /\ job[w].tries = 0 /\ job[w].pair = Official =>
      rates[<<job[w].day, Official>>] # "MANUAL"

BackOfficeInv ==
  /\ TypeOK /\ LocalsOK /\ QuotasOK /\ RunsOK /\ DisposalsOK /\ MarksOK
  /\ OneDeclaration /\ CreditsOK /\ LookupsOK
=============================================================================
