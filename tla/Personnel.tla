------------------------------- MODULE Personnel -------------------------------
(***************************************************************************)
(* Employees, contracts and pay slips (payroll/application, calculator.go  *)
(* and the handler of PayrollGenerated in accounting) and the absences of  *)
(* employees (hr/application/absence.go).                                  *)
(*                                                                         *)
(* One company and one year.  A request reads a row, checks its status and *)
(* writes it by id in a later statement; only the edit and the withdrawal  *)
(* of an absence check again when they write.                              *)
(***************************************************************************)
EXTENDS Integers

CONSTANTS
  Employees, Contracts, Payslips, Absences, \* identifiers
  Months,
  Clerks,   \* goroutines that serve requests
  Shifts,   \* the ways to divide the requests among them
  Faults,   \* goroutine -> "crash", it dies; "database", a statement fails, or is
            \* applied and its reply lost
  Terms,    \* the salaries that contracts are made for
  DaysGiven,\* worked_days of a request, which may be left out (0)
  Days,     \* days an absence may begin or end on
  SMMLV,    \* the minimum wage of the year
  Aid,      \* auxilio de transporte of a whole month
  NoEmployee, NoContract, NoPayslip, NoAbsence, NoMonth

Requests == {"staff", "generate", "approve", "pay", "void", "close", "ask", "decide"}

SalaryTypes == {"ordinary", "integral"}

ASSUME PersonnelAssumption ==
  /\ Shifts \subseteq [Clerks -> SUBSET Requests]
  /\ Faults \in [Clerks -> SUBSET {"crash", "database"}]
  /\ Terms \subseteq [salary : Nat, type : SalaryTypes]
  /\ DaysGiven \subseteq Int /\ Days \subseteq Nat
  /\ SMMLV \in Nat /\ Aid \in Nat
  /\ NoEmployee \notin Employees /\ NoContract \notin Contracts /\ NoPayslip \notin Payslips
  /\ NoAbsence \notin Absences /\ NoMonth \notin Months

VARIABLES
  duties,    \* who serves what; never changes
  employees, \* payroll.employees
  contracts, \* payroll.contracts
  payslips,  \* payroll.payslips with their lines, whose sums are all that is kept
  periods,   \* accounting_periods: "none" before there is a row
  posted,    \* pay slip -> how often its entry was posted
  absences,  \* hr.absences
  pc,        \* request -> the statement it is at
  job        \* request -> its local variables

database == <<employees, contracts, payslips, periods, posted, absences>>
vars == <<duties, employees, contracts, payslips, periods, posted, absences, pc, job>>

StaffStatuses   == {"none", "active", "inactive"}
PayslipStatuses == {"none", "draft", "approved", "paid", "voided"}
AbsenceStatuses == {"none", "pending", "approved", "rejected", "withdrawn"}

ContractRows == [status : StaffStatuses, employee : Employees \cup {NoEmployee},
                 salary : Nat, type : SalaryTypes]
PayslipRows  == [status : PayslipStatuses, employee : Employees \cup {NoEmployee},
                 month : Months \cup {NoMonth}, earned : Int, deducted : Int]
AbsenceRows  == [status : AbsenceStatuses, start : Nat, end : Nat]

Steps == {"idle", "create", "approve", "period", "new period", "post", "pay", "void", "decide"}

\* What a request has read, or was asked for.
Jobs == [payslip : Payslips \cup {NoPayslip}, employee : Employees \cup {NoEmployee},
         month : Months \cup {NoMonth}, earned : Int, deducted : Int,
         absence : Absences \cup {NoAbsence}, decision : {"approved", "rejected"}]

Idle == [payslip |-> NoPayslip, employee |-> NoEmployee, month |-> NoMonth, earned |-> 0,
         deducted |-> 0, absence |-> NoAbsence, decision |-> "rejected"]

Init ==
  /\ duties \in Shifts
  /\ employees = [e \in Employees |-> "none"]
  /\ contracts = [c \in Contracts |-> [status |-> "none", employee |-> NoEmployee,
                                       salary |-> 0, type |-> "ordinary"]]
  /\ payslips = [p \in Payslips |-> [status |-> "none", employee |-> NoEmployee,
                                     month |-> NoMonth, earned |-> 0, deducted |-> 0]]
  /\ periods = [m \in Months |-> "none"]
  /\ posted = [p \in Payslips |-> 0]
  /\ absences = [a \in Absences |-> [status |-> "none", start |-> 0, end |-> 0]]
  /\ pc = [w \in Clerks |-> "idle"]
  /\ job = [w \in Clerks |-> Idle]

Goto(w, step) == pc' = [pc EXCEPT ![w] = step]

End(w) ==
  /\ Goto(w, "idle")
  /\ job' = [job EXCEPT ![w] = Idle]

\* A statement was applied; the request goes on, or ends because its reply was lost.
Applied(w, step) ==
  (Goto(w, step) /\ UNCHANGED job) \/ ("database" \in Faults[w] /\ End(w))

Takes(w, request) == pc[w] = "idle" /\ request \in duties[w]

Begin(w, step, j) ==
  /\ Goto(w, step)
  /\ job' = [job EXCEPT ![w] = j]
  /\ UNCHANGED database

-----------------------------------------------------------------------------
(* Staff.                                                                  *)

CreateEmployee(e) ==
  /\ employees[e] = "none"
  /\ employees' = [employees EXCEPT ![e] = "active"]
  /\ UNCHANGED <<contracts, payslips, periods, posted, absences, pc, job>>

handleCreateEmployee(w, e) == Takes(w, "staff") /\ CreateEmployee(e)

\* Contracts and pay slips of the employee stay as they are.
DeactivateEmployee(e) ==
  /\ employees[e] # "none"
  /\ employees' = [employees EXCEPT ![e] = "inactive"]
  /\ UNCHANGED <<contracts, payslips, periods, posted, absences, pc, job>>

handleDeactivateEmployee(w, e) == Takes(w, "staff") /\ DeactivateEmployee(e)

\* Of any employee, active or not, and next to contracts that are active.
CreateContract(c, e, t) ==
  /\ employees[e] # "none"
  /\ contracts[c].status = "none"
  /\ contracts' = [contracts EXCEPT ![c] = [status |-> "active", employee |-> e,
                                            salary |-> t.salary, type |-> t.type]]
  /\ UNCHANGED <<employees, payslips, periods, posted, absences, pc, job>>

handleCreateContract(w, c, e, t) == Takes(w, "staff") /\ CreateContract(c, e, t)

Terminate(c) ==
  /\ contracts[c].status # "none"
  /\ contracts' = [contracts EXCEPT ![c].status = "inactive"]
  /\ UNCHANGED <<employees, payslips, periods, posted, absences, pc, job>>

handleTerminateContract(w, c) == Takes(w, "staff") /\ Terminate(c)

-----------------------------------------------------------------------------
(* Pay slips.                                                              *)

\* Basis points of an amount.
bp(base, rate) == (base * rate) \div 10000

\* What is earned grows with the days worked; health and pension are taken from the
\* salary of a whole month.  What the employer contributes is in neither sum.
Calculate(c, days) ==
  LET ibc == IF c.type = "integral" THEN (c.salary * 70) \div 100 ELSE c.salary
      aid == IF c.type = "ordinary" /\ c.salary <= 2 * SMMLV THEN (Aid * days) \div 30 ELSE 0
  IN [earned |-> (c.salary * days) \div 30 + aid, deducted |-> bp(ibc, 400) + bp(ibc, 400)]

WorkedDays(given) == IF given <= 0 THEN 30 ELSE given

\* Whether the contract or the employee is active is not looked at.
Generate(w, c, m, given) ==
  /\ contracts[c].status # "none"
  /\ LET sums == Calculate(contracts[c], WorkedDays(given)) IN
     Begin(w, "create", [Idle EXCEPT !.employee = contracts[c].employee, !.month = m,
                                     !.earned = sums.earned, !.deducted = sums.deducted])

handleGeneratePayslip(w, c, m, given) == Takes(w, "generate") /\ Generate(w, c, m, given)

PaySlipOf(e, m) == \E p \in Payslips : payslips[p].employee = e /\ payslips[p].month = m

\* One transaction: folio, pay slip and lines.  UNIQUE (employee, year, month) turns
\* a second one away, also after a pay slip that was voided.
CreatePayslip(w, p) ==
  /\ pc[w] = "create"
  /\ payslips[p].status = "none"
  /\ payslips' = IF PaySlipOf(job[w].employee, job[w].month) THEN payslips
                 ELSE [payslips EXCEPT ![p] = [status |-> "draft", employee |-> job[w].employee,
                                               month |-> job[w].month, earned |-> job[w].earned,
                                               deducted |-> job[w].deducted]]
  /\ End(w)
  /\ UNCHANGED <<employees, contracts, periods, posted, absences>>

ReadPayslip(p) == [Idle EXCEPT !.payslip = p, !.month = payslips[p].month,
                               !.earned = payslips[p].earned, !.deducted = payslips[p].deducted]

\* Variant: an approved pay slip may be approved again.
ApproveAgain(w, p) ==
  /\ payslips[p].status \in {"draft", "approved"}
  /\ Begin(w, "approve", ReadPayslip(p))

Approve(w, p) ==
  /\ payslips[p].status = "draft"
  /\ Begin(w, "approve", ReadPayslip(p))

handleApprovePayslip(w, p) == Takes(w, "approve") /\ Approve(w, p)

MarkPaid(w, p) ==
  /\ payslips[p].status = "approved"
  /\ Begin(w, "pay", ReadPayslip(p))

handleMarkPaidPayslip(w, p) == Takes(w, "pay") /\ MarkPaid(w, p)

\* A draft or an approved pay slip, whose entry stays in the books.
Void(w, p) ==
  /\ payslips[p].status \notin {"none", "paid"}
  /\ Begin(w, "void", ReadPayslip(p))

handleVoidPayslip(w, p) == Takes(w, "void") /\ Void(w, p)

\* By id, whatever its status is now.
UpdateStatus(w, status) ==
  /\ payslips' = [payslips EXCEPT ![job[w].payslip].status = status]
  /\ UNCHANGED <<employees, contracts, periods, posted, absences>>

\* Then PayrollGenerated is published, with what was read.
ApproveStatus(w) ==
  /\ pc[w] = "approve"
  /\ UpdateStatus(w, "approved")
  /\ Applied(w, "period")

PayStatus(w) ==
  /\ pc[w] = "pay"
  /\ UpdateStatus(w, "paid")
  /\ End(w)

VoidStatus(w) ==
  /\ pc[w] = "void"
  /\ UpdateStatus(w, "voided")
  /\ End(w)

-----------------------------------------------------------------------------
(* The entry of a pay slip.  An error here is only audited.                *)

\* Variant: a month without a row has no entry.
GetPeriodOnly(w) ==
  /\ pc[w] = "period"
  /\ IF periods[job[w].month] = "OPEN" THEN Goto(w, "post") /\ UNCHANGED job ELSE End(w)
  /\ UNCHANGED database

\* A closed month leaves the entry out.
GetPeriod(w) ==
  /\ pc[w] = "period"
  /\ \/ periods[job[w].month] = "none" /\ Goto(w, "new period") /\ UNCHANGED job
     \/ periods[job[w].month] = "OPEN" /\ Goto(w, "post") /\ UNCHANGED job
     \/ periods[job[w].month] = "CLOSED" /\ End(w)
  /\ UNCHANGED database

\* (company, year, month) is UNIQUE: of two that make the same month one fails.
CreatePeriod(w) ==
  /\ pc[w] = "new period"
  /\ \/ /\ periods[job[w].month] = "none"
        /\ periods' = [periods EXCEPT ![job[w].month] = "OPEN"]
        /\ Applied(w, "post")
     \/ periods[job[w].month] # "none" /\ End(w) /\ UNCHANGED periods
  /\ UNCHANGED <<employees, contracts, payslips, posted, absences>>

\* Accounts payable are credited what is left; chk_line_amounts turns away an entry
\* that leaves nothing or less.
NetPay(row) == row.earned - row.deducted

PostPayroll(w) ==
  /\ pc[w] = "post"
  /\ posted' = IF NetPay(job[w]) > 0 THEN [posted EXCEPT ![job[w].payslip] = @ + 1] ELSE posted
  /\ End(w)
  /\ UNCHANGED <<employees, contracts, payslips, periods, absences>>

\* Months are closed and reopened by others (see BackOffice).
SetPeriod(w, m) ==
  /\ Takes(w, "close")
  /\ periods[m] # "none"
  /\ periods' = [periods EXCEPT ![m] = IF @ = "OPEN" THEN "CLOSED" ELSE "OPEN"]
  /\ UNCHANGED <<employees, contracts, payslips, posted, absences, pc, job>>

-----------------------------------------------------------------------------
(* Absences.                                                               *)

RequestAbsence(a, first, last) ==
  /\ absences[a].status = "none"
  /\ first <= last
  /\ absences' = [absences EXCEPT ![a] = [status |-> "pending", start |-> first, end |-> last]]
  /\ UNCHANGED <<employees, contracts, payslips, periods, posted, pc, job>>

handleRequestAbsence(w, a, first, last) == Takes(w, "ask") /\ RequestAbsence(a, first, last)

\* Variant: UPDATE without AND status = 'pending'.
UpdateAnyAbsence(a, first, last) ==
  /\ absences[a].status \notin {"none", "withdrawn"}
  /\ first <= last
  /\ absences' = [absences EXCEPT ![a].start = first, ![a].end = last]
  /\ UNCHANGED <<employees, contracts, payslips, periods, posted, pc, job>>

\* UPDATE ... WHERE status = 'pending'.
UpdateAbsence(a, first, last) ==
  /\ absences[a].status = "pending"
  /\ first <= last
  /\ absences' = [absences EXCEPT ![a].start = first, ![a].end = last]
  /\ UNCHANGED <<employees, contracts, payslips, periods, posted, pc, job>>

handleUpdateAbsence(w, a, first, last) == Takes(w, "ask") /\ UpdateAbsence(a, first, last)

\* DELETE ... WHERE status = 'pending'.
WithdrawAbsence(a) ==
  /\ absences[a].status = "pending"
  /\ absences' = [absences EXCEPT ![a].status = "withdrawn"]
  /\ UNCHANGED <<employees, contracts, payslips, periods, posted, pc, job>>

handleWithdrawAbsence(w, a) == Takes(w, "ask") /\ WithdrawAbsence(a)

\* Approve and Reject.
DecideAbsence(w, a, decision) ==
  /\ absences[a].status = "pending"
  /\ Begin(w, "decide", [Idle EXCEPT !.absence = a, !.decision = decision])

handleApproveAbsence(w, a) == Takes(w, "decide") /\ DecideAbsence(w, a, "approved")
handleRejectAbsence(w, a)  == Takes(w, "decide") /\ DecideAbsence(w, a, "rejected")

\* By id, whatever its status and its dates are now; a row that is gone is an error.
UpdateAbsenceStatus(w) ==
  /\ pc[w] = "decide"
  /\ absences' = IF absences[job[w].absence].status = "withdrawn" THEN absences
                 ELSE [absences EXCEPT ![job[w].absence].status = job[w].decision]
  /\ End(w)
  /\ UNCHANGED <<employees, contracts, payslips, periods, posted>>

-----------------------------------------------------------------------------

\* A statement is not applied; the request ends, with its error or with an audit record.
StatementFails(w) ==
  /\ "database" \in Faults[w]
  /\ pc[w] # "idle"
  /\ End(w)
  /\ UNCHANGED database

Crash(w) ==
  /\ "crash" \in Faults[w]
  /\ pc[w] # "idle"
  /\ End(w)
  /\ UNCHANGED database

StaffStep(w) ==
  \/ \E e \in Employees : \/ handleCreateEmployee(w, e) \/ handleDeactivateEmployee(w, e)
                          \/ \E c \in Contracts, t \in Terms : handleCreateContract(w, c, e, t)
  \/ \E c \in Contracts : handleTerminateContract(w, c)

PayslipStep(w) ==
  \/ \E c \in Contracts, m \in Months, given \in DaysGiven : handleGeneratePayslip(w, c, m, given)
  \/ \E p \in Payslips : \/ CreatePayslip(w, p) \/ handleApprovePayslip(w, p)
                         \/ handleMarkPaidPayslip(w, p) \/ handleVoidPayslip(w, p)
  \/ ApproveStatus(w) \/ PayStatus(w) \/ VoidStatus(w)

EntryStep(w) ==
  \/ GetPeriod(w) \/ CreatePeriod(w) \/ PostPayroll(w)
  \/ \E m \in Months : SetPeriod(w, m)

AbsenceStep(w) ==
  \/ \E a \in Absences :
       \/ handleWithdrawAbsence(w, a) \/ handleApproveAbsence(w, a) \/ handleRejectAbsence(w, a)
       \/ \E first, last \in Days :
            handleRequestAbsence(w, a, first, last) \/ handleUpdateAbsence(w, a, first, last)
  \/ UpdateAbsenceStatus(w)

Failure(w) == StatementFails(w) \/ Crash(w)

Next ==
  /\ \E w \in Clerks : StaffStep(w) \/ PayslipStep(w) \/ EntryStep(w) \/ AbsenceStep(w) \/ Failure(w)
  /\ UNCHANGED duties

Spec == Init /\ [][Next]_vars

-----------------------------------------------------------------------------
(* Properties.                                                             *)

\* Every table and every request has the type its rows and locals are declared with.
TypeOK ==
  /\ duties \in Shifts
  /\ employees \in [Employees -> StaffStatuses]
  /\ contracts \in [Contracts -> ContractRows]
  /\ payslips \in [Payslips -> PayslipRows]
  /\ periods \in [Months -> {"none", "OPEN", "CLOSED"}]
  /\ posted \in [Payslips -> Nat]
  /\ absences \in [Absences -> AbsenceRows]
  /\ pc \in [Clerks -> Steps]
  /\ job \in [Clerks -> Jobs]

\* One goroutine at a time serves requests of these kinds.  The code does not see to it.
OneAt(kinds) ==
  \A v, w \in Clerks : kinds \cap duties[v] # {} /\ kinds \cap duties[w] # {} => v = w

Posting(w) == pc[w] \in {"period", "new period", "post"}

\* A pay slip is posted once, and only after it was approved, while others pay it,
\* void it and close its month.  Two approvals at a time both pass the check.
PostedOnce ==
  OneAt({"approve"}) => \A p \in Payslips :
    /\ posted[p] <= 1
    /\ posted[p] > 0 => payslips[p].status \notin {"none", "draft"}

\* The expense of what a pay slip leaves to pay is in the books, or about to be.
Settled(p) ==
  NetPay(payslips[p]) > 0 =>
    posted[p] > 0 \/ \E w \in Clerks : Posting(w) /\ job[w].payslip = p

\* The approvals come one at a time and meet no failure, and months are not closed.
Attended ==
  /\ OneAt({"approve"})
  /\ \A w \in Clerks : "approve" \in duties[w] => Faults[w] = {}
  /\ \A w \in Clerks : "close" \notin duties[w]

\* Every approved pay slip is settled, whoever voids, pays or generates meanwhile.
\* Nothing repeats a handler that failed or that found the month closed.
ApprovedIsPosted ==
  Attended => \A p \in Payslips : payslips[p].status \in {"approved", "paid"} => Settled(p)

\* "Una vez aprobada/rechazada queda inmutable" (absence.go:52): what one manager has
\* decided stays, whatever the employee changes or withdraws at the same time.
AbsenceDecidedOnce ==
  [][OneAt({"decide"}) => \A a \in Absences :
       absences[a].status \in {"approved", "rejected"} => absences'[a] = absences[a]]_vars

-----------------------------------------------------------------------------
(* The inductive invariant.                                                *)

\* Who is at which step, and what of the pay slip it has read.
LocalOK(w) ==
  /\ pc[w] \in {"approve", "pay", "void"} \/ Posting(w) =>
       /\ job[w].payslip \in Payslips
       /\ LET row == payslips[job[w].payslip] IN
          /\ row.status # "none"
          /\ row.month = job[w].month /\ row.earned = job[w].earned /\ row.deducted = job[w].deducted
  /\ pc[w] \in {"create", "approve"} \/ Posting(w) => job[w].month \in Months
  /\ pc[w] = "approve" \/ Posting(w) => "approve" \in duties[w]
  /\ pc[w] = "create" => job[w].employee \in Employees
  /\ pc[w] = "decide" => job[w].absence \in Absences /\ "decide" \in duties[w]

LocalsOK == \A w \in Clerks : LocalOK(w)

RowsOK ==
  /\ \A p \in Payslips : payslips[p].status # "none" => payslips[p].month \in Months
  /\ \A c \in Contracts : contracts[c].status # "none" => contracts[c].employee \in Employees

\* The approval under way is the first of its pay slip, and not posted yet.
ApprovalsInv ==
  /\ \A p \in Payslips :
       /\ posted[p] <= 1
       /\ payslips[p].status \in {"none", "draft"} => posted[p] = 0
  /\ \A w \in Clerks :
       /\ pc[w] = "approve" \/ Posting(w) => posted[job[w].payslip] = 0
       /\ Posting(w) => payslips[job[w].payslip].status # "draft"

\* No month is closed under an entry or made next to it, and whoever pays has read a
\* pay slip that was approved.
EntriesInv ==
  /\ \A m \in Months : periods[m] # "CLOSED"
  /\ \A w \in Clerks :
       /\ pc[w] = "new period" => periods[job[w].month] = "none"
       /\ pc[w] = "pay" => Settled(job[w].payslip)

\* Only the decision under way can find its absence decided.
DecisionsInv ==
  \A w \in Clerks : pc[w] = "decide" => absences[job[w].absence].status \in {"pending", "withdrawn"}

PersonnelInv ==
  /\ TypeOK
  /\ LocalsOK
  /\ RowsOK
  /\ (OneAt({"approve"}) => ApprovalsInv)
  /\ ApprovedIsPosted
  /\ (Attended => EntriesInv)
  /\ (OneAt({"decide"}) => DecisionsInv)
=============================================================================
