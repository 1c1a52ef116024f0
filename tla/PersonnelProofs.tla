--------------------------- MODULE PersonnelProofs ---------------------------
(* Theorems about Personnel, for every number of employees, contracts, pay *)
(* slips, absences and concurrent requests, every division of the requests *)
(* among the goroutines and every choice of Faults.                        *)
EXTENDS Personnel, TLAPS

Step(w) == StaffStep(w) \/ PayslipStep(w) \/ EntryStep(w) \/ AbsenceStep(w) \/ Failure(w)

\* A step of w leaves the locals of all other requests alone.
Others(w) == \A v \in Clerks \ {w} : pc'[v] = pc[v] /\ job'[v] = job[v]

\* What a step does to the request that takes it keeps the types.
Moved(w) ==
  /\ pc' \in [Clerks -> Steps] /\ job' \in [Clerks -> Jobs]
  /\ Others(w)

LEMMA IdleType == Idle \in Jobs
BY DEF Idle, Jobs

LEMMA EndMoves ==
  ASSUME TypeOK, NEW w \in Clerks, End(w)
  PROVE  Moved(w) /\ pc'[w] = "idle" /\ job'[w] = Idle
BY IdleType DEF TypeOK, End, Goto, Moved, Others, Steps

LEMMA GotoMoves ==
  ASSUME TypeOK, NEW w \in Clerks, NEW step \in Steps, Goto(w, step), UNCHANGED job
  PROVE  Moved(w) /\ pc'[w] = step /\ job'[w] = job[w]
BY DEF TypeOK, Goto, Moved, Others

LEMMA BeginMoves ==
  ASSUME TypeOK, NEW w \in Clerks, NEW step \in Steps, NEW j \in Jobs, Begin(w, step, j)
  PROVE  Moved(w) /\ pc'[w] = step /\ job'[w] = j /\ UNCHANGED database
BY DEF TypeOK, Begin, Goto, Moved, Others

-----------------------------------------------------------------------------
(* The requests that begin, with what they have read.                      *)

LEMMA BpType ==
  ASSUME NEW base \in Int, NEW rate \in Int
  PROVE  bp(base, rate) \in Int
<1>1. base * rate \in Int
  OBVIOUS
<1> QED
  BY <1>1 DEF bp

LEMMA SumsType ==
  ASSUME NEW c \in ContractRows, NEW days \in Int
  PROVE  Calculate(c, days).earned \in Int /\ Calculate(c, days).deducted \in Int
<1>1. c.salary \in Nat /\ SMMLV \in Nat /\ Aid \in Nat
  BY PersonnelAssumption DEF ContractRows
<1>2. c.salary * days \in Int /\ Aid * days \in Int /\ c.salary * 70 \in Int
  BY <1>1
<1>3. (c.salary * days) \div 30 \in Int /\ (Aid * days) \div 30 \in Int
      /\ (c.salary * 70) \div 100 \in Int
  BY <1>2
<1> DEFINE ibc == IF c.type = "integral" THEN (c.salary * 70) \div 100 ELSE c.salary
           aid == IF c.type = "ordinary" /\ c.salary <= 2 * SMMLV THEN (Aid * days) \div 30 ELSE 0
<1>4. ibc \in Int /\ aid \in Int
  BY <1>1, <1>3
<1>5. bp(ibc, 400) \in Int
  <2> HIDE DEF ibc
  <2> QED
    BY <1>4, BpType
<1>6. Calculate(c, days) = [earned |-> (c.salary * days) \div 30 + aid,
                            deducted |-> bp(ibc, 400) + bp(ibc, 400)]
  BY DEF Calculate
<1>7. (c.salary * days) \div 30 + aid \in Int /\ bp(ibc, 400) + bp(ibc, 400) \in Int
  BY <1>3, <1>4, <1>5
<1> HIDE DEF ibc, aid
<1> QED
  BY <1>6, <1>7

LEMMA GenerateMoves ==
  ASSUME TypeOK, RowsOK, NEW w \in Clerks, NEW c \in Contracts, NEW m \in Months,
         NEW given \in DaysGiven, handleGeneratePayslip(w, c, m, given)
  PROVE  /\ Moved(w) /\ UNCHANGED database
         /\ pc'[w] = "create"
         /\ job'[w].employee \in Employees /\ job'[w].month \in Months
<1>1. given \in Int /\ WorkedDays(given) \in Int
  BY PersonnelAssumption DEF WorkedDays
<1>2. contracts[c] \in ContractRows /\ contracts[c].status # "none"
  BY DEF TypeOK, handleGeneratePayslip, Generate
<1>3. contracts[c].employee \in Employees
  BY <1>2 DEF RowsOK
<1> DEFINE sums == Calculate(contracts[c], WorkedDays(given))
           j == [Idle EXCEPT !.employee = contracts[c].employee, !.month = m,
                             !.earned = sums.earned, !.deducted = sums.deducted]
<1>4. sums.earned \in Int /\ sums.deducted \in Int
  BY <1>1, <1>2, SumsType
<1>5. Begin(w, "create", j)
  BY DEF handleGeneratePayslip, Generate
<1> HIDE DEF sums
<1>6. j \in Jobs /\ j.employee = contracts[c].employee /\ j.month = m
  BY <1>3, <1>4, IdleType DEF Jobs, Idle
<1> HIDE DEF j
<1> QED
  BY <1>3, <1>5, <1>6, BeginMoves DEF Steps

LEMMA ReadType ==
  ASSUME TypeOK, NEW p \in Payslips
  PROVE  /\ ReadPayslip(p) \in Jobs
         /\ ReadPayslip(p).payslip = p /\ ReadPayslip(p).month = payslips[p].month
         /\ ReadPayslip(p).earned = payslips[p].earned
         /\ ReadPayslip(p).deducted = payslips[p].deducted
<1>1. payslips[p] \in PayslipRows
  BY DEF TypeOK
<1> QED
  BY <1>1 DEF ReadPayslip, PayslipRows, Jobs, Idle

\* The request has read pay slip p.
HasRead(w, p) == job'[w] = ReadPayslip(p) /\ UNCHANGED database

LEMMA ReadMoves ==
  ASSUME TypeOK, NEW w \in Clerks, NEW p \in Payslips,
         handleApprovePayslip(w, p) \/ handleMarkPaidPayslip(w, p) \/ handleVoidPayslip(w, p)
  PROVE  /\ Moved(w) /\ HasRead(w, p)
         /\ \/ pc'[w] = "approve" /\ payslips[p].status = "draft" /\ "approve" \in duties[w]
            \/ pc'[w] = "pay" /\ payslips[p].status = "approved"
            \/ pc'[w] = "void" /\ payslips[p].status # "none"
BY ReadType, BeginMoves DEF handleApprovePayslip, Approve, handleMarkPaidPayslip, MarkPaid,
   handleVoidPayslip, Void, Takes, Steps, HasRead

LEMMA DecideMoves ==
  ASSUME TypeOK, NEW w \in Clerks, NEW a \in Absences,
         handleApproveAbsence(w, a) \/ handleRejectAbsence(w, a)
  PROVE  /\ Moved(w) /\ UNCHANGED database
         /\ pc'[w] = "decide" /\ job'[w].absence = a
         /\ absences[a].status = "pending" /\ "decide" \in duties[w]
<1>1. PICK d \in {"approved", "rejected"} : DecideAbsence(w, a, d) /\ "decide" \in duties[w]
  BY DEF handleApproveAbsence, handleRejectAbsence, Takes
<1>2. [Idle EXCEPT !.absence = a, !.decision = d] \in Jobs
      /\ [Idle EXCEPT !.absence = a, !.decision = d].absence = a
  BY IdleType DEF Jobs, Idle
<1> QED
  BY <1>1, <1>2, BeginMoves DEF DecideAbsence, Steps

-----------------------------------------------------------------------------
(* The statements of an approval and of its entry.                         *)

\* The request goes on with the same locals, or ends.
Goes(w, step) == pc'[w] = step /\ job'[w] = job[w]
Ends(w) == pc'[w] = "idle" /\ job'[w] = Idle

LEMMA AppliedMoves ==
  ASSUME TypeOK, NEW w \in Clerks, NEW step \in Steps, Applied(w, step)
  PROVE  Moved(w) /\ (Goes(w, step) \/ (Ends(w) /\ Faults[w] # {}))
BY GotoMoves, EndMoves DEF Applied, Goes, Ends

LEMMA ApproveMoves ==
  ASSUME TypeOK, NEW w \in Clerks, ApproveStatus(w)
  PROVE  /\ Moved(w)
         /\ Goes(w, "period") \/ (Ends(w) /\ Faults[w] # {})
BY AppliedMoves DEF ApproveStatus, Steps

LEMMA GetPeriodMoves ==
  ASSUME TypeOK, NEW w \in Clerks, GetPeriod(w)
  PROVE  /\ Moved(w) /\ UNCHANGED database
         /\ \/ Goes(w, "new period") /\ periods[job[w].month] = "none"
            \/ Goes(w, "post")
            \/ Ends(w) /\ periods[job[w].month] = "CLOSED"
BY GotoMoves, EndMoves DEF GetPeriod, Steps, Goes, Ends

LEMMA CreatePeriodMoves ==
  ASSUME TypeOK, NEW w \in Clerks, CreatePeriod(w)
  PROVE  /\ Moved(w)
         /\ \/ Goes(w, "post")
            \/ Ends(w) /\ Faults[w] # {}
            \/ Ends(w) /\ periods[job[w].month] # "none"
BY AppliedMoves, EndMoves DEF CreatePeriod, Steps, Ends

-----------------------------------------------------------------------------
(* Each step, with what it does to the request that takes it and to the    *)
(* pay slips: these are the only facts about the actions that the          *)
(* invariants below rely on.                                               *)

\* Served in one statement that neither a pay slip nor a request under way takes note of.
Served(w) ==
  /\ pc[w] = "idle" /\ UNCHANGED <<payslips, posted, pc, job>>
  /\ UNCHANGED periods \/ "close" \in duties[w]
  /\ \A a \in Absences : \/ absences'[a] = absences[a]
                        \/ /\ absences[a].status \in {"none", "pending"}
                           /\ absences'[a].status \in {"pending", "withdrawn"}

Began(w) ==
  /\ pc[w] = "idle" /\ UNCHANGED database
  /\ \/ pc'[w] = "create" /\ job'[w].employee \in Employees /\ job'[w].month \in Months
     \/ \E p \in Payslips :
          /\ job'[w] = ReadPayslip(p)
          /\ \/ pc'[w] = "approve" /\ payslips[p].status = "draft" /\ "approve" \in duties[w]
             \/ pc'[w] = "pay" /\ payslips[p].status = "approved"
             \/ pc'[w] = "void" /\ payslips[p].status # "none"
     \/ \E a \in Absences :
          /\ pc'[w] = "decide" /\ job'[w].absence = a
          /\ absences[a].status = "pending" /\ "decide" \in duties[w]

\* The status of the pay slip of w is written.
Written(w, status) == payslips' = [payslips EXCEPT ![job[w].payslip].status = status]

LEMMA ServedMoves ==
  ASSUME TypeOK, RowsOK, NEW w \in Clerks, UNCHANGED duties,
         \/ StaffStep(w)
         \/ \E m \in Months : SetPeriod(w, m)
         \/ \E a \in Absences : \/ handleWithdrawAbsence(w, a)
                                \/ \E first, last \in Days : \/ handleRequestAbsence(w, a, first, last)
                                                             \/ handleUpdateAbsence(w, a, first, last)
  PROVE  TypeOK' /\ RowsOK' /\ Others(w) /\ Served(w)
<1> USE DEF Served, Others
<1>1. ASSUME NEW e \in Employees, handleCreateEmployee(w, e) \/ handleDeactivateEmployee(w, e)
      PROVE  TypeOK' /\ RowsOK' /\ Others(w) /\ Served(w)
  BY <1>1 DEF handleCreateEmployee, CreateEmployee, handleDeactivateEmployee, DeactivateEmployee,
     Takes, TypeOK, RowsOK, StaffStatuses
<1>2. ASSUME NEW e \in Employees, NEW c \in Contracts, NEW t \in Terms, handleCreateContract(w, c, e, t)
      PROVE  TypeOK' /\ RowsOK' /\ Others(w) /\ Served(w)
  <2>1. t.salary \in Nat /\ t.type \in SalaryTypes
    BY PersonnelAssumption
  <2>2. contracts' \in [Contracts -> ContractRows]
    BY <1>2, <2>1 DEF handleCreateContract, CreateContract, TypeOK, ContractRows, StaffStatuses
  <2>3. \A d \in Contracts : contracts'[d].status # "none" => contracts'[d].employee \in Employees
    BY <1>2, <2>1 DEF handleCreateContract, CreateContract, TypeOK, RowsOK
  <2> QED
    BY <1>2, <2>2, <2>3 DEF handleCreateContract, CreateContract, Takes, TypeOK, RowsOK
<1>3. ASSUME NEW c \in Contracts, handleTerminateContract(w, c)
      PROVE  TypeOK' /\ RowsOK' /\ Others(w) /\ Served(w)
  <2>1. contracts' \in [Contracts -> ContractRows]
    BY <1>3 DEF handleTerminateContract, Terminate, TypeOK, ContractRows, StaffStatuses
  <2>2. \A d \in Contracts : contracts'[d].status # "none" => contracts'[d].employee \in Employees
    BY <1>3 DEF handleTerminateContract, Terminate, TypeOK, RowsOK, ContractRows
  <2> QED
    BY <1>3, <2>1, <2>2 DEF handleTerminateContract, Terminate, Takes, TypeOK, RowsOK
<1>4. ASSUME NEW m \in Months, SetPeriod(w, m)
      PROVE  TypeOK' /\ RowsOK' /\ Others(w) /\ Served(w)
  BY <1>4 DEF SetPeriod, Takes, TypeOK, RowsOK
<1>5. ASSUME NEW a \in Absences, handleWithdrawAbsence(w, a)
      PROVE  TypeOK' /\ RowsOK' /\ Others(w) /\ Served(w)
  BY <1>5 DEF handleWithdrawAbsence, WithdrawAbsence, Takes, TypeOK, RowsOK, AbsenceRows, AbsenceStatuses
<1>6. ASSUME NEW a \in Absences, NEW first \in Days, NEW last \in Days,
             handleRequestAbsence(w, a, first, last) \/ handleUpdateAbsence(w, a, first, last)
      PROVE  TypeOK' /\ RowsOK' /\ Others(w) /\ Served(w)
  <2>1. first \in Nat /\ last \in Nat
    BY PersonnelAssumption
  <2>2. absences[a] \in AbsenceRows
    BY DEF TypeOK
  <2>3. absences' \in [Absences -> AbsenceRows]
    <3>1. CASE handleRequestAbsence(w, a, first, last)
      BY <2>1, <3>1 DEF handleRequestAbsence, RequestAbsence, TypeOK, AbsenceRows, AbsenceStatuses
    <3>2. CASE handleUpdateAbsence(w, a, first, last)
      BY <2>1, <2>2, <3>2 DEF handleUpdateAbsence, UpdateAbsence, TypeOK, AbsenceRows
    <3> QED
      BY <1>6, <3>1, <3>2
  <2>4. \A b \in Absences : \/ absences'[b] = absences[b]
                           \/ /\ absences[b].status \in {"none", "pending"}
                              /\ absences'[b].status = "pending"
    BY <1>6, <2>2 DEF handleRequestAbsence, RequestAbsence, handleUpdateAbsence, UpdateAbsence,
       TypeOK, AbsenceRows
  <2> QED
    BY <1>6, <2>3, <2>4 DEF handleRequestAbsence, RequestAbsence, handleUpdateAbsence, UpdateAbsence,
       Takes, TypeOK, RowsOK
<1> QED
  BY <1>1, <1>2, <1>3, <1>4, <1>5, <1>6 DEF StaffStep

LEMMA BeganMoves ==
  ASSUME TypeOK, RowsOK, NEW w \in Clerks, UNCHANGED duties,
         \/ \E c \in Contracts, m \in Months, given \in DaysGiven :
              handleGeneratePayslip(w, c, m, given)
         \/ \E p \in Payslips : \/ handleApprovePayslip(w, p) \/ handleMarkPaidPayslip(w, p)
                                \/ handleVoidPayslip(w, p)
         \/ \E a \in Absences : handleApproveAbsence(w, a) \/ handleRejectAbsence(w, a)
  PROVE  TypeOK' /\ RowsOK' /\ Others(w) /\ Began(w)
<1>0. pc[w] = "idle"
  BY DEF handleGeneratePayslip, handleApprovePayslip, handleMarkPaidPayslip, handleVoidPayslip,
     handleApproveAbsence, handleRejectAbsence, Takes
<1>1. Moved(w) /\ Began(w)
  BY <1>0, GenerateMoves, ReadMoves, DecideMoves DEF Began, HasRead
<1> QED
  BY <1>1 DEF Began, Moved, database, TypeOK, RowsOK

LEMMA CreatePayslipMoves ==
  ASSUME TypeOK, LocalsOK, RowsOK, NEW w \in Clerks, NEW p \in Payslips, CreatePayslip(w, p),
         UNCHANGED duties
  PROVE  /\ TypeOK' /\ RowsOK' /\ Others(w) /\ Ends(w)
         /\ payslips[p].status = "none" /\ payslips'[p].status \in {"none", "draft"}
         /\ \A q \in Payslips : q # p => payslips'[q] = payslips[q]
         /\ UNCHANGED <<periods, posted, absences>>
<1>1. job[w] \in Jobs /\ job[w].employee \in Employees /\ job[w].month \in Months
  BY DEF CreatePayslip, LocalsOK, LocalOK, TypeOK
<1> DEFINE row == [status |-> "draft", employee |-> job[w].employee, month |-> job[w].month,
                   earned |-> job[w].earned, deducted |-> job[w].deducted]
<1>2. row \in PayslipRows /\ row.status = "draft" /\ row.month \in Months
  BY <1>1 DEF PayslipRows, PayslipStatuses, Jobs
<1>3. payslips' = payslips \/ payslips' = [payslips EXCEPT ![p] = row]
  BY DEF CreatePayslip
<1>4. Moved(w) /\ Ends(w)
  BY EndMoves DEF CreatePayslip, Ends
<1> HIDE DEF row
<1> QED
  BY <1>2, <1>3, <1>4 DEF CreatePayslip, TypeOK, RowsOK, Moved

\* Approve, pay or void.
LEMMA StatusMoves ==
  ASSUME TypeOK, LocalsOK, RowsOK, NEW w \in Clerks, ApproveStatus(w) \/ PayStatus(w) \/ VoidStatus(w),
         UNCHANGED duties
  PROVE  /\ TypeOK' /\ RowsOK' /\ Others(w)
         /\ UNCHANGED <<periods, posted, absences>>
         /\ job[w].payslip \in Payslips
         /\ \/ /\ pc[w] = "approve" /\ Written(w, "approved")
               /\ Goes(w, "period") \/ (Ends(w) /\ Faults[w] # {})
            \/ pc[w] = "pay" /\ Written(w, "paid") /\ Ends(w)
            \/ pc[w] = "void" /\ Written(w, "voided") /\ Ends(w)
<1>1. PICK s \in {"approved", "paid", "voided"} : Written(w, s)
  BY DEF ApproveStatus, PayStatus, VoidStatus, UpdateStatus, Written
<1>2. job[w].payslip \in Payslips /\ payslips[job[w].payslip].status # "none"
  BY DEF ApproveStatus, PayStatus, VoidStatus, LocalsOK, LocalOK
<1>3. payslips' \in [Payslips -> PayslipRows]
  BY <1>1, <1>2 DEF Written, TypeOK, PayslipRows, PayslipStatuses
<1>4. \A p \in Payslips : payslips'[p].status # "none" => payslips'[p].month \in Months
  BY <1>1, <1>2 DEF Written, TypeOK, PayslipRows, RowsOK
<1>5. Moved(w)
  BY ApproveMoves, EndMoves DEF PayStatus, VoidStatus
<1> QED
  BY <1>2, <1>3, <1>4, <1>5, ApproveMoves, EndMoves
  DEF ApproveStatus, PayStatus, VoidStatus, UpdateStatus, Written, TypeOK, RowsOK, Moved, Ends

LEMMA EntryMoves ==
  ASSUME TypeOK, LocalsOK, RowsOK, NEW w \in Clerks, GetPeriod(w) \/ CreatePeriod(w) \/ PostPayroll(w),
         UNCHANGED duties
  PROVE  TypeOK' /\ RowsOK' /\ Others(w) /\ UNCHANGED <<payslips, absences>>
<1>1. Posting(w) /\ job[w].month \in Months /\ job[w].payslip \in Payslips
  BY DEF GetPeriod, CreatePeriod, PostPayroll, Posting, LocalsOK, LocalOK
<1>2. CASE GetPeriod(w)
  BY <1>2, GetPeriodMoves DEF database, TypeOK, RowsOK, Moved
<1>3. CASE CreatePeriod(w)
  <2>1. periods' \in [Months -> {"none", "OPEN", "CLOSED"}]
    BY <1>1, <1>3 DEF CreatePeriod, TypeOK
  <2> QED
    BY <1>3, <2>1, CreatePeriodMoves DEF CreatePeriod, TypeOK, RowsOK, Moved
<1>4. CASE PostPayroll(w)
  <2>1. posted' \in [Payslips -> Nat]
    BY <1>1, <1>4 DEF PostPayroll, TypeOK
  <2> QED
    BY <1>4, <2>1, EndMoves DEF PostPayroll, TypeOK, RowsOK, Moved
<1> QED
  BY <1>2, <1>3, <1>4

LEMMA UpdateAbsenceMoves ==
  ASSUME TypeOK, LocalsOK, RowsOK, NEW w \in Clerks, UpdateAbsenceStatus(w), UNCHANGED duties
  PROVE  TypeOK' /\ RowsOK' /\ Others(w) /\ Ends(w) /\ UNCHANGED <<payslips, periods, posted>>
<1>1. job[w].absence \in Absences /\ job[w].decision \in {"approved", "rejected"}
  BY DEF UpdateAbsenceStatus, LocalsOK, LocalOK, TypeOK, Jobs
<1>2. absences' \in [Absences -> AbsenceRows]
  BY <1>1 DEF UpdateAbsenceStatus, TypeOK, AbsenceRows, AbsenceStatuses
<1> QED
  BY <1>2, EndMoves DEF UpdateAbsenceStatus, TypeOK, RowsOK, Moved, Ends

LEMMA FailureMoves ==
  ASSUME TypeOK, RowsOK, NEW w \in Clerks, Failure(w), UNCHANGED duties
  PROVE  /\ TypeOK' /\ RowsOK' /\ Others(w) /\ Ends(w) /\ Faults[w] # {}
         /\ UNCHANGED database
BY EndMoves DEF Failure, StatementFails, Crash, database, TypeOK, RowsOK, Moved, Ends

-----------------------------------------------------------------------------
(* What every request knows of the pay slip it works on.                   *)

\* Every kind of step, by the request it is about.
LEMMA StepKinds ==
  ASSUME TypeOK, LocalsOK, RowsOK, NEW w \in Clerks, Step(w), UNCHANGED duties
  PROVE  /\ TypeOK' /\ RowsOK' /\ Others(w)
         /\ \/ Served(w)
            \/ Began(w)
            \/ \E p \in Payslips : CreatePayslip(w, p)
            \/ ApproveStatus(w) \/ PayStatus(w) \/ VoidStatus(w)
            \/ GetPeriod(w) \/ CreatePeriod(w) \/ PostPayroll(w)
            \/ UpdateAbsenceStatus(w)
            \/ Ends(w) /\ Faults[w] # {} /\ UNCHANGED database
<1>1. CASE StaffStep(w) \/ (\E m \in Months : SetPeriod(w, m))
           \/ (\E a \in Absences : \/ handleWithdrawAbsence(w, a)
                                   \/ \E first, last \in Days :
                                        \/ handleRequestAbsence(w, a, first, last)
                                        \/ handleUpdateAbsence(w, a, first, last))
  BY <1>1, ServedMoves
<1>2. CASE \/ \E c \in Contracts, m \in Months, given \in DaysGiven :
                handleGeneratePayslip(w, c, m, given)
           \/ \E p \in Payslips : \/ handleApprovePayslip(w, p) \/ handleMarkPaidPayslip(w, p)
                                  \/ handleVoidPayslip(w, p)
           \/ \E a \in Absences : handleApproveAbsence(w, a) \/ handleRejectAbsence(w, a)
  BY <1>2, BeganMoves
<1>3. CASE \E p \in Payslips : CreatePayslip(w, p)
  BY <1>3, CreatePayslipMoves
<1>4. CASE ApproveStatus(w) \/ PayStatus(w) \/ VoidStatus(w)
  BY <1>4, StatusMoves
<1>5. CASE GetPeriod(w) \/ CreatePeriod(w) \/ PostPayroll(w)
  BY <1>5, EntryMoves
<1>6. CASE UpdateAbsenceStatus(w)
  BY <1>6, UpdateAbsenceMoves
<1>7. CASE Failure(w)
  BY <1>7, FailureMoves
<1> QED
  BY <1>1, <1>2, <1>3, <1>4, <1>5, <1>6, <1>7 DEF Step, PayslipStep, EntryStep, AbsenceStep

\* A pay slip keeps its month and its sums; only its status is ever written.
Kept ==
  \A p \in Payslips : payslips[p].status # "none" =>
    /\ payslips'[p].status # "none" /\ payslips'[p].month = payslips[p].month
    /\ payslips'[p].earned = payslips[p].earned /\ payslips'[p].deducted = payslips[p].deducted

LEMMA WrittenKeeps ==
  ASSUME TypeOK, NEW w \in Clerks, NEW s \in PayslipStatuses \ {"none"}, Written(w, s),
         job[w].payslip \in Payslips
  PROVE  /\ Kept
         /\ payslips'[job[w].payslip].status = s
         /\ \A p \in Payslips : p # job[w].payslip => payslips'[p] = payslips[p]
BY DEF Written, TypeOK, PayslipRows, Kept

LEMMA RowsKept ==
  ASSUME TypeOK, LocalsOK, RowsOK, NEW w \in Clerks, Step(w), UNCHANGED duties
  PROVE  Kept
<1>1. CASE Served(w) \/ Began(w) \/ (Ends(w) /\ UNCHANGED database)
  BY <1>1 DEF Served, Began, database, Kept
<1>2. CASE \E p \in Payslips : CreatePayslip(w, p)
  BY <1>2, CreatePayslipMoves DEF Kept
<1>3. CASE ApproveStatus(w) \/ PayStatus(w) \/ VoidStatus(w)
  BY <1>3, StatusMoves, WrittenKeeps DEF PayslipStatuses
<1>4. CASE GetPeriod(w) \/ CreatePeriod(w) \/ PostPayroll(w) \/ UpdateAbsenceStatus(w)
  BY <1>4, EntryMoves, UpdateAbsenceMoves DEF Kept
<1> QED
  BY <1>1, <1>2, <1>3, <1>4, StepKinds

LEMMA LocalsKept ==
  ASSUME LocalsOK, Kept, NEW w \in Clerks, Others(w), UNCHANGED duties,
         LocalOK(w)' \/ Ends(w)
  PROVE  LocalsOK'
<1>1. LocalOK(w)'
  BY DEF Ends, LocalOK, Posting
<1>2. ASSUME NEW v \in Clerks, v # w
      PROVE  LocalOK(v)'
  <2>1. pc'[v] = pc[v] /\ job'[v] = job[v] /\ LocalOK(v)
    BY <1>2 DEF Others, LocalsOK
  <2> QED
    BY <2>1 DEF LocalOK, Posting, Kept
<1> QED
  BY <1>1, <1>2 DEF LocalsOK

LEMMA LocalsStep ==
  ASSUME TypeOK, LocalsOK, RowsOK, NEW w \in Clerks, Step(w), UNCHANGED duties
  PROVE  LocalsOK'
<1>1. Kept /\ Others(w)
  BY RowsKept, StepKinds
<1>2. CASE Served(w)
  BY <1>2 DEF Served, LocalsOK, LocalOK, Posting
<1>3. CASE Began(w)
  <2>1. LocalOK(w)'
    <3>1. CASE \E p \in Payslips : /\ job'[w] = ReadPayslip(p)
                                  /\ \/ pc'[w] = "approve" /\ payslips[p].status = "draft"
                                        /\ "approve" \in duties[w]
                                     \/ pc'[w] = "pay" /\ payslips[p].status = "approved"
                                     \/ pc'[w] = "void" /\ payslips[p].status # "none"
      <4>1. PICK p \in Payslips : /\ job'[w] = ReadPayslip(p) /\ payslips[p].status # "none"
                                  /\ \/ pc'[w] = "approve" /\ "approve" \in duties[w]
                                     \/ pc'[w] \in {"pay", "void"}
        BY <3>1
      <4>2. /\ job'[w].payslip = p /\ job'[w].month = payslips[p].month
            /\ job'[w].earned = payslips[p].earned /\ job'[w].deducted = payslips[p].deducted
        BY <4>1, ReadType
      <4>3. payslips' = payslips /\ payslips[p].month \in Months
        BY <1>3, <4>1 DEF Began, database, RowsOK
      <4> QED
        BY <4>1, <4>2, <4>3 DEF LocalOK, Posting
    <3> QED
      BY <1>3, <3>1 DEF Began, LocalOK, Posting
  <2> QED
    BY <1>1, <2>1, LocalsKept
<1>4. CASE (\E p \in Payslips : CreatePayslip(w, p)) \/ UpdateAbsenceStatus(w) \/ Ends(w)
  BY <1>1, <1>4, CreatePayslipMoves, UpdateAbsenceMoves, LocalsKept
<1>5. CASE ApproveStatus(w) \/ PayStatus(w) \/ VoidStatus(w)
  <2>1. (pc[w] = "approve" /\ Goes(w, "period")) \/ Ends(w)
    BY <1>5, StatusMoves
  <2>2. ASSUME pc[w] = "approve", Goes(w, "period")
        PROVE  LocalOK(w)'
    <3>1. LocalOK(w) /\ job'[w] = job[w] /\ pc'[w] = "period"
      BY <2>2 DEF LocalsOK, Goes
    <3> QED
      BY <1>1, <2>2, <3>1 DEF LocalOK, Posting, Kept
  <2>3. LocalOK(w)' \/ Ends(w)
    BY <2>1, <2>2
  <2> QED
    BY <1>1, <2>3, LocalsKept
<1>6. CASE GetPeriod(w) \/ CreatePeriod(w) \/ PostPayroll(w)
  <2>1. Goes(w, "new period") \/ Goes(w, "post") \/ Ends(w)
    BY <1>6, GetPeriodMoves, CreatePeriodMoves, EndMoves DEF PostPayroll, Ends
  <2>2. Posting(w)
    BY <1>6 DEF GetPeriod, CreatePeriod, PostPayroll, Posting
  <2>3. ASSUME NEW step \in {"new period", "post"}, Goes(w, step)
        PROVE  LocalOK(w)'
    <3>1. LocalOK(w) /\ job'[w] = job[w] /\ pc'[w] = step
      BY <2>3 DEF LocalsOK, Goes
    <3> QED
      BY <1>1, <2>2, <3>1 DEF LocalOK, Posting, Kept
  <2> QED
    BY <1>1, <2>1, <2>3, LocalsKept
<1> QED
  BY <1>2, <1>3, <1>4, <1>5, <1>6, StepKinds

-----------------------------------------------------------------------------
(* One approval at a time.                                                 *)

LEMMA OneApproval ==
  ASSUME OneAt({"approve"}), LocalsOK, NEW v \in Clerks, NEW w \in Clerks,
         pc[v] = "approve" \/ Posting(v), pc[w] = "approve" \/ Posting(w)
  PROVE  v = w
<1>1. "approve" \in duties[v] /\ "approve" \in duties[w]
  BY DEF LocalsOK, LocalOK
<1> QED
  BY <1>1 DEF OneAt

\* What the invariant says of a request.
ApprovalOK(w) ==
  /\ pc[w] = "approve" \/ Posting(w) => posted[job[w].payslip] = 0
  /\ Posting(w) => payslips[job[w].payslip].status # "draft"

\* And of a pay slip.
PostedOK(p) ==
  /\ posted[p] <= 1
  /\ payslips[p].status \in {"none", "draft"} => posted[p] = 0

LEMMA ApprovalsInvParts ==
  ApprovalsInv <=> (\A p \in Payslips : PostedOK(p)) /\ (\A w \in Clerks : ApprovalOK(w))
BY DEF ApprovalsInv, PostedOK, ApprovalOK

LEMMA ApprovalsStep ==
  ASSUME TypeOK, LocalsOK, RowsOK, NEW w \in Clerks, Step(w), UNCHANGED duties,
         OneAt({"approve"}), ApprovalsInv
  PROVE  ApprovalsInv'
<1>0. /\ \A p \in Payslips : PostedOK(p)
      /\ \A v \in Clerks : ApprovalOK(v) /\ LocalOK(v)
      /\ Others(w)
  BY ApprovalsInvParts, StepKinds DEF LocalsOK
<1> SUFFICES (\A p \in Payslips : PostedOK(p)') /\ (\A v \in Clerks : ApprovalOK(v)')
  BY DEF ApprovalsInv, PostedOK, ApprovalOK
<1>1. CASE Served(w)
  BY <1>0, <1>1 DEF Served, PostedOK, ApprovalOK, Posting
<1>2. CASE Began(w)
  <2>1. ApprovalOK(w)'
    <3>1. CASE pc'[w] = "approve"
      <4>1. PICK p \in Payslips : job'[w] = ReadPayslip(p) /\ payslips[p].status = "draft"
        BY <1>2, <3>1 DEF Began
      <4>2. job'[w].payslip = p /\ posted[p] = 0 /\ posted' = posted
        BY <1>0, <1>2, <4>1, ReadType DEF PostedOK, Began, database
      <4> QED
        BY <3>1, <4>2 DEF ApprovalOK, Posting
    <3> QED
      BY <1>2, <3>1 DEF Began, ApprovalOK, Posting
  <2> QED
    BY <1>0, <1>2, <2>1 DEF Began, database, Others, PostedOK, ApprovalOK, Posting
<1>3. ASSUME NEW p \in Payslips, CreatePayslip(w, p)
      PROVE  (\A q \in Payslips : PostedOK(q)') /\ (\A v \in Clerks : ApprovalOK(v)')
  <2>1. /\ payslips[p].status = "none" /\ Ends(w) /\ UNCHANGED posted
        /\ \A q \in Payslips : q # p => payslips'[q] = payslips[q]
    BY <1>3, CreatePayslipMoves
  <2>2. \A q \in Payslips : PostedOK(q)'
    BY <1>0, <2>1 DEF PostedOK
  <2>3. ASSUME NEW v \in Clerks, v # w
        PROVE  ApprovalOK(v)'
    <3>1. pc'[v] = pc[v] /\ job'[v] = job[v] /\ ApprovalOK(v) /\ LocalOK(v)
      BY <1>0, <2>3 DEF Others
    <3> QED
      BY <2>1, <3>1 DEF ApprovalOK, LocalOK, Posting
  <2>4. ApprovalOK(w)'
    BY <2>1 DEF Ends, ApprovalOK, Posting
  <2> QED
    BY <2>2, <2>3, <2>4
<1>4. ASSUME NEW s \in {"approved", "paid", "voided"}, Written(w, s), job[w].payslip \in Payslips,
             UNCHANGED posted,
             Ends(w) \/ (pc[w] = "approve" /\ Goes(w, "period"))
      PROVE  (\A q \in Payslips : PostedOK(q)') /\ (\A v \in Clerks : ApprovalOK(v)')
  <2>1. /\ payslips'[job[w].payslip].status = s
        /\ \A q \in Payslips : q # job[w].payslip => payslips'[q] = payslips[q]
    BY <1>4, WrittenKeeps DEF PayslipStatuses
  <2>2. \A q \in Payslips : PostedOK(q)'
    BY <1>0, <1>4, <2>1 DEF PostedOK
  <2>3. ASSUME NEW v \in Clerks, v # w
        PROVE  ApprovalOK(v)'
    <3>1. pc'[v] = pc[v] /\ job'[v] = job[v] /\ ApprovalOK(v) /\ LocalOK(v)
      BY <1>0, <2>3 DEF Others
    <3> QED
      BY <1>4, <2>1, <3>1 DEF ApprovalOK, LocalOK, Posting
  <2>4. ApprovalOK(w)'
    BY <1>0, <1>4, <2>1 DEF Ends, Goes, ApprovalOK, Posting
  <2> QED
    BY <2>2, <2>3, <2>4
<1>5. ASSUME GetPeriod(w) \/ CreatePeriod(w)
      PROVE  (\A q \in Payslips : PostedOK(q)') /\ (\A v \in Clerks : ApprovalOK(v)')
  <2>1. /\ Posting(w) /\ UNCHANGED <<payslips, posted>>
        /\ Goes(w, "new period") \/ Goes(w, "post") \/ Ends(w)
    BY <1>5, GetPeriodMoves, CreatePeriodMoves DEF GetPeriod, CreatePeriod, database, Posting
  <2>2. ApprovalOK(w)'
    BY <1>0, <2>1 DEF ApprovalOK, Posting, Goes, Ends
  <2>3. ASSUME NEW v \in Clerks, v # w
        PROVE  ApprovalOK(v)'
    BY <1>0, <2>1, <2>3 DEF Others, ApprovalOK, Posting
  <2> QED
    BY <1>0, <2>1, <2>2, <2>3 DEF PostedOK
<1>6. CASE PostPayroll(w)
  <2>1. Posting(w) /\ Ends(w) /\ UNCHANGED payslips
    BY <1>6, EndMoves DEF PostPayroll, Posting, Ends
  <2>2. /\ job[w].payslip \in Payslips /\ posted[job[w].payslip] = 0
        /\ payslips[job[w].payslip].status \notin {"none", "draft"}
    BY <1>0, <2>1 DEF LocalOK, ApprovalOK, Posting
  <2>3. \A q \in Payslips : PostedOK(q)'
    <3>1. posted \in [Payslips -> Nat]
      BY DEF TypeOK
    <3>2. posted' = posted \/ posted' = [posted EXCEPT ![job[w].payslip] = 1]
      BY <1>6, <2>2, <3>1 DEF PostPayroll
    <3> QED
      BY <1>0, <2>1, <2>2, <3>1, <3>2 DEF PostedOK
  <2>4. ASSUME NEW v \in Clerks
        PROVE  ApprovalOK(v)'
    <3>1. CASE v = w
      BY <2>1, <3>1 DEF Ends, ApprovalOK, Posting
    <3>2. CASE v # w
      <4>1. ~(pc[v] = "approve" \/ Posting(v))
        BY <2>1, <3>2, OneApproval
      <4>2. pc'[v] = pc[v]
        BY <1>0, <3>2 DEF Others
      <4> QED
        BY <4>1, <4>2 DEF ApprovalOK, Posting
    <3> QED
      BY <3>1, <3>2
  <2> QED
    BY <2>3, <2>4
<1>7. ASSUME Ends(w), UNCHANGED <<payslips, posted>>
      PROVE  (\A q \in Payslips : PostedOK(q)') /\ (\A v \in Clerks : ApprovalOK(v)')
  BY <1>0, <1>7 DEF Ends, Others, PostedOK, ApprovalOK, Posting
<1>8. CASE ApproveStatus(w) \/ PayStatus(w) \/ VoidStatus(w)
  BY <1>4, <1>8, StatusMoves
<1>9. CASE UpdateAbsenceStatus(w) \/ (Ends(w) /\ UNCHANGED database)
  BY <1>7, <1>9, UpdateAbsenceMoves DEF database
<1> QED
  BY <1>1, <1>2, <1>3, <1>5, <1>6, <1>8, <1>9, StepKinds

-----------------------------------------------------------------------------
(* Approvals that meet no failure and no closed month.                     *)

\* Whoever approves or posts cannot fail.
LEMMA NoFault ==
  ASSUME Attended, LocalsOK, NEW w \in Clerks, pc[w] = "approve" \/ Posting(w)
  PROVE  Faults[w] = {}
BY DEF Attended, LocalsOK, LocalOK

LEMMA MonthsStay ==
  ASSUME Attended, NEW w \in Clerks, Served(w)
  PROVE  UNCHANGED periods
BY DEF Attended, Served

\* A step that posts goes on until the entry is in the books.
LEMMA PostingGoesOn ==
  ASSUME TypeOK, LocalsOK, RowsOK, NEW w \in Clerks, Step(w), UNCHANGED duties,
         Attended, ApprovalsInv, EntriesInv, Posting(w)
  PROVE  \/ Posting(w)' /\ job'[w] = job[w] /\ posted' = posted
         \/ /\ posted[job[w].payslip] = 0
            /\ posted' = [posted EXCEPT ![job[w].payslip] = 1]
         \/ ~(NetPay(payslips[job[w].payslip]) > 0) /\ posted' = posted
<1>1. /\ job[w].payslip \in Payslips /\ job[w].month \in Months /\ Faults[w] = {}
      /\ posted[job[w].payslip] = 0
      /\ NetPay(payslips[job[w].payslip]) = NetPay(job[w])
  BY NoFault DEF LocalsOK, LocalOK, ApprovalsInv, NetPay
<1>2. /\ periods[job[w].month] # "CLOSED"
      /\ pc[w] = "new period" => periods[job[w].month] = "none"
  BY <1>1 DEF EntriesInv
<1>3. CASE GetPeriod(w)
  BY <1>1, <1>2, <1>3, GetPeriodMoves DEF Goes, Posting, database
<1>4. CASE CreatePeriod(w)
  <2>1. pc[w] = "new period" /\ posted' = posted
    BY <1>4 DEF CreatePeriod
  <2> QED
    BY <1>1, <1>2, <1>4, <2>1, CreatePeriodMoves DEF Goes, Posting
<1>5. CASE PostPayroll(w)
  BY <1>1, <1>5 DEF PostPayroll
<1>6. CASE (Ends(w) /\ Faults[w] # {}) \/ Served(w) \/ Began(w)
  BY <1>1, <1>6 DEF Served, Began, Posting
<1> QED
  BY <1>3, <1>4, <1>5, <1>6, StepKinds
  DEF Posting, CreatePayslip, ApproveStatus, PayStatus, VoidStatus, UpdateAbsenceStatus

LEMMA PostedGrows ==
  ASSUME TypeOK, LocalsOK, RowsOK, NEW w \in Clerks, Step(w), UNCHANGED duties
  PROVE  \A p \in Payslips : posted[p] > 0 => posted'[p] > 0
<1>1. CASE PostPayroll(w)
  <2>1. job[w].payslip \in Payslips /\ posted \in [Payslips -> Nat]
    BY <1>1 DEF PostPayroll, LocalsOK, LocalOK, Posting, TypeOK
  <2> QED
    BY <1>1, <2>1 DEF PostPayroll
<1>2. CASE UNCHANGED posted
  BY <1>2
<1> QED
  BY <1>1, <1>2, StepKinds, CreatePayslipMoves, StatusMoves, UpdateAbsenceMoves
  DEF Served, Began, database, GetPeriod, CreatePeriod

LEMMA SettledStep ==
  ASSUME TypeOK, LocalsOK, RowsOK, NEW w \in Clerks, Step(w), UNCHANGED duties,
         Attended, ApprovalsInv, EntriesInv,
         NEW p \in Payslips, payslips[p].status # "none", Settled(p)
  PROVE  Settled(p)'
<1>1. NetPay(payslips'[p]) = NetPay(payslips[p]) /\ Others(w)
  BY RowsKept, StepKinds DEF Kept, NetPay
<1> SUFFICES ASSUME NetPay(payslips[p]) > 0
             PROVE  posted'[p] > 0 \/ \E v \in Clerks : Posting(v)' /\ job'[v].payslip = p
  BY <1>1 DEF Settled
<1>2. CASE posted[p] > 0
  BY <1>2, PostedGrows
<1>3. ASSUME NEW v \in Clerks, Posting(v), job[v].payslip = p
      PROVE  posted'[p] > 0 \/ \E u \in Clerks : Posting(u)' /\ job'[u].payslip = p
  <2>1. CASE v # w
    BY <1>1, <1>3, <2>1 DEF Others, Posting
  <2>2. CASE v = w
    <3>1. posted \in [Payslips -> Nat]
      BY DEF TypeOK
    <3> QED
      BY <1>3, <2>2, <3>1, PostingGoesOn
  <2> QED
    BY <2>1, <2>2
<1> QED
  BY <1>2, <1>3 DEF Settled

LEMMA ApprovedIsPostedStep ==
  ASSUME TypeOK, LocalsOK, RowsOK, NEW w \in Clerks, Step(w), UNCHANGED duties,
         Attended, ApprovalsInv, EntriesInv, ApprovedIsPosted
  PROVE  ApprovedIsPosted'
<1> SUFFICES ASSUME NEW p \in Payslips, payslips'[p].status \in {"approved", "paid"}
             PROVE  Settled(p)'
  BY DEF ApprovedIsPosted
<1>1. CASE payslips[p].status \in {"approved", "paid"}
  BY <1>1, SettledStep DEF ApprovedIsPosted
<1>2. CASE payslips[p].status \notin {"approved", "paid"}
  <2>1. ~(payslips' = payslips)
    BY <1>2
  <2>2. CASE \E q \in Payslips : CreatePayslip(w, q)
    BY <1>2, <2>2, CreatePayslipMoves
  <2>3. CASE ApproveStatus(w) \/ PayStatus(w) \/ VoidStatus(w)
    <3>1. PICK s \in {"approved", "paid", "voided"} :
            /\ Written(w, s) /\ job[w].payslip \in Payslips
            /\ \/ /\ s = "approved" /\ pc[w] = "approve"
                  /\ Goes(w, "period") \/ (Ends(w) /\ Faults[w] # {})
               \/ s = "paid" /\ pc[w] = "pay"
               \/ s = "voided"
      BY <2>3, StatusMoves
    <3>2. job[w].payslip = p /\ s \in {"approved", "paid"}
      BY <1>2, <3>1, WrittenKeeps DEF PayslipStatuses
    <3>3. CASE s = "approved"
      <4>1. Posting(w)' /\ job'[w].payslip = p
        BY <3>1, <3>2, <3>3, NoFault DEF Goes, Posting
      <4> QED
        BY <4>1 DEF Settled
    <3>4. CASE s = "paid"
      <4>1. Settled(p) /\ payslips[p].status # "none"
        BY <3>1, <3>2, <3>4 DEF EntriesInv, LocalsOK, LocalOK
      <4> QED
        BY <4>1, SettledStep
    <3> QED
      BY <3>2, <3>3, <3>4
  <2> QED
    BY <2>1, <2>2, <2>3, StepKinds, EntryMoves, UpdateAbsenceMoves DEF Served, Began, database
<1> QED
  BY <1>1, <1>2

LEMMA EntriesStep ==
  ASSUME TypeOK, LocalsOK, RowsOK, NEW w \in Clerks, Step(w), UNCHANGED duties,
         Attended, ApprovalsInv, EntriesInv, ApprovedIsPosted
  PROVE  EntriesInv'
<1>1. Others(w) /\ LocalsOK'
  BY StepKinds, LocalsStep
<1>2. periods' = periods \/ CreatePeriod(w)
  BY StepKinds, CreatePayslipMoves, StatusMoves, UpdateAbsenceMoves, MonthsStay
  DEF Began, database, GetPeriod, PostPayroll
<1>3. \A m \in Months : periods'[m] # "CLOSED"
  BY <1>2 DEF EntriesInv, CreatePeriod, TypeOK
<1>4. ASSUME NEW v \in Clerks, pc'[v] = "new period"
      PROVE  periods'[job'[v].month] = "none"
  <2>1. CASE v = w
    <3>1. GetPeriod(w) /\ Goes(w, "new period") /\ periods[job[w].month] = "none"
      <4>1. CASE GetPeriod(w)
        BY <1>4, <2>1, <4>1, GetPeriodMoves DEF Goes, Ends
      <4>2. ASSUME \/ Served(w) \/ Began(w) \/ Ends(w) \/ Goes(w, "period") \/ Goes(w, "post")
            PROVE  FALSE
        BY <1>4, <2>1, <4>2 DEF Served, Began, Ends, Goes
      <4>3. CASE CreatePeriod(w) \/ PostPayroll(w)
        BY <4>2, <4>3, CreatePeriodMoves, EndMoves DEF PostPayroll, Ends
      <4> QED
        BY <4>1, <4>2, <4>3, StepKinds, CreatePayslipMoves, StatusMoves, UpdateAbsenceMoves
    <3> QED
      BY <2>1, <3>1 DEF GetPeriod, database, Goes
  <2>2. CASE v # w
    <3>1. pc[v] = "new period" /\ job'[v] = job[v] /\ periods[job[v].month] = "none"
      BY <1>1, <1>4, <2>2 DEF Others, EntriesInv
    <3>2. ~CreatePeriod(w)
      BY <2>2, <3>1, OneApproval DEF CreatePeriod, Posting, Attended
    <3> QED
      BY <1>2, <3>1, <3>2
  <2> QED
    BY <2>1, <2>2
<1>5. ASSUME NEW v \in Clerks, pc'[v] = "pay", NEW p \in Payslips, job'[v].payslip = p
      PROVE  Settled(p)'
  <2>1. payslips[p].status # "none" /\ Settled(p)
    <3>1. CASE job'[v] = job[v] /\ pc[v] = "pay"
      BY <1>5, <3>1 DEF EntriesInv, LocalsOK, LocalOK
    <3>2. CASE v = w /\ Began(w)
      <4>1. PICK q \in Payslips : job'[w] = ReadPayslip(q) /\ payslips[q].status = "approved"
        BY <1>5, <3>2 DEF Began
      <4>2. q = p
        BY <1>5, <3>2, <4>1, ReadType
      <4> QED
        BY <4>1, <4>2 DEF ApprovedIsPosted
    <3>3. CASE v # w
      BY <1>1, <1>5, <3>1, <3>3 DEF Others
    <3>4. CASE v = w /\ Served(w)
      BY <1>5, <3>1, <3>4 DEF Served
    <3>5. ASSUME v = w, \/ Ends(w) \/ Goes(w, "period") \/ Goes(w, "post") \/ Goes(w, "new period")
          PROVE  FALSE
      BY <1>5, <3>5 DEF Ends, Goes
    <3>6. CASE v = w /\ (GetPeriod(w) \/ CreatePeriod(w) \/ PostPayroll(w))
      BY <3>5, <3>6, GetPeriodMoves, CreatePeriodMoves, EndMoves DEF PostPayroll, Ends
    <3> QED
      BY <3>2, <3>3, <3>4, <3>5, <3>6, StepKinds, CreatePayslipMoves, StatusMoves, UpdateAbsenceMoves
  <2> QED
    BY <2>1, SettledStep
<1>6. ASSUME NEW v \in Clerks, pc'[v] = "pay"
      PROVE  Settled(job[v].payslip)'
  <2>1. job'[v].payslip \in Payslips
    BY <1>1, <1>6 DEF LocalsOK, LocalOK
  <2> QED
    BY <1>5, <1>6, <2>1 DEF Settled, Posting, NetPay
<1> QED
  BY <1>3, <1>4, <1>6 DEF EntriesInv

-----------------------------------------------------------------------------
(* One decision at a time.                                                 *)

LEMMA DecisionsStep ==
  ASSUME TypeOK, LocalsOK, RowsOK, NEW w \in Clerks, Step(w), UNCHANGED duties,
         OneAt({"decide"}), DecisionsInv
  PROVE  /\ DecisionsInv'
         /\ \A a \in Absences :
              absences[a].status \in {"approved", "rejected"} => absences'[a] = absences[a]
<1>1. /\ Others(w)
      /\ \A v \in Clerks : pc[v] = "decide" =>
           /\ job[v].absence \in Absences /\ "decide" \in duties[v]
           /\ absences[job[v].absence].status \in {"pending", "withdrawn"}
  BY StepKinds DEF LocalsOK, LocalOK, DecisionsInv
<1>2. CASE UpdateAbsenceStatus(w)
  <2>1. pc[w] = "decide" /\ Ends(w)
    BY <1>2, UpdateAbsenceMoves DEF UpdateAbsenceStatus
  <2>2. ASSUME NEW v \in Clerks
        PROVE  pc'[v] # "decide"
    <3>1. CASE v = w
      BY <2>1, <3>1 DEF Ends
    <3>2. CASE v # w
      BY <1>1, <2>1, <3>2 DEF Others, OneAt
    <3> QED
      BY <3>1, <3>2
  <2>3. \A a \in Absences :
          absences[a].status \in {"approved", "rejected"} => absences'[a] = absences[a]
    BY <1>1, <1>2, <2>1 DEF UpdateAbsenceStatus, TypeOK
  <2> QED
    BY <2>2, <2>3 DEF DecisionsInv
<1>3. CASE Served(w)
  BY <1>1, <1>3 DEF Served, DecisionsInv
<1>4. ASSUME UNCHANGED absences, pc'[w] # "decide"
      PROVE  DecisionsInv'
  BY <1>1, <1>4 DEF Others, DecisionsInv
<1>5. CASE Began(w)
  BY <1>1, <1>5 DEF Began, database, Others, DecisionsInv
<1>6. CASE (\E p \in Payslips : CreatePayslip(w, p)) \/ (Ends(w) /\ UNCHANGED database)
  BY <1>4, <1>6, CreatePayslipMoves DEF Ends, database
<1>7. CASE ApproveStatus(w) \/ PayStatus(w) \/ VoidStatus(w)
  BY <1>4, <1>7, StatusMoves DEF Ends, Goes
<1>8. CASE GetPeriod(w) \/ CreatePeriod(w) \/ PostPayroll(w)
  BY <1>4, <1>8, EntryMoves, GetPeriodMoves, CreatePeriodMoves, EndMoves DEF PostPayroll, Ends, Goes
<1> QED
  BY <1>2, <1>3, <1>5, <1>6, <1>7, <1>8, StepKinds

-----------------------------------------------------------------------------
(* The theorems.                                                           *)

LEMMA PersonnelInit ==
  Init => PersonnelInv
<1> SUFFICES ASSUME Init
             PROVE  PersonnelInv
  OBVIOUS
<1>1. TypeOK
  BY IdleType DEF Init, TypeOK, StaffStatuses, PayslipStatuses, AbsenceStatuses, ContractRows,
     PayslipRows, AbsenceRows, SalaryTypes, Steps
<1>2. LocalsOK /\ RowsOK
  BY DEF Init, LocalsOK, LocalOK, RowsOK, Posting
<1>3. ApprovalsInv /\ ApprovedIsPosted /\ EntriesInv /\ DecisionsInv
  BY DEF Init, ApprovalsInv, ApprovedIsPosted, EntriesInv, DecisionsInv, Posting
<1> QED
  BY <1>1, <1>2, <1>3 DEF PersonnelInv

LEMMA AttendedStays ==
  ASSUME UNCHANGED duties
  PROVE  /\ Attended' => Attended
         /\ OneAt({"approve"})' => OneAt({"approve"})
         /\ OneAt({"decide"})' => OneAt({"decide"})
BY DEF Attended, OneAt

LEMMA PersonnelStep ==
  ASSUME PersonnelInv, NEW w \in Clerks, Step(w), UNCHANGED duties
  PROVE  PersonnelInv'
<1>1. TypeOK /\ LocalsOK /\ RowsOK
  BY DEF PersonnelInv
<1>2. TypeOK' /\ RowsOK' /\ LocalsOK'
  BY <1>1, StepKinds, LocalsStep
<1>3. ASSUME OneAt({"approve"})'
      PROVE  ApprovalsInv'
  BY <1>1, <1>3, AttendedStays, ApprovalsStep DEF PersonnelInv
<1>4. ASSUME Attended'
      PROVE  EntriesInv' /\ ApprovedIsPosted'
  <2>1. Attended /\ OneAt({"approve"})
    BY <1>4, AttendedStays DEF Attended
  <2>2. ApprovalsInv /\ EntriesInv /\ ApprovedIsPosted
    BY <2>1 DEF PersonnelInv
  <2> QED
    BY <1>1, <2>1, <2>2, EntriesStep, ApprovedIsPostedStep
<1>5. ASSUME OneAt({"decide"})'
      PROVE  DecisionsInv'
  BY <1>1, <1>5, AttendedStays, DecisionsStep DEF PersonnelInv
<1>6. ApprovedIsPosted'
  BY <1>4 DEF ApprovedIsPosted
<1> QED
  BY <1>2, <1>3, <1>4, <1>5, <1>6 DEF PersonnelInv

LEMMA Stutter ==
  ASSUME PersonnelInv, UNCHANGED vars
  PROVE  PersonnelInv'
<1> USE DEF vars
<1>1. TypeOK' /\ LocalsOK' /\ RowsOK'
  BY DEF PersonnelInv, TypeOK, LocalsOK, LocalOK, RowsOK, Posting
<1>2. (OneAt({"approve"}) => ApprovalsInv)'
  BY DEF PersonnelInv, OneAt, ApprovalsInv, Posting
<1>3. Attended' = Attended /\ \A p \in Payslips : Settled(p)' = Settled(p)
  BY DEF Attended, OneAt, Settled, Posting, NetPay
<1>4. ApprovedIsPosted' /\ (Attended => EntriesInv)'
  BY <1>3 DEF PersonnelInv, ApprovedIsPosted, EntriesInv, Settled, Posting, NetPay
<1>5. (OneAt({"decide"}) => DecisionsInv)'
  BY DEF PersonnelInv, OneAt, DecisionsInv
<1> QED
  BY <1>1, <1>2, <1>4, <1>5 DEF PersonnelInv

\* Whatever is asked for, and whatever fails, the tables keep their types and every
\* request under way still finds the row it read, with the sums it read (approve.go,
\* pay.go, void.go, the handler of PayrollGenerated and absence.go).
THEOREM PersonnelInvariant == Spec => []PersonnelInv
<1>1. Init => PersonnelInv
  BY PersonnelInit
<1>2. PersonnelInv /\ [Next]_vars => PersonnelInv'
  BY PersonnelStep, Stutter DEF Next, Step
<1> QED
  BY <1>1, <1>2, PTL DEF Spec

\* With one approval at a time a pay slip is posted once, after it was approved.
THEOREM PostedOnceHolds == Spec => []PostedOnce
<1>1. PersonnelInv => PostedOnce
  BY DEF PersonnelInv, ApprovalsInv, PostedOnce, TypeOK
<1> QED
  BY <1>1, PersonnelInvariant, PTL

\* With approvals one at a time that do not fail, and months that stay open, the
\* expense of every approved pay slip is in the books or about to be.
THEOREM ApprovedIsPostedHolds == Spec => []ApprovedIsPosted
<1>1. PersonnelInv => ApprovedIsPosted
  BY DEF PersonnelInv
<1> QED
  BY <1>1, PersonnelInvariant, PTL

DecidedStays ==
  OneAt({"decide"}) => \A a \in Absences :
    absences[a].status \in {"approved", "rejected"} => absences'[a] = absences[a]

\* With one decision at a time an absence that was decided stays as it is.
THEOREM AbsenceDecidedOnceHolds == Spec => AbsenceDecidedOnce
<1>1. PersonnelInv /\ [Next]_vars => [DecidedStays]_vars
  <2> SUFFICES ASSUME PersonnelInv, Next, OneAt({"decide"})
               PROVE  \A a \in Absences :
                        absences[a].status \in {"approved", "rejected"} => absences'[a] = absences[a]
    BY DEF DecidedStays
  <2> QED
    BY DecisionsStep DEF PersonnelInv, Next, Step
<1>2. Spec => [][DecidedStays]_vars
  BY <1>1, PersonnelInvariant, PTL DEF Spec
<1> QED
  BY <1>2 DEF AbsenceDecidedOnce, DecidedStays
=============================================================================
