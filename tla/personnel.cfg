\* Three clerks, one of them careless, two pay slips and two absences.
SPECIFICATION Spec
CONSTANTS
  anna = anna boris = boris clara = clara eva = eva c1 = c1 c2 = c2 p1 = p1 p2 = p2
  a1 = a1 a2 = a2 jan = jan feb = feb
  Employees = {eva}
  Contracts = {c1}
  Payslips = {p1, p2}
  Absences = {a1, a2}
  Months = {jan, feb}
  Clerks = {anna, boris, clara}
  Shifts <- Divisions
  Faults <- AnnaFails
  Terms <- Salaries
  DaysGiven = {0, 1}
  Days = {1, 2}
  SMMLV = 1000
  Aid = 200
  NoEmployee = NoEmployee NoContract = NoContract NoPayslip = NoPayslip
  NoAbsence = NoAbsence NoMonth = NoMonth
\* Every pay slip and every absence may be made.
CHECK_DEADLOCK FALSE
SYMMETRY Symmetric
INVARIANTS PostedOnce ApprovedIsPosted
PROPERTY AbsenceDecidedOnce
