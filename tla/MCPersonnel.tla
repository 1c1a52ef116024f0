----------------------------- MODULE MCPersonnel -----------------------------
(* Small instances of Personnel for TLC.                                   *)
EXTENDS Personnel, TLC

CONSTANTS anna, boris, clara, eva, c1, c2, p1, p2, a1, a2, jan, feb

Mix(a, b, c) == [w \in Clerks |-> CASE w = anna -> a [] w = boris -> b [] w = clara -> c]

\* One approves while others pay, void and close; nobody closes; all of it at once by
\* whoever is free; absences with one manager, and with two.
Divisions == {
  Mix({"staff", "generate", "approve"}, {"pay", "void"}, {"close", "generate"}),
  Mix({"staff", "generate", "void"}, {"approve"}, {"pay", "void"}),
  Mix({"staff", "generate", "approve", "pay"}, {"approve", "void"}, {}),
  Mix({"ask"}, {"decide"}, {"ask"}),
  Mix({"ask", "decide"}, {"decide"}, {})}
AnnaFails == [w \in Clerks |-> IF w = anna THEN {"crash", "database"} ELSE {}]

\* A third of the minimum wage's month earns less than a whole one, a day less than
\* what is deducted for a month.
Salaries == {[salary |-> 1000, type |-> "ordinary"], [salary |-> 13000, type |-> "integral"]}

Symmetric == Permutations(Contracts) \cup Permutations(Payslips) \cup Permutations(Absences)
               \cup Permutations(Months)
=============================================================================
