---------------------------- MODULE MCBackOffice ----------------------------
(* Small instances of BackOffice for TLC.                                  *)
EXTENDS BackOffice, TLC

CONSTANTS anna, boris, van, desk, jan, feb, mar, e1, e2, e3, l1, l2, b1, rent, wages, cash, nequi

Mix(a, b) == [w \in Clerks |-> IF w = anna THEN a ELSE b]

\* Each division keeps to one of the desks, so that what one does is not multiplied by
\* what the others do: assets by one clerk, by two, next to the ledger; the ledger by
\* one clerk; the bank; marks; budgets;
\* declarations of one tax; rates; the registers.
Divisions == {
  Mix({}, {"depreciate", "dispose", "close"}),
  Mix({"dispose", "void"}, {"depreciate"}),
  Mix({"depreciate"}, {"register"}),
  Mix({}, {"post", "void", "close", "reopen"}),
  Mix({"post", "close"}, {"void", "reopen"}),
  Mix({"post", "void"}, {"add line", "reconcile"}),
  Mix({"voucher type"}, {"own voucher", "voucher type"}),
  Mix({"bank"}, {"bank", "add line"}),
  Mix({"post"}, {"mark", "unmark"}),
  Mix({"post"}, {"mark", "remark", "unmark"}),
  Mix({"budget", "approve"}, {"budget line"}),
  Mix({}, {"budget", "approve", "budget line"}),
  Mix({"file"}, {"iva"}),
  Mix({"tariff", "file"}, {"ica"}),
  Mix({"iva"}, {"iva", "declare late"}),
  Mix({"income"}, {"income", "file"}),
  Mix({"lookup", "sync"}, {"daily"}),
  Mix({"lookup", "rate", "sync"}, {"daily"}),
  Mix({"sync"}, {"rate", "lookup"})}
AnnaFails == Mix({"crash", "database"}, {})

\* The van loses 2, 2 and the remainder of 1; the desk all of it in a month.
Costs    == van :> 6 @@ desk :> 2
Salvages == van :> 1 @@ desk :> 0
Lives    == van :> 2 @@ desk :> 1

\* More sold than bought, less, and the other way round in ICA, with deductions.
Trades  == {[credit |-> 300, debit |-> 100], [credit |-> 100, debit |-> 250]}
OfICA   == {[rate |-> 1000, surcharge |-> 1500], [rate |-> 0, surcharge |-> 0]}

\* Of euros only what is captured by hand.
Traded  == {<<"USD", "COP">>, <<"EUR", "COP">>}

Symmetric == Permutations(Months) \cup Permutations(Entries)
=============================================================================
