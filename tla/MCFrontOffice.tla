---------------------------- MODULE MCFrontOffice ----------------------------
(* Small instances of FrontOffice for TLC.                                 *)
EXTENDS FrontOffice, TLC

CONSTANTS anna, boris, q1, q2, s1, s2, l1, l2, p1, p2, i1, i2, h1, h2, h3, g1, g2, c1, c2,
          v1, f1, f2, d1, d2, r1, r2, r3

Mix(a, b) == [w \in Clerks |-> IF w = anna THEN a ELSE b]

\* Each division keeps to one of the desks, so that what one does is not multiplied by
\* what the others do: quotes edited, mailed and answered by one clerk each, by the
\* same, and deleted meanwhile; parties by one clerk, by two; warehouses; products;
\* settings; documents edited, confirmed and mailed by one clerk each, and by the same.
Divisions == {
  Mix({"quote", "send", "decide", "convert"}, {"edit quote", "mail"}),
  Mix({"edit quote", "quote", "convert"}, {"send", "mail", "decide", "delete quote"}),
  Mix({"quote", "quote counter", "edit quote", "mail"}, {"decide", "convert"}),
  Mix({}, {"party", "edit party", "drop role"}),
  Mix({"party", "drop role"}, {"party", "edit party"}),
  Mix({"warehouse", "default", "resolve"}, {"warehouse", "edit warehouse", "deactivate", "resolve"}),
  Mix({"product", "delete product"}, {"product", "edit product"}),
  Mix({"profile", "logo", "color"}, {"profile", "credentials", "clear"}),
  Mix({"draft", "edit draft", "invoice", "credit note"},
      {"confirm", "delete draft", "mail document"}),
  Mix({"draft", "edit draft", "confirm", "support document"},
      {"delete draft", "clone", "mail document"}),
  Mix({"draft", "confirm", "debit note"}, {"edit draft", "credit note", "mail document"}),
  Mix({"draft", "edit draft", "adjustment note"}, {"edit draft", "invoice", "confirm"})}

\* Who serves what is named as the routes are.
ASSUME DutiesAssumption == Divisions \subseteq [Clerks -> SUBSET Requests]

\* A range for each of the types that are compared.
RangeTypes == [r \in Ranges |-> CASE r = r1 -> "invoice" [] r = r2 -> "credit note"
                               [] r = r3 -> "debit note"]
AnnaFails == Mix({"crash", "failure"}, {})

Symmetric == Permutations(Quotes) \cup Permutations(Sales) \cup Permutations(Lines)
               \cup Permutations(Parties) \cup Permutations(Identities) \cup Permutations(Profiles)
               \cup Permutations(Documents)
=============================================================================
