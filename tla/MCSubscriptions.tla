--------------------------- MODULE MCSubscriptions ---------------------------
(* Small instances of Subscriptions for TLC.                               *)
EXTENDS Subscriptions, TLC

CONSTANTS anna, boris, c1, c2, basic, s1, s2, s3

All(w)  == [v \in Clerks |-> IF v = w THEN PlanRequests ELSE {}]
Mix(a, b) == [v \in Clerks |-> IF v = anna THEN a ELSE b]

\* One clerk for everything; two that change and renew; one for plans, one for companies.
Divisions == {All(anna),
              Mix({"assign", "renew"}, {"assign", "renew"}),
              Mix({"update", "increment", "renew"}, {"assign"})}
BorisIsSafe == [w \in Clerks |-> IF w = anna THEN {"crash", "failure"} ELSE {}]

Row(price, certificate, length, active) ==
  [price |-> price, certificate |-> certificate, length |-> length, active |-> active]
Rows == {Row(1, 0, 1, TRUE), Row(2, 1, 2, TRUE), Row(1, 0, 1, FALSE)}

Symmetric == Permutations(Companies) \cup Permutations(Plans) \cup Permutations(Subs)
=============================================================================
