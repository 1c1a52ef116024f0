--------------------------- MODULE MCOrderToCash ---------------------------
(* Small instances of OrderToCash for TLC.                                 *)
EXTENDS OrderToCash, TLC

CONSTANTS desk, till, biller, s1, s2, p1, p2, d1, d2

\* The desk edits and confirms; the others meet it at any moment.
Roles == [w \in Clerks |->
            CASE w = desk   -> {"create", "edit", "confirm"}
              [] w = till   -> {"pay", "cancel", "post", "void"}
              [] w = biller -> {"bill", "delete", "period", "counters"}]
DeskFails == [w \in Clerks |-> IF w = biller THEN {} ELSE {"crash", "database"}]
\* Two lines with half a cent of tax each; two that lose other fractions.
Line(q, p, d, r) == [quantity |-> q, price |-> p, discount |-> d, rate |-> r]
TwoOrders == {Order(<<Line(1, 10, 0, 5), Line(1, 10, 0, 5)>>),
              Order(<<Line(3, 33, 15, 19), Line(1, 50, 1, 19)>>)}
Symmetric == Permutations(SaleIds) \cup Permutations(PaymentIds) \cup Permutations(DocumentIds)
=============================================================================
