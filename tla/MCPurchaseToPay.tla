--------------------------- MODULE MCPurchaseToPay ---------------------------
(* Small instances of PurchaseToPay for TLC.                               *)
EXTENDS PurchaseToPay, TLC

CONSTANTS buyer, till, clerk, o1, h1, h2, p1, d1, d2, fuente, ica

\* The buyer edits, confirms, withholds and receives; the others meet it at any moment.
Roles == [w \in Clerks |->
            CASE w = buyer -> {"create", "edit", "confirm", "withhold", "receive"}
              [] w = till  -> {"pay", "cancel", "certify"}
              [] w = clerk -> {"bill", "delete", "counters", "certify"}]
BuyerFails == [w \in Clerks |-> IF w = clerk THEN {} ELSE {"crash", "database"}]
Symmetric == Permutations(WithholdingIds) \cup Permutations(PaymentIds)
               \cup Permutations(DocumentIds) \cup Permutations(Concepts)
=============================================================================
