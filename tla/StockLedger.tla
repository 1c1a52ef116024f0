---------------------------- MODULE StockLedger ----------------------------
(***************************************************************************)
(* What the inventory keeps: the record grows and shrinks by whole         *)
(* operations, a movement or both halves of a transfer, and the stock of a *)
(* product in a warehouse is the opening stock plus the effect of every    *)
(* movement on record, until it goes adrift.                               *)
(***************************************************************************)
EXTENDS Integers, FiniteSetsExt

CONSTANTS
  Rows,     \* rows of inventory.stock: a product in a warehouse
  Opening   \* row -> quantity before the first movement on record

VARIABLES
  book,     \* the movements on record
  balance,  \* row -> quantity
  adrift    \* the rows that no longer follow the record

\* Movement.StockDelta: the effect of a movement, with its sign.
StockDelta(m) == IF m.addition THEN m.quantity ELSE -m.quantity

On(r, S) == {m \in S : m.row = r}

BalanceOf(S) == [r \in Rows |-> Opening[r] + MapThenSumSet(StockDelta, On(r, S))]

\* A transfer takes from one warehouse what it brings to another.
Halves(m, n) ==
  /\ m.group = n.group /\ m.row # n.row
  /\ m.quantity = n.quantity /\ m.addition # n.addition

WholeOperation(S) ==
  \/ \E m \in S : S = {m} /\ m.group = 0
  \/ \E m, n \in S : S = {m, n} /\ m.group # 0 /\ Halves(m, n)

Init == book = {} /\ balance = Opening /\ adrift = {}

Record == book \subseteq book' /\ WholeOperation(book' \ book)
Remove == book' \subseteq book /\ WholeOperation(book \ book')

\* A row that goes adrift stays so.
Next ==
  /\ Record \/ Remove \/ UNCHANGED book
  /\ adrift \subseteq adrift'
  /\ \A r \in Rows \ adrift' : balance'[r] = BalanceOf(book')[r]

Spec == Init /\ [][Next]_<<book, balance, adrift>>
=============================================================================
