----------------------------- MODULE Inventory -----------------------------
(***************************************************************************)
(* Stock and stock movements (erp/internal/inventory).                     *)
(*                                                                         *)
(* A movement takes its folio from a counter, is inserted, and then the    *)
(* stock of its row is read and written back as an absolute value: four    *)
(* statements, none of them in a transaction with another.  A transfer is  *)
(* one transaction; the deletion of a movement is one too, except that it  *)
(* reads the movement before it locks any row of stock.                    *)
(***************************************************************************)
EXTENDS Integers, FiniteSets, FiniteSetsExt

CONSTANTS
  Rows,        \* rows of inventory.stock: a product in a warehouse
  Opening,     \* row -> quantity at the start; every row has been written before
  Movers,      \* goroutines that serve POST /movements
  Deleters,    \* goroutines that serve DELETE /movements/{id}
  Sales,       \* goroutines that deliver SaleConfirmed
  Purchases,   \* goroutines that deliver PurchaseReceived
  RowsOf,      \* request -> the rows of stock it is about
  Quantities,  \* quantities of a movement
  MaxLines,    \* lines of a sale or a purchase
  MaxFolios,   \* bound on the folios given
  Faults,      \* "crash": a request dies; "database": a statement fails
  NoRow

Workers == Movers \cup Deleters \cup Sales \cup Purchases

ASSUME InventoryAssumption ==
  /\ Opening \in [Rows -> Int]
  /\ RowsOf \in [Workers -> SUBSET Rows]
  /\ Quantities \subseteq Nat \ {0}
  /\ MaxLines \in Nat \ {0} /\ MaxFolios \in Nat

Types == {"entry", "exit", "adjust", "transfer"}

Steps == {"idle", "number", "insert", "read", "write", "reverse"}

VARIABLES
  stock,      \* row -> quantity
  movements,  \* inventory.movements
  counter,    \* type -> last_seq of inventory.number_counters
  pc,         \* request -> the statement it is at
  job,        \* request -> its local variables
  adrift,     \* history: rows whose stock something once set apart from the record
  overtaken   \* history: exits that checked a stock which fell before they read it

\* No guard reads the history; it tells the properties what has happened.
vars == <<stock, movements, counter, pc, job, adrift, overtaken>>

\* number is the folio; group is the folio of a transfer's first half, else 0.
Movements == [number : Types \X Nat, row : Rows, quantity : Nat,
              addition : BOOLEAN, group : Nat]

\* The locals of a request: the movement it is making, whether an event handler
\* makes it and the lines still to come, its folio, currentQty, and the movements
\* a deletion will reverse.
Making(type, r, q, by, n) ==
  [type |-> type, row |-> r, quantity |-> q, by |-> by, lines |-> n,
   seq |-> 0, currentQty |-> 0, list |-> {}]

Idle == Making("none", NoRow, 0, "request", 0)

Jobs == [type : Types \cup {"none"}, row : Rows \cup {NoRow}, quantity : Nat,
         by : {"request", "handler"}, lines : Nat, seq : Nat, currentQty : Int,
         list : SUBSET Movements]

StockDelta(m) == IF m.addition THEN m.quantity ELSE -m.quantity

Adds(type) == type \in {"entry", "adjust"}

\* Execute sets it from the type; applyMovement, used by the event handlers,
\* leaves the zero value.
IsAddition(w) == job[w].by = "request" /\ Adds(job[w].type)

Init ==
  /\ stock     = Opening
  /\ movements = {}
  /\ counter   = [t \in Types |-> 0]
  /\ pc        = [w \in Workers |-> "idle"]
  /\ job       = [w \in Workers |-> Idle]
  /\ adrift    = {}
  /\ overtaken = {}

Goto(w, step) == pc' = [pc EXCEPT ![w] = step]

End(w) ==
  /\ Goto(w, "idle")
  /\ job' = [job EXCEPT ![w] = Idle]

Begin(w, type, r, q, by, n) ==
  /\ pc[w] = "idle"
  /\ r \in RowsOf[w]
  /\ Goto(w, "number")
  /\ job' = [job EXCEPT ![w] = Making(type, r, q, by, n)]
  /\ UNCHANGED <<stock, movements, counter, adrift>>

\* An event handler goes on with the next line, whatever became of this one.
NextLine(w) ==
  IF job[w].lines = 0 THEN End(w)
  ELSE \E r \in RowsOf[w], q \in Quantities :
         /\ Goto(w, "number")
         /\ job' = [job EXCEPT ![w].row = r, ![w].quantity = q, ![w].lines = @ - 1]

\* The bound on counters.
Given == MapThenSumSet(LAMBDA t : counter[t], Types)
Room(n) == Given + n <= MaxFolios

\* These rows no longer follow the record.
Adrift(S) == adrift' = adrift \cup S

-----------------------------------------------------------------------------
(* Requests and events.                                                    *)

MoveIn(w, type, r, q) == Adds(type) /\ Begin(w, type, r, q, "request", 0)

\* Variant: without the check of the stock.
MoveOutUnchecked(w, r, q) == Begin(w, "exit", r, q, "request", 0)

\* The check of Execute; the stock is read again before it is written.
MoveOut(w, r, q) ==
  /\ stock[r] >= q
  /\ Begin(w, "exit", r, q, "request", 0)

\* Sales checked the stock before it published the event; the handler does not.
SaleConfirmed(w, r, q, n) == Begin(w, "exit", r, q, "handler", n - 1)

PurchaseReceived(w, r, q, n) == Begin(w, "entry", r, q, "handler", n - 1)

\* INSERT ... ON CONFLICT DO UPDATE SET last_seq = last_seq + 1 RETURNING last_seq.
nextMovementNumber(w) ==
  LET t == job[w].type IN
  /\ pc[w] = "number"
  /\ Room(1)
  /\ counter' = [counter EXCEPT ![t] = @ + 1]
  /\ \/ /\ Goto(w, "insert")
        /\ job' = [job EXCEPT ![w].seq = counter[t] + 1]
     \/ "database" \in Faults /\ NextLine(w)       \* applied, its reply lost
  /\ UNCHANGED <<stock, movements, adrift>>

Number(w) == <<job[w].type, job[w].seq>>

Movement(w) ==
  [number |-> Number(w), row |-> job[w].row,
   quantity |-> job[w].quantity, addition |-> IsAddition(w), group |-> 0]

SaveMovement(w) ==
  /\ pc[w] = "insert"
  /\ movements' = movements \cup {Movement(w)}
  /\ \/ Goto(w, "read") /\ UNCHANGED <<job, adrift>>
     \/ "database" \in Faults /\ NextLine(w) /\ Adrift({job[w].row})  \* reply lost
  /\ UNCHANGED <<stock, counter>>

\* Any error of GetStock counts as no stock.
GetStock(w) ==
  /\ pc[w] = "read"
  /\ \E q \in {stock[job[w].row]} \cup (IF "database" \in Faults THEN {0} ELSE {}) :
       job' = [job EXCEPT ![w].currentQty = q]
  /\ Goto(w, "write")
  /\ UNCHANGED <<stock, movements, counter, adrift>>

\* The row goes adrift if it is not as it was read, or if the record has the
\* movement with the other sign.
UpsertStock(w) ==
  LET j == job[w] IN
  /\ pc[w] = "write"
  /\ stock' = [stock EXCEPT ![j.row] = IF Adds(j.type) THEN j.currentQty + j.quantity
                                                       ELSE j.currentQty - j.quantity]
  /\ NextLine(w)
  /\ Adrift(IF j.currentQty = stock[j.row] /\ Adds(j.type) = IsAddition(w) THEN {} ELSE {j.row})
  /\ UNCHANGED <<movements, counter>>

\* What becomes of the row when a request leaves off where it is.
LeftOff(w) == IF pc[w] \in {"read", "write"} THEN {job[w].row} ELSE {}

StatementFails(w) ==
  /\ "database" \in Faults
  /\ pc[w] \in {"number", "insert", "write"}
  /\ NextLine(w)
  /\ Adrift(LeftOff(w))
  /\ UNCHANGED <<stock, movements, counter>>

-----------------------------------------------------------------------------
(* Transactions.                                                           *)

Half(n, r, q, added, first) ==
  [number |-> <<"transfer", n>>, row |-> r, quantity |-> q,
   addition |-> added, group |-> first]

\* Variant: the destination is not credited.
TransferDebitsOnly(w, from, to, q) ==
  LET n == counter["transfer"] + 1 IN
  /\ pc[w] = "idle"
  /\ {from, to} \subseteq RowsOf[w] /\ from # to
  /\ stock[from] >= q
  /\ Room(2)
  /\ counter'   = [counter EXCEPT !["transfer"] = @ + 2]
  /\ movements' = movements \cup {Half(n, from, q, FALSE, n), Half(n + 1, to, q, TRUE, n)}
  /\ stock'     = [stock EXCEPT ![from] = @ - q]
  /\ UNCHANGED <<pc, job, adrift>>

\* One transaction with the origin's row locked: both writes are relative.
Transfer(w, from, to, q) ==
  LET n == counter["transfer"] + 1 IN
  /\ pc[w] = "idle"
  /\ {from, to} \subseteq RowsOf[w] /\ from # to
  /\ stock[from] >= q
  /\ Room(2)
  /\ counter'   = [counter EXCEPT !["transfer"] = @ + 2]
  /\ movements' = movements \cup {Half(n, from, q, FALSE, n), Half(n + 1, to, q, TRUE, n)}
  /\ stock'     = [stock EXCEPT ![from] = @ - q, ![to] = @ + q]
  /\ UNCHANGED <<pc, job, adrift>>

\* Variant: only the movement asked for, not its other half.
SelectOne(w, m) ==
  /\ pc[w] = "idle"
  /\ m \in movements /\ m.row \in RowsOf[w]
  /\ Goto(w, "reverse")
  /\ job' = [job EXCEPT ![w].list = {m}]
  /\ UNCHANGED <<stock, movements, counter, adrift>>

\* DeleteMovement reads what it will reverse, without a lock.  It reads the group
\* first and the list then; if the movement went in between it reverses nothing.
SelectMovements(w, m) ==
  /\ pc[w] = "idle"
  /\ m \in movements /\ m.row \in RowsOf[w]
  /\ Goto(w, "reverse")
  /\ job' = [job EXCEPT ![w].list =
               {n \in movements : n = m \/ (m.group # 0 /\ n.group = m.group)}]
  /\ UNCHANGED <<stock, movements, counter, adrift>>

\* The halves of a transfer are on different rows.
Reversed(list) ==
  [r \in Rows |->
     IF \E m \in list : m.row = r
     THEN stock[r] - StockDelta(CHOOSE m \in list : m.row = r) ELSE stock[r]]

\* A movement inserted whose effect on stock is still to be written.
Unapplied == {m \in movements : \E w \in Workers :
                pc[w] \in {"read", "write"} /\ m.number = Number(w)}

\* The rest of the transaction: the rows are locked, read, written and committed.
\* The DELETE does not look at how many rows it found: what another deletion has
\* reversed is reversed again, and so is what was never applied.
Reverse(w) ==
  LET list == job[w].list IN
  /\ pc[w] = "reverse"
  /\ \A m \in list : Reversed(list)[m.row] >= 0
  /\ stock' = Reversed(list)
  /\ movements' = movements \ list
  /\ Adrift(IF list \subseteq movements \ Unapplied THEN {} ELSE {m.row : m \in list})
  /\ End(w)
  /\ UNCHANGED counter

\* ErrDeleteWouldMakeStockNegative, or a failing statement: rolled back.
ReverseRefused(w) ==
  /\ pc[w] = "reverse"
  /\ \/ \E m \in job[w].list : Reversed(job[w].list)[m.row] < 0
     \/ "database" \in Faults
  /\ End(w)
  /\ UNCHANGED <<stock, movements, counter, adrift>>

Crash(w) ==
  /\ "crash" \in Faults
  /\ pc[w] # "idle"
  /\ End(w)
  /\ Adrift(LeftOff(w))
  /\ UNCHANGED <<stock, movements, counter>>

-----------------------------------------------------------------------------
Request ==
  \/ \E w \in Movers, r \in Rows, q \in Quantities :
       MoveOut(w, r, q) \/ \E t \in Types : MoveIn(w, t, r, q)
  \/ \E w \in Movers, from, to \in Rows, q \in Quantities : Transfer(w, from, to, q)
  \/ \E w \in Sales, r \in Rows, q \in Quantities, n \in 1 .. MaxLines :
       SaleConfirmed(w, r, q, n)
  \/ \E w \in Purchases, r \in Rows, q \in Quantities, n \in 1 .. MaxLines :
       PurchaseReceived(w, r, q, n)
  \/ \E w \in Deleters : \E m \in movements : SelectMovements(w, m)

Step(w) ==
  \/ nextMovementNumber(w) \/ SaveMovement(w) \/ GetStock(w) \/ UpsertStock(w)
  \/ StatementFails(w) \/ Reverse(w) \/ ReverseRefused(w) \/ Crash(w)

\* An exit by request checks the stock when it begins; it is overtaken when the stock
\* falls before it reads it again, or when that reading fails.
Falls(w) ==
  /\ pc[w] \in {"number", "insert", "read"}
  /\ job[w].by = "request" /\ job[w].type = "exit"
  /\ \/ stock'[job[w].row] < stock[job[w].row]
     \/ pc'[w] = "write" /\ job'[w].currentQty < stock[job[w].row]

Overtaking ==
  overtaken' = {w \in Workers : pc'[w] # "idle" /\ (w \in overtaken \/ Falls(w))}

Next ==
  /\ Request \/ \E w \in Workers : Step(w)
  /\ Overtaking

Spec == Init /\ [][Next]_vars
-----------------------------------------------------------------------------
(* Correctness.                                                            *)

\* Types of the variables.
TypeOK ==
  /\ stock \in [Rows -> Int]
  /\ movements \subseteq Movements
  /\ counter \in [Types -> Nat]
  /\ pc \in [Workers -> Steps]
  /\ job \in [Workers -> Jobs]

\* A folio is given once: no two movements carry the same one, nor does a request
\* still to insert its movement hold one that is, was or will be another's,
\* whatever is deleted, fails or dies in between.
FoliosGivenOnce ==
  /\ \A m, n \in movements : m.number = n.number => m = n
  /\ \A w, x \in Workers : pc[w] = "insert" /\ pc[x] = "insert" /\ Number(w) = Number(x)
                             => w = x
  /\ \A w \in Workers : pc[w] = "insert" => \A m \in movements : m.number # Number(w)
  /\ \A m \in movements : m.number[2] <= counter[m.number[1]]

\* Both halves of a transfer are on record or none is, however requests to move
\* and to delete interleave and fail.
TransferIsWhole ==
  \A m \in movements : m.group # 0 =>
    \E n \in movements :
      /\ n.row # m.row /\ n.quantity = m.quantity /\ n.addition # m.addition
      /\ {k \in movements : k.group = m.group} = {m, n}

Ledger == INSTANCE StockLedger WITH
            book <- movements \ Unapplied, balance <- stock, adrift <- adrift

\* Whatever interleaves and fails, only whole operations enter and leave the record,
\* and the stock of a row is what the movements on record say until one of five things
\* sets it apart for good: a request writes over a stock that has changed since it read
\* it, or could not read; it dies or fails between its movement and its stock; it loses
\* the reply to its insert; a purchase is delivered (its handler records with the other
\* sign); a deletion reverses what another has, or what was not applied yet.
ImplementsLedger == Ledger!Spec

\* No transfer and no deletion takes a row below zero, and of the movements only the
\* handler of SaleConfirmed, which does not check, an exit whose stock fell after its
\* check, and whatever reads a row that is below zero already.
OversoldBySalesOrStaleChecks ==
  [][\A r \in Rows : stock'[r] < 0 /\ stock'[r] < stock[r] =>
       \E w \in Workers :
         /\ pc[w] = "write" /\ job[w].row = r
         /\ job[w].by = "handler" \/ w \in overtaken \/ job[w].currentQty < 0]_vars
-----------------------------------------------------------------------------
(* The invariant the proofs are by induction on.                           *)

\* A request making a movement has its row and one of the types that have no pair.
LocalsOK ==
  \A w \in Workers : pc[w] \notin {"idle", "reverse"} =>
    job[w].type \in Types \ {"transfer"} /\ job[w].row \in Rows

\* What is given is counted, folios and transfers.
Counted ==
  /\ \A w \in Workers : pc[w] = "insert" => job[w].seq <= counter[job[w].type]
  /\ \A m \in movements : m.group <= counter["transfer"]
  /\ \A w \in Workers : \A m \in job[w].list : m.group <= counter["transfer"]

\* A deletion reverses every half of a transfer that is still there.
ListsWhole ==
  \A w \in Workers : \A m \in job[w].list : m.group # 0 =>
    \A n \in movements : n.group = m.group => n \in job[w].list

RecordInv == TypeOK /\ LocalsOK /\ Counted /\ FoliosGivenOnce /\ ListsWhole /\ TransferIsWhole

MakingSteps == {"number", "insert", "read", "write"}
Holding     == {"insert", "read", "write"}

\* A folio is held by one request at most from when it is given to the last statement,
\* and the movement that carries it is the one that request made.
HoldsOK ==
  /\ \A w, x \in Workers : pc[w] \in Holding /\ pc[x] \in Holding /\ Number(w) = Number(x) => w = x
  /\ \A w \in Workers : pc[w] \in Holding => job[w].seq <= counter[job[w].type]
  /\ \A w \in Workers : pc[w] \in {"read", "write"} =>
       \A m \in movements : m.number = Number(w) => m = Movement(w)

\* A deletion lists a whole operation, of which all is on record or nothing is any more,
\* nor will be: nobody is about to insert what carries a folio of the list.
ListsOK ==
  \A w \in Workers : pc[w] = "reverse" =>
    /\ Ledger!WholeOperation(job[w].list)
    /\ job[w].list \subseteq movements \/ job[w].list \cap movements = {}
    /\ \A m \in job[w].list :
         /\ m.number[2] <= counter[m.number[1]]
         /\ \A x \in Workers : pc[x] = "insert" => m.number # Number(x)

\* The row of a movement that was deleted before it was applied is adrift.
GoneOK ==
  \A w \in Workers : pc[w] \in {"read", "write"} /\ Movement(w) \notin movements =>
    job[w].row \in adrift

\* What an exit found enough is enough, unless it was overtaken.
CheckOK(w) ==
  pc[w] \in MakingSteps /\ job[w].by = "request" =>
    /\ job[w].lines = 0
    /\ job[w].type = "exit" /\ w \notin overtaken =>
         job[w].quantity <= (IF pc[w] = "write" THEN job[w].currentQty ELSE stock[job[w].row])

ChecksOK == \A w \in Workers : CheckOK(w)

\* The rows that are not adrift follow the record.
Followed == \A r \in Rows \ adrift : stock[r] = Ledger!BalanceOf(movements \ Unapplied)[r]

LedgerInv ==
  /\ IsFiniteSet(movements) /\ adrift \subseteq Rows
  /\ HoldsOK /\ ListsOK /\ GoneOK /\ ChecksOK /\ Followed
=============================================================================
