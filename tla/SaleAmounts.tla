----------------------------- MODULE SaleAmounts -----------------------------
(***************************************************************************)
(* The amounts of a sale, of its journal entry and of its invoice          *)
(* (sales/domain/sale.go, accounting/application/on_sale_confirmed.go,     *)
(* electronic/application/from_sale.go, create_draft.go and confirm.go).   *)
(*                                                                         *)
(* The tables of sales keep NUMERIC(18,4), that is hundredths of a cent;   *)
(* journals and invoices keep whole cents.  The journal rounds the total,  *)
(* the invoice drops the fraction of a cent of every amount of every line. *)
(***************************************************************************)
EXTENDS Integers, FiniteSetsExt

\* price in cents; discount and rate in percent.
LineRange == [quantity : Nat, price : Nat, discount : 0..100, rate : Nat]

Rounded(x, unit) == (x + unit \div 2) \div unit

\* In hundredths of a cent, each of them rounded when the line is saved.
Subtotal(l)  == l.quantity * l.price * (100 - l.discount)
TaxAmount(l) == Rounded(Subtotal(l) * l.rate, 100)
LineTotal(l) == Rounded(Subtotal(l) * (100 + l.rate), 100)

\* f added up over a sequence of lines, or over a function of them.
SumOf(f(_), lines) == MapThenSumSet(LAMBDA i : f(lines[i]), DOMAIN lines)

\* What a sale sells: its lines and its GrandTotal.
Order(lines) == [lines |-> lines, total |-> SumOf(LineTotal, lines)]

toCents(x) == Rounded(x, 100)

\* int64(amount * 100) of a float: the product of a whole number of cents may fall
\* short of it, and then one cent is lost.
Truncated(x) == {x \div 100} \cup (IF x > 0 /\ x % 100 = 0 THEN {x \div 100 - 1} ELSE {})

InvoiceLine(l, base, tax) == [percent |-> l.rate, base |-> base, tax |-> tax]

\* Variant: rounded, as LinesFromInput rounds what it computes itself.
saleLinesRounded(lines) ==
  {[i \in DOMAIN lines |->
      InvoiceLine(lines[i], toCents(Subtotal(lines[i])), toCents(TaxAmount(lines[i])))]}

\* The invoices the lines may become.  A line has its tax at a rate of 0 too.
saleLinesToCof(lines) ==
  LET cents(l) == Truncated(Subtotal(l)) \X Truncated(TaxAmount(l))
      chosen   == {c \in [DOMAIN lines -> UNION {cents(lines[i]) : i \in DOMAIN lines}] :
                     \A i \in DOMAIN lines : c[i] \in cents(lines[i])}
  IN {[i \in DOMAIN lines |-> InvoiceLine(lines[i], c[i][1], c[i][2])] : c \in chosen}

\* PayableCents.
computeTotals(invoice) == SumOf(LAMBDA l : l.base + l.tax, invoice)

\* The taxes of the document: what its lines say at one rate is one tax.
aggregateTaxes(invoice) ==
  LET at(r) == [i \in {j \in DOMAIN invoice : invoice[j].percent = r} |-> invoice[i]] IN
  {[percent |-> r, base |-> SumOf(LAMBDA l : l.base, at(r)), tax |-> SumOf(LAMBDA l : l.tax, at(r))] :
     r \in {invoice[i].percent : i \in DOMAIN invoice}}
=============================================================================
