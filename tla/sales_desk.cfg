\* One sale edited, confirmed, paid, cancelled, deleted and invoiced at once.
SPECIFICATION Spec
CONSTANTS
  desk = desk till = till biller = biller s1 = s1 s2 = s2 p1 = p1 p2 = p2 d1 = d1 d2 = d2
  SaleIds = {s1}
  PaymentIds = {p1}
  DocumentIds = {d1, d2}
  Clerks = {desk, till, biller}
  Duties <- Roles
  Faults <- DeskFails
  Orders <- TwoOrders
  Amounts = {1}
  CreditLimit = 200
  MaxNumber = 2
  MaxVoucher = 2
  NoSale = NoSale NoPayment = NoPayment NoDocument = NoDocument NoLimit = NoLimit
\* A request waits for ever for an id or a number beyond the bounds.
CHECK_DEADLOCK FALSE
SYMMETRY Symmetric
INVARIANTS NoEffectOfADraft PaymentPostedOnce SoldOnce OneInvoice BilledAsPosted
