\* One order edited, confirmed, withheld from, received, paid, cancelled, deleted,
\* invoiced and certified at once.
SPECIFICATION Spec
CONSTANTS
  buyer = buyer till = till clerk = clerk o1 = o1 h1 = h1 h2 = h2 p1 = p1 d1 = d1 d2 = d2
  fuente = fuente ica = ica
  OrderIds = {o1}
  WithholdingIds = {h1, h2}
  PaymentIds = {p1}
  DocumentIds = {d1, d2}
  Concepts = {fuente, ica}
  Clerks = {buyer, till, clerk}
  Duties <- Roles
  Faults <- BuyerFails
  Totals = {1, 2}
  Amounts = {1}
  MaxNumber = 2
  MaxFolio = 2
  NoOrder = NoOrder NoPayment = NoPayment NoDocument = NoDocument
\* A request waits for ever for an id or a number beyond the bounds.
CHECK_DEADLOCK FALSE
SYMMETRY Symmetric
INVARIANTS NoEffectOfADraft ReceivedOnce CertifiedOnce OneSupportDocument
