\* Two clerks, one of them careful, at each of the desks.
SPECIFICATION Spec
CONSTANTS
  anna = anna boris = boris q1 = q1 q2 = q2 s1 = s1 s2 = s2 l1 = l1 l2 = l2 p1 = p1 p2 = p2 i1 = i1 i2 = i2
  h1 = h1 h2 = h2 h3 = h3 g1 = g1 g2 = g2 c1 = c1 c2 = c2 v1 = v1 f1 = f1 f2 = f2
  d1 = d1 d2 = d2 r1 = r1 r2 = r2 r3 = r3
  Quotes = {q1, q2}
  Sales = {s1, s2}
  Lines = {l1, l2}
  MaxNumber = 3
  Parties = {p1, p2}
  Identities = {i1, i2}
  MaxTime = 3
  Warehouses = {h1, h2, h3}
  Products = {g1, g2}
  Codes = {c1, c2}
  Values = {v1}
  Profiles = {f1, f2}
  Documents = {d1, d2}
  Ranges = {r1, r2, r3}
  RangeType <- RangeTypes
  Clerks = {anna, boris}
  Shifts <- Divisions
  Faults <- AnnaFails
  NoRow = NoRow Deleted = Deleted
\* Every row may be taken.
CHECK_DEADLOCK FALSE
SYMMETRY Symmetric
INVARIANTS MailedIsQuoted SaleAsAccepted OneDefaultWarehouse ReceivedAsOnRecord SignedIsStored
PROPERTY ConsentKept
