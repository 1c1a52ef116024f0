\* Any requests at once on one product, with crashes and failing statements.
SPECIFICATION Spec
CONSTANTS
  a1 = a1 a2 = a2 w1 = w1 w2 = w2 x1 = x1
  Rows = {a1, a2}
  Opening <- OneEach
  Movers = {w1}
  Deleters = {x1, w2}
  Sales = {w2}
  Purchases = {w2}
  RowsOf <- EveryRow
  Quantities = {1}
  MaxLines = 1
  MaxFolios = 3
  Faults = {"crash", "database"}
  NoRow = NoRow
\* A request waits for ever for a folio beyond the bound.
CHECK_DEADLOCK FALSE
SYMMETRY Symmetric
INVARIANT TransferIsWhole
