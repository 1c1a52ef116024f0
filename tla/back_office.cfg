\* Two clerks, one of them careful, at each of the desks.
SPECIFICATION Spec
CONSTANTS
  anna = anna boris = boris van = van desk = desk jan = jan feb = feb mar = mar e1 = e1 e2 = e2 e3 = e3
  l1 = l1 l2 = l2 b1 = b1 rent = rent wages = wages cash = cash nequi = nequi
  Assets = {van, desk}
  Cost <- Costs
  Salvage <- Salvages
  Life <- Lives
  Months = {jan, feb, mar}
  Entries = {e1, e2, e3}
  VoucherTypes = {cash}
  Banks = {nequi}
  Statement = {l1, l2}
  Budgets = {b1}
  Accounts = {rent, wages}
  Bimesters = {1, 2, 3}
  Movements <- Trades
  Tariffs <- OfICA
  Days = {1, 2}
  Pairs <- Traded
  Clerks = {anna, boris}
  Shifts <- Divisions
  Faults <- AnnaFails
  NoAsset = NoAsset NoMonth = NoMonth NoEntry = NoEntry NoLine = NoLine
  NoBudget = NoBudget NoAccount = NoAccount Standard = Standard
\* Every entry may be made.
CHECK_DEADLOCK FALSE
SYMMETRY Symmetric
INVARIANTS NeverOverDepreciated DepreciatedOnce RetiredAtBookValue MarksPaired CreditUsedOnce
PROPERTY ManualRateKept
