\* A company, one plan, three subscriptions, two clerks.
SPECIFICATION SubscriptionsSpec
CONSTANTS
  anna = anna boris = boris c1 = c1 c2 = c2 basic = basic s1 = s1 s2 = s2 s3 = s3
  Companies = {c1}
  Plans = {basic}
  Subs = {s1, s2, s3}
  Clerks = {anna, boris}
  Shifts <- Divisions
  Faults <- BorisIsSafe
  Offers <- Rows
  Increment = 100
  MaxPrice = 2
  MaxMonth = 2
  MaxEnd = 3
  NoCompany = NoCompany NoPlan = NoPlan NoSub = NoSub
\* Every subscription may be made, and the last one cancelled.
CHECK_DEADLOCK FALSE
SYMMETRY Symmetric
INVARIANT AlwaysOnePlan
PROPERTY NotRetroactive
