\* The test-set (habilitacion) route, with every failure but a poll answered "pending".
SPECIFICATION Spec
CONSTANTS
  d1 = d1 d2 = d2 d3 = d3 c1 = c1 c2 = c2 v1 = v1 v2 = v2 r1 = r1 r2 = r2
  Docs = {d1, d2, d3}
  Confirmers = {c1, c2}
  Reviewers = {v1}
  Ranges <- OneRange
  RangesFor <- EveryRange
  RangeFrom <- FromOne
  RangeTo <- UpToTwo
  RangeEnvironment <- Habilitacion
  Environment = "2"
  TestSets = {r1}
  ConsumedOutside = {}
  Faults = {"crash", "database", "sync", "async", "testset", "garbled"}
  MaxPolls = 1
  NoDoc = NoDoc
  NoRange = NoRange
SYMMETRY Symmetric
INVARIANT NumberAtDianOnce
