\* What the network and the DIAN may do, and nothing else going wrong.
SPECIFICATION FairSpec
CONSTANTS
  d1 = d1 d2 = d2 d3 = d3 c1 = c1 c2 = c2 v1 = v1 v2 = v2 r1 = r1 r2 = r2
  Docs = {d1, d2}
  Confirmers = {c1}
  Reviewers = {v1}
  Ranges <- TwoRanges
  RangesFor <- EveryRange
  RangeFrom <- FromOne
  RangeTo <- UpToTwo
  RangeEnvironment <- MixedRanges
  Environment = "2"
  TestSets = {r1}
  ConsumedOutside <- FirstConsumed
  Faults = {"sync", "async", "testset", "pending", "garbled"}
  MaxPolls = 2
  NoDoc = NoDoc
  NoRange = NoRange
PROPERTY BuiltResolves
