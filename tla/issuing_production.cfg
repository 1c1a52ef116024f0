\* Synchronous sends, every kind of failure, one range.
SPECIFICATION Spec
CONSTANTS
  d1 = d1 d2 = d2 d3 = d3 c1 = c1 c2 = c2 v1 = v1 v2 = v2 r1 = r1 r2 = r2
  Docs = {d1, d2, d3}
  Confirmers = {c1, c2}
  Reviewers = {v1}
  Ranges <- OneRange
  RangesFor <- EveryRange
  RangeFrom <- FromOne
  RangeTo <- UpToTwo
  RangeEnvironment <- Production
  Environment = "1"
  TestSets = {}
  ConsumedOutside = {}
  Faults = {"crash", "database", "sync", "async", "pending", "garbled"}
  MaxPolls = 1
  NoDoc = NoDoc
  NoRange = NoRange
SYMMETRY Symmetric
INVARIANTS UniqueInForce CurrentIsLastClaimed OneSender RecordedAsDecided
PROPERTIES ConfirmedIsFrozen FinalStatusStays
