SPECIFICATION FairSpec
CONSTANTS
  Client = {c1, c2}
  Cleaner = Cleaner
  NoOne = NoOne
  Capacities = {2}
  Slack = 1
  DelBatch = 1
  MaxSeq = 5
  MaxFaults = 1
INVARIANTS AssertOrder NoHole NoneAhead
PROPERTIES Retained TrimProgress
