SPECIFICATION Spec
CONSTANTS
  Name = 2
  Others <- MCOthers
  Key = {1, 2, 3}
  Xff = 4
  ScoreMax = 1
  NoScore = NoScore
  Inputs <- MCInputs
  Pages <- MCPages
  Wrap = 16
  MaxFaults = 1
INVARIANTS Mirror Repaired RanksArePlaces RangeIsPage ScanIsRange
