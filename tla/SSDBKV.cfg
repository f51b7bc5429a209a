SPECIFICATION FairSpec
CONSTANTS
  IntMax = 1
  Keys = {1, 2}
  Empty = Empty
  TooLong = TooLong
  Numbers = {0, 1, 2}
  Text = Text
  NoVal = NoVal
  Clients = {c1, c2}
  Requests <- MCRequests
  NoReq = NoReq
  NoAns = NoAns
  NoClient = NoClient
INVARIANT ReadIsCurrent
PROPERTIES  CallReturns
