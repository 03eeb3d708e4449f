SPECIFICATION FairSpec
CONSTANTS
  Call = {c1, c2, c3}
  Kid = {k1}
  MaxConcurrent = 2
  None = None
INVARIANTS TypeOK NothingForgotten ClosedIsEmpty WorkersBounded
PROPERTIES CallsEnd CloseReturns
CHECK_DEADLOCK FALSE
