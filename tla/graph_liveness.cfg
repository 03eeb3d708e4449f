SPECIFICATION FairSpec
CONSTANTS
  Caller = {c1, c2}
  Session = {s1, s2}
  Root = {r1, r2}
  SchemaRoot = r1
  MaxSessions = 1
  MaxBreaks = 0
  Kinds = {"call", "describe", "healthy"}
  Closer = Closer
  None = None
PROPERTIES RequestsEnd CloseReturns EvictedIsClosed
CHECK_DEADLOCK FALSE
