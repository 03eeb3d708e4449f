SPECIFICATION Spec
CONSTANTS
  Caller = {c1, c2}
  Session = {s1, s2}
  Root = {r1, r2}
  SchemaRoot = r1
  MaxSessions = 1
  MaxBreaks = 1
  Kinds = {"call"}
  Closer = Closer
  None = None
INVARIANTS WaitersAreServed
CHECK_DEADLOCK FALSE
