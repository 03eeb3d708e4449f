SPECIFICATION Spec
CONSTANTS
  Caller = {c1, c2, c3}
  Session = {s1, s2, s3}
  Root = {r1, r2, r3}
  SchemaRoot = r1
  MaxSessions = 1
  MaxBreaks = 0
  Kinds = {"call"}
  Closer = Closer
  None = None
INVARIANTS BoundedAtRest
SYMMETRY MCSymmetry
CHECK_DEADLOCK FALSE
