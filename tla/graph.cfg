SPECIFICATION Spec
CONSTANTS
  Caller = {c1, c2}
  Session = {s1, s2, s3}
  Root = {r1, r2}
  SchemaRoot = r1
  MaxSessions = 1
  MaxBreaks = 1
  Kinds = {"call", "describe", "healthy"}
  Closer = Closer
  None = None
INVARIANTS TypeOK PendingExact UsedStaysOpen OneSessionPerRoot ResidencyBounded CloseComplete
SYMMETRY MCSymmetry
CHECK_DEADLOCK FALSE
