SPECIFICATION Spec
CONSTANTS
  Call = {c1, c2}
  Kid = {k1}
  MaxConcurrent = 1
  None = None
INVARIANTS TreesReaped
CHECK_DEADLOCK FALSE
