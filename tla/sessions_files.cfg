SPECIFICATION Spec
CONSTANTS
  Session = {s1, s2}
  Request = {r1, r2}
  Thread = {t1, t2}
  MaxActive = 1
  None = None
INVARIANTS CleanupFollowsWork
CHECK_DEADLOCK FALSE
