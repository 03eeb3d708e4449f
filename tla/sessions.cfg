SPECIFICATION FairSpec
CONSTANTS
  Session = {s1, s2}
  Request = {r1, r2}
  Thread = {t1, t2}
  MaxActive = 1
  None = None
INVARIANTS TypeOK LeaseExact OwnersBounded CloseComplete
PROPERTIES ImplementsOwner RevokedIsCleaned ExpiryEnforced CloseReturns
CHECK_DEADLOCK FALSE
