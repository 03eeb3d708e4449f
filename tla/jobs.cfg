SPECIFICATION FairSpec
CONSTANTS
  Job = {j1}
  Gateway = {g1, g2}
  Owner = {o1}
  Dir = {d}
  Above = {}
  Key = {}
  None = None
  Settings = {"odd"}
  MaxActive = 1
  MaxPerSession = 1
  MaxPrepared = 1
  MaxPreparedPerOwner = 1
  Kinds = {"status", "cancel", "maintain"}
  Exits = {"exit0", "exit1", "lost"}
  MaxOps = 1
  MaxCrashes = 1
INVARIANTS TypeOK ReceiptsTruthful
PROPERTIES ImplementsReceipt ExitRecorded OverdueEnds
CHECK_DEADLOCK FALSE
