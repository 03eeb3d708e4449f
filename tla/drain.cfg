SPECIFICATION AdmissionSpec
CONSTANTS
  Job = {j1, j2}
  Gateway = {g1}
  Owner = {o1, o2}
  Dir = {"repo", "repo_sub"}
  Above <- MCAbove
  Key = {k1}
  None = None
  Settings = {"0", "1"}
  Operator = {p1, p2}
  MaxActive = 2
  MaxPerSession = 1
  MaxPrepared = 1
  MaxPreparedPerOwner = 1
  Kinds = {"cancel"}
  Exits = {"exit0"}
  MaxOps = 1
  MaxCrashes = 1
INVARIANTS QuietHolds AdmissionKept
PROPERTIES PauseRespected
CHECK_DEADLOCK FALSE
SYMMETRY MCSymmetry
