SPECIFICATION GatewaySpec
CONSTANTS
  Parts = {"pages"}
  Check = {c1, c2}
  Call = {u1}
  Boot = boot
  None = None
  MaxFragments = 4
  Separators = TRUE
  Sizes <- MCSizes
  Limit = 7
  Envelope = 1
  Files = 2
  Inode = {i1, i2, i3}
  FileSizes = {1, 2}
  MaxBytes = 3
  MaxWrites = 2
  Attempt = {a1, a2, a3}
  Visit = {v1, v2}
  MaxRendered = 1
  EnvelopeLengths <- MCEnvelopeLengths
  OutputLimit = 5
  Asker = {q1}
  Texts = {0}
  MaxEdits = 0
CHECK_DEADLOCK FALSE
INVARIANT ReadComplete
