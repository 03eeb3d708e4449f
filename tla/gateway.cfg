SPECIFICATION GatewayFairSpec
CONSTANTS
  Parts = {"readiness", "pages", "startup", "memory", "browser", "output", "lsp"}
  Check = {c1, c2}
  Call = {u1}
  Boot = boot
  None = None
  MaxFragments = 4
  Separators = FALSE
  Sizes <- MCSizes
  Limit = 7
  Envelope = 1
  Files = 2
  Inode = {i1, i2, i3}
  FileSizes = {1, 2}
  MaxBytes = 3
  MaxWrites = 2
  Attempt = {a1, a2, a3}
  Visit = {v1, v2}
  MaxRendered = 6
  EnvelopeLengths <- MCEnvelopeLengths
  OutputLimit = 5
  Asker = {q1, q2}
  Texts = {0, 1}
  MaxEdits = 2
INVARIANTS TypeOK VerdictKept ReadFaithful StartupFaithful EffectsOnce TruncationMaximal DiagnosticsFresh
PROPERTIES VerdictCatchesUp AnswersCome
CHECK_DEADLOCK FALSE
