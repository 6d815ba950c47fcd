SPECIFICATION Spec
CONSTANTS
  Builds = {b1, b2}
  Files = {f1}
  Contents = {good, bad}
  Configs = {c1}
  Modes = {"incremental", "clean"}
  MaxEdits = 2
  MaxFaults = 1
  MaxRemovals = 0
  Absent = Absent
  Pending = Pending
  Unread = Unread
  None = None
  Broken = bad
  StableHash <- MCStableHash
  Sha256 <- MCSha256
  Accepts <- MCAccepts
SYMMETRY Symmetric
INVARIANTS HitIsOneCommit QuietHitIsClean HitPassesValidation
PROPERTY ImplementsRegister
