SPECIFICATION Spec
CONSTANTS
  Builds = {b1, b2}
  Files = {f1}
  Contents = {v1, v2}
  Configs = {c1}
  Modes = {"incremental"}
  MaxEdits = 2
  MaxFaults = 0
  MaxRemovals = 0
  Absent = Absent
  Pending = Pending
  Unread = Unread
  None = None
  Broken = bad
  StableHash <- MCStableHash
  Sha256 <- MCSha256
  Accepts <- MCAccepts
SYMMETRY Symmetric
INVARIANT WarmEqualsClean
