SPECIFICATION FairSpec
CONSTANTS
  Builds = {b1, b2}
  Files = {f1}
  Contents = {good}
  Configs = {c1}
  Modes = {"incremental", "uncached"}
  MaxEdits = 1
  MaxFaults = 0
  MaxRemovals = 1
  Absent = Absent
  Pending = Pending
  Unread = Unread
  None = None
  Broken = bad
  StableHash <- MCStableHash
  Sha256 <- MCSha256
  Accepts <- MCAccepts
PROPERTY CacheConverges
