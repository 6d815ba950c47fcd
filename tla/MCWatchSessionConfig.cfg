SPECIFICATION Spec
CONSTANTS
  Builds = {b1, b2}
  MaxEdits = 1
  MaxConfigs = 2
  MaxFailures = 0
  OutputDirs = {".ontoly"}
  IgnoredNames = {".ontoly"}
  NoConfig = NoConfig
PROPERTY ConfigHonoured
CHECK_DEADLOCK FALSE
