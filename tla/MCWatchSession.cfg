SPECIFICATION FairSpec
CONSTANTS
  Builds = {b1, b2}
  MaxEdits = 1
  MaxConfigs = 1
  MaxFailures = 1
  OutputDirs = {".ontoly", "graph"}
  IgnoredNames = {".ontoly"}
  NoConfig = NoConfig
PROPERTIES CloseStopsBuilds EveryEditIsBuilt Settles SerialBuildsConverge ResultsInOrder
CHECK_DEADLOCK FALSE
