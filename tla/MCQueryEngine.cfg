SPECIFICATION FairEngine
CONSTANTS
  Nodes <- MCNodes
  CodeUnits <- MCCodeUnits
  Ids <- MCIds
  Graphs <- MCGraphs
  Queries <- MCQueries
  Width = 2
  Types = {"calls", "contains", "creates"}
  CallType = "calls"
  Undefined = Undefined
  Infinity = Infinity
  NoPath = NoPath
  Thrown = Thrown
  None = None
  Missing = Missing
  MaxExecuted = 1
  Asks <- MCAsks
  Surveyed <- MCSurveyed
  Settings <- MCSettings
  Defaults <- MCDefaults
  Most <- MCMost
  ReadDepthLimit = 5
  OutboundDepth = 3
  FeatureSeeds = 2
  PackNodes = 3
  PackEdges = 5
  DependencyTypes = {"calls", "creates"}
  ExpansionTypes = {"calls", "contains"}
  OwnerTypes = {"contains"}
INVARIANTS ReportsAreHonest WalkIsReachability WalkIsConsistent PathIsReal SortIsLegal CyclesAreReal ComponentsPartition ChainIsLongest
PROPERTY QueriesEnd
CHECK_DEADLOCK FALSE
