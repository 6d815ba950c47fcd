SPECIFICATION EngineSpec
CONSTANTS
  Nodes <- ForkNodes
  CodeUnits <- ForkCodeUnits
  Ids <- ForkIds
  Graphs <- ForkGraphs
  Queries <- ForkQueries
  Width = 2
  Types = {"calls", "contains", "creates"}
  CallType = "calls"
  Undefined = Undefined
  Infinity = Infinity
  NoPath = NoPath
  Thrown = Thrown
  None = None
  Missing = Missing
  MaxExecuted = 1
  Asks = {}
  Surveyed = {}
  Settings <- MCSettings
  Defaults <- MCDefaults
  Most <- MCMost
  ReadDepthLimit = 5
  OutboundDepth = 3
  FeatureSeeds = 2
  PackNodes = 3
  PackEdges = 5
  DependencyTypes = {"calls", "creates"}
  ExpansionTypes = {"calls", "contains"}
  OwnerTypes = {"contains"}
INVARIANT PathIsShortest
CHECK_DEADLOCK FALSE
