SPECIFICATION Spec
CONSTANTS
  Paths <- MCPaths
  ParentOf <- MCParentOf
  Ignored = {"dist", "dist/c"}
  Manifest = "package.json"
  Root = "/"
  Keys <- MCKeys
  Normalized <- MCNormalized
  Contents <- MCContents
  NameOf <- MCNameOf
  Nameless = Nameless
  NotJson = NotJson
  Inputs <- MCInputs
  ScratchName = "ontoly-memory-x"
  MemoryName = "ontoly-memory"
  Invalid = Invalid
  Absent = Absent
  Dir = Dir
  Requests <- MCRequests
  DefaultWorkers = 2
  MAX_COMPILER_WORKERS = 3
  Undefined = Undefined
  Idle = Idle
  Pending = Pending
  Nothing = Nothing
INVARIANT ScratchIsRemoved
CHECK_DEADLOCK FALSE
