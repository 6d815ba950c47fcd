SPECIFICATION Spec
CONSTANTS
  PassIds <- MCPassIds
  Declarations <- MCDeclarations
  MaxBuilds = 2
  Invocations <- MCInvocations
  Issue = Issue
  None = None
  Nodes <- MCNodes
  NodesOf <- MCNodesOf
  EdgesOf <- MCEdgesOf
INVARIANTS EveryEdgeIsHonoured RejectedPassesAreCyclic RequirementsRanFirst WarmGraphIsCleanGraph EveryProductIsReturned EveryDiagnosticIsReported
PROPERTY CommittedGraphsAreValidated
CHECK_DEADLOCK FALSE
