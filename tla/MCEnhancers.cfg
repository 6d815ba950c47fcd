SPECIFICATION FairSpec
CONSTANTS
  Enhancers <- MCEnhancers
  Artifacts <- MCArtifacts
  Requires <- MCRequires
  Optional <- MCOptional
  DependsOn <- MCDependsOn
  Awaits <- MCAwaits
  Produces <- MCProduces
  Graphs = {g1, g2}
  Calls <- MCCalls
  MaxCalls = 2
  MaxCommits = 1
  Index = "SemanticIndex"
  DiskExcluded = {"SemanticIndex", "Semantics"}
  Prompt <- MCPrompt
  Impure = {3}
  Incompatible = {8}
  Faulty = {2, 7}
  Preloaded = Preloaded
  Torn = Torn
INVARIANTS PlansAreSound InputsAreSettled EntriesAreReproducible DeliveryIsReproducible
PROPERTY CallsEnd
CHECK_DEADLOCK FALSE
