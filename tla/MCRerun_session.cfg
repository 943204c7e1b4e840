SPECIFICATION Spec
CONSTANTS
  None = None
  Offset = Offset
  Binary = "app"
  SourceFile <- MCSourceFile
  Symbolized = "app.c"
  Ldd <- MCLdd
  StopsAfter = {2}
  MaxAttempts = 2
  MaxCommands = 1
  AgentFindings <- MCAgentFindings
  Errors <- MCErrors
  Outputs <- MCOutputs
  Ends = {"timeout", "missing"}
  Builds <- MCBuilds
  OldFindings <- MCOldFindings
INVARIANTS
  TypeOK
  SummaryTruthful
  ResultsOfThisRun
  CleanMeansRan
  RepeatAgrees
  PolicyKept
  DefectOneGroup
  NothingLost
  JoinedById
PROPERTIES
  IntactUnlessReported
  FindingsKept
  EscalateComplete
CHECK_DEADLOCK FALSE
