SPECIFICATION NativeSpec
CONSTANTS
  t = t
  self = self
  sibling = sibling
  stranger = stranger
  a = a
  s1 = s1
  s2 = s2
  None = None
  Target = t
  Self = self
  Others <- OtherProcesses
  SameBinary <- Siblings
  Events <- SessionEvents
  Descriptors <- SessionDescriptors
  MaxTrackedPids = 2
  MaxEmitted = 2
  MaxEvents = 3
INVARIANTS
  TypeOK
  ReportedOnce
  NoSecondCause
  NoForeignFinding
  AllJudged
  UnderObservation
  ResultTruthful
PROPERTIES
  FinalizeQuiet
  AgentEnvironment
  SessionEnds
CHECK_DEADLOCK FALSE
