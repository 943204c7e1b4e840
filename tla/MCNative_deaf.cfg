SPECIFICATION NativeSpec
CONSTANTS
  t = t
  self = self
  sibling = sibling
  stranger = stranger
  a = a
  s1 = s1
  s2 = s2
  None = None
  Target = t
  Self = self
  Others <- OtherProcesses
  SameBinary <- Siblings
  Events <- DeafEvents
  Descriptors <- SessionDescriptors
  MaxTrackedPids = 2
  MaxEmitted = 2
  MaxEvents = 3
INVARIANT
  TargetHeard
CHECK_DEADLOCK FALSE
