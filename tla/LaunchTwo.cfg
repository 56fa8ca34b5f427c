\* Two threads launching at the same time, every call may fail.
CONSTANTS
  Launches = {a, b}
  Plans <- MixedPlans
  Faults <- AllFaults
SPECIFICATION FairSpec
INVARIANTS
  TypeOK
  HandshakeOrdered
  StdioOnly
  FailureContained
  ClosedOnce
PROPERTIES
  EofArrives
  HandshakeReturns
