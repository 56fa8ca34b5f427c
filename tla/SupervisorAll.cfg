\* Two threads that make, repeat and abandon calls under a supervisor.
CONSTANTS
  Threads = {t1, t2}
  Calls <- SomeCalls
  mappings <- Mappings
  Existing <- Host
  Fifos <- Pipes
  Modes = {"Monitor", "Virtualize"}
  MaxId = 2
SPECIFICATION FairSpec
INVARIANTS
  TypeOK
  RecvReturns
  OpensForTheNotified
  NothingForgotten
  EventTruthful
PROPERTY CallsReturnIfServed
