\* A chatty child with a descendant, around the limit; waitid may be interrupted.
CONSTANTS
  MaxNow = 1
  Timeout = 1
  MaxWrite = 4
  MaxOutput = 2
  BufLen = 2
  PipeCap = 2
  StdinLen = 3
  Descendants <- OneDescendant
  ChildCloses = TRUE
  Signals = TRUE
SPECIFICATION FairSpec
INVARIANTS
  TypeOK
  OutputFaithful
  ResultTruthful
PROPERTY ReturnsUnlessStalled
