\* A child that closes both streams and runs on.
CONSTANTS
  MaxNow = 2
  Timeout = 1
  MaxWrite = 1
  MaxOutput = 1
  BufLen = 1
  PipeCap = 1
  StdinLen = 0
  Descendants = {}
  ChildCloses = TRUE
  Signals = FALSE
SPECIFICATION FairSpec
PROPERTY Returns
