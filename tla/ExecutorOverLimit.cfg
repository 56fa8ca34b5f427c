\* Output may pass the limit: the edge-triggered loop stops reading for good.
CONSTANTS
  MaxId = 1
  MaxNow = 2
  MaxWrite <- ManyStdout
  MaxOutput = 1
  BufLen = 1
  PipeCap = 3
  EventCap = 3
  Timeouts = {2}
  PlanStdin = {TRUE}
  PollTimeouts = {}
  UserKills = FALSE
  Descendants = {}
  Signals = FALSE
  BlockingStdin = FALSE
SPECIFICATION FairSpec
PROPERTY Completion
