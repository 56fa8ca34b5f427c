\* One sandbox, everything on: descendants, signals, blocking stdin, over the limit.
CONSTANTS
  MaxId = 1
  MaxNow = 2
  MaxWrite <- OneEach
  MaxOutput = 1
  BufLen = 1
  PipeCap = 1
  EventCap = 2
  Timeouts = {1}
  PlanStdin = {TRUE, FALSE}
  PollTimeouts = {0}
  UserKills = TRUE
  Descendants = {d1}
  Signals = TRUE
  BlockingStdin = TRUE
SPECIFICATION FairSpec
INVARIANTS
  NoLostWakeup
  OutputComplete
  Lifecycle
  LostOnlyAfterDeadline
  ReportTruthful
PROPERTIES
  CompletionUnlessHeld
  PollReturns
  ImplementsSandbox
  PollAdvances
