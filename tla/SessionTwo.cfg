\* Two sandboxes with different deadlines, an event buffer smaller than the ready list.
CONSTANTS
  MaxId = 2
  MaxNow = 1
  MaxWrite <- OnStdout
  MaxOutput = 0
  BufLen = 1
  PipeCap = 1
  EventCap = 1
  Timeouts = {0,1}
  PlanStdin = {TRUE}
  PollTimeouts = {}
  UserKills = FALSE
  Descendants = {}
  Signals = TRUE
  BlockingStdin = FALSE
SPECIFICATION SessionFairSpec
INVARIANTS
  PollIsBounded
  Inductive
  EventsReachUser
  EmptyMeansDone
PROPERTY CompletionUnlessHeld
