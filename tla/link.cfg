SPECIFICATION AllSpec
CONSTANTS
  RetryAfter = {4}
  MaxStale = 1
  MaxAttempt = 2
  MaxDials = 6
\* a script that has ended, or that waits in vain, takes no further step
CHECK_DEADLOCK FALSE
INVARIANTS
  HealthyIsQuiet
  NeverBlank
  LoopHasDriverBelowBudget
PROPERTIES
  HealthyKept
  PageGivesUp
  PageRecovers
  ScriptsEnd
