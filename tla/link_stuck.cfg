SPECIFICATION Spec
CONSTANTS
  RetryAfter = {60}
  MaxStale = 0
  MaxAttempt = 2
INVARIANTS
  LoopHasDriver
