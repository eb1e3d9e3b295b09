SPECIFICATION LiveLimiter
CONSTANTS
  Key = {k1, k2}
  max_attempts = 2
  window = 3
  Absent = Absent
INVARIANTS TwiceTheLimitAtMost
PROPERTIES RefusedAfterTheLimit KeepsTryingPasses
