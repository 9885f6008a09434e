SPECIFICATION DogSpec
CONSTANTS
  Active = 1
  Degraded = 1
  Interval = 2
INVARIANT HealthyMeansCollected
CHECK_DEADLOCK FALSE
