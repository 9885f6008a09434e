SPECIFICATION FairOperations
CONSTANTS
  Machines = {"polling", "watchdog"}
  N = 3
  Kind <- PromptAnswerMenu
  Poison = {2}
  Attempts = 3
  MaxFaults = 3
  Active = 2
  Degraded = 2
  Interval = 2
INVARIANTS OperationsTypes NoCommandLost OrderlyReplay FailsClosed RecoveryIsBounded
PROPERTIES EveryCommandSettled DailyGoesOn
CHECK_DEADLOCK FALSE
