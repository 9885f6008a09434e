SPECIFICATION Spec
CONSTANTS
  N = 3
  Kind <- PromptAnswerMenu
  Poison = {}
  Attempts = 3
  MaxFaults = 1
INVARIANT RetryIsTheSameRequest
