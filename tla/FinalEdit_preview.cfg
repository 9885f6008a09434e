SPECIFICATION EditSpec
CONSTANTS
  EditDrafts = {"d"}
  Texts = {"t", "u"}
  Sessions = 1
  Rewrites = 1
  Presses = 4
  EditFaults = 0
INVARIANT ConfirmsWhatItShows
CHECK_DEADLOCK FALSE
