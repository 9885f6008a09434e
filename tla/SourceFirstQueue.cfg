SPECIFICATION FairSpec
CONSTANTS
  alpha = alpha
  beta = beta
  manual = manual
  a1 = a1
  a2 = a2
  b1 = b1
  m1 = m1
  Off = Off
  None = None
  Source <- Handles
  Draft <- Drafts
  SourceOf <- Authors
  Age <- Ages
  Name <- Names
  Configs <- Files
  Buttons = 1
  MaxLost = 1
INVARIANTS TypeOK RoundsAgree
PROPERTIES ChoicesKept FileOrder EveryDraftReviewed
