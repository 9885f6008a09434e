SPECIFICATION AskSpec
CONSTANTS
  Posted <- ThreePosts
  Poster <- TwoPosters
  Belonging <- OneEvent
  Pasted = {"text"}
  Rosters <- TwoFiles
  Naming <- FirstNames
  Askings = 2
  Outages = 1
INVARIANT PastedTextIsPrepared
CHECK_DEADLOCK FALSE
