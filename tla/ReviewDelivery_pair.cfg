SPECIFICATION Spec
CONSTANTS
  a = a
  b = b
  c = c
  Update = {a, b}
  Live = {}
  At <- PairAt
  Topic <- PairTopic
  Topics <- MCTopics
  HasMedia = {a}
  MaxParts = 2
  Limit = 2
  CustodyLoss = {"json"}
  MaxFaults = 3
INVARIANTS TypeOK NoSilentMiss SeenIsEarned BoundedDuplicates OneTextPerKey
