SPECIFICATION FairSpec
CONSTANTS
  a = a
  b = b
  c = c
  Update = {a, b}
  Live = {a, b}
  At <- LivesAt
  Topic <- PairTopic
  Topics <- MCTopics
  HasMedia = {a}
  MaxParts = 1
  Limit = 2
  CustodyLoss = {"db"}
  MaxFaults = 2
PROPERTIES KeepsPromise PaysDebts
