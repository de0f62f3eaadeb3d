CONSTANTS
  Keys <- MCKeys
  Asks <- MCAsks
  Lower <- MCLower
  Shards = {1, 2}
  Hash <- MCHash
  TotalCapacity = 4
  Values <- MCValues
  Ttl <- MCTtl
  Answers <- MCAnswers
  Zones <- MCZones
  Readers = {1, 2}
  MaxBatch = 2
  MaxWrites = 2
  MaxDelay = 1
SPECIFICATION Spec
INVARIANTS ListIsLRU StalenessBounded FreshUnlessLate
PROPERTY EventuallyFresh
