CONSTANTS
  NoRR = NoRR  NoSnap = NoSnap  NoStream = NoStream
  Domains <- MCDomains
  RRs <- MCRRs
  Mutations <- TwoMutations
  MaxStreams = 3
  SplitFrames = TRUE
  MaxAppends = 2
  MaxCompactions = 1
  MaxCuts = 1
  MaxCrashes = 2
  MaxRestarts = 1
  MaxReloads = 1
  MaxEvents = 2
SPECIFICATION FairSpec
INVARIANTS NothingInvented CaughtUpAgrees LocalWALIsPrefix
PROPERTY CompactionHeals
CHECK_DEADLOCK FALSE
