CONSTANTS
  NoRR = NoRR  NoSnap = NoSnap  NoStream = NoStream
  Domains <- MCDomains
  RRs <- MCRRs
  Mutations <- TwoMutations
  MaxStreams = 2
  SplitFrames = FALSE
  MaxAppends = 2
  MaxCompactions = 0
  MaxCuts = 0
  MaxCrashes = 0
  MaxRestarts = 0
  MaxReloads = 0
  MaxEvents = 0
SPECIFICATION FairSpec
PROPERTY CatchesUp
CHECK_DEADLOCK FALSE
