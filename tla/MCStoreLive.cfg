CONSTANTS
  NoRR = NoRR  NoSnap = NoSnap
  Domains <- MCApexOnly
  RRs <- MCRRs
  Apex = "apex"
  Inputs <- NoInputs
  Oversize <- NoInputs
  Callers = {c1, c2}
  QueueCap = 1
  MaxBatch = 1
  Threshold = 2
  SerialMod = 4
  Zones <- NoZones
  TornWrites = FALSE
  MaxCalls = 3
  MaxCrashes = 0
  MaxFaults = 1
  MaxReloads = 1
SPECIFICATION FairSpec
PROPERTIES EveryCallReturns WalIsCompacted CloseCompletes
CHECK_DEADLOCK FALSE
