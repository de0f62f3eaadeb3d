CONSTANTS
  NoRR = NoRR  NoSnap = NoSnap
  Domains <- MCDomains
  RRs <- MCRRs
  Apex = "apex"
  Inputs <- SoaInputs
  Oversize <- NoInputs
  Callers = {c1, c2}
  QueueCap = 2
  MaxBatch = 2
  Threshold = 2
  SerialMod = 4
  Zones <- NoZones
  TornWrites = FALSE
  MaxCalls = 3
  MaxCrashes = 1
  MaxFaults = 0
  MaxReloads = 1
SYMMETRY CallerSymmetry
SPECIFICATION Spec
PROPERTY ImplementsDurableMap
CHECK_DEADLOCK FALSE
