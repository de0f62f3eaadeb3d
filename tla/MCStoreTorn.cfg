CONSTANTS
  NoRR = NoRR  NoSnap = NoSnap
  Domains <- MCDomains
  RRs <- MCRRs
  Apex = "apex"
  Inputs <- PlainInputs
  Oversize <- NoInputs
  Callers = {c1, c2}
  QueueCap = 2
  MaxBatch = 2
  Threshold = 2
  SerialMod = 4
  Zones <- OneZone
  TornWrites = TRUE
  MaxCalls = 3
  MaxCrashes = 2
  MaxFaults = 0
  MaxReloads = 0
SYMMETRY CallerSymmetry
SPECIFICATION Spec
PROPERTY AckedDurable
CHECK_DEADLOCK FALSE
