CONSTANTS
  NoRR = NoRR  NoSnap = NoSnap
  Domains <- MCDomains
  RRs <- MCRRs
  Apex = "apex"
  Inputs <- LargeInputs
  Oversize <- LargeOnes
  Callers = {c1, c2}
  QueueCap = 2
  MaxBatch = 2
  Threshold = 2
  SerialMod = 4
  Zones <- TwoZones
  TornWrites = TRUE
  MaxCalls = 2
  MaxCrashes = 2
  MaxFaults = 1
  MaxReloads = 1
SYMMETRY CallerSymmetry
SPECIFICATION Spec
CONSTRAINT TwoEvents
INVARIANTS TypeOK Recoverable
PROPERTIES AckedSurvives NoStaleSerial
CHECK_DEADLOCK FALSE
