CONSTANTS
  Clients = {"c1"}
  Subnet <- MCSubnet
  Names = {"a", "A"}
  Lower <- MCLower
  Slot <- MCSlot
  ResponsesPerSecond = 0
  ErrorsPerSecond = 4
  SlipRate = 2
  DefaultResponsesPerSecond = 2
  DefaultErrorsPerSecond = 1
  DefaultSlipRate = 1
  Half = 4
  Word = 5
  MaxNow = 3
SPECIFICATION MCSpec
INVARIANTS
  RateBound NeverSilenced
  TreeIsMap SnapshotStable ResolveAgrees ListingComplete
  ResponseReadable SizeRespected SlipAsksForTCP TSIGComesOff
  ExportParses LayoutIrrelevant
PROPERTY IdleRecovers
CHECK_DEADLOCK FALSE
