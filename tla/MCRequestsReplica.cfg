SPECIFICATION Spec
CONSTANTS
  Domains <- MCDomains
  Apex = "z"
  Under <- MCUnder
  Canonical <- MCCanonical
  Trees <- MCTrees
  Workers = {"udp", "tcp", "api", "doh"}
  Transport <- MCTransport
  Asks <- MCAsks
  Keys <- MCKeys
  Hashers = {"sha"}
  DefaultFudge = 3
  Clocks <- MCClocks
  ApiToken = "token"
  CorsOrigin = "*"
  RDataOf <- MCRDataOf
  MaxTTL = 9
  Modes = {"replica"}
  Root = "."
  ANY = "ANY"
  NoData = NoData
  NoKeys = NoKeys
  MaxRequests = 2
  MaxFaults = 1
PROPERTY
  ReplicaIsReadOnly
