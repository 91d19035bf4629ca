SPECIFICATION Spec
CONSTANTS
  metrics = metrics
  log = log
  config = config
  tunnel = tunnel
  tunnelIp = tunnelIp
  vpn = vpn
  attachment = attachment
  side = side
  MaxAround = 2
  NoRule = NoRule
  NoRole = NoRole
  MaxHops = 2
  TypeOf <- TheTypes
  IdIn <- TheIds
  Catalog <- TheCatalog
  ByTime = {metrics}
  HasBaseline = {metrics}
  Store <- NoStore
  LegacyFallback = TRUE
  MaxEvidence = 2
  MaxUnclassified = 1
  Probes <- TheProbes
  Lookback = 15
  MaxQuestions = 6
  Weights <- TheWeights
  Confidence <- TheConfidence
  FlapEpisodes = 2
  MaxHypotheses = 2
  Families <- OnlyUnknown
  Window <- TheWindow
  BaselineSpan = 60
  MinLater = 1
  MaxLater = 15
  LlmOn = TRUE
  Proposals <- TheProposals
  MaxRounds = 2
INVARIANTS
  NewIsVerified
CHECK_DEADLOCK FALSE
