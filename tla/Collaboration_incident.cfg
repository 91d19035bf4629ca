SPECIFICATION FairSpec
CONSTANTS
  metrics = metrics
  routing = routing
  config = config
  tunnel = tunnel
  vpn = vpn
  table = table
  Agents = {metrics, routing, config}
  Entities = {tunnel, vpn, table}
  Seen <- TheSeen
  Findable <- TheFindable
  Named <- TheNamed
  Reach <- TheReach
  Probes <- TheProbes
  Correlated = {metrics}
  NoFinding = NoFinding
  MaxRounds = 3
  Budget = 1
  MaxFailures = 1
  Forgetful = {config}
INVARIANTS
  EvidenceKept
  ReportMatchesAgents
  EvidenceFollowed
  LeadsFollowed
PROPERTIES
  Terminates
CHECK_DEADLOCK FALSE
