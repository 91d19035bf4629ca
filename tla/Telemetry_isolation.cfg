SPECIFICATION Spec
CONSTANTS
  q1 = q1
  q2 = q2
  pod = pod
  edge = edge
  trail = trail
  flows = flows
  change = change
  flow = flow
  bad = bad
  ref = ref
  w1 = w1
  w2 = w2
  r1 = r1
  r2 = r2
  NoRef = NoRef
  Nobody = Nobody
  Missing = Missing
  NoBackend = NoBackend
  NoGroup = NoGroup
  NoAccess = NoAccess
  Queries = {q1, q2}
  Endpoints <- TheEndpoints
  SourcesAt <- TheSources
  RequiredEndpoints = {pod}
  RequiredSources = {trail}
  Coalesced = {trail}
  Asked <- TheWindows
  Records = {change, flow, bad}
  SourceOf <- TheSourceOf
  RefOf <- TheRef
  Malformed = {bad}
  Readers = {r1, r2}
  Hosts = {pod}
  RegistryTtl = 2
  PluginTtl = 3
  CallMax = 1
  Page = 2
  MaxPages = 2
  MaxRecords = 3
  Backends <- TheBackends
INVARIANT FailuresStayApart
CHECK_DEADLOCK FALSE
