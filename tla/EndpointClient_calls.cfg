SPECIFICATION FairSpec
CONSTANTS
  c1 = c1
  c2 = c2
  c3 = c3
  s1 = s1
  s2 = s2
  Callers = {c1, c2, c3}
  Sessions = {s1, s2}
  NoSession = NoSession
  Nobody = Nobody
  FailureThreshold = 2
  ResetTimeout = 7
  MaxAttempts = 2
  Timeout = 1
  CloseTimeout = 1
  MaxDelay = 1
PROPERTIES
  CallsEnd
INVARIANTS
  ExactlyOneTrial
  EndpointLeftAlone
  OneOpenSession
