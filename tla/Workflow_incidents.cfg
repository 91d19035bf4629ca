SPECIFICATION FairSpec
CONSTANTS
  first = first
  second = second
  metrics = metrics
  routing = routing
  config = config
  e1 = e1
  e2 = e2
  e3 = e3
  unknown = unknown
  NoAnswer = NoAnswer
  Absent = Absent
  Malformed = Malformed
  Nobody = Nobody
  Incidents = {first, second}
  Agents = {metrics, routing, config}
  Types = {"unknown", "config"}
  DegradationMap <- TheMap
  Heuristic <- TheHeuristic
  Alarmed = {second}
  Evidence = {e1, e2, e3}
  Causes = {1, 2, 3}
  CauseOf <- TheCauseOf
  Known = {1, 2, 3}
  Score <- TheScore
  Analyses <- TheAnalyses
  Found = {{e2}}
  Answers <- TheAnswers
  UseLLM = TRUE
  Requirements = {TRUE, FALSE}
  MaxAttempts = 2
INVARIANTS
  EveryAgentAccountedFor
  RulesRank
  ClaimsTraceToRules
  CleanIsVerified
  LossCostsConfidence
  

  
CHECK_DEADLOCK FALSE
