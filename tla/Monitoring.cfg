CONSTANTS
  q1 = q1
  Queries = {q1}
  Answers <- TwoAnswers
  MinPeers = 1
  MaxRuns = 2
  Sections = {"system"}
  MaxCollectorStarts = 2
  MaxChanges = 2
  RuleIds = {"cpu"}
  Rule <- SomeRules
  Channels = {"slack"}
  MaxAlertStarts = 2
  Watches = {"health", "status", "metrics", "alerts", "loops"}
SPECIFICATION FairSpec
INVARIANTS MonitoringInv AlertInv
PROPERTIES HealthReported AlertsFollowMetrics
CHECK_DEADLOCK FALSE
