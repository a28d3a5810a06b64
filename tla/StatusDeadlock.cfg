CONSTANTS
  q1 = q1
  Queries = {q1}
  Answers <- TwoAnswers
  MinPeers = 1
  MaxRuns = 2
  Sections = {"system"}
  MaxCollectorStarts = 2
  MaxChanges = 2
  RuleIds = {"cpu"}
  Rule <- SomeRules
  Channels = {"slack"}
  MaxAlertStarts = 1
  Watches = {"status"}
SPECIFICATION FairSpec
INVARIANTS NoLockCycle
CHECK_DEADLOCK FALSE
