SPECIFICATION Spec
CONSTANTS
  Pids = {p1, p2}
  Helpers = {h1, h2}
  Controller = ctl1
  SuspendAfter = 1
  RestartSpacing = 1
  HelperRetry = 1
  HelperTimeout = 1
  LivenessInterval = 1
  LivenessFailures = 2
  FailureGrace = 1
  StartupDeadline = 1
  MaxFaults = 1
  MaxCrashes = 1
  Prompt = FALSE
INVARIANTS RuleSupervised
PROPERTIES RemovalRemembered ReplaceJustified
SYMMETRY Symmetry
