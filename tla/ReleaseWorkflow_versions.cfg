SPECIFICATION FocusSpec
CONSTANTS
  q1 = q1
  q2 = q2
  c1 = c1
  g1 = g1
  Foci = {"groups", "runs"}
  None = None
  Requests = {q1, q2}
  Callers = {c1}
  MaxRuns = 3
  MaxBugs = 0
  MaxTasks = 0
  MaxIssues = 0
  RunInputs = {"PASSED"}
  BugInputs = {}
  Severities = {}
  Methods = {"rerun", "security", "unlock", "releasePublish.create", "testRun.delete"}
  FreshKeys = FALSE
  GroupOf <- MCGroupOf
  MaxVersions = 2
  Qualities = {"READY"}
  Decisions = {"APPROVED", "BLOCKED"}
  ExistingRequests = {q1, q2}
SYMMETRY RequestSymmetry
INVARIANTS ReleaseTypeOK OneVersionPerRequest RerunReachesQA
PROPERTY LedgerSpec
CHECK_DEADLOCK FALSE
