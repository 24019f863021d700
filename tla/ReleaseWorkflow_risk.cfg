SPECIFICATION FocusSpec
CONSTANTS
  q1 = q1
  q2 = q2
  c1 = c1
  g1 = g1
  Foci = {"runs"}
  None = None
  Requests = {q1}
  Callers = {c1}
  MaxRuns = 2
  MaxBugs = 1
  MaxTasks = 0
  MaxIssues = 0
  RunInputs = {"PASSED", "FAILED"}
  BugInputs = {}
  Severities = {TRUE}
  Methods = {"bug.create", "bug.close"}
  FreshKeys = FALSE
  GroupOf <- MCGroupOf
  MaxVersions = 1
  Qualities = {"READY"}
  Decisions = {"APPROVED"}
  ExistingRequests = {q1}
PROPERTY PublicationAcceptsRisk
CHECK_DEADLOCK FALSE
