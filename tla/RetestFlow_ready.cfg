SPECIFICATION FocusSpec
CONSTANTS
  q1 = q1
  q2 = q2
  c1 = c1
  c2 = c2
  None = None
  Foci = {"flow"}
  Requests = {q1}
  Callers = {c1}
  MaxRuns = 1
  MaxBugs = 1
  MaxTasks = 2
  MaxIssues = 0
  RunInputs = {"FAILED"}
  BugInputs = {}
  Severities = {FALSE}
  Methods = {"testRun.create", "testRun.updateStatus", "bug.create"}
  FreshKeys = FALSE
INVARIANT ReadyMeansReady
CHECK_DEADLOCK FALSE
