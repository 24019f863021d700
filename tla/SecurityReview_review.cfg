SPECIFICATION FocusSpec
CONSTANTS
  q1 = q1
  q2 = q2
  c1 = c1
  g1 = g1
  i1 = i1
  i2 = i2
  None = None
  Foci = {"life", "evidence", "review"}
  Requests = {q1}
  Callers = {c1}
  MaxRuns = 2
  MaxBugs = 1
  MaxTasks = 1
  MaxIssues = 1
  RunInputs = {"PASSED", "FAILED"}
  BugInputs = {}
  Severities = {TRUE, FALSE}
  Methods = {"bug.create", "bug.update", "bug.close", "unlock", "requirement", "security", "rerun", "runIssue", "retest", "testRequest.cancel", "testRun.update", "testRun.delete", "releasePublish.create", "template"}
  FreshKeys = FALSE
  GroupOf <- MCGroupOf
  MaxVersions = 1
  Qualities = {"READY"}
  Decisions = {"APPROVED", "BLOCKED", "REJECTED"}
  ExistingRequests = {}
  ChecklistItems = {i1, i2}
  MaxExecutions = 2
INVARIANTS SecurityTypeOK SecurityGate OneOpenExecution LockedEvidenceIsClean
PROPERTIES DecisionsAreFinal ReleaseSpec
CHECK_DEADLOCK FALSE
