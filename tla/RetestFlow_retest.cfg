SPECIFICATION FocusSpec
CONSTANTS
  q1 = q1
  q2 = q2
  c1 = c1
  c2 = c2
  None = None
  Foci = {"flow", "locks", "issues"}
  Requests = {q1}
  Callers = {c1, c2}
  MaxRuns = 3
  MaxBugs = 1
  MaxTasks = 2
  MaxIssues = 1
  RunInputs = {"FAILED", "PASSED"}
  BugInputs = {"REJECTED"}
  Severities = {FALSE}
  Methods = {"testRun.create", "testRun.update", "testRun.updateStatus", "testRun.delete", "bug.create", "bug.update", "bug.delete", "bug.assign", "bug.updateStatus", "bug.close", "retestTask.ensureForBug", "retestTask.complete", "unlock", "decide"}
  FreshKeys = FALSE
SYMMETRY CallerSymmetry
INVARIANTS RetestTypeOK OneRunPerTask NothingDangles
PROPERTY LockedEvidenceStays
CHECK_DEADLOCK FALSE
