SPECIFICATION ServicesSpec
CONSTANTS
  Foci = {"calls", "switches", "planning", "applications", "session"}
  x1 = x1
  x2 = x2
  a1 = a1
  a2 = a2
  MaxClientCalls = 3
  Contexts = {x1, x2}
  ApiModes = {"backend", "strict", "mock"}
  MaxRequests = 2
  Applications = {a1, a2}
  AppOf <- MCAppOf
  MaxRequirements = 2
  MaxFlows = 1
  MaxCases = 1
  MaxExecutions = 2
  MaxAssignments = 3
  RoleOf <- MCRoleOf
  MaxVisits = 2
INVARIANTS
  ServicesTypeOK
  AnswerIsOfContext
  ProbeHasCaller
  CacheIsCurrent
  SameApplication
  NothingIsOrphaned
  ActiveIsAvailable
PROPERTY
  RunsAreOfReadyCases
CHECK_DEADLOCK FALSE
