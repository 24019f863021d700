SPECIFICATION Spec
CONSTANTS
  m1 = m1
  m2 = m2
  q1 = q1
  q2 = q2
  q3 = q3
  s1 = s1
  s2 = s2
  reqs = reqs
  cases = cases
  runs = runs
  k1 = k1
  k2 = k2
  k3 = k3
  None = None
  SeedData = SeedData
  OldData = OldData
  Requests = {m1, m2}
  Queries = {}
  SingleFlight = {}
  Keys = {k1, k2, k3}
  KeyOf <- MCKeyOf
  Bridged = {reqs}
  Transitional = {runs}
  Writes <- MCWrites
  MaxEntries = 1
  Serial = FALSE
  GlobalRequire = FALSE
  MaxCrashes = 0
INVARIANT AnsweredIsOnDisk
CHECK_DEADLOCK FALSE
