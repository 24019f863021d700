SPECIFICATION FairSpec
CONSTANTS
  m1 = m1
  m2 = m2
  q1 = q1
  q2 = q2
  q3 = q3
  s1 = s1
  s2 = s2
  reqs = reqs
  cases = cases
  runs = runs
  k1 = k1
  k2 = k2
  k3 = k3
  None = None
  SeedData = SeedData
  OldData = OldData
  Requests = {m1, s1, s2, q2}
  Queries = {q2}
  SingleFlight = {q2, s1, s2}
  Keys = {k1, k2, k3}
  KeyOf <- MCKeyOf
  Bridged = {reqs}
  Transitional = {}
  Writes <- MCWrites
  MaxEntries = 1
  Serial = FALSE
  GlobalRequire = FALSE
  MaxCrashes = 1
INVARIANTS TrackedIsRunning JoinedHasLeader SnapshotHoldsOwnEffect
PROPERTIES OriginIsSettled EveryCallSettles
CHECK_DEADLOCK FALSE
