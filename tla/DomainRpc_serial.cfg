SPECIFICATION Spec
CONSTANTS
  m1 = m1
  m2 = m2
  q1 = q1
  q2 = q2
  q3 = q3
  s1 = s1
  s2 = s2
  reqs = reqs
  cases = cases
  runs = runs
  k1 = k1
  k2 = k2
  k3 = k3
  None = None
  SeedData = SeedData
  OldData = OldData
  Requests = {m1, q1, q2, q3, s1}
  Queries = {q1, q2, q3}
  SingleFlight = {q1, q2, q3, s1}
  Keys = {k1, k2, k3}
  KeyOf <- MCKeyOf
  Bridged = {reqs, cases}
  Transitional = {runs}
  Writes <- MCWrites
  MaxEntries = 2
  Serial = TRUE
  GlobalRequire = FALSE
  MaxCrashes = 2
INVARIANT TypeOK
PROPERTIES StoreSpec QueriesSeeCommitted CommittedEffectsStay
CHECK_DEADLOCK FALSE
