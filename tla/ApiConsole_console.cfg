SPECIFICATION ConsoleSpec
CONSTANTS
  owner = owner
  user = user
  k1 = k1
  k2 = k2
  a1 = a1
  a2 = a2
  d1 = d1
  d2 = d2
  r1 = r1
  r2 = r2
  e1 = e1
  e2 = e2
  i1 = i1
  o1 = o1
  Foci = {"review", "versions", "repository", "execution", "editor", "inputs", "outputs", "overlaps"}
  Users = {owner, user}
  Reviewers = {k1, k2}
  Apps = {a1, a2}
  MaxRows = 2
  MaxVersion = 2
  MaxShares = 2
  MaxRevisions = 2
  Defs = {d1, d2}
  FirstDef = d1
  MaxFlights = 2
  ConsumerLists <- MCConsumerLists
  Operations = {"collection", "create", "save", "archive", "version", "share", "consumers", "reference", "viewed", "execute"}
  ListedRows = {r1, r2}
  NoneSelected = NoneSelected
  Environments = {e1, e2}
  MaxCalls = 2
  InputFields = {i1}
  OutputFields = {o1}
  MaxDocCalls = 2
INVARIANTS RegistryTypeOK PublishedWasApproved EvidenceIsOfOneDefinition PageTypeOK ShownIsSelected RestartKeepsDocs
PROPERTIES DecidesWhatWasRead RevisionHistory UserChoicesSurvive
CHECK_DEADLOCK FALSE
