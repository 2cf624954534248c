SPECIFICATION Spec
CONSTANTS
  None = None
  Rejected = Rejected
  NotAList = NotAList
  Infinite = Infinite
  Slugs <- MCSlugs
  Sessions = {s1, s2}
  Users = {u1, u2}
  Ids = {i1, i2}
  Times <- MCTimes
  Creations <- MCCreations
  Requests <- MCRequests
  ProviderLists <- MCProviderLists
  Titles <- MCTitles
  Locations <- MCLocations
  MaxCalls = 2
SYMMETRY Symmetry
INVARIANTS
  OneProfilePerUser
  NoCriterionLost
PROPERTIES
  OnlyStaleChangeRefused
  RunStartsFromCommittedSearch
CHECK_DEADLOCK FALSE
