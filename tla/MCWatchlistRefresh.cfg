SPECIFICATION FairRefreshSpec
CONSTANTS
  s1 = s1
  u1 = u1
  sh = sh
  sz = sz
  person = person
  Ids <- MCIds
  Members = {s1}
  ByHand = {s1}
  ManualIds = {person}
  Signatures = {s1, u1}
  SymbolOf <- MCSymbolOf
  MaxActive = 1
  MaxCompleted = 1
  CompletedTtl = 1
  MaxHistory = 2
  HistoryTtl = 1
  Outcomes = {"valid", "mismatched", "failed"}
  Saves = {TRUE}
  MaxStarts = 1
  MaxRestarts = 1
  MaxTime = 2
  MaxAttempts = 2
  Backoff = 1
  MaxAsked = 1
INVARIANTS
  CompletedIsEarned
  GivenUpOnFailures
PROPERTIES
  RefreshSettles
