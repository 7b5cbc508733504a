SPECIFICATION JobSpec
CONSTANTS
  s1 = s1
  s2 = s2
  v1 = v1
  bj = bj
  u1 = u1
  sh = sh
  sz = sz
  i1 = i1
  i2 = i2
  i3 = i3
  Ids = {i1, i2, i3}
  Signatures = {s1, s2, u1, v1}
  SymbolOf <- MCSymbolOf
  MaxActive = 2
  MaxCompleted = 1
  CompletedTtl = 2
  MaxHistory = 2
  HistoryTtl = 3
  Outcomes = {"completed", "failed"}
  Saves = {TRUE, FALSE}
  MaxStarts = 3
  MaxRestarts = 1
  MaxTime = 3
INVARIANTS
  SlotsAreRunning
  OnceWithinWindow
  HistoryIsLatest
SYMMETRY
  Interchangeable
