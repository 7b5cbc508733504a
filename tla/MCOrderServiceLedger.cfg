SPECIFICATION Spec
SYMMETRY MCFillSymmetry
CONSTANTS
  s1 = s1
  s2 = s2
  b1 = b1
  b2 = b2
  x1 = x1
  Symbols = {s1, s2}
  OrderIds = {b1, b2, x1}
  FillIds = {f1, f2, f3}
  ActionIds = {a1}
  ReportIds = {}
  Reasons = {venue}
  NoReport = NoReport
  NoFact = NoFact
  Requests <- LedgerRequests
  Quotes <- MCQuotes
  Prices = {2}
  Fees = {1, 3}
  Entitlements <- MCEntitlements
  Times <- MCTimes
  SessionOf <- MCSession
  Facts <- MCFacts
  Capital = 8
  Limits <- MCLimits
  MaxEvents = 7
  MaxControl = 1
  MaxObserved = 0
INVARIANTS
  PositionsAreLots
  SellsStayCovered
  OrderAccounting
  LedgerInOrder
PROPERTIES
  ReservationsKept
  LifecycleSpec
