SPECIFICATION SoleSpec
CONSTANTS
  s1 = s1
  s2 = s2
  b1 = b1
  b2 = b2
  x1 = x1
  Symbols = {s1}
  OrderIds = {b1}
  FillIds <- MCFillIds
  ActionIds = {}
  ReportIds <- MCReportIds
  NoReport = NoReport
  Reasons = {"venue", "operator"}
  NoFact = NoFact
  Requests <- OneBuy
  Quotes <- MCQuotes
  Prices = {2}
  Fees = {1}
  Entitlements = {}
  Times = {1, 2}
  SessionOf <- MCSession
  Facts <- MCFacts
  Capital = 20
  Limits <- MCLimits
  MaxEvents = 6
  MaxControl = 3
  MaxObserved = 1
  Ticks <- SlowTicks
  MinimumFee = 1
  CommissionRate = 3
  SellTaxRate = 5
  SlippageBps = 5
  MaxVenueEvents = 3
INVARIANTS
  IncidentsStayHalted
  ReconciledIsCurrent
PROPERTIES
  ReportsAnswered
