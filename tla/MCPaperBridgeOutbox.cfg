SPECIFICATION PolledSpec
CONSTANTS
  s1 = s1
  s2 = s2
  b1 = b1
  b2 = b2
  x1 = x1
  Symbols = {s1, s2}
  OrderIds = {b1, b2}
  FillIds <- MCFillIds
  ActionIds = {}
  ReportIds <- MCReportIds
  NoReport = NoReport
  Reasons = {"venue", "operator"}
  NoFact = NoFact
  Requests <- TwoSymbols
  Quotes <- MCQuotes
  Prices = {2}
  Fees = {1}
  Entitlements = {}
  Times = {1, 2}
  SessionOf <- MCSession
  Facts <- MCFacts
  Capital = 20
  Limits <- MCLimits
  MaxEvents = 4
  MaxControl = 0
  MaxObserved = 0
  Ticks <- SlowTicks
  MinimumFee = 1
  CommissionRate = 3
  SellTaxRate = 5
  SlippageBps = 5
  MaxVenueEvents = 4
PROPERTY
  AcceptedReachVenue
