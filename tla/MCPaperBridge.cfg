SPECIFICATION BridgeSpec
CONSTANTS
  s1 = s1
  s2 = s2
  b1 = b1
  b2 = b2
  x1 = x1
  Symbols = {s1}
  OrderIds = {b1, x1}
  FillIds <- MCFillIds
  ActionIds = {a1}
  ReportIds <- MCReportIds
  NoReport = NoReport
  Reasons = {"venue", "operator"}
  NoFact = NoFact
  Requests <- RoundTrip
  Quotes <- MCQuotes
  Prices = {2}
  Fees = {1}
  Entitlements <- MCEntitlements
  Times <- MCTimes
  SessionOf <- MCSession
  Facts <- MCFacts
  Capital = 20
  Limits <- MCLimits
  MaxEvents = 6
  MaxControl = 0
  MaxObserved = 0
  Ticks <- MCTicks
  MinimumFee = 1
  CommissionRate = 3
  SellTaxRate = 5
  SlippageBps = 5
  MaxVenueEvents = 7
INVARIANTS
  SettledBooksAgree
  BookedInOrder
  VenueNeverShort
