SPECIFICATION Spec
CONSTANTS
  s1 = s1
  b1 = b1
  b2 = b2
  x1 = x1
  Symbols = {s1}
  OrderIds = {b1, b2, x1}
  ActionIds = {a1}
  Times = {1, 2, 3}
  Offers <- MCOffers
  Ticks <- MCTicks
  Entitlements <- MCEntitlements
  Capital = 20
  MinimumFee = 1
  CommissionRate = 3
  SellTaxRate = 5
  SlippageBps = 5
  MaxVenueEvents = 7
INVARIANTS
  TickCapacity
  FillsAreCausal
PROPERTIES
  AcceptancePriority
  VenueLifecycleSpec
CHECK_DEADLOCK FALSE
