SPECIFICATION IntentSpec
CONSTANTS
  s1 = s1
  entry = entry
  exit = exit
  other = other
  Symbols = {s1}
  OrderIds = {entry, exit, other}
  FillIds = {f1, f2}
  ActionIds = {}
  ReportIds = {}
  Reasons = {}
  NoReport = NoReport
  NoFact = NoFact
  Requests = {}
  Quotes <- MCQuotes
  Prices = {2}
  Fees = {1}
  Entitlements = {}
  Times <- MCTimes
  SessionOf <- MCSession
  Facts <- MCFacts
  Capital = 12
  Limits <- MCLimits
  MaxEvents = 5
  MaxControl = 0
  MaxObserved = 0
  Intents <- MCIntents
  BarTimes = {1, 3}
  Emits <- MCEmits
  Openings <- MCOpenings
  MaxCrashes = 1
INVARIANTS
  PrefixIsStable
  EntryHasOneChance
PROPERTIES
  OrdersAreClaimed
