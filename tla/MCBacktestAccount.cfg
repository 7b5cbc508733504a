SPECIFICATION Spec
CONSTANTS
    MaxLots = 3
    MaxInitial = 3
    Rooms <- MCRooms
    Tiers <- MCTiers
    Risks <- MCRisks
INVARIANTS
    SettledBeforeSold
    SoldWithinTarget
    FreeDayClears
PROPERTY
    FullExitStands
