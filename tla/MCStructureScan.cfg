SPECIFICATION Spec
CONSTANTS
  Symbols <- MCSymbols
  MaxWrites = 2
  Corrupt = {}
  MaxCode = 1
  JobLimit = 2
  MaxEvents = 1
INVARIANTS CompletedIsUnmixed PublishedIsPure
PROPERTY FreshSnapshotServed
CHECK_DEADLOCK FALSE
