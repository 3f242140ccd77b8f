CONSTANTS
  MaxSends = 2
  MaxLoads = 2
SPECIFICATION OutboxSpec
INVARIANTS CancelledIsGone SettledTruth StoredIsShown
CHECK_DEADLOCK FALSE
