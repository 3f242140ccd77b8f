CONSTANTS
  Apps <- AllApps
  MaxTokens = 3
  MaxFlights = 2
  MaxRestarts = 2
  MaxQueue = 2
SPECIFICATION Spec
INVARIANTS InStep ReuseHasCause KeepsThroughBlip SignedOutStaysOut
CHECK_DEADLOCK FALSE
