CONSTANTS
  page_size = 3
  memory_size = 9
  MaxCalls = 5
  Sizes = {1, 2, 3, 4, 6, 9, 10}
  Unsent = Unsent
SPECIFICATION Spec
INVARIANT InStep
INVARIANT AckedStored
INVARIANT ReadBack
INVARIANT ClosesCleanly
PROPERTY CallReturns
PROPERTY EndNoticed
CHECK_DEADLOCK FALSE
