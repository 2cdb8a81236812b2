\* A single caller whose call times out while the worker is replying.
SPECIFICATION Spec
CONSTANTS
  Caller = {c1}
  Mode = {"sync"}
  MaxCalls = 1
  CanFail = FALSE
INVARIANT DeadSlotPoisoned
CHECK_DEADLOCK FALSE
