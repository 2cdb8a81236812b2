\* A single caller that also makes asynchronous calls.
SPECIFICATION Spec
CONSTANTS
  Caller = {c1}
  Mode = {"sync", "async"}
  MaxCalls = 2
  CanFail = FALSE
INVARIANT OwnReply
CHECK_DEADLOCK FALSE
