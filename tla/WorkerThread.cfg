\* Two callers with both kinds of call; one caller that waits for each reply.
SPECIFICATION MCSpec
CONSTANTS
  c1 = c1 c2 = c2
  Caller = {c1, c2}
  Mode <- BothModes
  MaxCalls = 4
  CanFail = TRUE
INVARIANTS SlotInOrder OwnReplyWhenWaiting
PROPERTIES ServedOnce SlotFreed NoLostReply
CHECK_DEADLOCK FALSE
