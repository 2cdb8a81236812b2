\* The fast mutex among three threads that nest twice, or of which two stray;
\* two threads that sleep, and two that spew.
SPECIFICATION MCSpec
CONSTANTS
  t1 = t1 t2 = t2 t3 = t3
  Thread = {t1, t2, t3}
  Stray = {}
  MaxDepth = 2
  Nobody = Nobody
  Sleeper = {t1, t2}
  Asked = {"md"}
  MaxDeaths = 1
  MaxSlow = 1
  Writer = {t1, t2}
  Site = {1, 2}
  MaxNest = 2
  MaxInner = 1
  MaxCalls = 1
  NoWriter = NoWriter
  NoSite = NoSite
INVARIANTS MutualExclusion HolderOwns CountInOrder TimerInOrder SpewInOrder
PROPERTIES LastUnlockFrees AnswersAgree SleepReturns SpewReturns
CHECK_DEADLOCK FALSE
