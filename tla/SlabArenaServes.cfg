\* The same instance: does the arena serve what it has committed?
SPECIFICATION ArenaSpec
CONSTANTS
  Reserve = 6
  Slice = 3
  Cushion = 3
  Boost = 6
  FirstTarget = 3
INVARIANT ArenaServes
CHECK_DEADLOCK FALSE
