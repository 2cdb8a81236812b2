\* The arena: a reservation of 2 "MB" of 3 pages each; the first target is 1 "MB".
\* The map: slabs that straddle pages and meet in one; tables of 2 and 4; any
\* allocation may fail.  The arena stops when it is torn down.
SPECIFICATION MemorySpec
CONSTANTS
  Reserve = 6
  Slice = 3
  Cushion = 3
  Boost = 6
  FirstTarget = 3
  Reader <- OneReader
  Base <- TwoBases
  Bucket <- TwoSizes
  Size <- SizeOf
  NoBucket = NoBucket
  Cap0 = 2
  MaxWalk = 4
  MaxNode = 5
  MaxTable = 2
  RetireFails = FALSE
INVARIANTS
  UsedIsCommitted ChunksInOrder HelperSparesLive
  SafeLookups IndexExact AnswerRight
PROPERTIES HelperExits LookupEnds
CHECK_DEADLOCK FALSE
