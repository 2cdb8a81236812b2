\* The list of retired tables may fail to grow.
SPECIFICATION Spec
CONSTANTS
  Reader <- OneReader
  Base <- TwoBases
  Bucket <- TwoSizes
  Size <- SizeOf
  NoBucket = NoBucket
  Cap0 = 2
  MaxWalk = 4
  MaxNode = 5
  MaxTable = 2
  RetireFails = TRUE
INVARIANT NoFreedTable
