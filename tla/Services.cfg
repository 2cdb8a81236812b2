SPECIFICATION Spec
CONSTANTS
  ScopeName = {"Update", "Physics"}
  GroupOf <- Budget
  MaxScopes = 2
  MaxNesting = 2
  MaxTime = 2
  MaxNodes = 2
  MaxStray = 1
  MaxStarts = 2
  GroupDepth = 3
  MaxGroups = 2
  MaxThreads = 3
  Dir = {"valve"}
  Handle = {1, 2}
  SmallMax = 1
  MaxSize = 2
  MaxVersion = 2
  MaxFinds = 3
  Dumper = {d1, d2}
  NoDumper = 0
  MaxNested = 2
  MaxBelow = 1
  MaxCrashes = 2
  MaxProcesses = 2
  MaxText = 3
  MaxReads = 4
  LineSize = {2, 3}
  PrintSize = 3
  TlsThread = {a1, a2}
  TlsObject = {o1, o2}
  Index = {1, 2}
  NoIndex = NoIndex
  Pointer = {0, 1}
  ScratchDepth = 3
  ScratchMin = 3
  ScratchSize = {0, 1, 2}
  MaxMoves = 3
  GroupName = {1, 2, 3, 4}
  Cut <- CutNames
  Level = {0, 1}
  MaxStored = 3
  Spewer = {t1}
  ValidatorName = {v, w}
  MaxRecords = 4
  Object = {p, q}
SYMMETRY Symmetric
INVARIANTS
  ProfInOrder ThreadInOrder BuffersInOrder TextInOrder HandlesStay
  DumpLockInOrder  ScratchInOrder GroupsInOrder RecordsInOrder
CHECK_DEADLOCK FALSE
