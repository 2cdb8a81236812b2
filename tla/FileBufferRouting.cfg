SPECIFICATION FsSpec
CONSTANTS
  Dir = {"valve", "cstrike"}
  Handle = {1, 2}
  SmallMax = 1 MaxSize = 2 MaxVersion = 2
INVARIANT FreedAsAllocated
