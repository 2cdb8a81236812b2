SPECIFICATION FairSpec
CONSTANTS
  t1 = t1 t2 = t2
  c1 = c1 c2 = c2 c3 = c3
  Thread = {t1, t2}
  Chunk = {c1, c2}
  NoThread = NoThread NoChunk = NoChunk NoBlock = NoBlock
  Bucket <- OneBucket
  Capacity <- OneCapacity
  CacheCap <- OneCap
  MaxBatch = 3
PROPERTY LockReleased
