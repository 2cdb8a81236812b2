SPECIFICATION Spec
CONSTANTS
  t1 = t1 t2 = t2
  c1 = c1 c2 = c2 c3 = c3
  Thread = {t1, t2}
  Chunk = {c1, c2, c3}
  NoThread = NoThread NoChunk = NoChunk NoBlock = NoBlock
  Bucket <- TwoBuckets
  Capacity <- TwoCapacity
  CacheCap <- TwoCap
  MaxBatch = 3
SYMMETRY Symmetry
INVARIANTS IInv
  NoDanglingBlock OneOwner CountersExact BooksInOrder
PROPERTY NullOnlyWhenEmpty ImplementsStore
