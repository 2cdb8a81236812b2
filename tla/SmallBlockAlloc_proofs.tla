----------------------- MODULE SmallBlockAlloc_proofs -----------------------
(***************************************************************************)
(* Proofs about SmallBlockAlloc, for every set of threads, buckets and     *)
(* chunks and all slab and cache sizes.                                    *)
(***************************************************************************)
EXTENDS SmallBlockAlloc, SizeClasses, FiniteSetTheorems, TLAPS

(* A slab whose free chain misses a single block of a fully carved slab    *)
(* has all the others in it.                                               *)
LEMMA ChainFills ==
  ASSUME NEW n \in Nat, NEW S \in SUBSET (1 .. n), NEW i \in 1 .. n, i \notin S,
         Cardinality(S) + 1 = n
  PROVE  S \union {i} = 1 .. n
<1>1. IsFiniteSet(1 .. n) /\ Cardinality(1 .. n) = n
  BY FS_Interval
<1>2. IsFiniteSet(S)
  BY <1>1, FS_Subset
<1>3. Cardinality(S \union {i}) = n
  BY <1>2, FS_AddElement
<1>4. S \union {i} \in SUBSET (1 .. n)
  OBVIOUS
<1>5. QED
  BY <1>1, <1>3, <1>4, FS_Subset

-----------------------------------------------------------------------------
(* The part of the invariant that speaks of the pool alone.                *)
PoolTypeOK ==
  /\ slabs \subseteq Chunk
  /\ bucketOf \in [Chunk -> Bucket]
  /\ carved \in [Chunk -> Nat]
  /\ chain \in [Chunk -> SUBSET Nat]
  /\ freeCount \in [Chunk -> Nat]
  /\ cur \in [Bucket -> Chunk \union {NoChunk}]
  /\ partial \in [Bucket -> SUBSET Chunk]

FreeCountExact == \A c \in slabs : freeCount[c] = Cardinality(chain[c])

PoolInv == PoolTypeOK /\ SlabShape /\ PartialExact /\ FreeCountExact

(* The part that speaks of the threads and the program alone.              *)
OwnerTypeOK ==
  /\ lock \in Thread \union {NoThread}
  /\ cache \in [Thread -> [Bucket -> SUBSET Block]]
  /\ count \in [Thread -> [Bucket -> Nat]]
  /\ stage \in [Thread -> Stage]
  /\ op \in [Thread -> Bucket]
  /\ batch \in [Thread -> SUBSET Block]
  /\ retire \in [Thread -> Block \union {NoBlock}]
  /\ held \subseteq Block

CountExact ==
  \A t \in Thread : \A b \in Bucket : count[t][b] = Cardinality(cache[t][b])

OwnerInv ==
  /\ OwnerTypeOK
  /\ LockedStages
  /\ ControlShape
  /\ CachesFinite
  /\ CountExact
  /\ OneOwner

LEMMA IInvParts == IInv <=> PoolInv /\ OwnerInv /\ NoDanglingBlock
BY DEF IInv, PoolInv, OwnerInv, TypeOK, PoolTypeOK, OwnerTypeOK, CountersExact,
       FreeCountExact, CountExact

LEMMA IInvPartsPrime == IInv' <=> PoolInv' /\ OwnerInv' /\ NoDanglingBlock'
BY DEF IInv, PoolInv, OwnerInv, TypeOK, PoolTypeOK, OwnerTypeOK, CountersExact,
       FreeCountExact, CountExact

(* A free chain is a finite set.                                           *)
LEMMA ChainFinite ==
  ASSUME PoolInv, NEW c \in slabs
  PROVE  IsFiniteSet(chain[c]) /\ chain[c] \in SUBSET (1 .. carved[c])
<1>1. carved[c] \in Nat /\ chain[c] \in SUBSET (1 .. carved[c])
  BY DEF PoolInv, PoolTypeOK, SlabShape
<1>2. IsFiniteSet(1 .. carved[c])
  <2> DEFINE n == carved[c]
  <2>1. n \in Int /\ 1 \in Int
    BY <1>1
  <2>2. QED
    BY <2>1, FS_Interval
<1>3. QED
  BY <1>1, <1>2, FS_Subset

-----------------------------------------------------------------------------
(* What Push does to the pool, whoever calls it: the pool stays well       *)
(* formed, and the memory of every other block outside it stays in place.  *)
LEMMA PushStep ==
  ASSUME PoolInv, NEW p \in Block, OutIsLive(p), Push(p[2], p)
  PROVE  PoolInv' /\ \A q \in Block : q # p /\ OutIsLive(q) => OutIsLive(q)'
<1> DEFINE c == p[1]
           b == p[2]
           i == p[3]
<1>1. /\ c \in slabs /\ c \in Chunk /\ b \in Bucket /\ i \in Nat
      /\ b = bucketOf[c] /\ i \in 1 .. carved[c] /\ i \notin chain[c]
      /\ p = <<c, b, i>>
  BY DEF OutIsLive, Block, PoolInv, PoolTypeOK
<1>2. /\ IsFiniteSet(chain[c]) /\ chain[c] \in SUBSET (1 .. carved[c])
      /\ freeCount[c] = Cardinality(chain[c])
  BY <1>1, ChainFinite DEF PoolInv, FreeCountExact
<1>3. CASE Freezes(c)
  <2>1. DestroySlab(c, b)
    BY <1>1, <1>3 DEF Push
  <2>2. chain[c] \union {i} = 1 .. carved[c]
    BY <1>1, <1>2, <1>3, ChainFills DEF Freezes, PoolInv, PoolTypeOK
  <2>3. \A q \in Block : q # p /\ OutIsLive(q) => OutIsLive(q)'
    <3>1. SUFFICES ASSUME NEW q \in Block, q # p, OutIsLive(q)
                   PROVE  OutIsLive(q)'
      OBVIOUS
    <3>2. q = <<q[1], q[2], q[3]>>
      BY DEF Block
    <3>3. q[1] # c
      BY <1>1, <2>2, <3>1, <3>2 DEF OutIsLive
    <3>4. QED
      BY <1>1, <2>1, <3>1, <3>3 DEF DestroySlab, OutIsLive, PoolInv, PoolTypeOK, Block
  <2>4. SlabShape'
    BY <1>1, <2>1 DEF DestroySlab, SlabShape, PoolInv, PoolTypeOK
  <2>5. PartialExact'
    BY <1>1, <2>1 DEF DestroySlab, PartialExact, PoolInv, PoolTypeOK
  <2>6. FreeCountExact'
    BY <1>1, <2>1 DEF DestroySlab, FreeCountExact, PoolInv, PoolTypeOK
  <2>7. AnyBucket \in Bucket
    BY BucketAssumption DEF AnyBucket
  <2>8. PoolTypeOK'
    BY <1>1, <2>1, <2>7 DEF DestroySlab, PoolInv, PoolTypeOK
  <2>9. QED
    BY <2>3, <2>4, <2>5, <2>6, <2>8 DEF PoolInv
<1>4. CASE ~Freezes(c)
  <2>1. ReturnBlock(b, c, i)
    BY <1>1, <1>4 DEF Push
  <2>2. Cardinality(chain[c] \union {i}) = Cardinality(chain[c]) + 1
    BY <1>1, <1>2, FS_AddElement
  <2>3. \A q \in Block : q # p /\ OutIsLive(q) => OutIsLive(q)'
    <3>1. SUFFICES ASSUME NEW q \in Block, q # p, OutIsLive(q)
                   PROVE  OutIsLive(q)'
      OBVIOUS
    <3>2. q = <<q[1], q[2], q[3]>>
      BY DEF Block
    <3>3. QED
      BY <1>1, <2>1, <3>1, <3>2 DEF ReturnBlock, OutIsLive, PoolInv, PoolTypeOK, Block
  <2>4. SlabShape'
    BY <1>1, <2>1 DEF ReturnBlock, SlabShape, PoolInv, PoolTypeOK
  <2>5. PartialExact'
    BY <1>1, <2>1 DEF ReturnBlock, PartialExact, PoolInv, PoolTypeOK
  <2>6. FreeCountExact'
    BY <1>1, <1>2, <2>1, <2>2 DEF ReturnBlock, FreeCountExact, PoolInv, PoolTypeOK
  <2>7. PoolTypeOK'
    BY <1>1, <2>1 DEF ReturnBlock, PoolInv, PoolTypeOK
  <2>8. QED
    BY <2>3, <2>4, <2>5, <2>6, <2>7 DEF PoolInv
<1>5. QED
  BY <1>3, <1>4

(* PopBatch takes a block that was free, from a slab of the right bucket.  *)
LEMMA PopFreeStep ==
  ASSUME PoolInv, NEW t \in Thread, op[t] \in Bucket, NEW c, NEW i, PopFree(t, c, i)
  PROVE  /\ PoolInv'
         /\ <<c, op[t], i>> \in Block
         /\ ~OutIsLive(<<c, op[t], i>>)
         /\ OutIsLive(<<c, op[t], i>>)'
         /\ \A q \in Block : OutIsLive(q) => OutIsLive(q)'
<1>1. /\ c \in slabs /\ c \in Chunk /\ bucketOf[c] = op[t] /\ i \in chain[c]
      /\ i \in 1 .. carved[c] /\ i \in Nat /\ freeCount[c] \in Nat
  BY DEF PopFree, PoolInv, PoolTypeOK, PartialExact, SlabShape
<1>2. /\ IsFiniteSet(chain[c]) /\ freeCount[c] = Cardinality(chain[c])
  BY <1>1, ChainFinite DEF PoolInv, FreeCountExact
<1>3. Cardinality(chain[c] \ {i}) = freeCount[c] - 1
  BY <1>1, <1>2, FS_RemoveElement
<1>4. freeCount[c] - 1 \in Nat
  BY <1>1, <1>2, FS_EmptySet
<1>5. PoolTypeOK'
  BY <1>1, <1>4 DEF PopFree, PoolInv, PoolTypeOK
<1>6. SlabShape'
  BY <1>1 DEF PopFree, PoolInv, PoolTypeOK, SlabShape
<1>7. PartialExact'
  BY <1>1, <1>4 DEF PopFree, PoolInv, PoolTypeOK, PartialExact
<1>8. FreeCountExact'
  BY <1>1, <1>2, <1>3 DEF PopFree, PoolInv, PoolTypeOK, FreeCountExact
<1>9. <<c, op[t], i>> \in Block /\ ~OutIsLive(<<c, op[t], i>>)
  BY <1>1 DEF OutIsLive, Block
<1>10. OutIsLive(<<c, op[t], i>>)'
  BY <1>1 DEF PopFree, OutIsLive, PoolInv, PoolTypeOK
<1>11. \A q \in Block : OutIsLive(q) => OutIsLive(q)'
  BY <1>1 DEF PopFree, OutIsLive, PoolInv, PoolTypeOK, Block
<1>12. QED
  BY <1>5, <1>6, <1>7, <1>8, <1>9, <1>10, <1>11 DEF PoolInv

(* A fresh slab takes a chunk no live slab, hence no block in use, lies in. *)
LEMMA CarveSlabStep ==
  ASSUME PoolInv, NEW t \in Thread, op[t] \in Bucket, NEW c, CarveSlab(t, c)
  PROVE  PoolInv' /\ \A q \in Block : OutIsLive(q) => OutIsLive(q)'
<1>1. c \in Chunk /\ c \notin slabs
  BY DEF CarveSlab
<1>2. PoolTypeOK'
  BY <1>1 DEF CarveSlab, PoolInv, PoolTypeOK
<1>3. Capacity[op[t]] \in Nat
  BY CapacityAssumption
<1>4. SlabShape'
  BY <1>1, <1>3 DEF CarveSlab, PoolInv, PoolTypeOK, SlabShape
<1>5. PartialExact'
  BY <1>1 DEF CarveSlab, PoolInv, PoolTypeOK, PartialExact
<1>6. FreeCountExact'
  BY <1>1, FS_EmptySet DEF CarveSlab, PoolInv, PoolTypeOK, FreeCountExact
<1>7. \A q \in Block : OutIsLive(q) => OutIsLive(q)'
  BY <1>1 DEF CarveSlab, OutIsLive, PoolInv, PoolTypeOK, Block
<1>8. QED
  BY <1>2, <1>4, <1>5, <1>6, <1>7 DEF PoolInv

(* A block cut from the current slab has never been given out before.      *)
LEMMA CarveBlockStep ==
  ASSUME PoolInv, NEW t \in Thread, op[t] \in Bucket, CarveBlock(t)
  PROVE  /\ PoolInv'
         /\ \A q \in Block : OutIsLive(q) => OutIsLive(q)'
         /\ \E p \in Block :
              /\ p[2] = op[t]
              /\ ~OutIsLive(p)
              /\ OutIsLive(p)'
              /\ batch' = [batch EXCEPT ![t] = @ \union {p}]
<1> DEFINE b == op[t]
           c == cur[b]
           i == carved[c] + 1
<1>0. PICK p : p = <<c, b, i>>
  OBVIOUS
<1>1. /\ c \in slabs /\ c \in Chunk /\ bucketOf[c] = b
      /\ carved[c] \in Nat /\ Capacity[b] \in Nat
      /\ carved[c] # Capacity[b] /\ carved[c] <= Capacity[b]
  BY CapacityAssumption DEF CarveBlock, UsedUp, PoolInv, PoolTypeOK, SlabShape
<1>2. /\ carved' = [carved EXCEPT ![c] = i]
      /\ UNCHANGED <<slabs, bucketOf, chain, freeCount, cur, partial>>
  BY DEF CarveBlock
<1>3. i \in Nat /\ i <= Capacity[b] /\ i \notin 1 .. carved[c] /\ i \in 1 .. i
      /\ 1 .. carved[c] \subseteq 1 .. i
  BY <1>1
<1>4. PoolTypeOK'
  BY <1>1, <1>2, <1>3 DEF PoolInv, PoolTypeOK
<1>5. SlabShape'
  BY <1>1, <1>2, <1>3 DEF PoolInv, PoolTypeOK, SlabShape
<1>6. PartialExact' /\ FreeCountExact'
  BY <1>2 DEF PoolInv, PartialExact, FreeCountExact
<1>7. p \in Block /\ ~OutIsLive(p) /\ p[2] = op[t]
  BY <1>0, <1>1, <1>3 DEF OutIsLive, Block
<1>8. OutIsLive(p)'
  BY <1>0, <1>1, <1>2, <1>3 DEF OutIsLive, PoolInv, PoolTypeOK, SlabShape
<1>9. \A q \in Block : OutIsLive(q) => OutIsLive(q)'
  BY <1>1, <1>2, <1>3 DEF OutIsLive, PoolInv, PoolTypeOK, Block
<1>10. batch' = [batch EXCEPT ![t] = @ \union {p}]
  BY <1>0 DEF CarveBlock
<1>11. QED
  BY <1>4, <1>5, <1>6, <1>7, <1>8, <1>9, <1>10 DEF PoolInv

-----------------------------------------------------------------------------
(* Preservation of the invariant, one lemma per action.                    *)

(* A step that leaves the pool alone keeps what holds of it.               *)
LEMMA PoolUnchanged ==
  ASSUME UNCHANGED pool, PoolInv
  PROVE  PoolInv' /\ \A q : OutIsLive(q)' <=> OutIsLive(q)
BY DEF pool, PoolInv, PoolTypeOK, SlabShape, PartialExact, FreeCountExact, OutIsLive

(* A step that only moves a thread from one stage to another.              *)
LEMMA StageStep ==
  ASSUME IInv, UNCHANGED <<pool, local, batch, retire, held>>,
         lock' \in Thread \union {NoThread}, stage' \in [Thread -> Stage],
         op' \in [Thread -> Bucket], LockedStages', ControlShape'
  PROVE  IInv'
<1>1. PoolInv' /\ \A q : OutIsLive(q)' <=> OutIsLive(q)
  BY IInvParts, PoolUnchanged
<1>2. OwnerInv'
  BY IInvParts DEF OwnerInv, OwnerTypeOK, CachesFinite, CountExact, OneOwner, local
<1>3. NoDanglingBlock'
  BY <1>1, IInvParts DEF NoDanglingBlock, local
<1>4. QED
  BY <1>1, <1>2, <1>3, IInvPartsPrime

LEMMA AllocRefillInv ==
  ASSUME IInv, NEW t \in Thread, NEW b \in Bucket, AllocRefill(t, b)
  PROVE  IInv'
<1>1. /\ IsFiniteSet(cache[t][b]) /\ Cardinality(cache[t][b]) = 0
      /\ OwnerTypeOK /\ LockedStages /\ ControlShape
  BY IInvParts DEF AllocRefill, StartRefill, OwnerInv, CachesFinite, CountExact
<1>2. cache[t][b] = {}
  BY <1>1, FS_EmptySet
<1>3. stage' \in [Thread -> Stage] /\ op' \in [Thread -> Bucket]
  BY <1>1 DEF AllocRefill, StartRefill, OwnerTypeOK, Stage
<1>4. LockedStages'
  BY <1>1 DEF AllocRefill, StartRefill, LockedStages, OwnerTypeOK, Locked
<1>5. ControlShape'
  BY <1>1, <1>2 DEF AllocRefill, StartRefill, ControlShape, OwnerTypeOK, local
<1>6. QED
  BY <1>1, <1>3, <1>4, <1>5, StageStep DEF AllocRefill, StartRefill, OwnerTypeOK

LEMMA LockRefillInv ==
  ASSUME IInv, NEW t \in Thread, LockRefill(t)
  PROVE  IInv'
<1>1. OwnerTypeOK /\ LockedStages /\ ControlShape
  BY IInvParts DEF OwnerInv
<1>2. stage' \in [Thread -> Stage]
  BY <1>1 DEF LockRefill, OwnerTypeOK, Stage
<1>3. LockedStages'
  BY <1>1, ThreadAssumption DEF LockRefill, LockedStages, OwnerTypeOK, Locked
<1>4. ControlShape'
  BY <1>1 DEF LockRefill, ControlShape, OwnerTypeOK, local
<1>5. QED
  BY <1>1, <1>2, <1>3, <1>4, StageStep DEF LockRefill, OwnerTypeOK

LEMMA LockDrainInv ==
  ASSUME IInv, NEW t \in Thread, LockDrain(t)
  PROVE  IInv'
<1>1. OwnerTypeOK /\ LockedStages /\ ControlShape
  BY IInvParts DEF OwnerInv
<1>2. stage' \in [Thread -> Stage]
  BY <1>1 DEF LockDrain, OwnerTypeOK, Stage
<1>3. LockedStages'
  BY <1>1, ThreadAssumption DEF LockDrain, LockedStages, OwnerTypeOK, Locked
<1>4. ControlShape'
  BY <1>1 DEF LockDrain, ControlShape, OwnerTypeOK, local
<1>5. QED
  BY <1>1, <1>2, <1>3, <1>4, StageStep DEF LockDrain, OwnerTypeOK

LEMMA ThreadExitInv ==
  ASSUME IInv, NEW t \in Thread, ThreadExit(t)
  PROVE  IInv'
<1>1. OwnerTypeOK /\ LockedStages /\ ControlShape
  BY IInvParts DEF OwnerInv
<1>2. stage' \in [Thread -> Stage]
  BY <1>1 DEF ThreadExit, OwnerTypeOK, Stage
<1>3. LockedStages'
  BY <1>1, ThreadAssumption DEF ThreadExit, LockedStages, OwnerTypeOK, Locked
<1>4. ControlShape'
  BY <1>1 DEF ThreadExit, ControlShape, OwnerTypeOK, local
<1>5. QED
  BY <1>1, <1>2, <1>3, <1>4, StageStep DEF ThreadExit, OwnerTypeOK

LEMMA PopNoneInv ==
  ASSUME IInv, NEW t \in Thread, PopNone(t)
  PROVE  IInv'
<1>1. OwnerTypeOK /\ LockedStages /\ ControlShape
  BY IInvParts DEF OwnerInv
<1>2. stage' \in [Thread -> Stage]
  BY <1>1 DEF PopNone, OwnerTypeOK, Stage
<1>3. LockedStages'
  BY <1>1 DEF PopNone, LockedStages, OwnerTypeOK, Locked
<1>4. ControlShape'
  BY <1>1 DEF PopNone, ControlShape, OwnerTypeOK, local
<1>5. QED
  BY <1>1, <1>2, <1>3, <1>4, StageStep DEF PopNone, OwnerTypeOK

LEMMA DrainDoneInv ==
  ASSUME IInv, NEW t \in Thread, DrainDone(t)
  PROVE  IInv'
<1>1. OwnerTypeOK /\ LockedStages /\ ControlShape
  BY IInvParts DEF OwnerInv
<1>2. stage' \in [Thread -> Stage]
  BY <1>1 DEF DrainDone, Unlock, OwnerTypeOK, Stage
<1>3. LockedStages'
  BY <1>1, ThreadAssumption DEF DrainDone, Unlock, LockedStages, OwnerTypeOK, Locked
<1>4. ControlShape'
  BY <1>1 DEF DrainDone, Unlock, ControlShape, OwnerTypeOK, local
<1>5. QED
  BY <1>1, <1>2, <1>3, <1>4, StageStep DEF DrainDone, Unlock, OwnerTypeOK

LEMMA FlushDoneInv ==
  ASSUME IInv, NEW t \in Thread, FlushDone(t)
  PROVE  IInv'
<1>1. OwnerTypeOK /\ LockedStages /\ ControlShape
  BY IInvParts DEF OwnerInv
<1>2. stage' \in [Thread -> Stage]
  BY <1>1 DEF FlushDone, Unlock, OwnerTypeOK, Stage
<1>3. LockedStages'
  BY <1>1, ThreadAssumption DEF FlushDone, Unlock, LockedStages, OwnerTypeOK, Locked
<1>4. ControlShape'
  BY <1>1 DEF FlushDone, Unlock, ControlShape, OwnerTypeOK, local
<1>5. QED
  BY <1>1, <1>2, <1>3, <1>4, StageStep DEF FlushDone, Unlock, OwnerTypeOK

(* What TakeCached leaves in the cache.                                    *)
LEMMA TakeCachedStep ==
  ASSUME IInv, NEW t \in Thread, NEW b \in Bucket, NEW p, TakeCached(t, b, p)
  PROVE  /\ p \in Block /\ p[2] = b /\ OutIsLive(p)
         /\ cache' = [cache EXCEPT ![t][b] = @ \ {p}]
         /\ cache' \in [Thread -> [Bucket -> SUBSET Block]]
         /\ count' \in [Thread -> [Bucket -> Nat]]
         /\ \A s \in Thread : \A d \in Bucket : IsFiniteSet(cache'[s][d])
         /\ CountExact'
<1>1. /\ OwnerTypeOK /\ CachesFinite /\ CountExact /\ NoDanglingBlock
  BY IInvParts DEF OwnerInv
<1>2. /\ p \in cache[t][b] /\ p \in Block /\ p[2] = b /\ OutIsLive(p)
  BY <1>1 DEF TakeCached, OwnerTypeOK, NoDanglingBlock
<1>3. /\ IsFiniteSet(cache[t][b]) /\ count[t][b] = Cardinality(cache[t][b])
      /\ count[t][b] \in Nat /\ count[t][b] > 0
  BY <1>1 DEF CachesFinite, CountExact, OwnerTypeOK, TakeCached
<1>4. /\ IsFiniteSet(cache[t][b] \ {p})
      /\ Cardinality(cache[t][b] \ {p}) = count[t][b] - 1
  BY <1>2, <1>3, FS_RemoveElement
<1>5. count[t][b] <= 1 => cache[t][b] \ {p} = {}
  BY <1>3, <1>4, FS_EmptySet
<1>6. cache' = [cache EXCEPT ![t][b] = @ \ {p}]
  <2>1. (IF count[t][b] > 1 THEN cache[t][b] \ {p} ELSE {}) = cache[t][b] \ {p}
    BY <1>3, <1>5
  <2>2. QED
    BY <2>1 DEF TakeCached
<1>7. /\ cache' \in [Thread -> [Bucket -> SUBSET Block]]
      /\ count' \in [Thread -> [Bucket -> Nat]]
  BY <1>1, <1>3, <1>6 DEF TakeCached, OwnerTypeOK
<1>8. \A s \in Thread : \A d \in Bucket : IsFiniteSet(cache'[s][d])
  BY <1>1, <1>4, <1>6 DEF OwnerTypeOK, CachesFinite
<1>9. CountExact'
  <2>1. SUFFICES ASSUME NEW s \in Thread, NEW d \in Bucket
                 PROVE  count'[s][d] = Cardinality(cache'[s][d])
    BY DEF CountExact
  <2>2. count' = [count EXCEPT ![t][b] = @ - 1]
    BY DEF TakeCached
  <2>3. CASE s = t /\ d = b
    BY <1>1, <1>4, <1>6, <2>2, <2>3 DEF OwnerTypeOK
  <2>4. CASE ~(s = t /\ d = b)
    <3>1. count'[s][d] = count[s][d] /\ cache'[s][d] = cache[s][d]
      BY <1>1, <1>6, <2>2, <2>4 DEF OwnerTypeOK
    <3>2. QED
      BY <1>1, <3>1 DEF CountExact
  <2>5. QED
    BY <2>3, <2>4
<1>10. QED
  BY <1>2, <1>6, <1>7, <1>8, <1>9

LEMMA AllocCachedInv ==
  ASSUME IInv, NEW t \in Thread, NEW b \in Bucket, NEW p, AllocCached(t, b, p)
  PROVE  IInv'
<1>1. /\ OwnerTypeOK /\ LockedStages /\ ControlShape /\ CachesFinite /\ OneOwner
      /\ PoolInv /\ NoDanglingBlock
  BY IInvParts DEF OwnerInv
<1>2. /\ TakeCached(t, b, p) /\ p \in cache[t][b]
      /\ held' = held \union {p}
      /\ UNCHANGED <<pool, lock, op, batch, stage, retire>>
  BY DEF AllocCached, TakeCached
<1>3. /\ p \in Block /\ p[2] = b /\ OutIsLive(p)
      /\ cache' = [cache EXCEPT ![t][b] = @ \ {p}]
      /\ cache' \in [Thread -> [Bucket -> SUBSET Block]]
      /\ count' \in [Thread -> [Bucket -> Nat]]
      /\ \A s \in Thread : \A d \in Bucket : IsFiniteSet(cache'[s][d])
      /\ CountExact'
  BY <1>2, TakeCachedStep
<1>4. PoolInv' /\ \A q : OutIsLive(q)' <=> OutIsLive(q)
  BY <1>1, <1>2, PoolUnchanged
<1>5. OwnerTypeOK'
  BY <1>1, <1>2, <1>3 DEF OwnerTypeOK
<1>6. LockedStages' /\ CachesFinite'
  BY <1>1, <1>2, <1>3 DEF LockedStages, CachesFinite
<1>7. ControlShape'
  BY <1>1, <1>2, <1>3 DEF ControlShape, OwnerTypeOK
<1>8. OneOwner'
  BY <1>1, <1>2, <1>3 DEF OneOwner, OwnerTypeOK, NoDanglingBlock
<1>9. NoDanglingBlock'
  BY <1>1, <1>2, <1>3, <1>4 DEF NoDanglingBlock, OwnerTypeOK
<1>10. QED
  BY <1>3, <1>4, <1>5, <1>6, <1>7, <1>8, <1>9, IInvPartsPrime DEF OwnerInv

LEMMA ReallocCachedInv ==
  ASSUME IInv, NEW t \in Thread, NEW b \in Bucket, NEW p, NEW r \in held,
         ReallocCached(t, b, p, r)
  PROVE  IInv'
<1>1. /\ OwnerTypeOK /\ LockedStages /\ ControlShape /\ CachesFinite /\ OneOwner
      /\ PoolInv /\ NoDanglingBlock
  BY IInvParts DEF OwnerInv
<1>2. /\ TakeCached(t, b, p) /\ p \in cache[t][b] /\ stage[t] = "idle"
      /\ held' = (held \ {r}) \union {p}
      /\ retire' = [retire EXCEPT ![t] = r]
      /\ stage' = [stage EXCEPT ![t] = "retire"]
      /\ UNCHANGED <<pool, lock, op, batch>>
  BY DEF ReallocCached, TakeCached
<1>3. /\ p \in Block /\ p[2] = b /\ OutIsLive(p)
      /\ cache' = [cache EXCEPT ![t][b] = @ \ {p}]
      /\ cache' \in [Thread -> [Bucket -> SUBSET Block]]
      /\ count' \in [Thread -> [Bucket -> Nat]]
      /\ \A s \in Thread : \A d \in Bucket : IsFiniteSet(cache'[s][d])
      /\ CountExact'
  BY <1>2, TakeCachedStep
<1>4. PoolInv' /\ \A q : OutIsLive(q)' <=> OutIsLive(q)
  BY <1>1, <1>2, PoolUnchanged
<1>5. r \in Block /\ r # NoBlock /\ OutIsLive(r)
  BY <1>1, BlockAssumption DEF OwnerTypeOK, Block, NoDanglingBlock
<1>6. OwnerTypeOK'
  BY <1>1, <1>2, <1>3, <1>5 DEF OwnerTypeOK, Stage
<1>7. LockedStages' /\ CachesFinite'
  BY <1>1, <1>2, <1>3 DEF LockedStages, CachesFinite, Locked, OwnerTypeOK
<1>8. ControlShape'
  BY <1>1, <1>2, <1>3, <1>5 DEF ControlShape, OwnerTypeOK
<1>9. retire[t] = NoBlock
  BY <1>1, <1>2 DEF ControlShape
<1>10. OneOwner'
  BY <1>1, <1>2, <1>3, <1>5, <1>9 DEF OneOwner, OwnerTypeOK, NoDanglingBlock
<1>11. NoDanglingBlock'
  BY <1>1, <1>2, <1>3, <1>4, <1>5 DEF NoDanglingBlock, OwnerTypeOK
<1>12. QED
  BY <1>3, <1>4, <1>6, <1>7, <1>8, <1>10, <1>11, IInvPartsPrime DEF OwnerInv

LEMMA ReallocRefillInv ==
  ASSUME IInv, NEW t \in Thread, NEW b \in Bucket, NEW r \in held,
         ReallocRefill(t, b, r)
  PROVE  IInv'
<1>1. /\ OwnerTypeOK /\ LockedStages /\ ControlShape /\ CachesFinite /\ OneOwner
      /\ PoolInv /\ NoDanglingBlock /\ CountExact
  BY IInvParts DEF OwnerInv
<1>2. /\ stage[t] = "idle" /\ count[t][b] = 0
      /\ stage' = [stage EXCEPT ![t] = "refill"]
      /\ op' = [op EXCEPT ![t] = b]
      /\ retire' = [retire EXCEPT ![t] = r]
      /\ held' = held \ {r}
      /\ UNCHANGED <<pool, lock, cache, count, batch>>
  BY DEF ReallocRefill, StartRefill, local
<1>3. IsFiniteSet(cache[t][b]) /\ Cardinality(cache[t][b]) = 0
  BY <1>1, <1>2 DEF CachesFinite, CountExact
<1>4. cache[t][b] = {}
  BY <1>3, FS_EmptySet
<1>5. PoolInv' /\ \A q : OutIsLive(q)' <=> OutIsLive(q)
  BY <1>1, <1>2, PoolUnchanged
<1>6. r \in Block /\ r # NoBlock /\ OutIsLive(r) /\ retire[t] = NoBlock
  <2>1. r \in Block /\ r # NoBlock
    BY <1>1, BlockAssumption DEF OwnerTypeOK, Block
  <2>2. OutIsLive(r)
    BY <1>1 DEF NoDanglingBlock
  <2>3. retire[t] = NoBlock
    BY <1>1, <1>2 DEF ControlShape
  <2>4. QED
    BY <2>1, <2>2, <2>3
<1>7. OwnerTypeOK'
  BY <1>1, <1>2, <1>6 DEF OwnerTypeOK, Stage
<1>8. LockedStages' /\ CachesFinite' /\ CountExact'
  BY <1>1, <1>2 DEF LockedStages, CachesFinite, CountExact, Locked, OwnerTypeOK
<1>9. ControlShape'
  BY <1>1, <1>2, <1>4, <1>6 DEF ControlShape, OwnerTypeOK
<1>10. OneOwner'
  BY <1>1, <1>2, <1>6 DEF OneOwner, OwnerTypeOK
<1>11. NoDanglingBlock'
  BY <1>1, <1>2, <1>5, <1>6 DEF NoDanglingBlock, OwnerTypeOK
<1>12. QED
  BY <1>5, <1>7, <1>8, <1>9, <1>10, <1>11, IInvPartsPrime DEF OwnerInv

(* PopBatch adds to its batch a block that nobody owned.                   *)
LEMMA BatchGrows ==
  ASSUME IInv, PoolInv', NEW t \in Thread, NEW p \in Block, p[2] = op[t],
         ~OutIsLive(p), OutIsLive(p)',
         \A q \in Block : OutIsLive(q) => OutIsLive(q)',
         stage[t] \in {"pop", "carve"},
         NEW u \in {"pop", "carve"}, stage' = [stage EXCEPT ![t] = u],
         batch' = [batch EXCEPT ![t] = @ \union {p}],
         UNCHANGED <<lock, local, op, retire, held>>
  PROVE  IInv'
<1>1. /\ OwnerTypeOK /\ LockedStages /\ ControlShape /\ CachesFinite /\ OneOwner
      /\ CountExact /\ NoDanglingBlock /\ UNCHANGED <<cache, count>>
  BY IInvParts DEF OwnerInv, local
<1>2. IsFiniteSet(batch[t] \union {p})
  BY <1>1, FS_AddElement DEF CachesFinite
<1>3. OwnerTypeOK'
  BY <1>1 DEF OwnerTypeOK, Stage
<1>4. LockedStages' /\ CountExact'
  BY <1>1 DEF LockedStages, CountExact, OwnerTypeOK, Locked
<1>5. CachesFinite'
  BY <1>1, <1>2 DEF CachesFinite, OwnerTypeOK
<1>6. ControlShape'
  BY <1>1 DEF ControlShape, OwnerTypeOK
<1>7. /\ p \notin held
      /\ \A s \in Thread : p # retire[s] /\ p \notin batch[s]
      /\ \A s \in Thread : \A b \in Bucket : p \notin cache[s][b]
  BY <1>1, BlockAssumption DEF NoDanglingBlock, Block
<1>8. OneOwner'
  BY <1>1, <1>7 DEF OneOwner, OwnerTypeOK
<1>9. NoDanglingBlock'
  BY <1>1 DEF NoDanglingBlock, OwnerTypeOK
<1>10. QED
  BY <1>3, <1>4, <1>5, <1>6, <1>8, <1>9, IInvPartsPrime DEF OwnerInv

LEMMA PopFreeInv ==
  ASSUME IInv, NEW t \in Thread, NEW c, NEW i, PopFree(t, c, i)
  PROVE  IInv'
<1> DEFINE p == <<c, op[t], i>>
<1>1. PoolInv /\ op[t] \in Bucket
  BY IInvParts DEF OwnerInv, OwnerTypeOK
<1>2. /\ PoolInv' /\ p \in Block /\ ~OutIsLive(p) /\ OutIsLive(p)'
      /\ \A q \in Block : OutIsLive(q) => OutIsLive(q)'
  BY <1>1, PopFreeStep
<1>3. p[2] = op[t]
  OBVIOUS
<1>4. PICK u \in {"pop", "carve"} : stage' = [stage EXCEPT ![t] = u]
  BY DEF PopFree
<1>5. /\ stage[t] \in {"pop", "carve"}
      /\ batch' = [batch EXCEPT ![t] = @ \union {p}]
      /\ UNCHANGED <<lock, local, op, retire, held>>
  BY DEF PopFree
<1>6. QED
  BY <1>2, <1>3, <1>4, <1>5, BatchGrows

LEMMA CarveBlockInv ==
  ASSUME IInv, NEW t \in Thread, CarveBlock(t)
  PROVE  IInv'
<1>1. PoolInv /\ op[t] \in Bucket
  BY IInvParts DEF OwnerInv, OwnerTypeOK
<1>2. PoolInv' /\ \A q \in Block : OutIsLive(q) => OutIsLive(q)'
  BY <1>1, CarveBlockStep
<1>3. PICK p \in Block : /\ p[2] = op[t] /\ ~OutIsLive(p) /\ OutIsLive(p)'
                         /\ batch' = [batch EXCEPT ![t] = @ \union {p}]
  BY <1>1, CarveBlockStep
<1>4. PICK u \in {"pop", "carve"} : stage' = [stage EXCEPT ![t] = u]
  BY DEF CarveBlock
<1>5. stage[t] \in {"pop", "carve"} /\ UNCHANGED <<lock, local, op, retire, held>>
  BY DEF CarveBlock
<1>6. QED
  BY <1>2, <1>3, <1>4, <1>5, BatchGrows

LEMMA CarveSlabInv ==
  ASSUME IInv, NEW t \in Thread, NEW c, CarveSlab(t, c)
  PROVE  IInv'
<1>1. PoolInv /\ OwnerInv /\ NoDanglingBlock /\ op[t] \in Bucket
  BY IInvParts DEF OwnerInv, OwnerTypeOK
<1>2. PoolInv' /\ \A q \in Block : OutIsLive(q) => OutIsLive(q)'
  BY <1>1, CarveSlabStep
<1>3. UNCHANGED <<lock, cache, count, stage, op, batch, retire, held>>
  BY DEF CarveSlab, local, control
<1>4. OwnerInv'
  BY <1>1, <1>3 DEF OwnerInv, OwnerTypeOK, LockedStages, ControlShape,
                    CachesFinite, CountExact, OneOwner
<1>5. NoDanglingBlock'
  BY <1>1, <1>2, <1>3 DEF NoDanglingBlock, OwnerInv, OwnerTypeOK
<1>6. QED
  BY <1>2, <1>4, <1>5, IInvPartsPrime

(* The refill's blocks are distributed: one to the program, the others to  *)
(* the cache, which was empty.                                             *)
LEMMA DeliverInv ==
  ASSUME IInv, NEW t \in Thread, NEW p, Deliver(t, p)
  PROVE  IInv'
<1> DEFINE b == op[t]
           rest == batch[t] \ {p}
<1>1. /\ OwnerTypeOK /\ LockedStages /\ ControlShape /\ CachesFinite /\ OneOwner
      /\ CountExact /\ PoolInv /\ NoDanglingBlock /\ b \in Bucket
  BY IInvParts DEF OwnerInv, OwnerTypeOK
<1>2. PICK u \in {"idle", "retire"} :
        /\ u = "retire" <=> retire[t] # NoBlock
        /\ stage' = [stage EXCEPT ![t] = u]
  BY DEF Deliver, Unlock
<1>3. /\ stage[t] \in {"pop", "carve"} /\ p \in batch[t] /\ p \in Block
      /\ cache' = [cache EXCEPT ![t][b] = rest]
      /\ count' = [count EXCEPT ![t][b] = Cardinality(batch[t]) - 1]
      /\ held' = held \union {p}
      /\ batch' = [batch EXCEPT ![t] = {}]
      /\ lock' = NoThread
      /\ UNCHANGED <<pool, op, retire>>
  BY <1>1 DEF Deliver, Unlock, OwnerTypeOK
<1>4. /\ IsFiniteSet(rest) /\ Cardinality(rest) = Cardinality(batch[t]) - 1
      /\ Cardinality(rest) \in Nat
  BY <1>1, <1>3, FS_RemoveElement, FS_CardinalityType DEF CachesFinite
<1>5. PoolInv' /\ \A q : OutIsLive(q)' <=> OutIsLive(q)
  BY <1>1, <1>3, PoolUnchanged
<1>6. OwnerTypeOK'
  BY <1>1, <1>2, <1>3, <1>4 DEF OwnerTypeOK, Stage
<1>7. LockedStages'
  BY <1>1, <1>2, <1>3, ThreadAssumption DEF LockedStages, OwnerTypeOK, Locked
<1>8. CachesFinite'
  BY <1>1, <1>3, <1>4, FS_EmptySet DEF CachesFinite, OwnerTypeOK
<1>9. CountExact'
  <2>1. SUFFICES ASSUME NEW s \in Thread, NEW d \in Bucket
                 PROVE  count'[s][d] = Cardinality(cache'[s][d])
    BY DEF CountExact
  <2>2. CASE s = t /\ d = b
    BY <1>1, <1>3, <1>4, <2>2 DEF OwnerTypeOK
  <2>3. CASE ~(s = t /\ d = b)
    <3>1. count'[s][d] = count[s][d] /\ cache'[s][d] = cache[s][d]
      BY <1>1, <1>3, <2>3 DEF OwnerTypeOK
    <3>2. QED
      BY <1>1, <3>1 DEF CountExact
  <2>4. QED
    BY <2>2, <2>3
<1>10. ControlShape'
  BY <1>1, <1>2, <1>3 DEF ControlShape, OwnerTypeOK
<1>11. \A q \in rest : q \in batch[t] /\ q # p /\ q[2] = b
  BY <1>1 DEF ControlShape
<1>12. OneOwner'
  BY <1>1, <1>3, <1>11 DEF OneOwner, OwnerTypeOK
<1>13. NoDanglingBlock'
  BY <1>1, <1>3, <1>5, <1>11 DEF NoDanglingBlock, OwnerTypeOK
<1>14. QED
  BY <1>5, <1>6, <1>7, <1>8, <1>9, <1>10, <1>12, <1>13, IInvPartsPrime DEF OwnerInv

LEMMA AllocFailsInv ==
  ASSUME IInv, NEW t \in Thread, AllocFails(t)
  PROVE  IInv'
<1>1. /\ OwnerTypeOK /\ LockedStages /\ ControlShape /\ CachesFinite /\ OneOwner
      /\ CountExact /\ PoolInv /\ NoDanglingBlock
  BY IInvParts DEF OwnerInv
<1>2. /\ stage[t] = "carve" /\ batch[t] = {}
      /\ held' = held \union ({retire[t]} \ {NoBlock})
      /\ retire' = [retire EXCEPT ![t] = NoBlock]
      /\ stage' = [stage EXCEPT ![t] = "idle"]
      /\ lock' = NoThread
      /\ UNCHANGED <<pool, cache, count, op, batch>>
  BY DEF AllocFails, OutOfMemory, Unlock, local
<1>3. PoolInv' /\ \A q : OutIsLive(q)' <=> OutIsLive(q)
  BY <1>1, <1>2, PoolUnchanged
<1>4. OwnerTypeOK'
  BY <1>1, <1>2 DEF OwnerTypeOK, Stage
<1>5. LockedStages' /\ CachesFinite' /\ CountExact'
  BY <1>1, <1>2, ThreadAssumption
     DEF LockedStages, CachesFinite, CountExact, OwnerTypeOK, Locked
<1>6. ControlShape'
  BY <1>1, <1>2 DEF ControlShape, OwnerTypeOK
<1>7. OneOwner'
  <2>1. CASE retire[t] = NoBlock
    <3>1. held' = held /\ retire' = retire
      BY <1>1, <1>2, <2>1 DEF OwnerTypeOK
    <3>2. QED
      BY <1>1, <1>2, <3>1 DEF OneOwner
  <2>2. CASE retire[t] # NoBlock
    <3>1. held' = held \union {retire[t]}
      BY <1>2, <2>2
    <3>2. \A s \in Thread : retire'[s] = IF s = t THEN NoBlock ELSE retire[s]
      BY <1>1, <1>2 DEF OwnerTypeOK
    <3>3. \A s \in Thread : \A q \in batch[s] : q # retire[t]
      BY <1>1 DEF OneOwner
    <3>4. \A s \in Thread : \A b \in Bucket : \A q \in cache[s][b] : q # retire[t]
      BY <1>1 DEF OneOwner
    <3>5. \A s \in Thread : retire'[s] # NoBlock =>
            /\ retire'[s] \notin held'
            /\ \A r \in Thread : r # s => retire'[r] # retire'[s]
      BY <1>1, <3>1, <3>2 DEF OneOwner
    <3>6. QED
      BY <1>1, <1>2, <2>2, <3>1, <3>2, <3>3, <3>4, <3>5, BlockAssumption
         DEF OneOwner, OwnerTypeOK, Block
  <2>3. QED
    BY <2>1, <2>2
<1>8. NoDanglingBlock'
  BY <1>1, <1>2, <1>3 DEF NoDanglingBlock, OwnerTypeOK
<1>9. QED
  BY <1>3, <1>4, <1>5, <1>6, <1>7, <1>8, IInvPartsPrime DEF OwnerInv

(* Pushing a block that nobody owns any more.                              *)
LEMMA RetireOldInv ==
  ASSUME IInv, NEW t \in Thread, RetireOld(t)
  PROVE  IInv'
<1>1. /\ OwnerTypeOK /\ LockedStages /\ ControlShape /\ CachesFinite /\ OneOwner
      /\ CountExact /\ PoolInv /\ NoDanglingBlock
  BY IInvParts DEF OwnerInv
<1>2. PICK r : r = retire[t]
  OBVIOUS
<1>3. /\ stage[t] = "retire" /\ Push(r[2], r)
      /\ retire' = [retire EXCEPT ![t] = NoBlock]
      /\ stage' = [stage EXCEPT ![t] = "idle"]
      /\ UNCHANGED <<lock, cache, count, op, batch, held>>
  BY <1>2 DEF RetireOld, local
<1>4. r \in Block /\ OutIsLive(r)
  BY <1>1, <1>2, <1>3 DEF ControlShape, OwnerTypeOK, NoDanglingBlock
<1>5. PoolInv' /\ \A q \in Block : q # r /\ OutIsLive(q) => OutIsLive(q)'
  BY <1>1, <1>3, <1>4, PushStep
<1>6. OwnerTypeOK'
  BY <1>1, <1>3 DEF OwnerTypeOK, Stage
<1>7. LockedStages' /\ CachesFinite' /\ CountExact'
  BY <1>1, <1>3 DEF LockedStages, CachesFinite, CountExact, OwnerTypeOK, Locked
<1>8. ControlShape'
  BY <1>1, <1>3 DEF ControlShape, OwnerTypeOK
<1>9. r # NoBlock /\ \A s \in Thread : retire'[s] # NoBlock => s # t /\ retire'[s] = retire[s]
  BY <1>1, <1>3, <1>4, BlockAssumption DEF OwnerTypeOK, Block
<1>10. OneOwner'
  BY <1>1, <1>3, <1>9, BlockAssumption DEF OneOwner, OwnerTypeOK, Block
<1>11. /\ r \notin held
       /\ \A s \in Thread : retire'[s] # r /\ r \notin batch[s]
       /\ \A s \in Thread : \A b \in Bucket : r \notin cache[s][b]
  BY <1>1, <1>2, <1>9 DEF OneOwner
<1>12. NoDanglingBlock'
  BY <1>1, <1>3, <1>5, <1>9, <1>11 DEF NoDanglingBlock, OwnerTypeOK
<1>13. QED
  BY <1>5, <1>6, <1>7, <1>8, <1>10, <1>12, IInvPartsPrime DEF OwnerInv

LEMMA FreeLockedInv ==
  ASSUME IInv, NEW t \in Thread, NEW p \in held, FreeLocked(t, p)
  PROVE  IInv'
<1>1. /\ OwnerInv /\ OwnerTypeOK /\ LockedStages /\ ControlShape /\ CachesFinite
      /\ OneOwner /\ CountExact /\ PoolInv /\ NoDanglingBlock
  BY IInvParts DEF OwnerInv
<1>2. /\ Push(p[2], p) /\ held' = held \ {p}
      /\ UNCHANGED <<lock, cache, count, stage, op, batch, retire>>
  BY DEF FreeLocked, local, control
<1>3. p \in Block /\ OutIsLive(p)
  BY <1>1 DEF OwnerTypeOK, NoDanglingBlock
<1>4. PoolInv' /\ \A q \in Block : q # p /\ OutIsLive(q) => OutIsLive(q)'
  BY <1>1, <1>2, <1>3, PushStep
<1>5. OwnerInv'
  BY <1>1, <1>2 DEF OwnerInv, OwnerTypeOK, LockedStages, ControlShape,
                    CachesFinite, CountExact, OneOwner
<1>6. /\ \A s \in Thread : retire[s] # p /\ p \notin batch[s]
      /\ \A s \in Thread : \A b \in Bucket : p \notin cache[s][b]
  BY <1>1, <1>3, BlockAssumption DEF OneOwner, Block
<1>7. NoDanglingBlock'
  BY <1>1, <1>2, <1>4, <1>6 DEF NoDanglingBlock, OwnerTypeOK
<1>8. QED
  BY <1>4, <1>5, <1>7, IInvPartsPrime

(* The freed block moves from the program to the freeing thread's cache.   *)
LEMMA FreeCachedInv ==
  ASSUME IInv, NEW t \in Thread, NEW p \in held, FreeCached(t, p)
  PROVE  IInv'
<1>1. /\ OwnerTypeOK /\ LockedStages /\ ControlShape /\ CachesFinite /\ OneOwner
      /\ CountExact /\ PoolInv /\ NoDanglingBlock
  BY IInvParts DEF OwnerInv
<1>2. p \in Block /\ OutIsLive(p)
  BY <1>1 DEF OwnerTypeOK, NoDanglingBlock
<1>3. PICK b \in Bucket : b = p[2]
  BY <1>2 DEF Block
<1>4. /\ stage[t] = "idle"
      /\ held' = held \ {p}
      /\ cache' = [cache EXCEPT ![t][b] = @ \union {p}]
      /\ count' = [count EXCEPT ![t][b] = @ + 1]
      /\ UNCHANGED <<pool, lock, batch, retire>>
  BY <1>3 DEF FreeCached
<1>5. PICK u \in {"idle", "drain"} : stage' = [stage EXCEPT ![t] = u]
  BY <1>3 DEF FreeCached
<1>6. op' \in [Thread -> Bucket] /\ \A s \in Thread : s # t => op'[s] = op[s]
  BY <1>1, <1>3 DEF FreeCached, OwnerTypeOK
<1>7. p \notin cache[t][b]
  BY <1>1 DEF OneOwner
<1>8. /\ IsFiniteSet(cache[t][b] \union {p})
      /\ Cardinality(cache[t][b] \union {p}) = count[t][b] + 1
  BY <1>1, <1>7, FS_AddElement DEF CachesFinite, CountExact
<1>9. PoolInv' /\ \A q : OutIsLive(q)' <=> OutIsLive(q)
  BY <1>1, <1>4, PoolUnchanged
<1>10. OwnerTypeOK'
  <2>1. cache' \in [Thread -> [Bucket -> SUBSET Block]]
    BY <1>1, <1>2, <1>4 DEF OwnerTypeOK
  <2>2. count' \in [Thread -> [Bucket -> Nat]]
    BY <1>1, <1>4 DEF OwnerTypeOK
  <2>3. stage' \in [Thread -> Stage]
    BY <1>1, <1>5 DEF OwnerTypeOK, Stage
  <2>4. QED
    BY <1>1, <1>4, <1>6, <2>1, <2>2, <2>3 DEF OwnerTypeOK
<1>11. LockedStages'
  BY <1>1, <1>4, <1>5 DEF LockedStages, OwnerTypeOK, Locked
<1>12. CachesFinite'
  BY <1>1, <1>4, <1>8 DEF CachesFinite, OwnerTypeOK
<1>13. CountExact'
  <2>1. SUFFICES ASSUME NEW s \in Thread, NEW d \in Bucket
                 PROVE  count'[s][d] = Cardinality(cache'[s][d])
    BY DEF CountExact
  <2>2. CASE s = t /\ d = b
    BY <1>1, <1>4, <1>8, <2>2 DEF OwnerTypeOK
  <2>3. CASE ~(s = t /\ d = b)
    <3>1. count'[s][d] = count[s][d] /\ cache'[s][d] = cache[s][d]
      BY <1>1, <1>4, <2>3 DEF OwnerTypeOK
    <3>2. QED
      BY <1>1, <3>1 DEF CountExact
  <2>4. QED
    BY <2>2, <2>3
<1>14. ControlShape'
  BY <1>1, <1>4, <1>5, <1>6 DEF ControlShape, OwnerTypeOK
<1>15. \A s \in Thread : p # retire[s] /\ p \notin batch[s]
  BY <1>1, <1>2, BlockAssumption DEF OneOwner, Block
<1>16. \A s \in Thread : \A d \in Bucket : p \notin cache[s][d]
  BY <1>1 DEF OneOwner
<1>17. OneOwner'
  BY <1>1, <1>2, <1>3, <1>4, <1>15, <1>16 DEF OneOwner, OwnerTypeOK, NoDanglingBlock
<1>18. NoDanglingBlock'
  BY <1>1, <1>2, <1>3, <1>4, <1>9 DEF NoDanglingBlock, OwnerTypeOK
<1>19. QED
  BY <1>9, <1>10, <1>11, <1>12, <1>13, <1>14, <1>17, <1>18, IInvPartsPrime DEF OwnerInv

(* A cached block goes back to the pool.                                   *)
LEMMA UncacheInv ==
  ASSUME IInv, NEW t \in Thread, NEW b \in Bucket, NEW p, Uncache(t, b, p),
         stage[t] \in {"push", "flush"}
  PROVE  IInv'
<1>1. /\ OwnerTypeOK /\ LockedStages /\ ControlShape /\ CachesFinite /\ OneOwner
      /\ CountExact /\ PoolInv /\ NoDanglingBlock
  BY IInvParts DEF OwnerInv
<1>2. /\ p \in cache[t][b] /\ Push(b, p)
      /\ cache' = [cache EXCEPT ![t][b] = @ \ {p}]
      /\ count' = [count EXCEPT ![t][b] = @ - 1]
      /\ UNCHANGED <<lock, stage, op, batch, retire, held>>
  BY DEF Uncache, control
<1>3. p \in Block /\ p[2] = b /\ OutIsLive(p)
  BY <1>1, <1>2 DEF OwnerTypeOK, NoDanglingBlock
<1>4. PoolInv' /\ \A q \in Block : q # p /\ OutIsLive(q) => OutIsLive(q)'
  BY <1>1, <1>2, <1>3, PushStep
<1>5. /\ IsFiniteSet(cache[t][b] \ {p})
      /\ Cardinality(cache[t][b] \ {p}) = count[t][b] - 1
      /\ count[t][b] - 1 \in Nat
  <2>1. IsFiniteSet(cache[t][b]) /\ count[t][b] = Cardinality(cache[t][b])
    BY <1>1 DEF CachesFinite, CountExact
  <2>2. /\ IsFiniteSet(cache[t][b] \ {p})
        /\ Cardinality(cache[t][b] \ {p}) = count[t][b] - 1
    BY <1>2, <2>1, FS_RemoveElement
  <2>3. QED
    BY <2>2, FS_CardinalityType
<1>6. OwnerTypeOK'
  BY <1>1, <1>2, <1>5 DEF OwnerTypeOK
<1>7. LockedStages'
  BY <1>1, <1>2 DEF LockedStages
<1>8. CachesFinite'
  BY <1>1, <1>2, <1>5 DEF CachesFinite, OwnerTypeOK
<1>9. CountExact'
  <2>1. SUFFICES ASSUME NEW s \in Thread, NEW d \in Bucket
                 PROVE  count'[s][d] = Cardinality(cache'[s][d])
    BY DEF CountExact
  <2>2. CASE s = t /\ d = b
    BY <1>1, <1>2, <1>5, <2>2 DEF OwnerTypeOK
  <2>3. CASE ~(s = t /\ d = b)
    <3>1. count'[s][d] = count[s][d] /\ cache'[s][d] = cache[s][d]
      BY <1>1, <1>2, <2>3 DEF OwnerTypeOK
    <3>2. QED
      BY <1>1, <3>1 DEF CountExact
  <2>4. QED
    BY <2>2, <2>3
<1>10. ControlShape'
  BY <1>1, <1>2 DEF ControlShape, OwnerTypeOK
<1>11. \A s \in Thread : \A d \in Bucket : cache'[s][d] \subseteq cache[s][d]
  BY <1>1, <1>2 DEF OwnerTypeOK
<1>12. OneOwner'
  BY <1>1, <1>2, <1>11 DEF OneOwner
<1>13. /\ p \notin held
       /\ \A s \in Thread : p # retire[s] /\ p \notin batch[s]
  BY <1>1, <1>2 DEF OneOwner
<1>14. \A s \in Thread : \A d \in Bucket : p \notin cache'[s][d]
  BY <1>1, <1>2, <1>3 DEF OneOwner, OwnerTypeOK, NoDanglingBlock
<1>15. NoDanglingBlock'
  BY <1>1, <1>2, <1>4, <1>11, <1>13, <1>14 DEF NoDanglingBlock, OwnerTypeOK
<1>16. QED
  BY <1>4, <1>6, <1>7, <1>8, <1>9, <1>10, <1>12, <1>15, IInvPartsPrime DEF OwnerInv

LEMMA ThreadStartInv ==
  ASSUME IInv, NEW t \in Thread, ThreadStart(t)
  PROVE  IInv'
<1>1. /\ OwnerTypeOK /\ LockedStages /\ ControlShape /\ CachesFinite /\ OneOwner
      /\ CountExact /\ PoolInv /\ NoDanglingBlock
  BY IInvParts DEF OwnerInv
<1>2. /\ stage[t] = "gone"
      /\ stage' = [stage EXCEPT ![t] = "idle"]
      /\ cache' = [cache EXCEPT ![t] = [b \in Bucket |-> {}]]
      /\ count' = [count EXCEPT ![t] = [b \in Bucket |-> 0]]
      /\ UNCHANGED <<pool, lock, op, batch, retire, held>>
  BY DEF ThreadStart
<1>3. PoolInv' /\ \A q : OutIsLive(q)' <=> OutIsLive(q)
  BY <1>1, <1>2, PoolUnchanged
<1>4. \A s \in Thread : \A d \in Bucket :
        /\ s = t => cache'[s][d] = {} /\ count'[s][d] = 0
        /\ s # t => cache'[s][d] = cache[s][d] /\ count'[s][d] = count[s][d]
  BY <1>1, <1>2 DEF OwnerTypeOK
<1>5. OwnerTypeOK'
  BY <1>1, <1>2 DEF OwnerTypeOK, Stage
<1>6. LockedStages'
  BY <1>1, <1>2 DEF LockedStages, OwnerTypeOK, Locked
<1>7. CachesFinite'
  BY <1>1, <1>2, <1>4, FS_EmptySet DEF CachesFinite
<1>8. CountExact'
  BY <1>1, <1>4, FS_EmptySet, SMTT(30) DEF CountExact
<1>9. ControlShape'
  BY <1>1, <1>2, <1>4 DEF ControlShape, OwnerTypeOK
<1>10. OneOwner'
  BY <1>1, <1>2, <1>4 DEF OneOwner
<1>11. NoDanglingBlock'
  BY <1>1, <1>2, <1>3, <1>4 DEF NoDanglingBlock
<1>12. QED
  BY <1>3, <1>5, <1>6, <1>7, <1>8, <1>9, <1>10, <1>11, IInvPartsPrime DEF OwnerInv

-----------------------------------------------------------------------------
(* The inductive invariant.                                                *)

LEMMA InitInv == Init => IInv
<1>1. SUFFICES ASSUME Init PROVE IInv
  OBVIOUS
<1>2. AnyBucket \in Bucket
  BY BucketAssumption DEF AnyBucket
<1>3. IsFiniteSet({}) /\ Cardinality({}) = 0
  BY FS_EmptySet
<1>4. TypeOK
  BY <1>1, <1>2 DEF Init, TypeOK, Stage
<1>5. LockedStages /\ ControlShape
  BY <1>1, ThreadAssumption DEF Init, LockedStages, ControlShape, Locked
<1>6. SlabShape /\ PartialExact
  BY <1>1 DEF Init, SlabShape, PartialExact
<1>7. CachesFinite
  BY <1>1, <1>3 DEF Init, CachesFinite
<1>8. CountersExact
  BY <1>1, <1>3 DEF Init, CountersExact
<1>9. NoDanglingBlock /\ OneOwner
  BY <1>1 DEF Init, NoDanglingBlock, OneOwner
<1>10. QED
  BY <1>4, <1>5, <1>6, <1>7, <1>8, <1>9 DEF IInv

LEMMA NextInv == IInv /\ [Next]_vars => IInv'
<1>1. SUFFICES ASSUME IInv, [Next]_vars PROVE IInv'
  OBVIOUS
<1>2. CASE UNCHANGED vars
  BY <1>1, <1>2 DEF vars, pool, local, control, IInv, TypeOK, LockedStages,
     ControlShape, SlabShape, CachesFinite, CountersExact, PartialExact,
     NoDanglingBlock, OutIsLive, OneOwner
<1>3. ASSUME NEW t \in Thread, Request(t) PROVE IInv'
  <2>1. cache[t] \in [Bucket -> SUBSET Block]
    BY <1>1 DEF IInv, TypeOK
  <2>2. QED
    BY <1>1, <1>3, <2>1, AllocRefillInv, ReallocRefillInv, AllocCachedInv,
       ReallocCachedInv, FreeCachedInv, FreeLockedInv, ThreadExitInv, ThreadStartInv
       DEF Request
<1>4. ASSUME NEW t \in Thread, Acquire(t) PROVE IInv'
  BY <1>1, <1>4, LockRefillInv, LockDrainInv, RetireOldInv DEF Acquire
<1>5. ASSUME NEW t \in Thread, Holder(t) PROVE IInv'
  <2>1. op[t] \in Bucket
    BY <1>1 DEF IInv, TypeOK
  <2>2. CASE \E c \in slabs : \E i \in chain[c] : PopFree(t, c, i)
    BY <1>1, <2>2, PopFreeInv
  <2>3. CASE PopNone(t) \/ DrainDone(t) \/ FlushDone(t) \/ CarveBlock(t) \/ AllocFails(t)
    BY <1>1, <2>3, PopNoneInv, DrainDoneInv, FlushDoneInv, CarveBlockInv, AllocFailsInv
  <2>4. CASE \E c \in Chunk : CarveSlab(t, c)
    BY <1>1, <2>4, CarveSlabInv
  <2>5. CASE \E p \in batch[t] : DeliverFull(t, p) \/ DeliverShort(t, p)
    BY <1>1, <2>5, DeliverInv DEF DeliverFull, DeliverShort
  <2>6. CASE \E p \in cache[t][op[t]] : DrainOne(t, p)
    BY <1>1, <2>1, <2>6, UncacheInv DEF DrainOne
  <2>7. CASE \E b \in Bucket : \E p \in cache[t][b] : FlushOne(t, b, p)
    BY <1>1, <2>7, UncacheInv DEF FlushOne
  <2>8. QED
    BY <1>5, <2>2, <2>3, <2>4, <2>5, <2>6, <2>7 DEF Holder
<1>6. QED
  BY <1>1, <1>2, <1>3, <1>4, <1>5 DEF Next

(* The inductive invariant holds throughout: locking, control, slabs,      *)
(* caches, counters and owners agree in every state of CSmallBlockAlloc.   *)
THEOREM Invariance == Spec => []IInv
BY InitInv, NextInv, PTL DEF Spec

-----------------------------------------------------------------------------
(* What follows for every execution.                                       *)

(* Every variable of the allocator keeps its type.                         *)
THEOREM TypeCorrect == Spec => []TypeOK
<1>1. IInv => TypeOK
  BY DEF IInv
<1>2. QED
  BY <1>1, Invariance, PTL

(* A slab is never destroyed while a block of it is with the program, in   *)
(* the cache of any thread or in a refill (Push and DestroySlab against    *)
(* AllocSBA and TLSFree).                                                  *)
THEOREM NoDangling == Spec => []NoDanglingBlock
<1>1. IInv => NoDanglingBlock
  BY DEF IInv
<1>2. QED
  BY <1>1, Invariance, PTL

(* No block is with two owners: AllocSBA never returns memory that another *)
(* thread has, has cached, or is moving.                                   *)
THEOREM Ownership == Spec => []OneOwner
<1>1. IInv => OneOwner
  BY DEF IInv
<1>2. QED
  BY <1>1, Invariance, PTL

(* SBASlab::freeCount and TLSFreeBucket::count always tell the lengths of  *)
(* their chains.                                                           *)
THEOREM Counters == Spec => []CountersExact
<1>1. IInv => CountersExact
  BY DEF IInv
<1>2. QED
  BY <1>1, Invariance, PTL

(* The list m_partial of a bucket links exactly its slabs with free blocks.*)
THEOREM PartialLists == Spec => []PartialExact
<1>1. IInv => PartialExact
  BY DEF IInv
<1>2. QED
  BY <1>1, Invariance, PTL

-----------------------------------------------------------------------------
(* The allocator implements BlockStore.                                    *)

LEMMA HeldIsLive ==
  ASSUME IInv, NEW q \in ProgramHeld
  PROVE  /\ q \in Block /\ OutIsLive(q)
         /\ q = <<q[1], q[2], q[3]>>
         /\ q[1] \in Chunk /\ q[2] \in Bucket /\ q[3] \in 1 .. Capacity[q[2]]
<1>1. q \in Block /\ OutIsLive(q)
  BY DEF ProgramHeld, Retiring, IInv, TypeOK, NoDanglingBlock
<1>2. q = <<q[1], q[2], q[3]>> /\ q[1] \in Chunk /\ q[2] \in Bucket /\ q[3] \in Nat
  BY <1>1 DEF Block
<1>3. /\ carved[q[1]] \in Nat /\ carved[q[1]] <= Capacity[q[2]]
      /\ Capacity[q[2]] \in Nat /\ q[3] \in 1 .. carved[q[1]]
  BY <1>1, <1>2, CapacityAssumption DEF IInv, TypeOK, SlabShape, OutIsLive
<1>4. QED
  BY <1>1, <1>2, <1>3

(* Two live blocks never overlap.                                          *)
LEMMA LiveApart ==
  ASSUME NEW p \in Block, NEW q \in Block, OutIsLive(p), OutIsLive(q), p # q
  PROVE  Store!Apart(p, q)
BY DEF Store!Apart, OutIsLive, Block

LEMMA AllocateStep ==
  ASSUME IInv, IInv', NEW p, p \notin ProgramHeld, p \in Block, OutIsLive(p),
         ProgramHeld' = ProgramHeld \union {p}
  PROVE  Store!Next
<1>1. \A q \in ProgramHeld : Store!Apart(p, q)
  BY HeldIsLive, LiveApart
<1>2. p = <<p[1], p[2], p[3]>> /\ p[1] \in Chunk /\ p[2] \in Bucket /\ p[3] \in Nat
  BY DEF Block
<1>3. /\ carved[p[1]] \in Nat /\ carved[p[1]] <= Capacity[p[2]]
      /\ Capacity[p[2]] \in Nat /\ p[3] \in 1 .. carved[p[1]]
  BY <1>2, CapacityAssumption DEF IInv, TypeOK, SlabShape, OutIsLive
<1>4. p[3] \in 1 .. Capacity[p[2]]
  BY <1>2, <1>3
<1>5. Store!Allocate(p)
  BY <1>1 DEF Store!Allocate
<1>6. QED
  BY <1>2, <1>4, <1>5 DEF Store!Next

LEMMA ReleaseStep ==
  ASSUME IInv, NEW p \in ProgramHeld, ProgramHeld' = ProgramHeld \ {p}
  PROVE  Store!Next
<1>1. p = <<p[1], p[2], p[3]>> /\ p[1] \in Chunk /\ p[2] \in Bucket
      /\ p[3] \in 1 .. Capacity[p[2]]
  BY HeldIsLive
<1>2. Store!Release(p)
  BY DEF Store!Release
<1>3. QED
  BY <1>1, <1>2 DEF Store!Next

LEMMA NextRefines ==
  ASSUME IInv, IInv', [Next]_vars
  PROVE  [Store!Next]_ProgramHeld
<1> USE DEF ProgramHeld, Retiring
<1>1. /\ retire \in [Thread -> Block \union {NoBlock}] /\ OneOwner /\ ControlShape
      /\ NoDanglingBlock /\ NoBlock \notin Block /\ held \subseteq Block
      /\ op \in [Thread -> Bucket]
      /\ batch \in [Thread -> SUBSET Block]
      /\ cache \in [Thread -> [Bucket -> SUBSET Block]]
  BY BlockAssumption DEF IInv, TypeOK, Block
<1>2. CASE held' = held /\ retire' = retire
  BY <1>2
<1>3. ASSUME NEW t \in Thread, NEW p \in Block, OutIsLive(p), p \notin ProgramHeld,
             held' = held \union {p}, retire' = retire
      PROVE  Store!Next
  BY <1>3, AllocateStep
<1>4. ASSUME NEW t \in Thread, NEW b \in Bucket, NEW p \in cache[t][b]
      PROVE  p \in Block /\ OutIsLive(p) /\ p \notin ProgramHeld
  BY <1>1, <1>4 DEF OneOwner, NoDanglingBlock
<1>5. ASSUME NEW t \in Thread, NEW p \in batch[t]
      PROVE  p \in Block /\ OutIsLive(p) /\ p \notin ProgramHeld
  BY <1>1, <1>5 DEF OneOwner, NoDanglingBlock
<1>6. ASSUME NEW t \in Thread, NEW r \in held, stage[t] = "idle",
             retire' = [retire EXCEPT ![t] = r]
      PROVE  Retiring' = Retiring \union {r} /\ r # NoBlock
  <2>1. retire[t] = NoBlock /\ r # NoBlock
    BY <1>1, <1>6 DEF ControlShape
  <2>2. \A s \in Thread : retire'[s] = IF s = t THEN r ELSE retire[s]
    BY <1>1, <1>6
  <2>3. QED
    BY <2>1, <2>2
<1>7. ASSUME NEW t \in Thread, retire' = [retire EXCEPT ![t] = NoBlock]
      PROVE  Retiring' = Retiring \ {retire[t]}
  <2>1. \A s \in Thread : retire'[s] = IF s = t THEN NoBlock ELSE retire[s]
    BY <1>1, <1>7
  <2>2. \A s \in Thread : s # t /\ retire[s] # NoBlock => retire[s] # retire[t]
    BY <1>1 DEF OneOwner
  <2>3. QED
    BY <2>1, <2>2
<1>8. ASSUME NEW t \in Thread, Request(t) PROVE [Store!Next]_ProgramHeld
  <2>1. CASE \E b \in Bucket : \E p \in cache[t][b] : AllocCached(t, b, p)
    BY <1>3, <1>4, <2>1 DEF AllocCached
  <2>2. CASE \E b \in Bucket : \E p \in cache[t][b] : \E r \in held :
               ReallocCached(t, b, p, r)
    <3>1. PICK b \in Bucket :
            \E p \in cache[t][b] : \E r \in held : ReallocCached(t, b, p, r)
      BY <2>2
    <3>2. PICK p \in cache[t][b], r \in held : ReallocCached(t, b, p, r)
      BY <3>1
    <3>3. /\ retire' = [retire EXCEPT ![t] = r] /\ stage[t] = "idle"
          /\ held' = (held \ {r}) \union {p}
      BY <3>2 DEF ReallocCached, TakeCached
    <3>4. Retiring' = Retiring \union {r}
      BY <1>6, <3>3
    <3>5. ProgramHeld' = ProgramHeld \union {p}
      BY <3>3, <3>4
    <3>6. QED
      BY <1>4, <3>5, AllocateStep
  <2>3. CASE \E b \in Bucket : \E r \in held : ReallocRefill(t, b, r)
    <3>1. PICK b \in Bucket, r \in held : ReallocRefill(t, b, r)
      BY <2>3
    <3>2. /\ retire' = [retire EXCEPT ![t] = r] /\ stage[t] = "idle"
          /\ held' = held \ {r}
      BY <3>1 DEF ReallocRefill, StartRefill
    <3>3. Retiring' = Retiring \union {r}
      BY <1>6, <3>2
    <3>4. QED
      BY <3>2, <3>3
  <2>4. CASE \E p \in held : FreeCached(t, p) \/ FreeLocked(t, p)
    <3>1. PICK p \in held : FreeCached(t, p) \/ FreeLocked(t, p)
      BY <2>4
    <3>2. held' = held \ {p} /\ retire' = retire
      BY <3>1 DEF FreeCached, FreeLocked, control
    <3>3. p \notin Retiring
      BY <1>1 DEF OneOwner
    <3>4. ProgramHeld' = ProgramHeld \ {p}
      BY <3>2, <3>3
    <3>5. QED
      BY <3>4, ReleaseStep
  <2>5. CASE (\E b \in Bucket : AllocRefill(t, b)) \/ ThreadExit(t) \/ ThreadStart(t)
    BY <1>2, <2>5 DEF AllocRefill, ThreadExit, ThreadStart
  <2>6. QED
    BY <1>8, <2>1, <2>2, <2>3, <2>4, <2>5 DEF Request
<1>9. ASSUME NEW t \in Thread, Acquire(t) PROVE [Store!Next]_ProgramHeld
  <2>1. CASE LockRefill(t) \/ LockDrain(t)
    BY <1>2, <2>1 DEF LockRefill, LockDrain
  <2>2. CASE RetireOld(t)
    <3>1. /\ retire[t] # NoBlock /\ retire[t] \notin held
          /\ retire' = [retire EXCEPT ![t] = NoBlock] /\ held' = held
      BY <1>1, <2>2 DEF RetireOld, ControlShape, OneOwner
    <3>2. retire[t] \in ProgramHeld /\ ProgramHeld' = ProgramHeld \ {retire[t]}
      BY <1>7, <3>1
    <3>3. QED
      BY <3>2, ReleaseStep
  <2>3. QED
    BY <1>9, <2>1, <2>2 DEF Acquire
<1>10. ASSUME NEW t \in Thread, Holder(t) PROVE [Store!Next]_ProgramHeld
  <2>1. CASE \E p \in batch[t] : DeliverFull(t, p) \/ DeliverShort(t, p)
    BY <1>3, <1>5, <2>1 DEF DeliverFull, DeliverShort, Deliver
  <2>2. CASE AllocFails(t)
    <3>1. /\ retire' = [retire EXCEPT ![t] = NoBlock]
          /\ held' = held \union ({retire[t]} \ {NoBlock})
      BY <2>2 DEF AllocFails
    <3>2. QED
      BY <1>7, <3>1
  <2>3. CASE \/ \E c \in slabs : \E i \in chain[c] : PopFree(t, c, i)
             \/ PopNone(t) \/ CarveBlock(t) \/ DrainDone(t) \/ FlushDone(t)
             \/ \E c \in Chunk : CarveSlab(t, c)
    BY <1>2, <2>3 DEF PopFree, PopNone, CarveBlock, DrainDone, FlushDone, CarveSlab,
                      control
  <2>4. CASE \/ \E p \in cache[t][op[t]] : DrainOne(t, p)
             \/ \E b \in Bucket : \E p \in cache[t][b] : FlushOne(t, b, p)
    BY <1>2, <2>4 DEF DrainOne, FlushOne, Uncache, control
  <2>5. QED
    BY <1>10, <2>1, <2>2, <2>3, <2>4 DEF Holder
<1>11. CASE UNCHANGED vars
  BY <1>2, <1>11 DEF vars, control
<1>12. QED
  BY <1>8, <1>9, <1>10, <1>11 DEF Next

(* Every behaviour of the pool with its caches is one of BlockStore: what  *)
(* CStdMemAlloc::Alloc and Realloc return never overlaps memory in use.    *)
THEOREM Implements == Spec => ImplementsStore
<1>1. Init => Store!Init
  BY DEF Init, Store!Init, ProgramHeld, Retiring
<1>2. IInv /\ IInv' /\ [Next]_vars => [Store!Next]_ProgramHeld
  BY NextRefines
<1>3. QED
  BY <1>1, <1>2, Invariance, PTL DEF Spec, ImplementsStore, Store!Spec

-----------------------------------------------------------------------------
(* The books of the pool and the caches.                                   *)

(* A block that is with the program, in a cache or in a refill.            *)
Out(p) == p \in ProgramHeld \/ InCaches(p)

SlabBooks == RoomOnlyInCurrent /\ NoFrozenSlab

ThreadBooks(t) ==
  /\ \A b \in Bucket :
       count[t][b] > CacheCap[b] => stage[t] \in {"drain", "push"} /\ op[t] = b
  /\ Cardinality(batch[t]) <= Want(op[t])
  /\ stage[t] = "carve" /\ batch[t] = {} => partial[op[t]] = {}
  /\ stage[t] = "gone" => \A b \in Bucket : cache[t][b] = {}

Books == SlabBooks /\ NoLostBlock /\ \A t \in Thread : ThreadBooks(t)

LEMMA BooksParts == IInv /\ Books => BooksInOrder
BY DEF IInv, Books, SlabBooks, ThreadBooks, BooksInOrder, CacheBounded, BatchFits,
       CarvesLast, NothingLeftBehind

(* A refill asks for at least one block and for no more than a cache keeps.*)
LEMMA WantIs ==
  ASSUME NEW b \in Bucket
  PROVE  Want(b) \in Nat \ {0} /\ Want(b) <= CacheCap[b]
BY CacheCapAssumption, BatchAssumption DEF Want, Smaller

LEMMA LeaveIs ==
  ASSUME NEW b \in Bucket
  PROVE  Leave(b) \in Nat /\ Leave(b) <= CacheCap[b]
BY CacheCapAssumption DEF Leave

(* NoLostBlock with a name for the block.                                  *)
LEMMA NoLostIs ==
  NoLostBlock <=> \A c \in slabs : \A i \in 1 .. carved[c] : \A p :
                    p = <<c, bucketOf[c], i>> => i \in chain[c] \/ Out(p)
BY DEF NoLostBlock, Out

LEMMA NoLostIsPrime ==
  NoLostBlock' <=> \A c \in slabs' : \A i \in 1 .. carved'[c] : \A p :
                     p = <<c, bucketOf'[c], i>> => i \in chain'[c] \/ Out(p)'
BY DEF NoLostBlock, Out

(* Where slabs keep their layout and every block that was accounted for    *)
(* still is, none is lost.                                                 *)
LEMMA NoneLost ==
  ASSUME NoLostBlock,
         \A c \in slabs' : c \in slabs /\ bucketOf'[c] = bucketOf[c] /\ carved'[c] = carved[c],
         \A c \in slabs' : \A i \in 1 .. carved[c] :
           i \in chain[c] \/ Out(<<c, bucketOf[c], i>>) =>
             i \in chain'[c] \/ Out(<<c, bucketOf[c], i>>)'
  PROVE  NoLostBlock'
BY DEF NoLostBlock, Out

(* The same when the pool does not change.                                 *)
LEMMA PoolKeepsBooks ==
  ASSUME IInv, Books, UNCHANGED pool,
         \A p \in Block : Out(p) => Out(p)'
  PROVE  SlabBooks' /\ NoLostBlock'
<1>1. SlabBooks'
  BY DEF Books, SlabBooks, RoomOnlyInCurrent, NoFrozenSlab, pool
<1>2. \A c \in slabs : \A i \in 1 .. carved[c] : <<c, bucketOf[c], i>> \in Block
  BY DEF IInv, TypeOK, Block
<1>3. NoLostBlock'
  BY <1>2, NoneLost DEF Books, pool
<1>. QED
  BY <1>1, <1>3

LEMMA SubsetSize ==
  ASSUME NEW n \in Nat, NEW S \in SUBSET (1 .. n)
  PROVE  Cardinality(S) <= n
<1>1. IsFiniteSet(1 .. n) /\ Cardinality(1 .. n) = n
  BY FS_Interval
<1>. QED
  BY <1>1, FS_Subset

(* Push leaves no slab without a use and no room outside current slabs.    *)
LEMMA PushBooks ==
  ASSUME PoolInv, SlabBooks, NEW p \in Block, OutIsLive(p), Push(p[2], p)
  PROVE  /\ SlabBooks'
         /\ \A c \in slabs' : /\ c \in slabs /\ bucketOf'[c] = bucketOf[c]
                              /\ carved'[c] = carved[c] /\ chain[c] \subseteq chain'[c]
         /\ p[1] \in slabs' => p[3] \in chain'[p[1]]
<1> DEFINE c == p[1]
           b == p[2]
           i == p[3]
<1>1. /\ c \in slabs /\ c \in Chunk /\ b \in Bucket /\ i \in Nat /\ b = bucketOf[c]
      /\ i \in 1 .. carved[c] /\ i \notin chain[c] /\ carved[c] \in Nat
      /\ carved[c] <= Capacity[b] /\ Capacity[b] \in Nat \ {0}
  BY CapacityAssumption DEF OutIsLive, Block, PoolInv, PoolTypeOK, SlabShape
<1>2. /\ IsFiniteSet(chain[c]) /\ chain[c] \in SUBSET (1 .. carved[c])
      /\ freeCount[c] = Cardinality(chain[c]) /\ freeCount[c] \in Nat
  BY <1>1, ChainFinite DEF PoolInv, FreeCountExact, PoolTypeOK
<1>3. CASE Freezes(c)
  <2>1. DestroySlab(c, b)
    BY <1>1, <1>3 DEF Push
  <2>2. carved[c] = Capacity[b]
    BY <1>1, <1>3 DEF Freezes
  <2>3. /\ slabs' = slabs \ {c} /\ \A d \in slabs' : d \in slabs /\ d # c
        /\ \A d \in slabs' : /\ bucketOf'[d] = bucketOf[d] /\ carved'[d] = carved[d]
                             /\ chain'[d] = chain[d] /\ freeCount'[d] = freeCount[d]
        /\ \A a \in Bucket : cur'[a] = IF a = b /\ cur[a] = c THEN NoChunk ELSE cur[a]
    BY <1>1, <2>1 DEF DestroySlab, PoolInv, PoolTypeOK
  <2>4. RoomOnlyInCurrent'
    <3>1. \A d \in slabs' : bucketOf[d] \in Bucket /\ (carved[d] < Capacity[bucketOf[d]] => cur[bucketOf[d]] = d)
      BY <2>3 DEF SlabBooks, RoomOnlyInCurrent, PoolInv, PoolTypeOK
    <3>. QED
      BY <2>3, <3>1 DEF RoomOnlyInCurrent
  <2>5. NoFrozenSlab'
    BY <2>3 DEF SlabBooks, NoFrozenSlab
  <2>. QED
    BY <2>3, <2>4, <2>5 DEF SlabBooks
<1>4. CASE ~Freezes(c)
  <2>1. ReturnBlock(b, c, i)
    BY <1>1, <1>4 DEF Push
  <2>2. /\ UNCHANGED <<slabs, bucketOf, carved, cur>>
        /\ \A d \in slabs : chain'[d] = IF d = c THEN chain[c] \union {i} ELSE chain[d]
        /\ \A d \in slabs : freeCount'[d] = IF d = c THEN freeCount[c] + 1 ELSE freeCount[d]
    BY <1>1, <2>1 DEF ReturnBlock, PoolInv, PoolTypeOK
  <2>3. freeCount[c] + 1 < Capacity[b]
    <3>1. \A n \in Nat : \A S \in SUBSET (1 .. n) : Cardinality(S) <= n
      BY SubsetSize
    <3>2. Cardinality(chain[c] \union {i}) = freeCount[c] + 1
      BY <1>1, <1>2, FS_AddElement
    <3>3. chain[c] \union {i} \in SUBSET (1 .. carved[c])
      BY <1>1, <1>2
    <3>4. freeCount[c] + 1 <= carved[c]
      BY <1>1, <3>1, <3>2, <3>3
    <3>5. ~(freeCount[c] + 1 = Capacity[b] /\ carved[c] = Capacity[b])
      BY <1>1, <1>4 DEF Freezes
    <3>. QED
      BY <1>1, <1>2, <3>4, <3>5
  <2>4. NoFrozenSlab'
    BY <1>1, <2>2, <2>3 DEF SlabBooks, NoFrozenSlab
  <2>5. RoomOnlyInCurrent'
    BY <2>2 DEF SlabBooks, RoomOnlyInCurrent
  <2>. QED
    BY <1>1, <2>2, <2>4, <2>5 DEF SlabBooks
<1>. QED
  BY <1>3, <1>4

(* A block given to the pool is the one that may stop being out.           *)
LEMMA PushKeepsBooks ==
  ASSUME IInv, Books, NEW p \in Block, OutIsLive(p), Push(p[2], p),
         \A q \in Block : q # p /\ Out(q) => Out(q)'
  PROVE  SlabBooks' /\ NoLostBlock'
<1>1. PoolInv /\ SlabBooks /\ NoLostBlock
  BY IInvParts DEF Books
<1>2. /\ SlabBooks'
      /\ \A c \in slabs' : /\ c \in slabs /\ bucketOf'[c] = bucketOf[c]
                           /\ carved'[c] = carved[c] /\ chain[c] \subseteq chain'[c]
      /\ p[1] \in slabs' => p[3] \in chain'[p[1]]
  BY <1>1, PushBooks
<1>3. \A c \in slabs' : \A i \in 1 .. carved[c] :
        i \in chain[c] \/ Out(<<c, bucketOf[c], i>>) =>
          i \in chain'[c] \/ Out(<<c, bucketOf[c], i>>)'
  <2>1. SUFFICES ASSUME NEW c \in slabs', NEW i \in 1 .. carved[c],
                        i \notin chain'[c], Out(<<c, bucketOf[c], i>>)
                 PROVE  Out(<<c, bucketOf[c], i>>)'
    BY <1>2
  <2>2. c \in slabs /\ carved[c] \in Nat /\ bucketOf[c] \in Bucket /\ c \in Chunk
    BY <1>1, <1>2 DEF PoolInv, PoolTypeOK
  <2>3. <<c, bucketOf[c], i>> \in Block
    BY <2>1, <2>2 DEF Block
  <2>4. CASE <<c, bucketOf[c], i>> = p
    <3>1. p[1] = c /\ p[3] = i
      BY <2>4
    <3>. QED
      BY <1>2, <2>1, <3>1
  <2>5. CASE <<c, bucketOf[c], i>> # p
    BY <1>2, <2>1, <2>3, <2>5 DEF Out
  <2>. QED
    BY <2>4, <2>5
<1>. QED
  BY <1>1, <1>2, <1>3, NoneLost

(* Only thread t moves.                                                    *)
OthersSame(t) ==
  \A s \in Thread \ {t} : /\ stage'[s] = stage[s] /\ op'[s] = op[s] /\ batch'[s] = batch[s]
                          /\ cache'[s] = cache[s] /\ count'[s] = count[s]

LEMMA OthersKeepBooks ==
  ASSUME Books, NEW t \in Thread, OthersSame(t), ThreadBooks(t)',
         partial' = partial \/ \A s \in Thread \ {t} : stage[s] # "carve"
  PROVE  \A s \in Thread : ThreadBooks(s)'
BY DEF Books, ThreadBooks, OthersSame

(* Whoever changes the pool has m_cs, so that nobody else is carving.      *)
LEMMA NobodyElseCarves ==
  ASSUME IInv, NEW t \in Thread, lock \in {NoThread, t}
  PROVE  \A s \in Thread \ {t} : stage[s] # "carve"
BY ThreadAssumption DEF IInv, LockedStages, Locked

(* Thread t goes from one stage to another; its refill and its caches are  *)
(* as they were, and a cache is trimmed as long as it is too large.        *)
LEMMA StageKeepsBooks ==
  ASSUME IInv, Books, NEW t \in Thread, NEW u, stage' = [stage EXCEPT ![t] = u],
         UNCHANGED <<pool, batch, local>>, ProgramHeld \subseteq ProgramHeld',
         op' = op \/ (stage[t] = "idle" /\ \E b \in Bucket : op' = [op EXCEPT ![t] = b]),
         u = "carve" => partial[op[t]] = {} /\ op' = op,
         u = "gone" => \A b \in Bucket : cache[t][b] = {},
         stage[t] \in {"drain", "push"} =>
           u = "push" \/ ~(count[t][op[t]] > CacheCap[op[t]])
  PROVE  Books'
<1>1. /\ stage \in [Thread -> Stage] /\ op \in [Thread -> Bucket]
      /\ \A s \in Thread : stage'[s] = IF s = t THEN u ELSE stage[s]
      /\ \A s \in Thread : s # t => op'[s] = op[s]
      /\ op'[t] \in Bucket
  BY DEF IInv, TypeOK
<1>2. SlabBooks' /\ NoLostBlock'
  <2>1. \A p \in Block : Out(p) => Out(p)'
    BY DEF Out, InCaches, local
  <2>. QED
    BY <2>1, PoolKeepsBooks
<1>3. ThreadBooks(t)
  BY DEF Books
<1>4. stage[t] = "idle" => batch[t] = {}
  BY DEF IInv, ControlShape
<1>5. op'[t] = op[t] \/ stage[t] = "idle"
  BY <1>1
<1>6. Cardinality({}) = 0 /\ Want(op'[t]) \in Nat
  BY <1>1, WantIs, FS_EmptySet
<1>7. ThreadBooks(t)'
  <2>1. \A b \in Bucket : count[t][b] > CacheCap[b] => u \in {"drain", "push"} /\ op'[t] = b
    BY <1>1, <1>3, <1>5 DEF ThreadBooks
  <2>2. Cardinality(batch[t]) <= Want(op'[t])
    BY <1>3, <1>4, <1>5, <1>6 DEF ThreadBooks
  <2>. QED
    BY <1>1, <2>1, <2>2 DEF ThreadBooks, pool, local
<1>8. OthersSame(t)
  BY <1>1 DEF OthersSame, local
<1>. QED
  BY <1>2, <1>7, <1>8, OthersKeepBooks DEF Books, pool

-----------------------------------------------------------------------------
(* Every step keeps the books, one lemma per kind of step.                 *)

(* Retiring a block of one's own adds it to what the program holds.        *)
LEMMA RetireHolds ==
  ASSUME IInv, NEW t \in Thread, NEW r, stage[t] = "idle",
         retire' = [retire EXCEPT ![t] = r], held \ {r} \subseteq held', r # NoBlock
  PROVE  ProgramHeld \subseteq ProgramHeld'
<1>1. retire \in [Thread -> Block \union {NoBlock}] /\ retire[t] = NoBlock
  BY DEF IInv, TypeOK, ControlShape
<1>2. \A s \in Thread : retire'[s] = IF s = t THEN r ELSE retire[s]
  BY <1>1
<1>. QED
  BY <1>1, <1>2 DEF ProgramHeld, Retiring

(* The moves from one stage to the next that change nothing else.          *)
LEMMA MovesBooks ==
  ASSUME IInv, Books, NEW t \in Thread,
         \/ LockRefill(t) \/ LockDrain(t) \/ ThreadExit(t) \/ PopNone(t)
         \/ DrainDone(t) \/ FlushDone(t)
  PROVE  Books'
<1>1. ProgramHeld \subseteq ProgramHeld'
  BY DEF ProgramHeld, Retiring, LockRefill, LockDrain, ThreadExit, PopNone, DrainDone,
         FlushDone
<1>2. CASE LockRefill(t) \/ LockDrain(t) \/ ThreadExit(t)
  BY <1>1, <1>2, StageKeepsBooks DEF LockRefill, LockDrain, ThreadExit
<1>3. CASE PopNone(t)
  BY <1>1, <1>3, StageKeepsBooks DEF PopNone
<1>4. CASE DrainDone(t)
  <2>1. /\ op[t] \in Bucket /\ CacheCap[op[t]] \in Nat
        /\ count[t][op[t]] = Cardinality(cache[t][op[t]])
    BY CacheCapAssumption DEF IInv, TypeOK, CountersExact
  <2>2. Cardinality({}) = 0 /\ Leave(op[t]) \in Nat /\ Leave(op[t]) <= CacheCap[op[t]]
    BY <2>1, LeaveIs, FS_EmptySet
  <2>3. count[t][op[t]] = Leave(op[t]) \/ count[t][op[t]] = 0
    BY <1>4, <2>1, <2>2 DEF DrainDone
  <2>4. ~(count[t][op[t]] > CacheCap[op[t]])
    BY <2>1, <2>2, <2>3
  <2>. QED
    BY <1>1, <1>4, <2>4, StageKeepsBooks DEF DrainDone, Unlock
<1>5. CASE FlushDone(t)
  BY <1>1, <1>5, StageKeepsBooks DEF FlushDone, Unlock
<1>. QED
  BY <1>2, <1>3, <1>4, <1>5

LEMMA RefillBooks ==
  ASSUME IInv, Books, NEW t \in Thread, NEW b \in Bucket,
         AllocRefill(t, b) \/ \E r \in held : ReallocRefill(t, b, r)
  PROVE  Books'
<1>1. StartRefill(t, b)
  BY DEF AllocRefill, ReallocRefill
<1>2. ProgramHeld \subseteq ProgramHeld'
  <2>1. CASE AllocRefill(t, b)
    BY <2>1 DEF AllocRefill, ProgramHeld, Retiring
  <2>2. ASSUME NEW r \in held, ReallocRefill(t, b, r)
        PROVE  ProgramHeld \subseteq ProgramHeld'
    <3>1. r # NoBlock
      BY BlockAssumption DEF IInv, TypeOK, Block
    <3>. QED
      BY <2>2, <3>1, RetireHolds DEF ReallocRefill, StartRefill
  <2>. QED
    BY <2>1, <2>2
<1>3. /\ stage[t] = "idle" /\ stage' = [stage EXCEPT ![t] = "refill"]
      /\ op' = [op EXCEPT ![t] = b] /\ UNCHANGED <<pool, batch, local>>
  BY <1>1 DEF StartRefill
<1>4. ~(stage[t] \in {"drain", "push"})
  BY <1>3
<1>. QED
  BY <1>2, <1>3, <1>4, StageKeepsBooks

LEMMA AllocFailsBooks ==
  ASSUME IInv, Books, NEW t \in Thread, AllocFails(t)
  PROVE  Books'
<1>1. retire \in [Thread -> Block \union {NoBlock}]
  BY DEF IInv, TypeOK
<1>2. \A s \in Thread : retire'[s] = IF s = t THEN NoBlock ELSE retire[s]
  BY <1>1 DEF AllocFails
<1>3. ProgramHeld \subseteq ProgramHeld'
  BY <1>2 DEF AllocFails, ProgramHeld, Retiring
<1>. QED
  BY <1>3, StageKeepsBooks DEF AllocFails, OutOfMemory, Unlock

(* A block taken from a cache goes to the program.                         *)
LEMMA TakeBooks ==
  ASSUME IInv, Books, NEW t \in Thread, NEW b \in Bucket, NEW p, NEW u,
         TakeCached(t, b, p), u \in {"idle", "retire"},
         stage' = [stage EXCEPT ![t] = u],
         ProgramHeld \subseteq ProgramHeld', p \in ProgramHeld'
  PROVE  Books'
<1>1. /\ stage[t] = "idle" /\ p \in cache[t][b]
      /\ cache' = [cache EXCEPT ![t][b] = @ \ {p}]
      /\ count' = [count EXCEPT ![t][b] = @ - 1]
      /\ UNCHANGED <<pool, lock, op, batch>>
  <2>1. cache' = [cache EXCEPT ![t][b] = @ \ {p}]
    BY TakeCachedStep
  <2>. QED
    BY <2>1 DEF TakeCached
<1>2. /\ cache \in [Thread -> [Bucket -> SUBSET Block]] /\ count \in [Thread -> [Bucket -> Nat]]
      /\ stage \in [Thread -> Stage] /\ CacheCap \in [Bucket -> Nat \ {0}]
  BY CacheCapAssumption DEF IInv, TypeOK
<1>3. SlabBooks' /\ NoLostBlock'
  <2>1. \A q \in Block : Out(q) => Out(q)'
    BY <1>1, <1>2 DEF Out, InCaches
  <2>. QED
    BY <1>1, <2>1, PoolKeepsBooks
<1>4. ThreadBooks(t)
  BY DEF Books
<1>5. \A d \in Bucket : ~(count[t][d] > CacheCap[d])
  BY <1>1, <1>4 DEF ThreadBooks
<1>6. \A d \in Bucket : ~(count'[t][d] > CacheCap[d])
  <2>1. \A d \in Bucket : count'[t][d] = IF d = b THEN count[t][b] - 1 ELSE count[t][d]
    BY <1>1, <1>2
  <2>. QED
    BY <1>2, <1>5, <2>1
<1>7. ThreadBooks(t)'
  BY <1>1, <1>2, <1>4, <1>6 DEF ThreadBooks
<1>8. OthersSame(t)
  BY <1>1, <1>2 DEF OthersSame
<1>. QED
  BY <1>1, <1>3, <1>7, <1>8, OthersKeepBooks DEF Books, pool

LEMMA AllocCachedBooks ==
  ASSUME IInv, Books, NEW t \in Thread, NEW b \in Bucket, NEW p, AllocCached(t, b, p)
  PROVE  Books'
<1>1. ProgramHeld \subseteq ProgramHeld' /\ p \in ProgramHeld'
  <2>1. p # NoBlock
    BY TakeCachedStep, BlockAssumption DEF AllocCached, Block
  <2>. QED
    BY <2>1 DEF AllocCached, ProgramHeld, Retiring
<1>2. stage' = [stage EXCEPT ![t] = "idle"]
  BY DEF AllocCached, TakeCached, IInv, TypeOK
<1>. QED
  BY <1>1, <1>2, TakeBooks DEF AllocCached

LEMMA ReallocCachedBooks ==
  ASSUME IInv, Books, NEW t \in Thread, NEW b \in Bucket, NEW p, NEW r \in held,
         ReallocCached(t, b, p, r)
  PROVE  Books'
<1>1. r # NoBlock /\ stage[t] = "idle"
  BY BlockAssumption DEF IInv, TypeOK, Block, ReallocCached, TakeCached
<1>2. ProgramHeld \subseteq ProgramHeld'
  BY <1>1, RetireHolds DEF ReallocCached
<1>3. p \in ProgramHeld'
  BY DEF ReallocCached, ProgramHeld
<1>. QED
  BY <1>2, <1>3, TakeBooks DEF ReallocCached

(* A block freed into a cache, which may now have to be trimmed.           *)
LEMMA FreeCachedBooks ==
  ASSUME IInv, Books, NEW t \in Thread, NEW p \in held, FreeCached(t, p)
  PROVE  Books'
<1> DEFINE b == p[2]
<1>1. /\ p \in Block /\ b \in Bucket
      /\ cache \in [Thread -> [Bucket -> SUBSET Block]] /\ count \in [Thread -> [Bucket -> Nat]]
      /\ stage \in [Thread -> Stage] /\ op \in [Thread -> Bucket]
  BY DEF IInv, TypeOK, Block
<1>2. /\ stage[t] = "idle" /\ held' = held \ {p}
      /\ cache' = [cache EXCEPT ![t][b] = @ \union {p}]
      /\ count' = [count EXCEPT ![t][b] = @ + 1]
      /\ stage' = [stage EXCEPT ![t] =
                     IF count[t][b] + 1 > CacheCap[b] THEN "drain" ELSE "idle"]
      /\ op' = [op EXCEPT ![t] = IF count[t][b] + 1 > CacheCap[b] THEN b ELSE @]
      /\ UNCHANGED <<pool, lock, batch, retire>>
  BY DEF FreeCached
<1>3. SlabBooks' /\ NoLostBlock'
  <2>1. \A q \in Block : Out(q) => Out(q)'
    BY <1>1, <1>2 DEF Out, InCaches, ProgramHeld, Retiring
  <2>. QED
    BY <1>2, <2>1, PoolKeepsBooks
<1>4. ThreadBooks(t) /\ batch[t] = {}
  BY <1>2 DEF Books, IInv, ControlShape
<1>5. \A d \in Bucket : count'[t][d] = IF d = b THEN count[t][b] + 1 ELSE count[t][d]
  BY <1>1, <1>2
<1>6. \A d \in Bucket : ~(count[t][d] > CacheCap[d])
  BY <1>2, <1>4 DEF ThreadBooks
<1>7. \A d \in Bucket : count'[t][d] > CacheCap[d] => stage'[t] = "drain" /\ op'[t] = d
  BY <1>1, <1>2, <1>5, <1>6
<1>8. op'[t] \in Bucket /\ Want(op'[t]) \in Nat /\ Cardinality(batch'[t]) = 0
  BY <1>1, <1>2, <1>4, WantIs, FS_EmptySet
<1>9. ThreadBooks(t)'
  BY <1>1, <1>2, <1>7, <1>8 DEF ThreadBooks
<1>10. OthersSame(t)
  BY <1>1, <1>2 DEF OthersSame
<1>. QED
  BY <1>2, <1>3, <1>9, <1>10, OthersKeepBooks DEF Books, pool

(* A new thread has empty caches, and the old one left nothing in them.    *)
LEMMA ThreadStartBooks ==
  ASSUME IInv, Books, NEW t \in Thread, ThreadStart(t)
  PROVE  Books'
<1>1. /\ cache \in [Thread -> [Bucket -> SUBSET Block]] /\ count \in [Thread -> [Bucket -> Nat]]
      /\ stage \in [Thread -> Stage] /\ CacheCap \in [Bucket -> Nat \ {0}]
  BY CacheCapAssumption DEF IInv, TypeOK
<1>2. /\ stage[t] = "gone"
      /\ stage' = [stage EXCEPT ![t] = "idle"]
      /\ cache' = [cache EXCEPT ![t] = [b \in Bucket |-> {}]]
      /\ count' = [count EXCEPT ![t] = [b \in Bucket |-> 0]]
      /\ UNCHANGED <<pool, lock, op, batch, retire, held>>
  BY DEF ThreadStart
<1>3. ThreadBooks(t)
  BY DEF Books
<1>4. \A b \in Bucket : cache[t][b] = {}
  BY <1>2, <1>3 DEF ThreadBooks
<1>5. SlabBooks' /\ NoLostBlock'
  <2>1. \A q \in Block : q[2] \in Bucket
    BY DEF Block
  <2>2. \A q \in Block : Out(q) => Out(q)'
    BY <1>1, <1>2, <1>4, <2>1 DEF Out, InCaches, ProgramHeld, Retiring
  <2>. QED
    BY <1>2, <2>2, PoolKeepsBooks
<1>6. ThreadBooks(t)'
  BY <1>1, <1>2, <1>3 DEF ThreadBooks
<1>7. OthersSame(t)
  BY <1>1, <1>2 DEF OthersSame
<1>. QED
  BY <1>2, <1>5, <1>6, <1>7, OthersKeepBooks DEF Books, pool

(* What a refill found fits the cache it is put in.                        *)
LEMMA DeliverBooks ==
  ASSUME IInv, Books, NEW t \in Thread, NEW p, Deliver(t, p)
  PROVE  Books'
<1> DEFINE b == op[t]
<1>1. /\ cache \in [Thread -> [Bucket -> SUBSET Block]] /\ count \in [Thread -> [Bucket -> Nat]]
      /\ stage \in [Thread -> Stage] /\ CacheCap \in [Bucket -> Nat \ {0}]
      /\ batch \in [Thread -> SUBSET Block] /\ b \in Bucket /\ cache[t][b] = {}
      /\ \A q \in batch[t] : q[2] = b /\ q # NoBlock
  BY CacheCapAssumption, BlockAssumption DEF IInv, TypeOK, ControlShape, Deliver, Block
<1>2. PICK u \in {"idle", "retire"} : stage' = [stage EXCEPT ![t] = u]
  BY DEF Deliver, Unlock
<1>3. /\ stage[t] \in {"pop", "carve"} /\ p \in batch[t]
      /\ cache' = [cache EXCEPT ![t][b] = batch[t] \ {p}]
      /\ count' = [count EXCEPT ![t][b] = Cardinality(batch[t]) - 1]
      /\ held' = held \union {p}
      /\ batch' = [batch EXCEPT ![t] = {}]
      /\ UNCHANGED <<pool, op, retire>>
  BY DEF Deliver
<1>4. SlabBooks' /\ NoLostBlock'
  <2>1. \A s \in Thread : s # t => cache'[s] = cache[s] /\ batch'[s] = batch[s]
    BY <1>1, <1>3
  <2>2. \A d \in Bucket : cache[t][d] \subseteq cache'[t][d]
    BY <1>1, <1>3
  <2>3. \A q \in batch[t] : q \in cache'[t][q[2]] \/ q \in held'
    BY <1>1, <1>3
  <2>4. \A q \in Block : q[2] \in Bucket
    BY DEF Block
  <2>5. \A q \in Block : Out(q) => Out(q)'
    <3>1. SUFFICES ASSUME NEW q \in Block, Out(q) PROVE Out(q)'
      OBVIOUS
    <3>2. CASE q \in ProgramHeld
      BY <1>3, <3>2 DEF Out, ProgramHeld, Retiring
    <3>3. CASE \E s \in Thread : q \in cache[s][q[2]]
      BY <2>1, <2>2, <2>4, <3>3 DEF Out, InCaches
    <3>4. CASE \E s \in Thread : q \in batch[s]
      BY <1>1, <2>1, <2>3, <3>4 DEF Out, InCaches, ProgramHeld
    <3>. QED
      BY <3>1, <3>2, <3>3, <3>4 DEF Out, InCaches
  <2>. QED
    BY <1>3, <2>5, PoolKeepsBooks
<1>5. ThreadBooks(t)
  BY DEF Books
<1>6. /\ Want(b) \in Nat /\ Want(b) <= CacheCap[b] /\ Cardinality(batch[t]) <= Want(b)
      /\ Cardinality(batch[t]) \in Nat
  BY <1>1, <1>5, WantIs, FS_CardinalityType DEF ThreadBooks, IInv, CachesFinite
<1>7. \A d \in Bucket : ~(count'[t][d] > CacheCap[d])
  <2>1. \A d \in Bucket : count'[t][d] = IF d = b THEN Cardinality(batch[t]) - 1 ELSE count[t][d]
    BY <1>1, <1>3
  <2>2. \A d \in Bucket : ~(count[t][d] > CacheCap[d])
    BY <1>3, <1>5 DEF ThreadBooks
  <2>. QED
    BY <1>1, <1>6, <2>1, <2>2
<1>8. batch'[t] = {} /\ op'[t] = b /\ stage'[t] = u /\ Cardinality({}) = 0
  BY <1>1, <1>2, <1>3, FS_EmptySet
<1>9. ThreadBooks(t)'
  BY <1>6, <1>7, <1>8 DEF ThreadBooks
<1>10. OthersSame(t)
  BY <1>1, <1>2, <1>3 DEF OthersSame
<1>. QED
  BY <1>3, <1>4, <1>9, <1>10, OthersKeepBooks DEF Books, pool

(* A block goes from the program to the pool.                              *)
LEMMA FreeLockedBooks ==
  ASSUME IInv, Books, NEW t \in Thread, NEW p \in held, FreeLocked(t, p)
  PROVE  Books'
<1>1. p \in Block /\ OutIsLive(p) /\ Push(p[2], p)
  BY DEF IInv, TypeOK, NoDanglingBlock, FreeLocked
<1>2. /\ lock = NoThread /\ held' = held \ {p}
      /\ UNCHANGED <<cache, count, stage, op, batch, retire>>
  BY DEF FreeLocked, local, control
<1>3. \A q \in Block : q # p /\ Out(q) => Out(q)'
  BY <1>2 DEF Out, InCaches, ProgramHeld, Retiring
<1>4. SlabBooks' /\ NoLostBlock'
  BY <1>1, <1>3, PushKeepsBooks
<1>5. \A s \in Thread \ {t} : stage[s] # "carve"
  BY <1>2, NobodyElseCarves
<1>6. stage[t] = "idle" /\ ThreadBooks(t)
  BY DEF FreeLocked, Books
<1>7. ThreadBooks(t)' /\ OthersSame(t)
  BY <1>2, <1>6 DEF ThreadBooks, OthersSame
<1>. QED
  BY <1>4, <1>5, <1>7, OthersKeepBooks DEF Books

LEMMA RetireOldBooks ==
  ASSUME IInv, Books, NEW t \in Thread, RetireOld(t)
  PROVE  Books'
<1>1. PICK r : r = retire[t]
  OBVIOUS
<1>2. /\ stage[t] = "retire" /\ lock = NoThread /\ Push(r[2], r)
      /\ retire' = [retire EXCEPT ![t] = NoBlock]
      /\ stage' = [stage EXCEPT ![t] = "idle"]
      /\ UNCHANGED <<cache, count, op, batch, held>>
  BY <1>1 DEF RetireOld, local
<1>3. r \in Block /\ OutIsLive(r)
  BY <1>1, <1>2 DEF IInv, TypeOK, ControlShape, NoDanglingBlock
<1>4. \A q \in Block : q # r /\ Out(q) => Out(q)'
  <2>1. \A s \in Thread : s # t => retire'[s] = retire[s]
    BY <1>2 DEF IInv, TypeOK
  <2>. QED
    BY <1>1, <1>2, <2>1 DEF Out, InCaches, ProgramHeld, Retiring
<1>5. SlabBooks' /\ NoLostBlock'
  BY <1>2, <1>3, <1>4, PushKeepsBooks
<1>6. \A s \in Thread \ {t} : stage[s] # "carve"
  BY <1>2, NobodyElseCarves
<1>7. stage \in [Thread -> Stage] /\ ThreadBooks(t)
  BY DEF IInv, TypeOK, Books
<1>8. ThreadBooks(t)' /\ OthersSame(t)
  BY <1>2, <1>7 DEF ThreadBooks, OthersSame
<1>. QED
  BY <1>5, <1>6, <1>8, OthersKeepBooks DEF Books

(* A block goes from a cache to the pool, in a trim or at thread exit.     *)
LEMMA UncacheBooks ==
  ASSUME IInv, Books, NEW t \in Thread, NEW b \in Bucket, NEW p,
         stage[t] \in {"push", "flush"}, Uncache(t, b, p)
  PROVE  Books'
<1>1. /\ cache \in [Thread -> [Bucket -> SUBSET Block]] /\ count \in [Thread -> [Bucket -> Nat]]
      /\ CacheCap \in [Bucket -> Nat \ {0}] /\ lock = t
  BY CacheCapAssumption DEF IInv, TypeOK, LockedStages, Locked
<1>2. /\ p \in cache[t][b]
      /\ cache' = [cache EXCEPT ![t][b] = @ \ {p}]
      /\ count' = [count EXCEPT ![t][b] = @ - 1]
      /\ Push(b, p)
      /\ UNCHANGED <<lock, stage, op, batch, retire, held>>
  BY DEF Uncache, control
<1>3. p \in Block /\ OutIsLive(p) /\ p[2] = b
  BY <1>1, <1>2 DEF IInv, NoDanglingBlock
<1>4. \A q \in Block : q # p /\ Out(q) => Out(q)'
  BY <1>1, <1>2 DEF Out, InCaches, ProgramHeld, Retiring
<1>5. SlabBooks' /\ NoLostBlock'
  BY <1>2, <1>3, <1>4, PushKeepsBooks
<1>6. \A s \in Thread \ {t} : stage[s] # "carve"
  BY <1>1, NobodyElseCarves
<1>7. ThreadBooks(t)
  BY DEF Books
<1>8. \A d \in Bucket : count'[t][d] > CacheCap[d] => count[t][d] > CacheCap[d]
  <2>1. \A d \in Bucket : count'[t][d] = IF d = b THEN count[t][b] - 1 ELSE count[t][d]
    BY <1>1, <1>2
  <2>. QED
    BY <1>1, <2>1
<1>9. ThreadBooks(t)'
  BY <1>2, <1>7, <1>8 DEF ThreadBooks
<1>10. OthersSame(t)
  BY <1>1, <1>2 DEF OthersSame
<1>. QED
  BY <1>5, <1>6, <1>9, <1>10, OthersKeepBooks DEF Books

(* A refill takes one block more, and asked for it.                        *)
LEMMA GrowBooks ==
  ASSUME IInv, Books, NEW t \in Thread, Short(t), stage[t] \in {"pop", "carve"},
         NEW p, batch' = [batch EXCEPT ![t] = @ \union {p}],
         NEW u \in {"pop", "carve"}, stage' = [stage EXCEPT ![t] = u],
         UNCHANGED <<local, op>>, SlabBooks', NoLostBlock'
  PROVE  Books'
<1>1. /\ stage \in [Thread -> Stage] /\ batch \in [Thread -> SUBSET Block]
      /\ lock = t /\ IsFiniteSet(batch[t]) /\ op[t] \in Bucket
  BY DEF IInv, TypeOK, LockedStages, Locked, CachesFinite
<1>2. \A s \in Thread \ {t} : stage[s] # "carve"
  BY <1>1, NobodyElseCarves
<1>3. /\ Cardinality(batch[t]) \in Nat /\ Cardinality(batch[t]) < Want(op[t])
      /\ Want(op[t]) \in Nat
      /\ Cardinality(batch[t] \union {p}) \in {Cardinality(batch[t]), Cardinality(batch[t]) + 1}
  BY <1>1, WantIs, FS_CardinalityType, FS_AddElement DEF Short
<1>4. batch'[t] = batch[t] \union {p} /\ stage'[t] = u
  BY <1>1
<1>5. ThreadBooks(t)
  BY DEF Books
<1>6. ThreadBooks(t)'
  <2>1. \A d \in Bucket : ~(count[t][d] > CacheCap[d])
    BY <1>5 DEF ThreadBooks
  <2>2. Cardinality(batch'[t]) <= Want(op[t])
    <3>1. Cardinality(batch'[t]) = Cardinality(batch[t] \union {p})
      BY <1>4, Zenon
    <3>2. Cardinality(batch[t] \union {p}) <= Want(op[t])
      BY <1>3
    <3>. QED
      BY <3>1, <3>2, Zenon
  <2>3. /\ batch'[t] # {} /\ stage'[t] \in {"pop", "carve"}
        /\ op'[t] = op[t] /\ count'[t] = count[t]
    BY <1>4 DEF local
  <2>. QED
    BY <2>1, <2>2, <2>3 DEF ThreadBooks
<1>7. OthersSame(t)
  BY <1>1 DEF OthersSame, local
<1>. QED
  BY <1>2, <1>6, <1>7, OthersKeepBooks DEF Books

LEMMA PopFreeBooks ==
  ASSUME IInv, Books, NEW t \in Thread, NEW c, NEW i, PopFree(t, c, i)
  PROVE  Books'
<1>1. /\ batch \in [Thread -> SUBSET Block] /\ op[t] \in Bucket
      /\ c \in slabs /\ c \in Chunk /\ bucketOf[c] = op[t] /\ i \in chain[c]
      /\ chain \in [Chunk -> SUBSET Nat] /\ freeCount \in [Chunk -> Nat]
      /\ bucketOf \in [Chunk -> Bucket] /\ slabs \subseteq Chunk
  BY DEF PopFree, IInv, TypeOK, PartialExact
<1>2. /\ chain' = [chain EXCEPT ![c] = @ \ {i}]
      /\ freeCount' = [freeCount EXCEPT ![c] = @ - 1]
      /\ batch' = [batch EXCEPT ![t] = @ \union {<<c, op[t], i>>}]
      /\ UNCHANGED <<slabs, bucketOf, carved, cur, cache, op, retire, held>>
  BY DEF PopFree, local
<1>3. SlabBooks'
  <2>1. RoomOnlyInCurrent'
    BY <1>2 DEF Books, SlabBooks, RoomOnlyInCurrent
  <2>2. \A d \in slabs : freeCount'[d] = IF d = c THEN freeCount[c] - 1 ELSE freeCount[d]
    BY <1>1, <1>2
  <2>3. \A d \in slabs : freeCount[d] \in Nat /\ Capacity[bucketOf[d]] \in Nat
    BY <1>1, CapacityAssumption
  <2>4. NoFrozenSlab'
    BY <1>1, <1>2, <2>2, <2>3 DEF Books, SlabBooks, NoFrozenSlab
  <2>. QED
    BY <2>1, <2>4 DEF SlabBooks
<1>4. NoLostBlock'
  <2>1. \A q : Out(q) => Out(q)'
    BY <1>1, <1>2 DEF Out, InCaches, ProgramHeld, Retiring
  <2>2. \A p : p = <<c, op[t], i>> => Out(p)'
    BY <1>1, <1>2 DEF Out, InCaches
  <2>3. \A d \in slabs : \A j \in chain[d] : j \in chain'[d] \/ (d = c /\ j = i)
    BY <1>1, <1>2
  <2>4. ASSUME NEW d \in slabs', NEW j \in 1 .. carved'[d],
               NEW p, p = <<d, bucketOf'[d], j>>
        PROVE  j \in chain'[d] \/ Out(p)'
    <3>1. j \in chain[d] \/ Out(p)
      BY <1>2, <2>4, NoLostIs DEF Books
    <3>2. d = c /\ j = i => p = <<c, op[t], i>>
      BY <1>1, <1>2, <2>4
    <3>. QED
      BY <1>2, <2>1, <2>2, <2>3, <2>4, <3>1, <3>2
  <2>. QED
    BY <2>4, NoLostIsPrime
<1>5. PICK u \in {"pop", "carve"} : stage' = [stage EXCEPT ![t] = u]
  BY DEF PopFree
<1>. QED
  BY <1>3, <1>4, <1>5, GrowBooks DEF PopFree

LEMMA CarveBlockBooks ==
  ASSUME IInv, Books, NEW t \in Thread, CarveBlock(t)
  PROVE  Books'
<1> DEFINE b == op[t]
           c == cur[b]
<1>1. /\ c \in slabs /\ c \in Chunk /\ bucketOf[c] = b /\ b \in Bucket
      /\ carved \in [Chunk -> Nat] /\ carved[c] \in Nat /\ Capacity[b] \in Nat
      /\ batch \in [Thread -> SUBSET Block] /\ slabs \subseteq Chunk
      /\ bucketOf \in [Chunk -> Bucket]
  BY CapacityAssumption DEF CarveBlock, UsedUp, IInv, TypeOK, SlabShape
<1>2. /\ carved' = [carved EXCEPT ![c] = @ + 1]
      /\ batch' = [batch EXCEPT ![t] = @ \union {<<c, b, carved[c] + 1>>}]
      /\ UNCHANGED <<slabs, bucketOf, chain, freeCount, cur, partial, cache, op, retire, held>>
  BY DEF CarveBlock, local
<1>3. \A d \in slabs : carved'[d] = IF d = c THEN carved[c] + 1 ELSE carved[d]
  BY <1>1, <1>2
<1>4. SlabBooks'
  BY <1>1, <1>2, <1>3 DEF Books, SlabBooks, RoomOnlyInCurrent, NoFrozenSlab
<1>5. NoLostBlock'
  <2>1. \A q : Out(q) => Out(q)'
    BY <1>1, <1>2 DEF Out, InCaches, ProgramHeld, Retiring
  <2>2. \A p : p = <<c, b, carved[c] + 1>> => Out(p)'
    BY <1>1, <1>2 DEF Out, InCaches
  <2>3. ASSUME NEW d \in slabs', NEW j \in 1 .. carved'[d],
               NEW p, p = <<d, bucketOf'[d], j>>
        PROVE  j \in chain'[d] \/ Out(p)'
    <3>1. d \in slabs /\ carved[d] \in Nat /\ bucketOf'[d] = bucketOf[d]
      BY <1>1, <1>2, <2>3
    <3>2. CASE j \in 1 .. carved[d]
      <4>1. j \in chain[d] \/ Out(p)
        BY <2>3, <3>1, <3>2, NoLostIs DEF Books
      <4>. QED
        BY <1>2, <2>1, <4>1
    <3>3. CASE j \notin 1 .. carved[d]
      <4>1. d = c /\ j = carved[c] + 1
        BY <1>1, <1>3, <2>3, <3>1, <3>3
      <4>. QED
        BY <1>1, <2>2, <2>3, <3>1, <4>1
    <3>. QED
      BY <3>2, <3>3
  <2>. QED
    BY <2>3, NoLostIsPrime
<1>6. PICK u \in {"pop", "carve"} : stage' = [stage EXCEPT ![t] = u]
  BY DEF CarveBlock
<1>. QED
  BY <1>4, <1>5, <1>6, GrowBooks DEF CarveBlock

(* The slab a fresh one takes over from is used up.                        *)
LEMMA CarveSlabBooks ==
  ASSUME IInv, Books, NEW t \in Thread, NEW c, CarveSlab(t, c)
  PROVE  Books'
<1> DEFINE b == op[t]
<1>1. /\ c \in Chunk /\ c \notin slabs /\ b \in Bucket /\ UsedUp(b)
      /\ slabs \subseteq Chunk /\ bucketOf \in [Chunk -> Bucket] /\ carved \in [Chunk -> Nat]
      /\ chain \in [Chunk -> SUBSET Nat] /\ freeCount \in [Chunk -> Nat]
      /\ cur \in [Bucket -> Chunk \union {NoChunk}] /\ Capacity \in [Bucket -> Nat \ {0}]
  BY CapacityAssumption DEF CarveSlab, IInv, TypeOK
<1>2. /\ slabs' = slabs \union {c}
      /\ bucketOf' = [bucketOf EXCEPT ![c] = b]
      /\ carved' = [carved EXCEPT ![c] = 0]
      /\ chain' = [chain EXCEPT ![c] = {}]
      /\ freeCount' = [freeCount EXCEPT ![c] = 0]
      /\ cur' = [cur EXCEPT ![b] = c]
      /\ UNCHANGED <<partial, lock, cache, count, stage, op, batch, retire, held>>
  BY DEF CarveSlab, local, control
<1>3. /\ bucketOf'[c] = b /\ carved'[c] = 0 /\ freeCount'[c] = 0 /\ cur'[b] = c
      /\ \A d \in slabs : /\ bucketOf'[d] = bucketOf[d] /\ carved'[d] = carved[d]
                          /\ chain'[d] = chain[d] /\ freeCount'[d] = freeCount[d]
      /\ \A a \in Bucket : a # b => cur'[a] = cur[a]
  BY <1>1, <1>2
<1>4. SlabBooks'
  <2>1. RoomOnlyInCurrent'
    <3>1. ASSUME NEW d \in slabs, carved[d] < Capacity[bucketOf[d]]
          PROVE  cur'[bucketOf[d]] = d
      <4>1. d \in Chunk /\ d # NoChunk /\ bucketOf[d] \in Bucket /\ cur[bucketOf[d]] = d
        BY <1>1, <3>1, ChunkAssumption DEF Books, SlabBooks, RoomOnlyInCurrent
      <4>2. bucketOf[d] # b
        BY <1>1, <3>1, <4>1 DEF UsedUp
      <4>. QED
        BY <1>3, <4>1, <4>2
    <3>. QED
      BY <1>2, <1>3, <3>1 DEF RoomOnlyInCurrent
  <2>2. NoFrozenSlab'
    BY <1>1, <1>2, <1>3 DEF Books, SlabBooks, NoFrozenSlab
  <2>. QED
    BY <2>1, <2>2 DEF SlabBooks
<1>5. NoLostBlock'
  <2>1. \A q : Out(q) => Out(q)'
    BY <1>2 DEF Out, InCaches, ProgramHeld, Retiring
  <2>2. ASSUME NEW d \in slabs', NEW j \in 1 .. carved'[d],
               NEW p, p = <<d, bucketOf'[d], j>>
        PROVE  j \in chain'[d] \/ Out(p)'
    <3>1. d # c
      BY <1>3, <2>2
    <3>2. d \in slabs /\ j \in 1 .. carved[d] /\ p = <<d, bucketOf[d], j>>
      BY <1>2, <1>3, <2>2, <3>1
    <3>3. j \in chain[d] \/ Out(p)
      BY <3>2, NoLostIs DEF Books
    <3>. QED
      BY <1>3, <2>1, <3>2, <3>3
  <2>. QED
    BY <2>2, NoLostIsPrime
<1>6. \A s \in Thread : ThreadBooks(s)'
  BY <1>2 DEF Books, ThreadBooks
<1>. QED
  BY <1>4, <1>5, <1>6 DEF Books

-----------------------------------------------------------------------------
LEMMA InitBooks == Init => Books
<1>1. SUFFICES ASSUME Init PROVE Books
  OBVIOUS
<1>2. AnyBucket \in Bucket
  BY BucketAssumption DEF AnyBucket
<1>3. SlabBooks /\ NoLostBlock
  BY <1>1 DEF Init, SlabBooks, RoomOnlyInCurrent, NoFrozenSlab, NoLostBlock
<1>4. Cardinality({}) = 0 /\ Want(AnyBucket) \in Nat
  BY <1>2, WantIs, FS_EmptySet
<1>5. \A b \in Bucket : ~(0 > CacheCap[b])
  BY CacheCapAssumption
<1>6. \A t \in Thread : ThreadBooks(t)
  BY <1>1, <1>2, <1>4, <1>5 DEF Init, ThreadBooks
<1>. QED
  BY <1>3, <1>6 DEF Books

LEMMA NextBooks == IInv /\ Books /\ [Next]_vars => Books'
<1>1. SUFFICES ASSUME IInv, Books, [Next]_vars PROVE Books'
  OBVIOUS
<1>2. CASE UNCHANGED vars
  <2>1. UNCHANGED <<pool, cache, count, stage, op, batch, retire, held>>
    BY <1>2 DEF vars, local, control
  <2>2. \A q : Out(q) => Out(q)'
    BY <2>1 DEF Out, InCaches, ProgramHeld, Retiring
  <2>3. SlabBooks' /\ NoLostBlock'
    BY <1>1, <2>1, <2>2, PoolKeepsBooks
  <2>4. \A t \in Thread : ThreadBooks(t)'
    BY <1>1, <2>1 DEF Books, ThreadBooks, pool
  <2>. QED
    BY <2>3, <2>4 DEF Books
<1>3. ASSUME NEW t \in Thread, Request(t) PROVE Books'
  BY <1>1, <1>3, RefillBooks, AllocCachedBooks, ReallocCachedBooks, FreeCachedBooks,
     FreeLockedBooks, MovesBooks, ThreadStartBooks DEF Request
<1>4. ASSUME NEW t \in Thread, Acquire(t) PROVE Books'
  BY <1>1, <1>4, MovesBooks, RetireOldBooks DEF Acquire
<1>5. ASSUME NEW t \in Thread, Holder(t) PROVE Books'
  <2>1. op[t] \in Bucket
    BY <1>1 DEF IInv, TypeOK
  <2>2. CASE \E c \in slabs : \E i \in chain[c] : PopFree(t, c, i)
    BY <1>1, <2>2, PopFreeBooks
  <2>3. CASE PopNone(t) \/ DrainDone(t) \/ FlushDone(t) \/ CarveBlock(t) \/ AllocFails(t)
    BY <1>1, <2>3, MovesBooks, CarveBlockBooks, AllocFailsBooks
  <2>4. CASE \E c \in Chunk : CarveSlab(t, c)
    BY <1>1, <2>4, CarveSlabBooks
  <2>5. CASE \E p \in batch[t] : DeliverFull(t, p) \/ DeliverShort(t, p)
    BY <1>1, <2>5, DeliverBooks DEF DeliverFull, DeliverShort
  <2>6. CASE \E p \in cache[t][op[t]] : DrainOne(t, p)
    BY <1>1, <2>1, <2>6, UncacheBooks DEF DrainOne
  <2>7. CASE \E b \in Bucket : \E p \in cache[t][b] : FlushOne(t, b, p)
    BY <1>1, <2>7, UncacheBooks DEF FlushOne
  <2>. QED
    BY <1>5, <2>2, <2>3, <2>4, <2>5, <2>6, <2>7 DEF Holder
<1>. QED
  BY <1>1, <1>2, <1>3, <1>4, <1>5 DEF Next

(* No block is ever lost, a slab without a use is gone at once and only a  *)
(* current slab has room left, no cache outgrows its cap but while it is   *)
(* trimmed, and no refill the array of AllocSBA (PopBatch, Push, TLSFree). *)
THEOREM BooksAlwaysInOrder == Spec => []BooksInOrder
<1>1. IInv /\ Books => BooksInOrder
  BY BooksParts
<1>. QED
  BY <1>1, Invariance, InitBooks, NextBooks, PTL DEF Spec

(* AllocSBA returns NULL only when every slab of its bucket is used up and *)
(* has no free block, though PopBatch drains but one slab before it carves.*)
THEOREM FailsOnlyWhenEmpty == Spec => NullOnlyWhenEmpty
<1> DEFINE NothingLeft(t) == \A c \in slabs : bucketOf[c] = op[t] =>
                               chain[c] = {} /\ carved[c] = Capacity[op[t]]
           FailsEmpty == \A t \in Thread : AllocFails(t) => NothingLeft(t)
<1>1. IInv /\ Books => FailsEmpty
  <2>1. SUFFICES ASSUME IInv, Books, NEW t \in Thread, AllocFails(t),
                        NEW c \in slabs, bucketOf[c] = op[t]
                 PROVE  chain[c] = {} /\ carved[c] = Capacity[op[t]]
    OBVIOUS
  <2>2. /\ c \in Chunk /\ op[t] \in Bucket /\ freeCount[c] \in Nat /\ carved[c] \in Nat
        /\ carved[c] <= Capacity[op[t]] /\ Capacity[op[t]] \in Nat /\ c # NoChunk
    BY <2>1, CapacityAssumption, ChunkAssumption DEF IInv, TypeOK, SlabShape
  <2>3. partial[op[t]] = {}
    BY <2>1 DEF AllocFails, OutOfMemory, Books, ThreadBooks
  <2>4. freeCount[c] = 0
    BY <2>1, <2>2, <2>3 DEF IInv, PartialExact
  <2>5. IsFiniteSet(chain[c]) /\ Cardinality(chain[c]) = 0
    BY <2>1, <2>4, IInvParts, ChainFinite DEF PoolInv, FreeCountExact
  <2>6. chain[c] = {}
    BY <2>5, FS_EmptySet
  <2>7. carved[c] = Capacity[op[t]]
    BY <2>1, <2>2 DEF AllocFails, OutOfMemory, UsedUp, Books, SlabBooks, RoomOnlyInCurrent
  <2>. QED
    BY <2>6, <2>7
<1>2. IInv /\ Books /\ [Next]_vars => [FailsEmpty]_vars
  BY <1>1
<1>. QED
  BY <1>2, Invariance, InitBooks, NextBooks, PTL DEF Spec, NullOnlyWhenEmpty

-----------------------------------------------------------------------------
(* The sizes fit: for every request and every bucket.                      *)

(* A request is served from the first bucket whose blocks are large        *)
(* enough: see RequestFits.                                                *)
THEOREM RequestsFit == \A size \in Size : RequestFits(size)
<1>. SUFFICES ASSUME NEW size \in Size PROVE RequestFits(size)
  OBVIOUS
<1>1. CASE size = 0
  <2>1. SBARound(size) = 4
    BY <1>1 DEF SBARound, Down, SBA_SMALL_ROUND
  <2>2. SBABucket(4) = 0 /\ SBAPayload(0) = 4
    BY DEF SBABucket, SBAPayload
  <2>. QED
    BY <1>1, <2>1, <2>2 DEF RequestFits, BucketIndex, SBA_BUCKETS
<1>2. CASE size \in 1 .. 96
  <2>1. PICK q \in 1 .. 24 : SBARound(size) = 4 * q /\ size <= 4 * q /\ 4 * q < size + 4
    <3>. DEFINE m == (size + 3) \div 4
    <3>1. m \in 1 .. 24 /\ Down(size + 3, 4) = 4 * m /\ size <= 4 * m /\ 4 * m < size + 4
      BY <1>2 DEF Down
    <3>2. SBARound(size) = Down(size + 3, 4)
      BY <1>2 DEF SBARound, SBA_SMALL_ROUND
    <3>. QED
      BY <3>1, <3>2
  <2>2. SBABucket(4 * q) = q - 1
    BY DEF SBABucket
  <2>3. SBAPayload(q - 1) = 4 * q /\ (q > 1 => SBAPayload(q - 2) = 4 * q - 4)
    BY DEF SBAPayload
  <2>. QED
    BY <1>2, <2>1, <2>2, <2>3 DEF RequestFits, BucketIndex, SBA_BUCKETS
<1>3. CASE size \in 97 .. 2048
  <2>1. PICK q \in 13 .. 256 : SBARound(size) = 8 * q /\ size <= 8 * q /\ 8 * q < size + 8
    <3>. DEFINE m == (size + 7) \div 8
    <3>1. m \in 13 .. 256 /\ Down(size + 7, 8) = 8 * m /\ size <= 8 * m /\ 8 * m < size + 8
      BY <1>3 DEF Down
    <3>2. SBARound(size) = Down(size + 7, 8)
      BY <1>3 DEF SBARound, SBA_SMALL_ROUND
    <3>. QED
      BY <3>1, <3>2
  <2>2. SBABucket(8 * q) = 11 + q
    BY DEF SBABucket
  <2>3. /\ SBAPayload(11 + q) = 8 * q
        /\ SBAPayload(10 + q) = IF q = 13 THEN 96 ELSE 8 * q - 8
    BY DEF SBAPayload
  <2>. QED
    BY <1>3, <2>1, <2>2, <2>3 DEF RequestFits, BucketIndex, SBA_BUCKETS
<1>. QED
  BY <1>1, <1>2, <1>3 DEF Size, SBA_MAX

(* Where the blocks of a bucket lie.                                       *)
LEMMA SlotIs ==
  ASSUME NEW bucket \in BucketIndex
  PROVE  /\ SBAPayload(bucket) \in 4 .. 2048
         /\ SlotOf(bucket) \in 16 .. 2064 /\ SlotOf(bucket) % 8 = 0
         /\ SBA_HEADER + SBAPayload(bucket) <= SlotOf(bucket)
<1>1. SBAPayload(bucket) \in 4 .. 2048
  BY DEF SBAPayload, BucketIndex, SBA_BUCKETS
<1>2. PICK p \in 4 .. 2048 : p = SBAPayload(bucket)
  BY <1>1
<1>3. /\ SBASlot(p) \in 16 .. 2064 /\ SBASlot(p) % 8 = 0
      /\ SBA_HEADER + p <= SBASlot(p)
  BY DEF SBASlot, Down, SBA_HEADER
<1>. QED
  BY <1>2, <1>3 DEF SlotOf

(* What is left of a division.                                             *)
LEMMA Quotient ==
  ASSUME NEW m \in Nat, NEW d \in Nat \ {0}
  PROVE  /\ m \div d \in Nat
         /\ (m \div d) * d <= m
         /\ m < (m \div d) * d + d
  OBVIOUS

(* A slab holds two blocks, apart and inside; a refill fits its cache and  *)
(* AllocSBA's array: see SlabHoldsBlocks and RefillFits.                   *)
THEOREM SlabsHoldBlocks == \A b \in BucketIndex : SlabHoldsBlocks(b) /\ RefillFits(b)
<1>. SUFFICES ASSUME NEW b \in BucketIndex PROVE SlabHoldsBlocks(b) /\ RefillFits(b)
  OBVIOUS
<1>. DEFINE slot == SlotOf(b)
<1>1. /\ SBAPayload(b) \in 4 .. 2048
      /\ slot \in 16 .. 2064 /\ slot % 8 = 0 /\ SBA_HEADER + SBAPayload(b) <= slot
  BY SlotIs
<1>. HIDE DEF slot
<1>2. /\ 4048 \div slot \in Nat /\ 8144 \div slot \in Nat
      /\ (4048 \div slot) * slot <= 4048 /\ (8144 \div slot) * slot <= 8144
      /\ 8144 < (8144 \div slot) * slot + slot
  <2>1. slot \in Nat \ {0} /\ 4048 \in Nat /\ 8144 \in Nat
    BY <1>1
  <2>. QED
    BY ONLY <2>1, Quotient
<1>3. 8144 \div slot >= 2
  BY <1>1, <1>2
<1>4. SlabHoldsBlocks(b)
  <2>1. \/ (SBASlabBytes(b) = 4096 /\ 4048 \div slot >= 2)
        \/ SBASlabBytes(b) = 8192
    BY <1>2 DEF SBASlabBytes, SBASlabBytesForSlot, SBA_SLAB_SIZE, SBA_DESC_RESERVE, slot
  <2>2. SlabCapacity(b) = (SBASlabBytes(b) - 48) \div slot
    BY DEF SlabCapacity, SBA_DESC_RESERVE, slot
  <2>3. SlabCapacity(b) >= 2 /\ 48 + SlabCapacity(b) * slot <= SBASlabBytes(b)
    <3>1. CASE SBASlabBytes(b) = 4096 /\ 4048 \div slot >= 2
      <4>1. SlabCapacity(b) = 4048 \div slot
        BY <2>2, <3>1
      <4>. QED
        BY <1>1, <1>2, <3>1, <4>1
    <3>2. CASE SBASlabBytes(b) = 8192
      <4>1. SlabCapacity(b) = 8144 \div slot
        BY <2>2, <3>2
      <4>. QED
        BY <1>1, <1>2, <1>3, <3>2, <4>1
    <3>. QED
      BY <2>1, <3>1, <3>2
  <2>. QED
    BY <1>1, <2>3 DEF SlabHoldsBlocks, SBA_DESC_RESERVE, SBA_HEADER, slot
<1>5. 8192 \div slot \in Nat
  BY <1>1, Quotient
<1>6. RefillFits(b)
  BY <1>5 DEF RefillFits, RefillWant, SBACapForSlot, RefillArray, slot
<1>. QED
  BY <1>4, <1>6

=============================================================================
