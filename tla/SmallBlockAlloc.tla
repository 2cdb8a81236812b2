--------------------------- MODULE SmallBlockAlloc ---------------------------
(***************************************************************************)
(* The small block allocator of tier0 (src/tier0/mem.cpp): the locked pool *)
(* of slabs (CSmallBlockAlloc), the per-thread block caches in front of it *)
(* (SBAThreadCaches, AllocSBA, TLSFree) and the entry points that use them *)
(* (CStdMemAlloc::Alloc, Realloc, Free).                                   *)
(*                                                                         *)
(* Everything done under CSmallBlockAlloc::m_cs is split at the iterations *)
(* of its loops, so that the lock-free operations of other threads run     *)
(* between any two of them.  Intrusive LIFO chains are sets: no property   *)
(* depends on which free block comes first, every order the code can       *)
(* produce is a choice of \E, and so are some orders it cannot (a block    *)
(* freed first may be reused first).  The backing memory of a slab is one  *)
(* Chunk, obtained from the arena or from malloc (module SlabArena models  *)
(* the arena); both may run out at any time.  A lock-free lookup may miss, *)
(* so Free may take its locked path for any block.                         *)
(***************************************************************************)
EXTENDS Naturals, FiniteSets

CONSTANTS
  Thread,    \* threads that allocate and free
  Bucket,    \* pools, one per rounded size
  Chunk,     \* pieces of memory a slab can live in
  Capacity,  \* Capacity[b]: blocks that fit in a slab of bucket b
  CacheCap,  \* CacheCap[b]: blocks of b a thread cache keeps (SBACapForSlot)
  MaxBatch,  \* size of AllocSBA's refill array (96 in the code)
  NoThread, NoChunk, NoBlock

ASSUME BucketAssumption == Bucket # {}
ASSUME ThreadAssumption == NoThread \notin Thread
ASSUME ChunkAssumption == NoChunk \notin Chunk
ASSUME BlockAssumption == NoBlock \notin Chunk \X Bucket \X Nat
ASSUME CapacityAssumption == Capacity \in [Bucket -> Nat \ {0}]
ASSUME CacheCapAssumption == CacheCap \in [Bucket -> Nat \ {0}]
ASSUME BatchAssumption == MaxBatch \in Nat \ {0}

VARIABLES
  slabs,      \* m_slabs: chunks holding a live slab
  bucketOf,   \* SBASlab::bucket of each live slab
  carved,     \* blocks cut from the slab so far (SBASlab::freePtr)
  chain,      \* indices of the blocks chained in SBASlab::freeHead
  freeCount,  \* SBASlab::freeCount
  cur,        \* m_cur: the slab each bucket carves from
  partial,    \* m_partial: the slabs of a bucket linked for having free blocks
  lock,       \* owner of m_cs
  cache,      \* TLSFreeBucket::head of each thread and bucket
  count,      \* TLSFreeBucket::count
  stage,      \* what each thread is doing
  op,         \* the bucket its operation is about
  batch,      \* AllocSBA's local array tmp[0..got)
  retire,     \* the old block of a Realloc in progress
  held        \* blocks the program has been given and not returned

pool == <<slabs, bucketOf, carved, chain, freeCount, cur, partial>>
local == <<cache, count>>
control == <<stage, op, batch, retire>>
vars == <<pool, lock, local, control, held>>

(* A block is the chunk it lies in, the bucket in its header, its index.   *)
Block == Chunk \X Bucket \X Nat

Stage == {"idle", "refill", "pop", "carve", "retire",
          "drain", "push", "flush", "gone"}

(* The stages in which a thread is inside m_cs.                            *)
Locked == {"pop", "carve", "push", "flush"}

(* What a field holds before the code first writes it.                     *)
AnyBucket == CHOOSE b \in Bucket : TRUE

Smaller(a, b) == IF a <= b THEN a ELSE b

(* How many blocks a refill asks the pool for.                             *)
Want(b) == Smaller(CacheCap[b], MaxBatch)

(* What TLSFree leaves in a cache that grew past its cap.                  *)
Leave(b) == CacheCap[b] \div 2

Init ==
  /\ slabs = {}
  /\ bucketOf = [c \in Chunk |-> AnyBucket]
  /\ carved = [c \in Chunk |-> 0]
  /\ chain = [c \in Chunk |-> {}]
  /\ freeCount = [c \in Chunk |-> 0]
  /\ cur = [b \in Bucket |-> NoChunk]
  /\ partial = [b \in Bucket |-> {}]
  /\ lock = NoThread
  /\ cache = [t \in Thread |-> [b \in Bucket |-> {}]]
  /\ count = [t \in Thread |-> [b \in Bucket |-> 0]]
  /\ stage = [t \in Thread |-> "idle"]
  /\ op = [t \in Thread |-> AnyBucket]
  /\ batch = [t \in Thread |-> {}]
  /\ retire = [t \in Thread |-> NoBlock]
  /\ held = {}

-----------------------------------------------------------------------------
(* The pool, entered with m_cs held.                                       *)

(* A slab with every block free and nothing left to carve is unlinked from *)
(* every list and its chunk goes back to the arena.  The fields of a dead  *)
(* slab are reset: nothing reads them before CarveSlab writes them.        *)
DestroySlab(c, b) ==
  /\ slabs' = slabs \ {c}
  /\ cur' = [cur EXCEPT ![b] = IF @ = c THEN NoChunk ELSE @]
  /\ partial' = [partial EXCEPT ![b] = @ \ {c}]
  /\ chain' = [chain EXCEPT ![c] = {}]
  /\ freeCount' = [freeCount EXCEPT ![c] = 0]
  /\ carved' = [carved EXCEPT ![c] = 0]
  /\ bucketOf' = [bucketOf EXCEPT ![c] = AnyBucket]

(* Faulty: the test is off by one, against the count before the return or  *)
(* with one block to spare.                                                *)
FreezesLate(c) ==
  /\ freeCount[c] = Capacity[bucketOf[c]]
  /\ carved[c] = Capacity[bucketOf[c]]

FreezesEarly(c) ==
  /\ freeCount[c] + 1 >= Capacity[bucketOf[c]] - 1
  /\ carved[c] = Capacity[bucketOf[c]]

(* Does returning one more block leave the slab with no block in use?      *)
Freezes(c) ==
  /\ freeCount[c] + 1 = Capacity[bucketOf[c]]
  /\ carved[c] = Capacity[bucketOf[c]]

(* Link one block back into its slab.                                      *)
ReturnBlock(b, c, i) ==
  /\ partial' = [partial EXCEPT ![b] =
                    IF freeCount[c] = 0 THEN @ \union {c} ELSE @]
  /\ chain' = [chain EXCEPT ![c] = @ \union {i}]
  /\ freeCount' = [freeCount EXCEPT ![c] = @ + 1]
  /\ UNCHANGED <<slabs, bucketOf, carved, cur>>

(* Push(b, p): a block whose slab is not found is leaked.                  *)
Push(b, p) ==
  IF p[1] \notin slabs THEN UNCHANGED pool
  ELSE IF Freezes(p[1]) THEN DestroySlab(p[1], b)
  ELSE ReturnBlock(b, p[1], p[3])

-----------------------------------------------------------------------------
(* Alloc and Realloc.  r is the block a Realloc moves from, NoBlock for a  *)
(* plain Alloc.  A Realloc within one bucket returns its argument and does *)
(* nothing; one from the CRT heap into a pool is an Alloc here.            *)

(* Faulty: the list keeps the block that is handed out.                    *)
TakeNone(t, b, p) ==
  /\ stage[t] = "idle"
  /\ count[t][b] > 0
  /\ p \in cache[t][b]
  /\ count' = [count EXCEPT ![t][b] = @ - 1]
  /\ UNCHANGED <<pool, lock, cache, op, batch>>

(* The cached block c.head is handed out; the last one empties the list.   *)
TakeCached(t, b, p) ==
  /\ stage[t] = "idle"
  /\ count[t][b] > 0
  /\ p \in cache[t][b]
  /\ cache' = [cache EXCEPT ![t][b] = IF count[t][b] > 1 THEN @ \ {p} ELSE {}]
  /\ count' = [count EXCEPT ![t][b] = @ - 1]
  /\ UNCHANGED <<pool, lock, op, batch>>

AllocCached(t, b, p) ==
  /\ TakeCached(t, b, p)
  /\ held' = held \union {p}
  /\ UNCHANGED <<stage, retire>>

ReallocCached(t, b, p, r) ==
  /\ r[2] # b
  /\ TakeCached(t, b, p)
  /\ held' = (held \ {r}) \union {p}
  /\ retire' = [retire EXCEPT ![t] = r]
  /\ stage' = [stage EXCEPT ![t] = "retire"]

(* The cache is empty: a batch is wanted from the pool.                    *)
StartRefill(t, b) ==
  /\ stage[t] = "idle"
  /\ count[t][b] = 0
  /\ stage' = [stage EXCEPT ![t] = "refill"]
  /\ op' = [op EXCEPT ![t] = b]
  /\ UNCHANGED <<pool, lock, local, batch>>

AllocRefill(t, b) ==
  /\ StartRefill(t, b)
  /\ UNCHANGED <<retire, held>>

ReallocRefill(t, b, r) ==
  /\ r[2] # b
  /\ StartRefill(t, b)
  /\ retire' = [retire EXCEPT ![t] = r]
  /\ held' = held \ {r}

(* Faulty: m_cs is not waited for.                                         *)
RefillUnlocked(t) ==
  /\ stage[t] = "refill"
  /\ lock' = t
  /\ stage' = [stage EXCEPT ![t] = "pop"]
  /\ UNCHANGED <<pool, local, op, batch, retire, held>>

LockRefill(t) ==
  /\ stage[t] = "refill"
  /\ lock = NoThread
  /\ lock' = t
  /\ stage' = [stage EXCEPT ![t] = "pop"]
  /\ UNCHANGED <<pool, local, op, batch, retire, held>>

-----------------------------------------------------------------------------
(* PopBatch.  "pop" drains one partial slab, "carve" fills up from the     *)
(* current slab and, when that one is used up, from a fresh one.           *)

Short(t) == Cardinality(batch[t]) < Want(op[t])

(* Faulty: the slab stays linked after its last free block.                *)
PopFreeLinked(t, c, i) ==
  /\ stage[t] = "pop"
  /\ Short(t)
  /\ c \in partial[op[t]]
  /\ i \in chain[c]
  /\ chain' = [chain EXCEPT ![c] = @ \ {i}]
  /\ freeCount' = [freeCount EXCEPT ![c] = @ - 1]
  /\ batch' = [batch EXCEPT ![t] = @ \union {<<c, op[t], i>>}]
  /\ stage' = [stage EXCEPT ![t] = IF freeCount[c] = 1 THEN "carve" ELSE "pop"]
  /\ UNCHANGED <<slabs, bucketOf, carved, cur, partial, lock, local, op, retire, held>>

(* Take one free block; the slab's last one unlinks it and ends the drain. *)
PopFree(t, c, i) ==
  /\ stage[t] = "pop"
  /\ Short(t)
  /\ c \in partial[op[t]]
  /\ i \in chain[c]
  /\ chain' = [chain EXCEPT ![c] = @ \ {i}]
  /\ freeCount' = [freeCount EXCEPT ![c] = @ - 1]
  /\ batch' = [batch EXCEPT ![t] = @ \union {<<c, op[t], i>>}]
  /\ partial' = [partial EXCEPT ![op[t]] =
                    IF freeCount[c] = 1 THEN @ \ {c} ELSE @]
  /\ stage' = [stage EXCEPT ![t] = IF freeCount[c] = 1 THEN "carve" ELSE "pop"]
  /\ UNCHANGED <<slabs, bucketOf, carved, cur, lock, local, op, retire, held>>

(* Faulty: the partial slabs are passed over.                              *)
PopSkipped(t) ==
  /\ stage[t] = "pop"
  /\ Short(t)
  /\ stage' = [stage EXCEPT ![t] = "carve"]
  /\ UNCHANGED <<pool, lock, local, op, batch, retire, held>>

PopNone(t) ==
  /\ stage[t] = "pop"
  /\ Short(t)
  /\ partial[op[t]] = {}
  /\ stage' = [stage EXCEPT ![t] = "carve"]
  /\ UNCHANGED <<pool, lock, local, op, batch, retire, held>>

(* Nothing can be carved from the current slab of bucket b.                *)
UsedUp(b) == cur[b] # NoChunk => carved[cur[b]] = Capacity[b]

(* A fresh slab becomes the current one.                                   *)
CarveSlab(t, c) ==
  /\ stage[t] = "carve"
  /\ Short(t)
  /\ UsedUp(op[t])
  /\ c \in Chunk \ slabs
  /\ slabs' = slabs \union {c}
  /\ bucketOf' = [bucketOf EXCEPT ![c] = op[t]]
  /\ carved' = [carved EXCEPT ![c] = 0]
  /\ chain' = [chain EXCEPT ![c] = {}]
  /\ freeCount' = [freeCount EXCEPT ![c] = 0]
  /\ cur' = [cur EXCEPT ![op[t]] = c]
  /\ UNCHANGED <<partial, lock, local, control, held>>

(* Cut the next block; the one that uses the slab up goes back to "pop".   *)
CarveBlock(t) ==
  LET b == op[t]
      c == cur[b]
  IN  /\ stage[t] = "carve"
      /\ Short(t)
      /\ ~UsedUp(b)
      /\ carved' = [carved EXCEPT ![c] = @ + 1]
      /\ batch' = [batch EXCEPT ![t] = @ \union {<<c, b, carved[c] + 1>>}]
      /\ stage' = [stage EXCEPT ![t] =
                     IF carved[c] + 1 = Capacity[b] THEN "pop" ELSE "carve"]
      /\ UNCHANGED <<slabs, bucketOf, chain, freeCount, cur, partial,
                     lock, local, op, retire, held>>

-----------------------------------------------------------------------------
(* AllocSBA after PopBatch: m_cs is released, the first block of the batch *)
(* is the result and the others become the thread's cache.                 *)

Unlock(t, s) ==
  /\ lock' = NoThread
  /\ stage' = [stage EXCEPT ![t] = s]

(* Faulty: the result is cached as well, or counted as if it were.         *)
DeliverTwice(t, p) ==
  /\ stage[t] \in {"pop", "carve"}
  /\ p \in batch[t]
  /\ cache' = [cache EXCEPT ![t][op[t]] = batch[t]]
  /\ count' = [count EXCEPT ![t][op[t]] = Cardinality(batch[t])]
  /\ held' = held \union {p}
  /\ batch' = [batch EXCEPT ![t] = {}]
  /\ Unlock(t, IF retire[t] = NoBlock THEN "idle" ELSE "retire")
  /\ UNCHANGED <<pool, op, retire>>

DeliverMiscounted(t, p) ==
  /\ stage[t] \in {"pop", "carve"}
  /\ p \in batch[t]
  /\ cache' = [cache EXCEPT ![t][op[t]] = batch[t] \ {p}]
  /\ count' = [count EXCEPT ![t][op[t]] = Cardinality(batch[t])]
  /\ held' = held \union {p}
  /\ batch' = [batch EXCEPT ![t] = {}]
  /\ Unlock(t, IF retire[t] = NoBlock THEN "idle" ELSE "retire")
  /\ UNCHANGED <<pool, op, retire>>

Deliver(t, p) ==
  /\ stage[t] \in {"pop", "carve"}
  /\ p \in batch[t]
  /\ cache' = [cache EXCEPT ![t][op[t]] = batch[t] \ {p}]
  /\ count' = [count EXCEPT ![t][op[t]] = Cardinality(batch[t]) - 1]
  /\ held' = held \union {p}
  /\ batch' = [batch EXCEPT ![t] = {}]
  /\ Unlock(t, IF retire[t] = NoBlock THEN "idle" ELSE "retire")
  /\ UNCHANGED <<pool, op, retire>>

(* No memory for a slab: what was found so far is delivered.               *)
OutOfMemory(t) == stage[t] = "carve" /\ Short(t) /\ UsedUp(op[t])

DeliverFull(t, p) == ~Short(t) /\ Deliver(t, p)
DeliverShort(t, p) == OutOfMemory(t) /\ Deliver(t, p)

(* Alloc returns NULL; a Realloc leaves its old block with the caller.     *)
AllocFails(t) ==
  /\ OutOfMemory(t)
  /\ batch[t] = {}
  /\ held' = held \union ({retire[t]} \ {NoBlock})
  /\ retire' = [retire EXCEPT ![t] = NoBlock]
  /\ Unlock(t, "idle")
  /\ UNCHANGED <<pool, local, op, batch>>

(* The replacement exists: Realloc pushes the old block under m_cs.        *)
RetireOld(t) ==
  /\ stage[t] = "retire"
  /\ lock = NoThread
  /\ Push(retire[t][2], retire[t])
  /\ retire' = [retire EXCEPT ![t] = NoBlock]
  /\ stage' = [stage EXCEPT ![t] = "idle"]
  /\ UNCHANGED <<lock, local, op, batch, held>>

-----------------------------------------------------------------------------
(* Free.  The block may have been allocated by any thread.                 *)

(* The lock-free lookup found the block: it joins the freeing thread's     *)
(* cache, which is trimmed when it has grown past its cap.                 *)
FreeCached(t, p) ==
  LET b == p[2]
  IN  /\ stage[t] = "idle"
      /\ held' = held \ {p}
      /\ cache' = [cache EXCEPT ![t][b] = @ \union {p}]
      /\ count' = [count EXCEPT ![t][b] = @ + 1]
      /\ stage' = [stage EXCEPT ![t] =
                     IF count[t][b] + 1 > CacheCap[b] THEN "drain" ELSE "idle"]
      /\ op' = [op EXCEPT ![t] = IF count[t][b] + 1 > CacheCap[b] THEN b ELSE @]
      /\ UNCHANGED <<pool, lock, batch, retire>>

(* The lookup missed, or a Realloc moved the block to the CRT heap: the    *)
(* block is classified and pushed under m_cs.                              *)
FreeLocked(t, p) ==
  /\ stage[t] = "idle"
  /\ lock = NoThread
  /\ held' = held \ {p}
  /\ Push(p[2], p)
  /\ UNCHANGED <<lock, local, control>>

LockDrain(t) ==
  /\ stage[t] = "drain"
  /\ lock = NoThread
  /\ lock' = t
  /\ stage' = [stage EXCEPT ![t] = "push"]
  /\ UNCHANGED <<pool, local, op, batch, retire, held>>

(* Move one cached block of bucket b to the pool.                          *)
Uncache(t, b, p) ==
  /\ p \in cache[t][b]
  /\ cache' = [cache EXCEPT ![t][b] = @ \ {p}]
  /\ count' = [count EXCEPT ![t][b] = @ - 1]
  /\ Push(b, p)
  /\ UNCHANGED <<lock, control, held>>

DrainOne(t, p) ==
  /\ stage[t] = "push"
  /\ count[t][op[t]] > Leave(op[t])
  /\ Uncache(t, op[t], p)

DrainDone(t) ==
  /\ stage[t] = "push"
  /\ count[t][op[t]] = Leave(op[t]) \/ cache[t][op[t]] = {}
  /\ Unlock(t, "idle")
  /\ UNCHANGED <<pool, local, op, batch, retire, held>>

-----------------------------------------------------------------------------
(* Thread exit: ~SBAThreadCaches pushes every cached block back in one     *)
(* lock hold.  A later thread starts with empty caches.                    *)

ThreadExit(t) ==
  /\ stage[t] = "idle"
  /\ lock = NoThread
  /\ lock' = t
  /\ stage' = [stage EXCEPT ![t] = "flush"]
  /\ UNCHANGED <<pool, local, op, batch, retire, held>>

FlushOne(t, b, p) ==
  /\ stage[t] = "flush"
  /\ Uncache(t, b, p)

FlushDone(t) ==
  /\ stage[t] = "flush"
  /\ \A b \in Bucket : cache[t][b] = {}
  /\ Unlock(t, "gone")
  /\ UNCHANGED <<pool, local, op, batch, retire, held>>

ThreadStart(t) ==
  /\ stage[t] = "gone"
  /\ stage' = [stage EXCEPT ![t] = "idle"]
  /\ cache' = [cache EXCEPT ![t] = [b \in Bucket |-> {}]]
  /\ count' = [count EXCEPT ![t] = [b \in Bucket |-> 0]]
  /\ UNCHANGED <<pool, lock, op, batch, retire, held>>

-----------------------------------------------------------------------------
Request(t) ==
  \/ \E b \in Bucket : AllocRefill(t, b)
  \/ \E b \in Bucket : \E r \in held : ReallocRefill(t, b, r)
  \/ \E b \in Bucket : \E p \in cache[t][b] : AllocCached(t, b, p)
  \/ \E b \in Bucket : \E p \in cache[t][b] : \E r \in held :
        ReallocCached(t, b, p, r)
  \/ \E p \in held : FreeCached(t, p)
  \/ \E p \in held : FreeLocked(t, p)
  \/ ThreadExit(t)
  \/ ThreadStart(t)

Acquire(t) == LockRefill(t) \/ LockDrain(t) \/ RetireOld(t)

(* The steps of the thread that is inside m_cs.                            *)
Holder(t) ==
  \/ \E c \in slabs : \E i \in chain[c] : PopFree(t, c, i)
  \/ PopNone(t)
  \/ \E c \in Chunk : CarveSlab(t, c)
  \/ CarveBlock(t)
  \/ \E p \in batch[t] : DeliverFull(t, p)
  \/ \E p \in batch[t] : DeliverShort(t, p)
  \/ AllocFails(t)
  \/ \E p \in cache[t][op[t]] : DrainOne(t, p)
  \/ DrainDone(t)
  \/ \E b \in Bucket : \E p \in cache[t][b] : FlushOne(t, b, p)
  \/ FlushDone(t)

Next == \E t \in Thread : Request(t) \/ Acquire(t) \/ Holder(t)

Spec == Init /\ [][Next]_vars

(* A thread inside m_cs never blocks: it runs on until it leaves.          *)
FairSpec == Spec /\ \A t \in Thread : WF_vars(Holder(t))

-----------------------------------------------------------------------------
TypeOK ==
  /\ slabs \subseteq Chunk
  /\ bucketOf \in [Chunk -> Bucket]
  /\ carved \in [Chunk -> Nat]
  /\ chain \in [Chunk -> SUBSET Nat]
  /\ freeCount \in [Chunk -> Nat]
  /\ cur \in [Bucket -> Chunk \union {NoChunk}]
  /\ partial \in [Bucket -> SUBSET Chunk]
  /\ lock \in Thread \union {NoThread}
  /\ cache \in [Thread -> [Bucket -> SUBSET Block]]
  /\ count \in [Thread -> [Bucket -> Nat]]
  /\ stage \in [Thread -> Stage]
  /\ op \in [Thread -> Bucket]
  /\ batch \in [Thread -> SUBSET Block]
  /\ retire \in [Thread -> Block \union {NoBlock}]
  /\ held \subseteq Block

-----------------------------------------------------------------------------
(* What must hold of the allocator.                                        *)

(* Blocks the program may still use: a Realloc's old block remains its own *)
(* until the move is complete.                                             *)
Retiring == {retire[t] : t \in Thread} \ {NoBlock}
ProgramHeld == held \union Retiring

(* A block outside the pool lies in a slab that still exists, was carved   *)
(* for that bucket, and is not also chained as free: DestroySlab never     *)
(* frees memory somebody can still reach, whichever thread cached it.      *)
OutIsLive(p) ==
  /\ p[1] \in slabs
  /\ p[2] = bucketOf[p[1]]
  /\ p[3] \in 1 .. carved[p[1]]
  /\ p[3] \notin chain[p[1]]

NoDanglingBlock ==
  /\ \A p \in held : OutIsLive(p)
  /\ \A t \in Thread :
       /\ retire[t] # NoBlock => OutIsLive(retire[t])
       /\ \A p \in batch[t] : OutIsLive(p)
       /\ \A b \in Bucket : \A p \in cache[t][b] : p[2] = b /\ OutIsLive(p)

(* No block has two owners: the program, the caches and the refills of     *)
(* all threads are pairwise disjoint, so no Alloc can return memory that   *)
(* was already given out.                                                  *)
OneOwner ==
  /\ \A t \in Thread : \A p \in batch[t] :
       /\ p \notin held
       /\ \A s \in Thread :
            /\ p # retire[s]
            /\ \A b \in Bucket : p \notin cache[s][b]
            /\ s # t => p \notin batch[s]
  /\ \A t \in Thread : \A b \in Bucket : \A p \in cache[t][b] :
       /\ p \notin held
       /\ \A s \in Thread : p # retire[s] /\ (s # t => p \notin cache[s][b])
  /\ \A t \in Thread : retire[t] # NoBlock =>
       /\ retire[t] \notin held
       /\ \A s \in Thread : s # t => retire[s] # retire[t]

(* No block is lost: each one ever cut from a live slab is chained as free *)
(* in it, or the program, a thread cache or a refill in progress has it.   *)
InCaches(p) == \E t \in Thread : p \in cache[t][p[2]] \/ p \in batch[t]

NoLostBlock ==
  \A c \in slabs : \A i \in 1 .. carved[c] :
    LET p == <<c, bucketOf[c], i>>
    IN  i \in chain[c] \/ p \in ProgramHeld \/ InCaches(p)

(* The counters agree with the chains they count; PopBatch, DestroySlab    *)
(* and AllocSBA decide by the counters and act on the chains.              *)
CountersExact ==
  /\ \A c \in slabs : freeCount[c] = Cardinality(chain[c])
  /\ \A t \in Thread : \A b \in Bucket :
       count[t][b] = Cardinality(cache[t][b])

(* m_partial[b] links exactly the live slabs of b that have a free block.  *)
PartialExact ==
  \A b \in Bucket :
    partial[b] = {c \in slabs : bucketOf[c] = b /\ freeCount[c] > 0}

(* Only the current slab of a bucket has room left to carve; room anywhere *)
(* else would never be used and would keep its slab from being destroyed.  *)
RoomOnlyInCurrent ==
  \A c \in slabs : carved[c] < Capacity[bucketOf[c]] => cur[bucketOf[c]] = c

(* A slab with no block in use and nothing to carve is gone at once.       *)
NoFrozenSlab ==
  \A c \in slabs : freeCount[c] < Capacity[bucketOf[c]]

(* Outside a trim, a cache never exceeds its cap.                          *)
CacheBounded ==
  \A t \in Thread : \A b \in Bucket :
    count[t][b] > CacheCap[b] => stage[t] \in {"drain", "push"} /\ op[t] = b

(* A refill fits the array it is collected in, and the cache it ends in.   *)
BatchFits == \A t \in Thread : Cardinality(batch[t]) <= Want(op[t])

(* PopBatch carves for an empty batch only when no slab of the bucket has  *)
(* a free block, and nobody returns one while it goes on under m_cs.       *)
CarvesLast ==
  \A t \in Thread : stage[t] = "carve" /\ batch[t] = {} => partial[op[t]] = {}

(* A thread that has exited left no block in its caches, which the next    *)
(* thread with its thread-local storage starts by emptying.                *)
NothingLeftBehind ==
  \A t \in Thread : stage[t] = "gone" => \A b \in Bucket : cache[t][b] = {}

(* The books by which PopBatch finds free blocks and DestroySlab finds     *)
(* slabs without a use are right, no block is missing from them, and no    *)
(* refill and no cache is larger than it may be.                           *)
BooksInOrder ==
  /\ NoLostBlock /\ PartialExact /\ RoomOnlyInCurrent /\ NoFrozenSlab
  /\ CacheBounded /\ BatchFits /\ CarvesLast /\ NothingLeftBehind

-----------------------------------------------------------------------------
(* The inductive strengthening of the invariants above.                    *)

(* Exactly the owner of m_cs is in a stage that runs under it.             *)
LockedStages == \A t \in Thread : stage[t] \in Locked <=> lock = t

(* What a thread carries belongs to the stage it is in; a refill only runs *)
(* on an empty cache, which Deliver overwrites.                            *)
ControlShape ==
  \A t \in Thread :
    /\ batch[t] # {} => stage[t] \in {"pop", "carve"}
    /\ \A p \in batch[t] : p[2] = op[t]
    /\ stage[t] \in {"refill", "pop", "carve"} => cache[t][op[t]] = {}
    /\ retire[t] # NoBlock => stage[t] \in {"refill", "pop", "carve", "retire"}
    /\ stage[t] = "retire" => retire[t] # NoBlock

(* What is chained was carved, no slab is carved past its end, and the     *)
(* current slab of a bucket is a live slab of that bucket.                 *)
SlabShape ==
  /\ \A c \in slabs : chain[c] \subseteq 1 .. carved[c]
  /\ \A c \in slabs : carved[c] <= Capacity[bucketOf[c]]
  /\ \A b \in Bucket : cur[b] # NoChunk => cur[b] \in slabs /\ bucketOf[cur[b]] = b

CachesFinite ==
  \A t \in Thread :
    /\ IsFiniteSet(batch[t])
    /\ \A b \in Bucket : IsFiniteSet(cache[t][b])

IInv ==
  /\ TypeOK
  /\ LockedStages
  /\ ControlShape
  /\ SlabShape
  /\ CachesFinite
  /\ CountersExact
  /\ PartialExact
  /\ NoDanglingBlock
  /\ OneOwner

-----------------------------------------------------------------------------
(* The pool and its caches implement the abstract allocator: what Alloc    *)
(* returns never overlaps memory in use, and only Free, or a Realloc that  *)
(* has its replacement, ends a block's use.                                *)
Store == INSTANCE BlockStore WITH inUse <- ProgramHeld
ImplementsStore == Store!Spec

(* Alloc returns NULL only when its bucket has no free block in any slab   *)
(* and none left to carve, even though PopBatch goes on to carve a fresh   *)
(* slab after draining just one partial slab.                              *)
NullOnlyWhenEmpty ==
  [][\A t \in Thread : AllocFails(t) =>
       \A c \in slabs : bucketOf[c] = op[t] =>
         chain[c] = {} /\ carved[c] = Capacity[op[t]]]_vars

(* A thread inside m_cs eventually leaves it: PopBatch's two loops, the    *)
(* trim of a cache and the flush at thread exit all end.                   *)
LockReleased == \A t \in Thread : (lock = t) ~> (lock # t)

=============================================================================
