----------------------------- MODULE SizeClasses -----------------------------
(***************************************************************************)
(* The sizes the small block allocator deals in: what a request is rounded *)
(* to, its bucket, the stride of the bucket's blocks, the bytes of a slab  *)
(* and what a slab and a thread's cache hold (src/tier0/mem.cpp).  The     *)
(* numbers are far from the width of the code's integers.                  *)
(***************************************************************************)
EXTENDS Integers

SBA_MAX == 2048
SBA_SMALL_ROUND == 97
SBA_BUCKETS == 11 + (2048 + 15) \div 8
SBA_HEADER == 8
SBA_SLAB_SIZE == 4096
SBA_DESC_RESERVE == 48
RefillArray == 96

Size == 0 .. SBA_MAX
BucketIndex == 0 .. SBA_BUCKETS - 1

(* n & ~(unit - 1), for a unit that is a power of two.                     *)
Down(n, unit) == n - (n % unit)

SBARound(size) ==
  LET n == IF size = 0 THEN 1 ELSE size
  IN  IF n < SBA_SMALL_ROUND THEN Down(n + 3, 4) ELSE Down(n + 7, 8)

SBABucket(roundSize) ==
  IF roundSize <= 96 THEN roundSize \div 4 - 1 ELSE 11 + roundSize \div 8

SBAPayload(bucket) ==
  IF bucket < 24 THEN (bucket + 1) * 4 ELSE (bucket - 11) * 8

SBASlot(payload) == Down(payload + SBA_HEADER + 15, 16)

SBASlabBytesForSlot(slot) ==
  IF (SBA_SLAB_SIZE - SBA_DESC_RESERVE) \div slot < 2 THEN SBA_SLAB_SIZE * 2
                                                      ELSE SBA_SLAB_SIZE

SlotOf(bucket) == SBASlot(SBAPayload(bucket))
SBASlabBytes(bucket) == SBASlabBytesForSlot(SlotOf(bucket))

(* SBASlab::capacity, as CarveSlab fills it in.                            *)
SlabCapacity(bucket) == (SBASlabBytes(bucket) - SBA_DESC_RESERVE) \div SlotOf(bucket)

SBACapForSlot(slot) ==
  LET cap == 8192 \div slot
  IN  IF cap < 16 THEN 16 ELSE IF cap > 192 THEN 192 ELSE cap

(* What AllocSBA asks of PopBatch, with room for it on its stack.          *)
RefillWant(bucket) ==
  LET cap == SBACapForSlot(SlotOf(bucket))
  IN  IF cap > RefillArray THEN RefillArray ELSE cap

-----------------------------------------------------------------------------
(* A request is served from the first bucket whose blocks are large        *)
(* enough, and the block's size is the rounded request, which GetSize      *)
(* tells.                                                                  *)
RequestFits(size) ==
  LET b == SBABucket(SBARound(size))
  IN  /\ b \in BucketIndex
      /\ SBAPayload(b) = SBARound(size)
      /\ size <= SBAPayload(b)
      /\ b > 0 => SBAPayload(b - 1) < size

(* The blocks of a slab, each with its header, lie apart and inside it,    *)
(* behind the descriptor; the payloads are aligned to eight bytes; two     *)
(* blocks fit in every slab.                                               *)
SlabHoldsBlocks(bucket) ==
  /\ SlabCapacity(bucket) >= 2
  /\ SBA_HEADER + SBAPayload(bucket) <= SlotOf(bucket)
  /\ (SBA_DESC_RESERVE + SBA_HEADER) % 8 = 0 /\ SlotOf(bucket) % 8 = 0
  /\ SBA_DESC_RESERVE + SlabCapacity(bucket) * SlotOf(bucket) <= SBASlabBytes(bucket)

(* A refill delivers at most what the cache may keep: its trim never       *)
(* follows from the refill itself.                                         *)
RefillFits(bucket) ==
  /\ RefillWant(bucket) \in 1 .. RefillArray
  /\ RefillWant(bucket) <= SBACapForSlot(SlotOf(bucket))

SizesFit ==
  /\ \A size \in Size : RequestFits(size)
  /\ \A b \in BucketIndex : SlabHoldsBlocks(b) /\ RefillFits(b)

=============================================================================
