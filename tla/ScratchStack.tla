----------------------------- MODULE ScratchStack -----------------------------
(***************************************************************************)
(* The scratch memory (src/tier0/exports_fillins.cpp): one block that      *)
(* grows, handed out and taken back last first.  The callers hold the      *)
(* addresses they were given: an offset, and the block it was in.  Sizes   *)
(* do not wrap around: they are small next to the address space.           *)
(***************************************************************************)
EXTENDS Integers, Sequences, SequencesExt

CONSTANTS
  ScratchDepth, \* SCRATCH_MAX_DEPTH
  ScratchMin,   \* the size the block has at least (0x100000)
  ScratchSize,  \* sizes asked for
  MaxMoves      \* bound: times the block may have moved

ASSUME ScratchAssumption ==
  /\ ScratchSize \subseteq Nat
  /\ {ScratchDepth, ScratchMin} \subseteq Nat \ {0} /\ MaxMoves \in Nat

VARIABLES
  scratchAllocated, \* s_nScratchBufAllocated
  scratchMax,       \* s_nScratchBufMax
  depth,            \* s_nScratchDepth
  scratchSizes,     \* s_ScratchSizes
  moves,            \* s_pScratchBuf: which block it is, 0 for NULL
  handed            \* what the callers hold and have not given back

scratchVars == <<scratchAllocated, scratchMax, depth, scratchSizes, moves, handed>>

ScratchInit ==
  /\ scratchAllocated = 0 /\ scratchMax = 0 /\ depth = 0
  /\ scratchSizes = [i \in 0 .. ScratchDepth - 1 |-> 0]
  /\ moves = 0
  /\ handed = <<>>

-----------------------------------------------------------------------------
(* Where an entry of the stack keeps its size.                             *)

(* Faulty: a ring with one place less than the stack may be deep.          *)
SlotInRing(d) == d % (ScratchDepth - 1)

Slot(d) == d

Needed(n) == scratchAllocated + n

(* Allocate or reallocate the block when it is too small; it may move.     *)
Grow(n) ==
  IF Needed(n) > scratchMax
    THEN /\ scratchMax' = IF Needed(n) < ScratchMin THEN ScratchMin ELSE Needed(n)
         /\ IF moves = 0 THEN moves' = 1 ELSE moves' \in {moves, moves + 1}
         /\ moves' <= MaxMoves
    ELSE UNCHANGED <<scratchMax, moves>>

(* A call that gets NULL, for want of depth or of memory, changes nothing. *)
MemAllocScratch(n) ==
  /\ depth < ScratchDepth
  /\ Grow(n)
  /\ scratchAllocated' = Needed(n)
  /\ scratchSizes' = [scratchSizes EXCEPT ![Slot(depth)] = n]
  /\ depth' = depth + 1
  /\ handed' = Append(handed, [offset |-> scratchAllocated, size |-> n, block |-> moves'])

MemFreeScratch ==
  /\ IF depth > 0
       THEN /\ depth' = depth - 1
            /\ scratchAllocated' = scratchAllocated - scratchSizes[Slot(depth - 1)]
            /\ handed' = Front(handed)
       ELSE UNCHANGED <<depth, scratchAllocated, handed>>
  /\ UNCHANGED <<scratchMax, scratchSizes, moves>>

-----------------------------------------------------------------------------
ScratchNext ==
  \/ \E n \in ScratchSize : MemAllocScratch(n)
  \/ MemFreeScratch

ScratchSpec == ScratchInit /\ [][ScratchNext]_scratchVars

-----------------------------------------------------------------------------
(* What is handed out lies inside the block, end to end in the order it    *)
(* was asked for, however deep the stack has been, and the next request    *)
(* begins where the last one ends.                                         *)
HandedEndToEnd ==
  /\ Len(handed) = depth
  /\ \A i \in DOMAIN handed :
       handed[i].offset = IF i = 1 THEN 0 ELSE handed[i - 1].offset + handed[i - 1].size
  /\ scratchAllocated =
       IF handed = <<>> THEN 0 ELSE Last(handed).offset + Last(handed).size

(* Nothing that is handed out ends beyond the block.                       *)
HandedInBlock == scratchAllocated <= scratchMax

(* The callers' pieces of the block are apart from one another and in it.  *)
ScratchInOrder == HandedEndToEnd /\ HandedInBlock

=============================================================================
