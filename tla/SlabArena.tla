------------------------------ MODULE SlabArena ------------------------------
(***************************************************************************)
(* The slab memory arena (SBArena in src/tier0/mem.cpp): one reservation   *)
(* of address space from which SBArena_Alloc and SBArena_Free serve the    *)
(* pool's slabs, while a helper thread commits and touches pages ahead of  *)
(* demand, and the teardown that stops the helper before memory goes.      *)
(*                                                                         *)
(* The unit is a page of 4 KB; a chunk is its first page and 1 or 2 pages. *)
(* The pool calls the arena with m_cs held, so there is one allocation at  *)
(* a time; g_arena.cs is dropped around every system call, and those are   *)
(* the points where the helper and the allocation interleave.              *)
(***************************************************************************)
EXTENDS Naturals, FiniteSets

CONSTANTS
  Reserve,      \* pages in the reservation
  Slice,        \* pages in 1 MB: the unit of commits and of the helper
  Cushion,      \* warm pages to keep ahead of handout (8 MB)
  Boost,        \* how far ahead a burst moves the target (16 MB)
  FirstTarget   \* the target SBArena_Start sets

(* The code has 256 pages or more of each; what keeps the helper off the   *)
(* pool's chunks is that no distance is shorter than a chunk of two pages. *)
ASSUME ArenaAssumption ==
  /\ Reserve \in Nat \ {0} /\ Cushion \in Nat \ {0}
  /\ Slice \in Nat \ {0, 1} /\ Boost \in Nat \ {0, 1} /\ FirstTarget \in Nat \ {0, 1}

VARIABLES
  state,      \* g_arenaState
  mapped,     \* the reservation exists (g_arena.base)
  commitEnd,  \* committed frontier
  handout,    \* next fresh page
  touched,    \* prefaulted frontier
  target,     \* prefault target
  recycled,   \* fl4k and fl8k: recycled chunks
  committed,  \* pages the system has committed
  given,      \* chunks the pool has been given
  apc,        \* where SBArena_Alloc is
  req,        \* its locals: chunk, fromHandout, commitBase and add
  hpc,        \* where the helper is; "none" when hPrepage is NULL
  slice,      \* its locals: off, grow, commitBase and add
  stop,       \* g_arena.stop
  tpc         \* where the teardown is

arena == <<commitEnd, handout, touched, target, recycled>>
life == <<state, mapped, stop, tpc>>
arenaVars == <<arena, committed, given, apc, req, hpc, slice, life>>

ArenaPage == 0 .. Reserve - 1
ChunkSize == {1, 2}
Chunk == ArenaPage \X ChunkSize

Lesser(a, b) == IF a <= b THEN a ELSE b
Greater(a, b) == IF a >= b THEN a ELSE b
PagesFrom(first, n) == first .. first + n - 1
Memory(c) == PagesFrom(c[1], c[2])

NoReq == [chunk |-> <<0, 1>>, fresh |-> FALSE, base |-> 0, add |-> 0]
NoSlice == [off |-> 0, grow |-> 0, base |-> 0, add |-> 0]

ArenaInit ==
  /\ state = "uninit" /\ mapped = FALSE
  /\ commitEnd = 0 /\ handout = 0 /\ touched = 0 /\ target = 0 /\ recycled = {}
  /\ committed = {} /\ given = {}
  /\ apc = "idle" /\ req = NoReq
  /\ hpc = "none" /\ slice = NoSlice
  /\ stop = FALSE /\ tpc = "up"

-----------------------------------------------------------------------------
(* SBArena_Start, before the first slab: disabled, or the reservation      *)
(* failed; with or without a helper.                                       *)
StartFails ==
  /\ state = "uninit" /\ tpc = "up"
  /\ state' = "off"
  /\ UNCHANGED <<arena, committed, given, apc, req, hpc, slice, mapped, stop, tpc>>

Start ==
  /\ state = "uninit" /\ tpc = "up"
  /\ state' = "ready"
  /\ mapped' = TRUE
  /\ target' = FirstTarget
  /\ hpc' \in {"none", "loop"}
  /\ UNCHANGED <<commitEnd, handout, touched, recycled, committed, given, apc, req,
                 slice, stop, tpc>>

-----------------------------------------------------------------------------
(* SBArena_Alloc.  Where no chunk is obtained the slab comes from malloc.  *)

(* Raise the prefault target when the helper falls behind.                 *)
Retarget(h) ==
  target' = IF touched < h + Cushion /\ target < Reserve
              THEN Lesser(h + Boost, Reserve) ELSE target

RoundUp(n) == ((n + Slice - 1) \div Slice) * Slice

(* What must be committed past the frontier for the chunk to fit below it. *)
ToCommit(c) ==
  LET end == c[1] + c[2]
  IN  IF end > commitEnd
        THEN Lesser(RoundUp(end - commitEnd), Reserve - commitEnd) ELSE 0

(* Faulty: the test as it seems to be meant, against the frontier, which   *)
(* the helper moves before it commits.                                     *)
RefusedBeyond(r) == r.chunk[1] + r.chunk[2] > commitEnd /\ r.add = 0

(* The code's test for "no commit space left" when nothing is to be        *)
(* committed; commitBase is then still 0.                                  *)
Refused(r) == r.chunk[1] + r.chunk[2] > r.base + r.add /\ r.add = 0

Obtain(c, isFresh) ==
  LET add == ToCommit(c)
      r == [chunk |-> c, fresh |-> isFresh, add |-> add,
            base |-> IF add > 0 THEN commitEnd ELSE 0]
  IN  /\ req' = r
      /\ apc' = IF add > 0 THEN "commit"
                ELSE IF Refused(r) THEN "rollback" ELSE "publish"
      /\ UNCHANGED <<commitEnd, touched, committed, given, hpc, slice, life>>

CanAlloc == apc = "idle" /\ mapped /\ tpc = "up"

(* Faulty: the chunk stays on its list.                                    *)
AllocListed(c) ==
  /\ CanAlloc
  /\ Retarget(handout)
  /\ Obtain(c, FALSE)
  /\ UNCHANGED <<handout, recycled>>

AllocRecycled(c) ==
  /\ CanAlloc
  /\ recycled' = recycled \ {c}
  /\ Retarget(handout)
  /\ Obtain(c, FALSE)
  /\ UNCHANGED handout

AllocFresh(n) ==
  /\ CanAlloc
  /\ \A c \in recycled : c[2] # n
  /\ handout + n <= Reserve
  /\ handout' = handout + n
  /\ Retarget(handout + n)
  /\ Obtain(<<handout, n>>, TRUE)
  /\ UNCHANGED recycled

(* Neither a recycled chunk nor room for a fresh one.                      *)
AllocNone(n) ==
  /\ CanAlloc
  /\ \A c \in recycled : c[2] # n
  /\ handout + n > Reserve
  /\ Retarget(handout)
  /\ UNCHANGED <<commitEnd, handout, touched, recycled, committed, given, apc, req,
                 hpc, slice, life>>

(* The commit, outside the lock.  The system may refuse it.                *)
AllocCommit ==
  /\ apc = "commit"
  /\ \/ committed' = committed \union PagesFrom(req.base, req.add) /\ apc' = "publish"
     \/ apc' = "rollback" /\ UNCHANGED committed
  /\ UNCHANGED <<arena, given, req, hpc, slice, life>>

AllocPublish ==
  /\ apc = "publish"
  /\ commitEnd' = Greater(commitEnd, req.base + req.add)
  /\ given' = given \union {req.chunk}
  /\ apc' = "idle" /\ req' = NoReq
  /\ UNCHANGED <<handout, touched, target, recycled, committed, hpc, slice, life>>

AllocRollback ==
  /\ apc = "rollback"
  /\ handout' = IF req.fresh /\ handout = req.chunk[1] + req.chunk[2]
                  THEN req.chunk[1] ELSE handout
  /\ apc' = "idle" /\ req' = NoReq
  /\ UNCHANGED <<commitEnd, touched, target, recycled, committed, given, hpc, slice, life>>

Recycle(c) ==
  /\ recycled' = recycled \union {c}
  /\ given' = given \ {c}
  /\ UNCHANGED <<commitEnd, handout, touched, target, committed, apc, req, hpc, slice>>

Free(c) ==
  /\ apc = "idle" /\ tpc = "up"
  /\ Recycle(c)
  /\ UNCHANGED life

-----------------------------------------------------------------------------
(* SBArena_PrepageThread.                                                  *)

(* Faulty: the flag is only looked at while there are pages to touch.      *)
HelperStopsBusy ==
  /\ hpc = "loop"
  /\ stop
  /\ touched < target
  /\ hpc' = "gone"
  /\ UNCHANGED <<arena, committed, given, apc, req, slice, life>>

HelperStops ==
  /\ hpc = "loop"
  /\ stop
  /\ hpc' = "gone"
  /\ UNCHANGED <<arena, committed, given, apc, req, slice, life>>

(* Faulty: pages below handout are touched too.                            *)
SkippedNone == touched

(* Pages below handout are skipped; the slice's commit is announced before *)
(* it is made.  With nothing wanted the helper sleeps.                     *)
Skipped == IF touched < target THEN Greater(touched, handout) ELSE touched

HelperSlice ==
  LET want == IF Lesser(target, Reserve) > Skipped
                THEN Lesser(target, Reserve) - Skipped ELSE 0
      grow == Lesser(want, Slice)
      add == IF commitEnd < Skipped + grow
               THEN Lesser(Skipped + grow - commitEnd, Reserve - commitEnd) ELSE 0
  IN  /\ hpc = "loop"
      /\ ~stop
      /\ touched' = Skipped
      /\ IF want = 0
           THEN UNCHANGED <<commitEnd, hpc, slice>>
           ELSE /\ commitEnd' = commitEnd + add
                /\ slice' = [off |-> Skipped, grow |-> grow,
                             base |-> commitEnd, add |-> add]
                /\ hpc' = "commit"
      /\ UNCHANGED <<handout, target, recycled, committed, given, apc, req, life>>

HelperCommit ==
  /\ hpc = "commit"
  /\ \/ /\ committed' = committed \union PagesFrom(slice.base, slice.add)
        /\ hpc' = "touch"
     \/ slice.add > 0 /\ hpc' = "undo" /\ UNCHANGED committed
  /\ UNCHANGED <<arena, given, apc, req, slice, life>>

(* The first byte of every page of the slice has been zeroed.              *)
HelperPublish ==
  /\ hpc = "touch"
  /\ touched' = Greater(touched, slice.off + slice.grow)
  /\ hpc' = "loop" /\ slice' = NoSlice
  /\ UNCHANGED <<commitEnd, handout, target, recycled, committed, given, apc, req, life>>

HelperUndo ==
  /\ hpc = "undo"
  /\ commitEnd' = slice.base
  /\ hpc' = "loop" /\ slice' = NoSlice
  /\ UNCHANGED <<handout, touched, target, recycled, committed, given, apc, req, life>>

-----------------------------------------------------------------------------
(* ~CSmallBlockAlloc calls SBArena_Stop and, unless that timed out, frees  *)
(* every slab; ~SBArena then releases the reservation.                     *)

StopArena ==
  /\ tpc = "up" /\ apc = "idle"
  /\ IF state = "ready" THEN stop' = TRUE /\ tpc' = "join"
                        ELSE tpc' = "free" /\ UNCHANGED stop
  /\ UNCHANGED <<arena, committed, given, apc, req, hpc, slice, state, mapped>>

Exited == hpc \in {"none", "gone"}

Joined ==
  /\ tpc = "join" /\ Exited
  /\ hpc' = "none"
  /\ state' = "off"
  /\ tpc' = "free"
  /\ UNCHANGED <<arena, committed, given, apc, req, slice, mapped, stop>>

(* The wait for the helper is over after 3 seconds: nothing is freed.      *)
JoinTimesOut ==
  /\ tpc = "join" /\ ~Exited
  /\ tpc' = "release"
  /\ UNCHANGED <<arena, committed, given, apc, req, hpc, slice, state, mapped, stop>>

FreeSlab(c) ==
  /\ tpc = "free"
  /\ Recycle(c)
  /\ UNCHANGED life

SlabsFreed ==
  /\ tpc = "free" /\ given = {}
  /\ tpc' = "release"
  /\ UNCHANGED <<arena, committed, given, apc, req, hpc, slice, state, mapped, stop>>

Release ==
  /\ tpc = "release" /\ Exited
  /\ mapped' = FALSE /\ committed' = {}
  /\ hpc' = "none" /\ stop' = (stop \/ hpc # "none")
  /\ tpc' = "down"
  /\ UNCHANGED <<arena, given, apc, req, slice, state>>

ReleaseTimesOut ==
  /\ tpc = "release" /\ ~Exited
  /\ tpc' = "down"
  /\ UNCHANGED <<arena, committed, given, apc, req, hpc, slice, state, mapped, stop>>

-----------------------------------------------------------------------------
Pool ==
  \/ StartFails \/ Start
  \/ \E c \in recycled : AllocRecycled(c)
  \/ \E n \in ChunkSize : AllocFresh(n)
  \/ \E n \in ChunkSize : AllocNone(n)
  \/ AllocCommit \/ AllocPublish \/ AllocRollback
  \/ \E c \in given : Free(c)

Helper == HelperStops \/ HelperSlice \/ HelperCommit \/ HelperPublish \/ HelperUndo

Teardown ==
  \/ StopArena \/ Joined \/ JoinTimesOut
  \/ \E c \in given : FreeSlab(c)
  \/ SlabsFreed \/ Release \/ ReleaseTimesOut

ArenaNext == Pool \/ Helper \/ Teardown

ArenaSpec == ArenaInit /\ [][ArenaNext]_arenaVars

(* The helper is scheduled; neither wait on it is longer than 3 seconds.   *)
ArenaFairSpec == ArenaSpec /\ WF_arenaVars(Helper)

-----------------------------------------------------------------------------
ArenaTypeOK ==
  /\ state \in {"uninit", "ready", "off"}
  /\ mapped \in BOOLEAN /\ stop \in BOOLEAN
  /\ commitEnd \in 0 .. Reserve /\ handout \in 0 .. Reserve
  /\ touched \in 0 .. Reserve /\ target \in 0 .. Greater(FirstTarget, Reserve)
  /\ recycled \subseteq Chunk /\ given \subseteq Chunk
  /\ committed \subseteq ArenaPage
  /\ apc \in {"idle", "commit", "publish", "rollback"}
  /\ req \in [chunk : Chunk, fresh : BOOLEAN, base : 0 .. Reserve, add : 0 .. Reserve]
  /\ hpc \in {"none", "loop", "commit", "touch", "undo", "gone"}
  /\ slice \in [off : 0 .. Reserve, grow : 0 .. Slice,
                base : 0 .. Reserve, add : 0 .. Reserve]
  /\ tpc \in {"up", "join", "free", "release", "down"}

(* Every chunk the pool uses lies in committed memory, though the helper   *)
(* announces pages as committed before they are.                           *)
LiveIsCommitted ==
  mapped => \A c \in given : Memory(c) \subseteq committed

(* The helper never writes to a chunk the pool uses, though it has let go  *)
(* of the lock that kept handout below its slice.                          *)
HelperSparesLive ==
  hpc = "touch" =>
    \A c \in given : Memory(c) \cap PagesFrom(slice.off, slice.grow) = {}

(* The helper only touches committed pages of an existing reservation.     *)
TouchesCommitted ==
  hpc = "touch" => mapped /\ PagesFrom(slice.off, slice.grow) \subseteq committed

(* Neither the pool nor the helper is at memory the system has not         *)
(* committed: see the two properties it consists of.                       *)
UsedIsCommitted == LiveIsCommitted /\ TouchesCommitted

(* Between commits, all below the frontier is committed, whichever of the  *)
(* overlapping commits of helper and allocation failed.                    *)
FrontierCommitted ==
  mapped /\ hpc \notin {"commit", "undo"} => PagesFrom(0, commitEnd) \subseteq committed

(* Chunks in use or to be used again never overlap.                        *)
ChunksDisjoint ==
  /\ given \cap recycled = {}
  /\ \A c, d \in given \union recycled : c # d => Memory(c) \cap Memory(d) = {}
  /\ \A c \in given \union recycled : Memory(c) \subseteq PagesFrom(0, handout)

(* The frontiers stay inside the reservation and tell what is committed,   *)
(* and no memory is in two chunks: see the two above.                      *)
ChunksInOrder == ArenaTypeOK /\ FrontierCommitted /\ ChunksDisjoint

-----------------------------------------------------------------------------
(* The inductive strengthening of the invariants above.                    *)

(* Where handed out memory ends, less the chunk that is being rolled back. *)
HandedOut == IF apc = "rollback" /\ req.fresh THEN req.chunk[1] ELSE handout

End(c) == c[1] + c[2]

(* Nothing is in use before the reservation exists, an allocation is in    *)
(* progress only before the teardown, which waits only for a helper that   *)
(* may have been started, and the helper has a reservation.                *)
LifeShape ==
  /\ state = "uninit" =>
       /\ ~mapped /\ apc = "idle" /\ hpc = "none" /\ given = {} /\ recycled = {}
       /\ commitEnd = 0 /\ handout = 0 /\ touched = 0
  /\ apc # "idle" => mapped /\ tpc = "up"
  /\ tpc = "join" => state = "ready"
  /\ hpc \notin {"none", "gone"} => mapped

ChunksBelow == \A c \in given \union recycled : End(c) <= HandedOut

(* The chunk being allocated is nobody's yet, the last one if it is fresh, *)
(* and once there is something to commit all below that is committed.      *)
AllocShape ==
  apc # "idle" =>
    /\ req.chunk \notin given \union recycled
    /\ \A d \in given \union recycled : Memory(d) \cap Memory(req.chunk) = {}
    /\ End(req.chunk) <= handout
    /\ req.fresh =>
         /\ End(req.chunk) = handout
         /\ \A d \in given \union recycled : End(d) <= req.chunk[1]
    /\ apc \in {"commit", "publish"} =>
         /\ End(req.chunk) <= req.base + req.add /\ req.base + req.add <= Reserve
         /\ PagesFrom(0, req.base) \subseteq committed
    /\ apc = "publish" => PagesFrom(req.base, req.add) \subseteq committed

(* While the helper works on a slice, no chunk that is or can be handed    *)
(* out reaches into it: the frontier is past the slice, so that the next   *)
(* fresh chunk, which would end below the frontier, is rolled back.        *)
HelperShape ==
  hpc \in {"commit", "touch", "undo"} =>
    LET end == slice.off + slice.grow
    IN  /\ HandedOut <= slice.off /\ slice.off < end
        /\ end <= commitEnd /\ end <= Reserve
        /\ HandedOut + 2 <= end \/ end = Reserve

(* What the helper has announced is all that may be missing below the      *)
(* frontier, and an undone slice leaves the frontier below it.             *)
SliceShape ==
  hpc \in {"commit", "undo"} =>
    /\ slice.base + slice.add <= Reserve
    /\ PagesFrom(0, slice.base) \subseteq committed
    /\ PagesFrom(0, commitEnd) \subseteq committed \union PagesFrom(slice.base, slice.add)

(* The helper's target is past the next chunk or at the end, unless the    *)
(* helper is past the next page already.                                   *)
TargetAhead ==
  mapped => touched > handout \/ target >= handout + 2 \/ target >= Reserve

(* The books of the arena as the pool, the helper and the teardown leave   *)
(* them between any two of their steps, system calls in flight included.   *)
ArenaInv ==
  /\ ChunksInOrder
  /\ LiveIsCommitted
  /\ LifeShape
  /\ ChunksBelow
  /\ AllocShape
  /\ HelperShape
  /\ SliceShape
  /\ TargetAhead

-----------------------------------------------------------------------------
(* SBArena_Alloc gives a chunk up for malloc without asking the system to  *)
(* commit anything only if the chunk's memory is not committed.            *)
ArenaServes ==
  apc = "rollback" /\ req.add = 0 => ~(Memory(req.chunk) \subseteq committed)

(* A helper that is told to stop exits.                                    *)
HelperExits == (stop /\ hpc # "none") ~> (hpc \in {"gone", "none"})

=============================================================================
