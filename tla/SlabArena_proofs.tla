--------------------------- MODULE SlabArena_proofs ---------------------------
(***************************************************************************)
(* Proofs about SlabArena: neither the pool nor the prepage helper is ever *)
(* at memory the system has not committed, whatever the sizes of the       *)
(* reservation and of the helper's slices, and whichever commits fail.     *)
(***************************************************************************)
EXTENDS SlabArena, TLAPS

(* Ranges of pages and the chunks in them.                                 *)
LEMMA PagesIn ==
  ASSUME NEW b \in Nat, NEW n \in Nat
  PROVE  /\ b + n <= Reserve => PagesFrom(b, n) \subseteq ArenaPage
         /\ PagesFrom(0, b + n) = PagesFrom(0, b) \union PagesFrom(b, n)
         /\ \A m \in Nat : m <= n => PagesFrom(0, m) \subseteq PagesFrom(0, n)
         /\ n = 0 => PagesFrom(b, n) = {}
BY ArenaAssumption DEF PagesFrom, ArenaPage

LEMMA ChunkIs ==
  ASSUME NEW c \in Chunk
  PROVE  /\ c[1] \in Nat /\ c[2] \in {1, 2} /\ End(c) \in Nat /\ End(c) = c[1] + c[2]
         /\ c[1] < End(c) /\ End(c) <= c[1] + 2
         /\ \A n \in Nat : End(c) <= n => Memory(c) \subseteq PagesFrom(0, n)
BY ArenaAssumption DEF Chunk, ArenaPage, ChunkSize, End, Memory, PagesFrom

LEMMA ChunksApart ==
  ASSUME NEW c \in Chunk, NEW d \in Chunk, End(c) <= d[1]
  PROVE  Memory(c) \cap Memory(d) = {} /\ Memory(d) \cap Memory(c) = {} /\ c # d
BY ArenaAssumption DEF Chunk, ArenaPage, ChunkSize, End, Memory, PagesFrom

(* What SBArena_Alloc commits for a chunk covers it and ends inside the    *)
(* reservation.                                                            *)
LEMMA RoundsUp ==
  ASSUME NEW n \in Nat
  PROVE  RoundUp(n) \in Nat /\ RoundUp(n) >= n
<1>1. \A m \in Nat : \A d \in Nat \ {0} :
        (m \div d) \in Nat /\ m < (m \div d) * d + d /\ (m \div d) * d \in Nat
  OBVIOUS
<1>2. Slice \in Nat \ {0} /\ n + Slice - 1 \in Nat
  BY ArenaAssumption
<1>. DEFINE q == ((n + Slice - 1) \div Slice) * Slice
<1>3. q \in Nat /\ n + Slice - 1 < q + Slice
  BY <1>1, <1>2
<1>4. q >= n
  BY <1>2, <1>3
<1>. QED
  BY <1>3, <1>4 DEF RoundUp

LEMMA CommitCovers ==
  ASSUME ArenaTypeOK, NEW c \in Chunk, End(c) <= Reserve
  PROVE  /\ ToCommit(c) \in Nat
         /\ End(c) <= commitEnd => ToCommit(c) = 0
         /\ End(c) > commitEnd => /\ ToCommit(c) > 0
                                  /\ End(c) <= commitEnd + ToCommit(c)
                                  /\ commitEnd + ToCommit(c) <= Reserve
<1>1. End(c) \in Nat /\ End(c) = c[1] + c[2] /\ commitEnd \in Nat /\ commitEnd <= Reserve
      /\ Reserve \in Nat
  BY ChunkIs, ArenaAssumption DEF ArenaTypeOK
<1>2. CASE End(c) <= commitEnd
  BY <1>1, <1>2 DEF ToCommit
<1>3. CASE End(c) > commitEnd
  <2>. DEFINE r == RoundUp(End(c) - commitEnd)
  <2>1. r \in Nat /\ r >= End(c) - commitEnd
    BY <1>1, <1>3, RoundsUp
  <2>2. ToCommit(c) = Lesser(r, Reserve - commitEnd)
    BY <1>1, <1>3 DEF ToCommit
  <2>. HIDE DEF r
  <2>. QED
    BY <1>1, <1>3, <2>1, <2>2 DEF Lesser
<1>. QED
  BY <1>1, <1>2, <1>3

(* The numbers of the model.                                               *)
LEMMA Numbers ==
  ASSUME ArenaTypeOK
  PROVE  /\ commitEnd \in Nat /\ commitEnd <= Reserve
         /\ handout \in Nat /\ handout <= Reserve
         /\ touched \in Nat /\ touched <= Reserve /\ target \in Nat
         /\ req.chunk \in Chunk /\ req.base \in Nat /\ req.add \in Nat
         /\ req.base <= Reserve /\ req.add <= Reserve
         /\ slice.off \in Nat /\ slice.grow \in Nat /\ slice.base \in Nat /\ slice.add \in Nat
         /\ slice.off <= Reserve /\ slice.grow <= Slice
         /\ Reserve \in Nat \ {0} /\ Slice \in Nat /\ Slice >= 2
         /\ Boost \in Nat /\ Boost >= 2 /\ Cushion \in Nat /\ Cushion >= 1
         /\ FirstTarget \in Nat /\ FirstTarget >= 2
BY ArenaAssumption DEF ArenaTypeOK, Greater

(* Retarget leaves the target past the next chunk.                         *)
LEMMA RetargetStep ==
  ASSUME ArenaTypeOK, NEW h \in 0 .. Reserve, Retarget(h)
  PROVE  /\ target' \in 0 .. Greater(FirstTarget, Reserve)
         /\ touched > h \/ target' >= h + 2 \/ target' >= Reserve
BY Numbers DEF Retarget, ArenaTypeOK, Lesser, Greater

LEMMA NoReqTyped ==
  /\ NoReq \in [chunk : Chunk, fresh : BOOLEAN, base : 0 .. Reserve, add : 0 .. Reserve]
  /\ NoSlice \in [off : 0 .. Reserve, grow : 0 .. Slice, base : 0 .. Reserve, add : 0 .. Reserve]
BY ArenaAssumption DEF NoReq, NoSlice, Chunk, ArenaPage, ChunkSize

-----------------------------------------------------------------------------
(* Preservation of the invariant.                                          *)

Slicing == {"commit", "touch", "undo"}

(* Where nothing is being rolled back, what is handed out ends at handout. *)
LEMMA HandedOutIs ==
  ASSUME ArenaTypeOK
  PROVE  /\ HandedOut \in Nat
         /\ apc # "rollback" => HandedOut = handout
         /\ req.fresh = FALSE => HandedOut = handout
         /\ AllocShape => HandedOut <= handout
BY Numbers, ChunkIs DEF HandedOut, AllocShape

(* While the helper works on a slice, every chunk that can be allocated    *)
(* ends below the frontier.                                                *)
LEMMA RefusedMeanwhile ==
  ASSUME ArenaInv, apc = "idle", hpc \in Slicing, NEW c \in Chunk, End(c) <= Reserve,
         c[1] = handout \/ End(c) <= handout
  PROVE  End(c) <= commitEnd
<1>1. ArenaTypeOK /\ HelperShape
  BY DEF ArenaInv, ChunksInOrder
<1>. DEFINE end == slice.off + slice.grow
<1>2. /\ handout <= slice.off /\ slice.off < end /\ end <= commitEnd /\ end <= Reserve
      /\ handout + 2 <= end \/ end = Reserve
  BY <1>1, HandedOutIs DEF HelperShape, Slicing
<1>3. end \in Nat
  BY <1>1, Numbers
<1>. HIDE DEF end
<1>. QED
  BY <1>1, <1>2, <1>3, Numbers, ChunkIs

(* SBArena_Alloc has found a chunk, which is nobody's.                     *)
LEMMA ObtainStep ==
  ASSUME ArenaInv, CanAlloc, NEW c \in Chunk, NEW f \in BOOLEAN, Obtain(c, f),
         handout' \in 0 .. Reserve, End(c) <= handout',
         IF f THEN c[1] = handout /\ End(c) = handout' ELSE handout' = handout,
         recycled' \subseteq recycled, c \notin given \union recycled',
         \A d \in given \union recycled' : Memory(d) \cap Memory(c) = {},
         Retarget(handout')
  PROVE  ArenaInv'
<1>1. /\ ArenaTypeOK /\ FrontierCommitted /\ ChunksDisjoint /\ LiveIsCommitted /\ LifeShape
      /\ ChunksBelow /\ AllocShape /\ HelperShape /\ SliceShape /\ TargetAhead
      /\ apc = "idle" /\ mapped /\ tpc = "up"
  BY DEF ArenaInv, ChunksInOrder, CanAlloc
<1>2. /\ req'.chunk = c /\ req'.fresh = f /\ req'.add = ToCommit(c)
      /\ req'.base = (IF ToCommit(c) > 0 THEN commitEnd ELSE 0)
      /\ apc' = IF ToCommit(c) > 0 THEN "commit"
                ELSE IF Refused(req') THEN "rollback" ELSE "publish"
      /\ UNCHANGED <<commitEnd, touched, committed, given, hpc, slice, life>>
  BY DEF Obtain
<1>3. UNCHANGED <<state, mapped, stop, tpc>>
  BY <1>2 DEF life
<1>4. /\ c[1] \in Nat /\ End(c) \in Nat /\ End(c) = c[1] + c[2] /\ c[1] < End(c)
      /\ End(c) <= Reserve /\ handout <= handout' /\ handout' \in Nat /\ handout' <= Reserve
  BY <1>1, Numbers, ChunkIs
<1>5. /\ ToCommit(c) \in Nat
      /\ End(c) <= commitEnd => ToCommit(c) = 0
      /\ End(c) > commitEnd => /\ ToCommit(c) > 0
                               /\ End(c) <= commitEnd + ToCommit(c)
                               /\ commitEnd + ToCommit(c) <= Reserve
  BY <1>1, <1>4, CommitCovers
<1>6. IF End(c) <= commitEnd
        THEN apc' = "rollback" /\ req'.base = 0 /\ req'.add = 0
        ELSE /\ apc' = "commit" /\ req'.base = commitEnd
             /\ End(c) <= req'.base + req'.add /\ req'.base + req'.add <= Reserve
             /\ req'.add \in 0 .. Reserve
  BY <1>1, <1>2, <1>4, <1>5, Numbers DEF Refused
<1>7. hpc \in Slicing => apc' = "rollback"
  BY <1>1, <1>4, <1>6, RefusedMeanwhile
<1>8. HandedOut = handout /\ HandedOut' = IF apc' = "rollback" /\ f THEN handout ELSE handout'
  BY <1>1, <1>2 DEF HandedOut
<1>9. ArenaTypeOK'
  <2>1. target' \in 0 .. Greater(FirstTarget, Reserve)
    BY <1>1, RetargetStep
  <2>2. req' \in [chunk : Chunk, fresh : BOOLEAN, base : 0 .. Reserve, add : 0 .. Reserve]
    <3>1. req' = [chunk |-> c, fresh |-> f, base |-> req'.base, add |-> req'.add]
      BY <1>2 DEF Obtain
    <3>2. req'.base \in 0 .. Reserve /\ req'.add \in 0 .. Reserve
      BY <1>1, <1>6, Numbers
    <3>. QED
      BY <3>1, <3>2
  <2>3. apc' \in {"commit", "rollback"} /\ recycled' \subseteq Chunk
    BY <1>1, <1>6 DEF ArenaTypeOK
  <2>. QED
    BY <1>1, <1>2, <1>3, <2>1, <2>2, <2>3 DEF ArenaTypeOK
<1>10. FrontierCommitted' /\ LiveIsCommitted' /\ SliceShape'
  BY <1>1, <1>2, <1>3 DEF FrontierCommitted, LiveIsCommitted, SliceShape
<1>11. ChunksDisjoint'
  <2>1. PagesFrom(0, handout) \subseteq PagesFrom(0, handout')
    BY <1>1, <1>4, Numbers, PagesIn
  <2>. QED
    BY <1>1, <1>2, <2>1 DEF ChunksDisjoint
<1>12. LifeShape'
  BY <1>1, <1>2, <1>3 DEF LifeShape
<1>13. ChunksBelow'
  <2>1. \A d \in given \union recycled : End(d) \in Nat /\ End(d) <= handout
    BY <1>1, <1>8, ChunkIs DEF ChunksBelow, ArenaTypeOK
  <2>. QED
    BY <1>1, <1>2, <1>4, <1>8, <2>1, Numbers DEF ChunksBelow
<1>14. AllocShape'
  <2>1. f => \A d \in given' \union recycled' : End(d) <= c[1]
    BY <1>1, <1>2, <1>8 DEF ChunksBelow
  <2>2. apc' = "commit" => PagesFrom(0, commitEnd) \subseteq committed
    BY <1>1, <1>7 DEF FrontierCommitted, Slicing
  <2>. QED
    BY <1>2, <1>6, <2>1, <2>2 DEF AllocShape
<1>15. HelperShape'
  <2>1. hpc \in Slicing => HandedOut' = HandedOut
    BY <1>7, <1>8
  <2>. QED
    BY <1>1, <1>2, <2>1 DEF HelperShape, Slicing
<1>16. TargetAhead'
  BY <1>1, <1>2, RetargetStep DEF TargetAhead
<1>. QED
  BY <1>9, <1>10, <1>11, <1>12, <1>13, <1>14, <1>15, <1>16 DEF ArenaInv, ChunksInOrder

LEMMA AllocRecycledInv ==
  ASSUME ArenaInv, NEW c \in recycled, AllocRecycled(c)
  PROVE  ArenaInv'
<1>1. ArenaTypeOK /\ ChunksDisjoint /\ ChunksBelow /\ c \in Chunk /\ apc = "idle"
  BY DEF ArenaInv, ChunksInOrder, ArenaTypeOK, AllocRecycled, CanAlloc
<1>2. /\ CanAlloc /\ Obtain(c, FALSE) /\ recycled' = recycled \ {c} /\ handout' = handout
      /\ Retarget(handout')
  BY DEF AllocRecycled
<1>3. End(c) <= handout' /\ handout' \in 0 .. Reserve
  BY <1>1, <1>2, HandedOutIs, Numbers DEF ChunksBelow
<1>4. /\ c \notin given \union recycled'
      /\ \A d \in given \union recycled' : Memory(d) \cap Memory(c) = {}
  BY <1>1, <1>2 DEF ChunksDisjoint
<1>. QED
  BY <1>1, <1>2, <1>3, <1>4, ObtainStep

LEMMA AllocFreshInv ==
  ASSUME ArenaInv, NEW n \in ChunkSize, AllocFresh(n)
  PROVE  ArenaInv'
<1>. DEFINE c == <<handout, n>>
<1>1. ArenaTypeOK /\ ChunksBelow /\ apc = "idle"
  BY DEF ArenaInv, ChunksInOrder, AllocFresh, CanAlloc
<1>2. /\ CanAlloc /\ Obtain(c, TRUE) /\ recycled' = recycled /\ handout' = handout + n
      /\ Retarget(handout') /\ handout + n <= Reserve
  BY DEF AllocFresh
<1>3. /\ c \in Chunk /\ c[1] = handout /\ End(c) = handout' /\ handout' \in 0 .. Reserve
  BY <1>1, <1>2, Numbers DEF Chunk, ArenaPage, ChunkSize, End
<1>4. \A d \in given \union recycled : /\ d \in Chunk /\ End(d) <= c[1]
  BY <1>1, <1>3, HandedOutIs DEF ChunksBelow, ArenaTypeOK
<1>5. /\ c \notin given \union recycled'
      /\ \A d \in given \union recycled' : Memory(d) \cap Memory(c) = {}
  BY <1>2, <1>3, <1>4, ChunksApart
<1>6. End(c) <= handout'
  BY <1>3
<1>. HIDE DEF c
<1>. QED
  BY <1>2, <1>3, <1>5, <1>6, ObtainStep

LEMMA AllocNoneInv ==
  ASSUME ArenaInv, NEW n \in ChunkSize, AllocNone(n)
  PROVE  ArenaInv'
<1>1. /\ ArenaTypeOK /\ FrontierCommitted /\ ChunksDisjoint /\ LiveIsCommitted /\ LifeShape
      /\ ChunksBelow /\ AllocShape /\ HelperShape /\ SliceShape /\ TargetAhead
  BY DEF ArenaInv, ChunksInOrder
<1>2. /\ Retarget(handout)
      /\ UNCHANGED <<commitEnd, handout, touched, recycled, committed, given, apc, req,
                     hpc, slice, state, mapped, stop, tpc>>
  BY DEF AllocNone, life
<1>3. /\ target' \in 0 .. Greater(FirstTarget, Reserve)
      /\ touched > handout \/ target' >= handout + 2 \/ target' >= Reserve
  BY <1>1, <1>2, RetargetStep DEF ArenaTypeOK
<1>4. ArenaTypeOK'
  BY <1>1, <1>2, <1>3 DEF ArenaTypeOK
<1>5. FrontierCommitted' /\ ChunksDisjoint' /\ LiveIsCommitted' /\ LifeShape' /\ SliceShape'
  BY <1>1, <1>2 DEF FrontierCommitted, ChunksDisjoint, LiveIsCommitted, LifeShape, SliceShape
<1>6. ChunksBelow' /\ AllocShape' /\ HelperShape'
  BY <1>1, <1>2 DEF ChunksBelow, AllocShape, HelperShape, HandedOut
<1>7. TargetAhead'
  BY <1>2, <1>3 DEF TargetAhead
<1>. QED
  BY <1>4, <1>5, <1>6, <1>7 DEF ArenaInv, ChunksInOrder

(* The system commits what was asked for, or refuses.                      *)
LEMMA AllocCommitInv ==
  ASSUME ArenaInv, AllocCommit
  PROVE  ArenaInv'
<1>1. /\ ArenaTypeOK /\ FrontierCommitted /\ ChunksDisjoint /\ LiveIsCommitted /\ LifeShape
      /\ ChunksBelow /\ AllocShape /\ HelperShape /\ SliceShape /\ TargetAhead
  BY DEF ArenaInv, ChunksInOrder
<1>2. /\ apc = "commit"
      /\ UNCHANGED <<commitEnd, handout, touched, target, recycled, given, req, hpc, slice,
                     state, mapped, stop, tpc>>
      /\ apc' \in {"publish", "rollback"}
      /\ committed \subseteq committed'
      /\ committed' \subseteq committed \union PagesFrom(req.base, req.add)
      /\ apc' = "publish" => PagesFrom(req.base, req.add) \subseteq committed'
  BY DEF AllocCommit, arena, life
<1>3. PagesFrom(req.base, req.add) \subseteq ArenaPage
  BY <1>1, <1>2, Numbers, PagesIn DEF AllocShape
<1>4. ArenaTypeOK'
  BY <1>1, <1>2, <1>3 DEF ArenaTypeOK
<1>5. FrontierCommitted' /\ LiveIsCommitted' /\ SliceShape'
  BY <1>1, <1>2 DEF FrontierCommitted, LiveIsCommitted, SliceShape
<1>6. ChunksDisjoint' /\ LifeShape' /\ TargetAhead'
  BY <1>1, <1>2 DEF ChunksDisjoint, LifeShape, TargetAhead
<1>7. AllocShape'
  BY <1>1, <1>2 DEF AllocShape
<1>8. HandedOut = handout /\ HandedOut' \in Nat /\ HandedOut' <= handout
  BY <1>1, <1>2, <1>4, <1>7, Numbers, ChunkIs DEF HandedOut, AllocShape
<1>9. ChunksBelow'
  BY <1>1, <1>2, <1>8 DEF ChunksBelow, AllocShape, HandedOut
<1>10. HelperShape'
  <2>1. ASSUME hpc \in Slicing PROVE HelperShape'
    <3>. DEFINE end == slice.off + slice.grow
    <3>1. /\ HandedOut <= slice.off /\ slice.off < end /\ end <= commitEnd /\ end <= Reserve
          /\ HandedOut + 2 <= end \/ end = Reserve
      BY <1>1, <2>1 DEF HelperShape, Slicing
    <3>2. end \in Nat /\ slice.off \in Nat /\ handout \in Nat
      BY <1>1, Numbers
    <3>. HIDE DEF end
    <3>3. \A h, g \in Nat : \A o, n \in Nat :
             h <= g /\ g <= o /\ (g + 2 <= n \/ n = Reserve) =>
               h <= o /\ (h + 2 <= n \/ n = Reserve)
      OBVIOUS
    <3>4. HandedOut' <= slice.off /\ (HandedOut' + 2 <= end \/ end = Reserve)
      BY <1>8, <3>1, <3>2, <3>3, ZenonT(60)
    <3>. QED
      BY <1>2, <3>1, <3>4 DEF HelperShape, end
  <2>. QED
    BY <1>2, <2>1 DEF HelperShape, Slicing
<1>. QED
  BY <1>4, <1>5, <1>6, <1>7, <1>9, <1>10 DEF ArenaInv, ChunksInOrder

(* The chunk is the pool's; all below the new frontier is committed.       *)
LEMMA AllocPublishInv ==
  ASSUME ArenaInv, AllocPublish
  PROVE  ArenaInv'
<1>1. /\ ArenaTypeOK /\ FrontierCommitted /\ ChunksDisjoint /\ LiveIsCommitted /\ LifeShape
      /\ ChunksBelow /\ AllocShape /\ HelperShape /\ SliceShape /\ TargetAhead
  BY DEF ArenaInv, ChunksInOrder
<1>. DEFINE e == req.base + req.add
<1>2. /\ apc = "publish" /\ apc' = "idle" /\ req' = NoReq
      /\ commitEnd' = Greater(commitEnd, e)
      /\ given' = given \union {req.chunk}
      /\ UNCHANGED <<handout, touched, target, recycled, committed, hpc, slice,
                     state, mapped, stop, tpc>>
  BY DEF AllocPublish, life
<1>3. /\ req.chunk \in Chunk /\ e \in Nat /\ e <= Reserve /\ End(req.chunk) <= e
      /\ req.chunk \notin given \union recycled
      /\ \A d \in given \union recycled : Memory(d) \cap Memory(req.chunk) = {}
      /\ End(req.chunk) <= handout
      /\ PagesFrom(0, req.base) \subseteq committed
      /\ PagesFrom(req.base, req.add) \subseteq committed
  BY <1>1, <1>2, Numbers DEF AllocShape
<1>4. PagesFrom(0, e) \subseteq committed /\ Memory(req.chunk) \subseteq committed
      /\ Memory(req.chunk) \subseteq PagesFrom(0, handout)
  <2>1. PagesFrom(0, e) = PagesFrom(0, req.base) \union PagesFrom(req.base, req.add)
    BY <1>1, Numbers, PagesIn
  <2>2. Memory(req.chunk) \subseteq PagesFrom(0, e) /\ Memory(req.chunk) \subseteq PagesFrom(0, handout)
    BY <1>1, <1>3, Numbers, ChunkIs
  <2>. HIDE DEF e
  <2>. QED
    BY <1>3, <2>1, <2>2
<1>5. /\ commitEnd' \in Nat /\ commitEnd <= commitEnd' /\ commitEnd' <= Reserve
      /\ commitEnd' = commitEnd \/ commitEnd' = e
  BY <1>1, <1>2, <1>3, Numbers DEF Greater
<1>. HIDE DEF e
<1>6. ArenaTypeOK'
  BY <1>1, <1>2, <1>3, <1>5, Numbers, NoReqTyped DEF ArenaTypeOK
<1>7. FrontierCommitted' /\ SliceShape'
  BY <1>1, <1>2, <1>4, <1>5 DEF FrontierCommitted, SliceShape
<1>8. LiveIsCommitted'
  BY <1>1, <1>2, <1>4 DEF LiveIsCommitted
<1>9. ChunksDisjoint'
  <2>1. given' \cap recycled' = {}
    BY <1>1, <1>2, <1>3 DEF ChunksDisjoint
  <2>2. \A c \in given \union recycled : Memory(req.chunk) \cap Memory(c) = {}
    BY <1>3
  <2>3. \A c \in given' \union recycled' : c = req.chunk \/ c \in given \union recycled
    BY <1>2
  <2>4. \A c, d \in given' \union recycled' : c # d => Memory(c) \cap Memory(d) = {}
    BY <1>1, <1>3, <2>2, <2>3 DEF ChunksDisjoint
  <2>5. \A c \in given' \union recycled' : Memory(c) \subseteq PagesFrom(0, handout)
    BY <1>1, <1>4, <2>3 DEF ChunksDisjoint
  <2>. QED
    BY <1>2, <2>1, <2>4, <2>5 DEF ChunksDisjoint
<1>10. LifeShape' /\ TargetAhead' /\ AllocShape'
  BY <1>1, <1>2 DEF LifeShape, TargetAhead, AllocShape
<1>11. HandedOut = handout /\ HandedOut' = handout
  BY <1>2 DEF HandedOut
<1>12. ChunksBelow'
  BY <1>1, <1>2, <1>3, <1>11 DEF ChunksBelow
<1>13. HelperShape'
  <2>1. \A m \in Nat : m <= commitEnd => m <= commitEnd'
    BY <1>1, <1>5, Numbers
  <2>2. slice.off + slice.grow \in Nat
    BY <1>1, Numbers
  <2>. QED
    BY <1>1, <1>2, <1>11, <2>1, <2>2 DEF HelperShape
<1>. QED
  BY <1>6, <1>7, <1>8, <1>9, <1>10, <1>12, <1>13 DEF ArenaInv, ChunksInOrder

(* A chunk given up: a fresh one goes back, a recycled one is lost.        *)
LEMMA AllocRollbackInv ==
  ASSUME ArenaInv, AllocRollback
  PROVE  ArenaInv'
<1>1. /\ ArenaTypeOK /\ FrontierCommitted /\ ChunksDisjoint /\ LiveIsCommitted /\ LifeShape
      /\ ChunksBelow /\ AllocShape /\ HelperShape /\ SliceShape /\ TargetAhead
  BY DEF ArenaInv, ChunksInOrder
<1>2. /\ apc = "rollback" /\ apc' = "idle" /\ req' = NoReq
      /\ UNCHANGED <<commitEnd, touched, target, recycled, committed, given, hpc, slice,
                     state, mapped, stop, tpc>>
      /\ handout' = IF req.fresh /\ handout = req.chunk[1] + req.chunk[2]
                      THEN req.chunk[1] ELSE handout
  BY DEF AllocRollback, life
<1>3. /\ req.chunk \in Chunk /\ req.chunk[1] \in Nat /\ handout \in Nat /\ handout <= Reserve
      /\ End(req.chunk) <= handout /\ End(req.chunk) = req.chunk[1] + req.chunk[2]
      /\ req.chunk[1] < End(req.chunk) /\ End(req.chunk) \in Nat
      /\ req.fresh => End(req.chunk) = handout
  BY <1>1, <1>2, Numbers, ChunkIs DEF AllocShape
<1>4. HandedOut = handout' /\ HandedOut' = handout' /\ handout' \in Nat /\ handout' <= handout
  BY <1>2, <1>3 DEF HandedOut
<1>5. ArenaTypeOK'
  <2>1. handout' \in 0 .. Reserve
    BY <1>1, <1>3, <1>4, Numbers
  <2>. QED
    BY <1>1, <1>2, <2>1, NoReqTyped DEF ArenaTypeOK
<1>6. FrontierCommitted' /\ LiveIsCommitted' /\ SliceShape' /\ AllocShape'
  BY <1>1, <1>2 DEF FrontierCommitted, LiveIsCommitted, SliceShape, AllocShape
<1>7. ChunksBelow' /\ HelperShape'
  BY <1>1, <1>2, <1>4 DEF ChunksBelow, HelperShape
<1>8. ChunksDisjoint'
  <2>1. \A c \in given \union recycled : Memory(c) \subseteq PagesFrom(0, handout')
    BY <1>1, <1>4, ChunkIs DEF ChunksBelow, ArenaTypeOK
  <2>. QED
    BY <1>1, <1>2, <2>1 DEF ChunksDisjoint
<1>9. LifeShape' /\ TargetAhead'
  <2>1. handout = 0 => handout' = 0
    BY <1>3, <1>4
  <2>2. TargetAhead'
    BY <1>1, <1>2, <1>3, <1>4, Numbers DEF TargetAhead
  <2>. QED
    BY <1>1, <1>2, <2>1, <2>2 DEF LifeShape
<1>. QED
  BY <1>5, <1>6, <1>7, <1>8, <1>9 DEF ArenaInv, ChunksInOrder

(* A chunk given back to the arena.                                        *)
LEMMA RecycleInv ==
  ASSUME ArenaInv, NEW c \in given, Recycle(c), UNCHANGED life, apc = "idle"
  PROVE  ArenaInv'
<1>1. /\ ArenaTypeOK /\ FrontierCommitted /\ ChunksDisjoint /\ LiveIsCommitted /\ LifeShape
      /\ ChunksBelow /\ AllocShape /\ HelperShape /\ SliceShape /\ TargetAhead
  BY DEF ArenaInv, ChunksInOrder
<1>2. /\ recycled' = recycled \union {c} /\ given' = given \ {c}
      /\ given' \union recycled' = given \union recycled
      /\ UNCHANGED <<commitEnd, handout, touched, target, committed, apc, req, hpc, slice,
                     state, mapped, stop, tpc>>
  BY DEF Recycle, life
<1>3. ArenaTypeOK' /\ FrontierCommitted' /\ LiveIsCommitted' /\ SliceShape' /\ TargetAhead'
  BY <1>1, <1>2 DEF ArenaTypeOK, FrontierCommitted, LiveIsCommitted, SliceShape, TargetAhead
<1>4. ChunksDisjoint'
  BY <1>1, <1>2 DEF ChunksDisjoint
<1>5. LifeShape' /\ AllocShape'
  BY <1>1, <1>2 DEF LifeShape, AllocShape
<1>6. ChunksBelow' /\ HelperShape'
  BY <1>1, <1>2 DEF ChunksBelow, HelperShape, HandedOut
<1>. QED
  BY <1>3, <1>4, <1>5, <1>6 DEF ArenaInv, ChunksInOrder

-----------------------------------------------------------------------------
(* The helper announces a slice as committed and lets go of the lock.      *)
LEMMA HelperSliceInv ==
  ASSUME ArenaInv, HelperSlice
  PROVE  ArenaInv'
<1>1. /\ ArenaTypeOK /\ FrontierCommitted /\ ChunksDisjoint /\ LiveIsCommitted /\ LifeShape
      /\ ChunksBelow /\ AllocShape /\ HelperShape /\ SliceShape /\ TargetAhead
  BY DEF ArenaInv, ChunksInOrder
<1>. DEFINE goal == Lesser(target, Reserve)
            want == IF goal > Skipped THEN goal - Skipped ELSE 0
<1>2. /\ hpc = "loop" /\ touched' = Skipped /\ mapped
      /\ UNCHANGED <<handout, target, recycled, committed, given, apc, req,
                     state, mapped, stop, tpc>>
      /\ want = 0 => UNCHANGED <<commitEnd, hpc, slice>>
  BY <1>1 DEF HelperSlice, life, LifeShape
<1>3. /\ goal \in Nat /\ goal <= Reserve /\ (goal = target \/ goal = Reserve)
      /\ goal <= target
  BY <1>1, Numbers DEF Lesser
<1>4. /\ Skipped \in Nat /\ Skipped <= Reserve /\ touched <= Skipped
      /\ touched < target => handout <= Skipped
      /\ touched >= target => Skipped = touched
      /\ touched < target => Skipped = touched \/ Skipped = handout
  BY <1>1, Numbers DEF Skipped, Greater
<1>5. HandedOut \in Nat /\ HandedOut <= handout /\ HandedOut' = HandedOut
  BY <1>1, <1>2, HandedOutIs DEF HandedOut
<1>. HIDE DEF goal
<1>6. CASE want = 0
  <2>1. ArenaTypeOK'
    BY <1>1, <1>2, <1>4, <1>6 DEF ArenaTypeOK
  <2>2. FrontierCommitted' /\ LiveIsCommitted' /\ SliceShape' /\ ChunksDisjoint'
    BY <1>1, <1>2, <1>6 DEF FrontierCommitted, LiveIsCommitted, SliceShape, ChunksDisjoint
  <2>3. ChunksBelow' /\ AllocShape' /\ HelperShape'
    BY <1>1, <1>2, <1>5, <1>6 DEF ChunksBelow, AllocShape, HelperShape
  <2>4. LifeShape' /\ TargetAhead'
    BY <1>1, <1>2, <1>4, <1>6, Numbers DEF LifeShape, TargetAhead
  <2>. QED
    BY <2>1, <2>2, <2>3, <2>4 DEF ArenaInv, ChunksInOrder
<1>7. CASE want # 0
  <2>1. /\ goal > Skipped /\ want = goal - Skipped /\ want \in Nat /\ want > 0
        /\ touched < target /\ handout <= Skipped
    BY <1>1, <1>3, <1>4, <1>7, Numbers
  <2>. DEFINE g == Lesser(want, Slice)
              a == IF commitEnd < Skipped + g
                     THEN Lesser(Skipped + g - commitEnd, Reserve - commitEnd) ELSE 0
  <2>2. /\ hpc' = "commit" /\ commitEnd' = commitEnd + a
        /\ slice' = [off |-> Skipped, grow |-> g, base |-> commitEnd, add |-> a]
    BY <1>7 DEF HelperSlice, goal
  <2>3. PICK grow, add :
          /\ grow = Lesser(want, Slice)
          /\ add = IF commitEnd < Skipped + grow
                     THEN Lesser(Skipped + grow - commitEnd, Reserve - commitEnd) ELSE 0
          /\ hpc' = "commit" /\ commitEnd' = commitEnd + add
          /\ slice' = [off |-> Skipped, grow |-> grow, base |-> commitEnd, add |-> add]
    BY <2>2, Zenon
  <2>. DEFINE end == Skipped + grow
  <2>. HIDE DEF want
  <2>4. /\ grow \in Nat /\ grow > 0 /\ grow <= Slice
        /\ end \in Nat /\ end <= goal /\ end <= Reserve /\ Skipped < end
        /\ (end = goal \/ end = Skipped + Slice)
    BY <1>1, <1>3, <1>4, <2>1, <2>3, Numbers DEF Lesser
  <2>. HIDE DEF end
  <2>5. /\ add \in Nat /\ commitEnd + add <= Reserve /\ end <= commitEnd + add
    <3>1. add = IF commitEnd < end THEN Lesser(end - commitEnd, Reserve - commitEnd) ELSE 0
      <4>1. Skipped + grow - commitEnd = end - commitEnd
        BY <1>1, <1>4, <2>4, Numbers DEF end
      <4>. QED
        BY <2>3, <4>1 DEF end
    <3>. QED
      BY <1>1, <2>4, <3>1, Numbers DEF Lesser
  <2>6. handout + 2 <= end \/ end = Reserve
    <3>1. touched > handout \/ target >= handout + 2 \/ target >= Reserve
      BY <1>1, <1>2 DEF TargetAhead
    <3>2. CASE end = Skipped + Slice
      BY <1>1, <1>4, <2>1, <3>2, Numbers
    <3>3. CASE end = goal
      BY <1>1, <1>3, <1>4, <2>1, <3>1, <3>3, Numbers
    <3>. QED
      BY <2>4, <3>2, <3>3
  <2>7. ArenaTypeOK'
    <3>1. commitEnd' \in 0 .. Reserve /\ touched' \in 0 .. Reserve
      BY <1>1, <1>2, <1>4, <2>3, <2>5, Numbers
    <3>2. slice' \in [off : 0 .. Reserve, grow : 0 .. Slice,
                      base : 0 .. Reserve, add : 0 .. Reserve]
      BY <1>1, <1>4, <2>3, <2>4, <2>5, Numbers
    <3>. QED
      BY <1>1, <1>2, <2>3, <3>1, <3>2 DEF ArenaTypeOK
  <2>8. FrontierCommitted' /\ LiveIsCommitted' /\ ChunksDisjoint'
    BY <1>1, <1>2, <2>3 DEF FrontierCommitted, LiveIsCommitted, ChunksDisjoint
  <2>9. SliceShape'
    <3>1. PagesFrom(0, commitEnd) \subseteq committed
      BY <1>1, <1>2 DEF FrontierCommitted
    <3>2. PagesFrom(0, commitEnd + add) = PagesFrom(0, commitEnd) \union PagesFrom(commitEnd, add)
      BY <1>1, <2>5, Numbers, PagesIn
    <3>. QED
      BY <1>2, <2>3, <2>5, <3>1, <3>2 DEF SliceShape
  <2>10. HelperShape'
    <3>1. slice'.off = Skipped /\ slice'.off + slice'.grow = end
      BY <2>3 DEF end
    <3>2. HandedOut <= Skipped /\ (HandedOut + 2 <= end \/ end = Reserve)
      BY <1>1, <1>4, <1>5, <2>1, <2>4, <2>6, Numbers
    <3>. QED
      BY <1>5, <2>3, <2>4, <2>5, <3>1, <3>2 DEF HelperShape
  <2>11. ChunksBelow' /\ AllocShape'
    BY <1>1, <1>2, <1>5 DEF ChunksBelow, AllocShape
  <2>12. LifeShape' /\ TargetAhead'
    BY <1>1, <1>2, <1>4, <2>3, Numbers DEF LifeShape, TargetAhead
  <2>. QED
    BY <2>7, <2>8, <2>9, <2>10, <2>11, <2>12 DEF ArenaInv, ChunksInOrder
<1>. QED
  BY <1>6, <1>7

LEMMA HelperCommitInv ==
  ASSUME ArenaInv, HelperCommit
  PROVE  ArenaInv'
<1>1. /\ ArenaTypeOK /\ FrontierCommitted /\ ChunksDisjoint /\ LiveIsCommitted /\ LifeShape
      /\ ChunksBelow /\ AllocShape /\ HelperShape /\ SliceShape /\ TargetAhead
  BY DEF ArenaInv, ChunksInOrder
<1>2. /\ hpc = "commit" /\ hpc' \in {"touch", "undo"}
      /\ UNCHANGED <<commitEnd, handout, touched, target, recycled, given, apc, req, slice,
                     state, mapped, stop, tpc>>
      /\ committed' = committed \/ committed' = committed \union PagesFrom(slice.base, slice.add)
      /\ hpc' = "touch" => committed' = committed \union PagesFrom(slice.base, slice.add)
  BY DEF HelperCommit, arena, life
<1>3. PagesFrom(slice.base, slice.add) \subseteq ArenaPage
  BY <1>1, <1>2, Numbers, PagesIn DEF SliceShape
<1>4. ArenaTypeOK'
  BY <1>1, <1>2, <1>3 DEF ArenaTypeOK
<1>5. FrontierCommitted' /\ LiveIsCommitted' /\ SliceShape'
  BY <1>1, <1>2 DEF FrontierCommitted, LiveIsCommitted, SliceShape
<1>6. ChunksDisjoint' /\ LifeShape' /\ TargetAhead'
  BY <1>1, <1>2 DEF ChunksDisjoint, LifeShape, TargetAhead
<1>7. AllocShape'
  BY <1>1, <1>2 DEF AllocShape
<1>8. ChunksBelow' /\ HelperShape'
  BY <1>1, <1>2 DEF ChunksBelow, HelperShape, HandedOut
<1>. QED
  BY <1>4, <1>5, <1>6, <1>7, <1>8 DEF ArenaInv, ChunksInOrder

LEMMA HelperPublishInv ==
  ASSUME ArenaInv, HelperPublish
  PROVE  ArenaInv'
<1>1. /\ ArenaTypeOK /\ FrontierCommitted /\ ChunksDisjoint /\ LiveIsCommitted /\ LifeShape
      /\ ChunksBelow /\ AllocShape /\ HelperShape /\ SliceShape /\ TargetAhead
  BY DEF ArenaInv, ChunksInOrder
<1>2. /\ hpc = "touch" /\ hpc' = "loop" /\ slice' = NoSlice
      /\ touched' = Greater(touched, slice.off + slice.grow)
      /\ UNCHANGED <<commitEnd, handout, target, recycled, committed, given, apc, req,
                     state, mapped, stop, tpc>>
  BY DEF HelperPublish, life
<1>3. touched' \in Nat /\ touched <= touched' /\ touched' <= Reserve
  BY <1>1, <1>2, Numbers DEF Greater, HelperShape
<1>4. ArenaTypeOK'
  BY <1>1, <1>2, <1>3, NoReqTyped, Numbers DEF ArenaTypeOK
<1>5. FrontierCommitted' /\ LiveIsCommitted' /\ SliceShape' /\ ChunksDisjoint' /\ HelperShape'
  BY <1>1, <1>2 DEF FrontierCommitted, LiveIsCommitted, SliceShape, ChunksDisjoint, HelperShape
<1>6. LifeShape' /\ TargetAhead'
  BY <1>1, <1>2, <1>3, Numbers DEF LifeShape, TargetAhead
<1>7. ChunksBelow' /\ AllocShape'
  BY <1>1, <1>2 DEF ChunksBelow, AllocShape, HandedOut
<1>. QED
  BY <1>4, <1>5, <1>6, <1>7 DEF ArenaInv, ChunksInOrder

(* The announcement is taken back.                                         *)
LEMMA HelperUndoInv ==
  ASSUME ArenaInv, HelperUndo
  PROVE  ArenaInv'
<1>1. /\ ArenaTypeOK /\ FrontierCommitted /\ ChunksDisjoint /\ LiveIsCommitted /\ LifeShape
      /\ ChunksBelow /\ AllocShape /\ HelperShape /\ SliceShape /\ TargetAhead
  BY DEF ArenaInv, ChunksInOrder
<1>2. /\ hpc = "undo" /\ hpc' = "loop" /\ slice' = NoSlice /\ commitEnd' = slice.base
      /\ UNCHANGED <<handout, touched, target, recycled, committed, given, apc, req,
                     state, mapped, stop, tpc>>
  BY DEF HelperUndo, life
<1>3. ArenaTypeOK'
  <2>1. slice.base \in 0 .. Reserve
    BY <1>1 DEF ArenaTypeOK
  <2>. QED
    BY <1>1, <1>2, <2>1, NoReqTyped DEF ArenaTypeOK
<1>4. FrontierCommitted' /\ LiveIsCommitted' /\ SliceShape' /\ ChunksDisjoint' /\ HelperShape'
  BY <1>1, <1>2 DEF FrontierCommitted, LiveIsCommitted, SliceShape, ChunksDisjoint, HelperShape
<1>5. LifeShape' /\ TargetAhead'
  BY <1>1, <1>2 DEF LifeShape, TargetAhead
<1>6. ChunksBelow' /\ AllocShape'
  BY <1>1, <1>2 DEF ChunksBelow, AllocShape, HandedOut
<1>. QED
  BY <1>3, <1>4, <1>5, <1>6 DEF ArenaInv, ChunksInOrder

-----------------------------------------------------------------------------
(* SBArena_Start.                                                          *)
LEMMA StartInv ==
  ASSUME ArenaInv, StartFails \/ Start
  PROVE  ArenaInv'
<1>1. /\ ArenaTypeOK /\ FrontierCommitted /\ ChunksDisjoint /\ LiveIsCommitted /\ LifeShape
      /\ ChunksBelow /\ AllocShape /\ HelperShape /\ SliceShape /\ TargetAhead
  BY DEF ArenaInv, ChunksInOrder
<1>2. /\ ~mapped /\ apc = "idle" /\ hpc = "none" /\ given = {} /\ recycled = {}
      /\ commitEnd = 0 /\ handout = 0 /\ touched = 0 /\ tpc = "up"
  BY <1>1 DEF LifeShape, StartFails, Start
<1>3. /\ UNCHANGED <<commitEnd, handout, touched, recycled, committed, given, apc, req, slice,
                     stop, tpc>>
      /\ state' \in {"off", "ready"} /\ hpc' \in {"none", "loop"} /\ mapped' \in BOOLEAN
      /\ hpc' = "loop" => mapped'
      /\ target' \in 0 .. Greater(FirstTarget, Reserve)
      /\ mapped' => target' >= 2
  <2>1. CASE StartFails
    BY <1>1, <1>2, <2>1 DEF StartFails, arena, ArenaTypeOK
  <2>2. CASE Start
    BY <1>1, <1>2, <2>2, Numbers DEF Start, ArenaTypeOK, Greater
  <2>. QED
    BY <2>1, <2>2
<1>4. ArenaTypeOK'
  BY <1>1, <1>3 DEF ArenaTypeOK
<1>5. FrontierCommitted' /\ LiveIsCommitted' /\ SliceShape' /\ ChunksDisjoint' /\ HelperShape'
  BY <1>2, <1>3 DEF FrontierCommitted, LiveIsCommitted, SliceShape, ChunksDisjoint,
                    HelperShape, PagesFrom
<1>6. LifeShape' /\ TargetAhead'
  BY <1>2, <1>3 DEF LifeShape, TargetAhead
<1>7. ChunksBelow' /\ AllocShape'
  BY <1>2, <1>3 DEF ChunksBelow, AllocShape
<1>. QED
  BY <1>4, <1>5, <1>6, <1>7 DEF ArenaInv, ChunksInOrder

(* The steps of the teardown and of the helper that only decide who goes   *)
(* on: nothing is allocated any more, or nothing of the arena changes.     *)
LEMMA LifeStep ==
  ASSUME ArenaInv, UNCHANGED <<arena, given, apc, req, slice>>,
         (mapped' = mapped /\ committed' = committed) \/ (mapped' = FALSE /\ committed' = {}),
         mapped' = FALSE => apc = "idle",
         \/ hpc' = hpc \/ (hpc' = "none" /\ hpc \in {"none", "gone"})
         \/ (hpc' = "gone" /\ hpc = "loop"),
         mapped' = FALSE => hpc' \in {"none", "gone"},
         state' = state \/ (state' = "off" /\ state # "uninit"), stop' \in BOOLEAN,
         tpc' = "join" => state' = "ready",
         tpc' \in {"up", "join", "free", "release", "down"}, tpc' # "up" => apc = "idle"
  PROVE  ArenaInv'
<1>1. /\ ArenaTypeOK /\ FrontierCommitted /\ ChunksDisjoint /\ LiveIsCommitted /\ LifeShape
      /\ ChunksBelow /\ AllocShape /\ HelperShape /\ SliceShape /\ TargetAhead
  BY DEF ArenaInv, ChunksInOrder
<1>2. UNCHANGED <<commitEnd, handout, touched, target, recycled, given, apc, req, slice>>
  BY DEF arena
<1>3. ArenaTypeOK'
  BY <1>1, <1>2 DEF ArenaTypeOK
<1>4. FrontierCommitted' /\ LiveIsCommitted'
  BY <1>1, <1>2 DEF FrontierCommitted, LiveIsCommitted
<1>5. ChunksDisjoint' /\ ChunksBelow'
  BY <1>1, <1>2 DEF ChunksDisjoint, ChunksBelow, HandedOut
<1>6. LifeShape' /\ TargetAhead'
  <2>1. /\ mapped' => mapped
        /\ apc # "idle" => mapped' /\ tpc' = "up"
        /\ hpc' \notin {"none", "gone"} => mapped'
    BY <1>1, <1>2 DEF LifeShape
  <2>2. state' = "uninit" => state = "uninit" /\ (hpc = "none" => hpc' = "none")
    OBVIOUS
  <2>3. LifeShape'
    <3>1. CASE state = "uninit"
      BY <1>1, <1>2, <2>1, <2>2, <3>1 DEF LifeShape
    <3>2. CASE state # "uninit"
      BY <1>1, <1>2, <2>1, <2>2, <3>2 DEF LifeShape
    <3>. QED
      BY <3>1, <3>2
  <2>4. TargetAhead'
    BY <1>1, <1>2, <2>1 DEF TargetAhead
  <2>. QED
    BY <2>3, <2>4
<1>7. AllocShape'
  BY <1>1, <1>2 DEF AllocShape, LifeShape
<1>8. HelperShape'
  BY <1>1, <1>2 DEF HelperShape, HandedOut
<1>9. SliceShape'
  BY <1>1, <1>2 DEF SliceShape, LifeShape
<1>. QED
  BY <1>3, <1>4, <1>5, <1>6, <1>7, <1>8, <1>9 DEF ArenaInv, ChunksInOrder

LEMMA TeardownInv ==
  ASSUME ArenaInv, Teardown \/ HelperStops
  PROVE  ArenaInv'
<1>1. /\ ArenaTypeOK /\ LifeShape /\ stop \in BOOLEAN
      /\ tpc \in {"up", "join", "free", "release", "down"}
      /\ apc # "idle" => mapped /\ tpc = "up"
      /\ hpc \notin {"none", "gone"} => mapped
      /\ tpc = "join" => state = "ready"
  BY DEF ArenaInv, ChunksInOrder, ArenaTypeOK, LifeShape
<1>2. CASE StopArena
  <2>1. /\ apc = "idle" /\ UNCHANGED <<arena, given, apc, req, slice>>
        /\ mapped' = mapped /\ committed' = committed /\ hpc' = hpc /\ state' = state
        /\ stop' \in BOOLEAN /\ tpc' \in {"join", "free"}
        /\ tpc' = "join" => state = "ready"
    <3>1. CASE state = "ready"
      BY <1>2, <3>1 DEF StopArena
    <3>2. CASE state # "ready"
      BY <1>1, <1>2, <3>2 DEF StopArena
    <3>. QED
      BY <3>1, <3>2
  <2>2. tpc' # "up" => apc = "idle"
    BY <1>1, <2>1
  <2>3. tpc' = "join" => state' = "ready"
    BY <1>1, <2>1
  <2>4. tpc' \in {"up", "join", "free", "release", "down"} /\ stop' \in BOOLEAN
    BY <1>1, <2>1
  <2>. QED
    BY <1>1, <2>1, <2>2, <2>3, <2>4, LifeStep
<1>3. CASE HelperStops
  <2>1. /\ UNCHANGED <<arena, given, apc, req, slice>>
        /\ mapped' = mapped /\ committed' = committed /\ hpc = "loop" /\ hpc' = "gone"
        /\ state' = state /\ stop' = stop /\ tpc' = tpc
    BY <1>3 DEF HelperStops, life
  <2>2. tpc' # "up" => apc = "idle"
    BY <1>1, <2>1
  <2>3. tpc' = "join" => state' = "ready"
    BY <1>1, <2>1
  <2>4. tpc' \in {"up", "join", "free", "release", "down"} /\ stop' \in BOOLEAN
    BY <1>1, <2>1
  <2>. QED
    BY <1>1, <2>1, <2>2, <2>3, <2>4, LifeStep
<1>4. CASE Joined
  <2>1. /\ UNCHANGED <<arena, given, apc, req, slice>> /\ apc = "idle"
        /\ mapped' = mapped /\ committed' = committed /\ hpc \in {"none", "gone"}
        /\ hpc' = "none" /\ state = "ready" /\ state' = "off" /\ stop' = stop
        /\ tpc' = "free"
    BY <1>1, <1>4 DEF Joined, Exited
  <2>2. tpc' # "up" => apc = "idle"
    BY <1>1, <2>1
  <2>3. tpc' = "join" => state' = "ready"
    BY <1>1, <2>1
  <2>4. tpc' \in {"up", "join", "free", "release", "down"} /\ stop' \in BOOLEAN
    BY <1>1, <2>1
  <2>. QED
    BY <1>1, <2>1, <2>2, <2>3, <2>4, LifeStep
<1>5. CASE JoinTimesOut \/ SlabsFreed \/ ReleaseTimesOut
  <2>1. /\ UNCHANGED <<arena, given, apc, req, slice>> /\ apc = "idle"
        /\ mapped' = mapped /\ committed' = committed /\ hpc' = hpc
        /\ state' = state /\ stop' = stop /\ tpc' \in {"release", "down"}
    <3>1. CASE JoinTimesOut
      BY <1>1, <3>1 DEF JoinTimesOut
    <3>2. CASE SlabsFreed
      BY <1>1, <3>2 DEF SlabsFreed
    <3>3. CASE ReleaseTimesOut
      BY <1>1, <3>3 DEF ReleaseTimesOut
    <3>. QED
      BY <1>5, <3>1, <3>2, <3>3
  <2>2. tpc' # "up" => apc = "idle"
    BY <1>1, <2>1
  <2>3. tpc' = "join" => state' = "ready"
    BY <1>1, <2>1
  <2>4. tpc' \in {"up", "join", "free", "release", "down"} /\ stop' \in BOOLEAN
    BY <1>1, <2>1
  <2>. QED
    BY <1>1, <2>1, <2>2, <2>3, <2>4, LifeStep
<1>6. CASE Release
  <2>1. /\ UNCHANGED <<arena, given, apc, req, slice>> /\ apc = "idle"
        /\ mapped' = FALSE /\ committed' = {} /\ hpc \in {"none", "gone"}
        /\ hpc' = "none" /\ state' = state /\ stop' \in BOOLEAN /\ tpc' = "down"
    BY <1>1, <1>6 DEF Release, Exited
  <2>2. tpc' # "up" => apc = "idle"
    BY <1>1, <2>1
  <2>3. tpc' = "join" => state' = "ready"
    BY <1>1, <2>1
  <2>4. tpc' \in {"up", "join", "free", "release", "down"} /\ stop' \in BOOLEAN
    BY <1>1, <2>1
  <2>. QED
    BY <1>1, <2>1, <2>2, <2>3, <2>4, LifeStep
<1>7. CASE \E c \in given : FreeSlab(c)
  BY <1>1, <1>7, RecycleInv DEF FreeSlab
<1>. QED
  BY <1>2, <1>3, <1>4, <1>5, <1>6, <1>7 DEF Teardown

(* A step of anyone.                                                       *)
LEMMA InitIInv == ArenaInit => ArenaInv
<1>. SUFFICES ASSUME ArenaInit PROVE ArenaInv
  OBVIOUS
<1>1. ArenaTypeOK
  <2>1. target \in 0 .. Greater(FirstTarget, Reserve)
    BY ArenaAssumption DEF ArenaInit, Greater
  <2>. QED
    <3>1. 0 \in 0 .. Reserve
      BY ArenaAssumption
    <3>. QED
      BY NoReqTyped, <2>1, <3>1 DEF ArenaInit, ArenaTypeOK
<1>2. ChunksInOrder /\ LiveIsCommitted /\ LifeShape
  BY <1>1 DEF ArenaInit, ChunksInOrder, LiveIsCommitted, LifeShape, FrontierCommitted,
              ChunksDisjoint
<1>3. ChunksBelow /\ AllocShape /\ HelperShape /\ SliceShape /\ TargetAhead
  BY DEF ArenaInit, ChunksBelow, AllocShape, HelperShape, SliceShape, TargetAhead
<1>. QED
  BY <1>2, <1>3 DEF ArenaInv

LEMMA NextIInv == ArenaInv /\ [ArenaNext]_arenaVars => ArenaInv'
<1>. SUFFICES ASSUME ArenaInv, [ArenaNext]_arenaVars PROVE ArenaInv'
  OBVIOUS
<1>1. CASE Pool
  <2>1. CASE StartFails \/ Start
    BY <2>1, StartInv
  <2>2. CASE \E c \in recycled : AllocRecycled(c)
    BY <2>2, AllocRecycledInv
  <2>3. CASE \E n \in ChunkSize : AllocFresh(n)
    BY <2>3, AllocFreshInv
  <2>4. CASE \E n \in ChunkSize : AllocNone(n)
    BY <2>4, AllocNoneInv
  <2>5. CASE AllocCommit \/ AllocPublish \/ AllocRollback
    BY <2>5, AllocCommitInv, AllocPublishInv, AllocRollbackInv
  <2>6. CASE \E c \in given : Free(c)
    BY <2>6, RecycleInv DEF Free
  <2>. QED
    BY <1>1, <2>1, <2>2, <2>3, <2>4, <2>5, <2>6 DEF Pool
<1>2. CASE Helper
  BY <1>2, HelperSliceInv, HelperCommitInv, HelperPublishInv, HelperUndoInv, TeardownInv
     DEF Helper
<1>3. CASE Teardown
  BY <1>3, TeardownInv
<1>4. CASE UNCHANGED arenaVars
  <2>1. UNCHANGED <<arena, given, apc, req, slice>> /\ UNCHANGED <<mapped, committed, hpc>>
        /\ UNCHANGED <<state, stop, tpc>>
    BY <1>4 DEF arenaVars, life
  <2>2. /\ stop \in BOOLEAN /\ tpc \in {"up", "join", "free", "release", "down"}
        /\ apc # "idle" => mapped /\ tpc = "up"
        /\ hpc \notin {"none", "gone"} => mapped
        /\ tpc = "join" => state = "ready" /\ mapped \in BOOLEAN
    BY DEF ArenaInv, ChunksInOrder, ArenaTypeOK, LifeShape
  <2>. QED
    BY <2>1, <2>2, LifeStep
<1>. QED
  BY <1>1, <1>2, <1>3, <1>4 DEF ArenaNext

(* The arena's books stay in order through every interleaving of the pool, *)
(* the prepage helper and the teardown, in mem.cpp's SBArena.              *)
THEOREM ArenaInvariance == ArenaSpec => []ArenaInv
<1>. QED
  BY InitIInv, NextIInv, PTL DEF ArenaSpec

(* SBArena_Alloc's frontiers stay inside the reservation, all below the    *)
(* commit frontier is committed, and no memory is in two chunks.           *)
THEOREM ChunksStayInOrder == ArenaSpec => []ChunksInOrder
<1>1. ArenaInv => ChunksInOrder
  BY DEF ArenaInv
<1>. QED
  BY <1>1, ArenaInvariance, PTL

(* The pool's slabs and the pages the helper touches are committed at the  *)
(* time, though the helper announces its commits before it makes them.     *)
THEOREM UsesCommittedOnly == ArenaSpec => []UsedIsCommitted
<1>1. ASSUME ArenaInv PROVE UsedIsCommitted
  <2>1. /\ ArenaTypeOK /\ FrontierCommitted /\ LiveIsCommitted /\ LifeShape /\ HelperShape
    BY <1>1 DEF ArenaInv, ChunksInOrder
  <2>2. ASSUME hpc = "touch" PROVE mapped /\ PagesFrom(slice.off, slice.grow) \subseteq committed
    <3>. DEFINE end == slice.off + slice.grow
    <3>1. mapped /\ PagesFrom(0, commitEnd) \subseteq committed /\ end <= commitEnd
      BY <2>1, <2>2 DEF FrontierCommitted, LifeShape, HelperShape
    <3>2. PagesFrom(slice.off, slice.grow) \subseteq PagesFrom(0, end) /\ end \in Nat
      BY <2>1, Numbers, PagesIn
    <3>3. PagesFrom(0, end) \subseteq PagesFrom(0, commitEnd)
      BY <2>1, <3>1, <3>2, Numbers DEF PagesFrom
    <3>. QED
      BY <3>1, <3>2, <3>3
  <2>. QED
    BY <2>1, <2>2 DEF UsedIsCommitted, TouchesCommitted
<1>. QED
  BY <1>1, ArenaInvariance, PTL

(* SBArena_PrepageThread never zeroes a byte of a slab the pool has been   *)
(* given, though it touches its slice without g_arena.cs.                  *)
THEOREM HelperNeverTouchesSlabs == ArenaSpec => []HelperSparesLive
<1>1. ASSUME ArenaInv PROVE HelperSparesLive
  <2>1. ASSUME hpc = "touch", NEW c \in given
        PROVE  Memory(c) \cap PagesFrom(slice.off, slice.grow) = {}
    <3>1. ArenaTypeOK /\ c \in Chunk /\ End(c) <= HandedOut /\ HandedOut <= slice.off
      BY <1>1, <2>1 DEF ArenaInv, ChunksInOrder, ChunksBelow, HelperShape, ArenaTypeOK
    <3>2. /\ HandedOut \in Nat /\ slice.off \in Nat /\ End(c) \in Nat /\ End(c) = c[1] + c[2]
          /\ c[1] \in Nat /\ c[2] \in Nat /\ slice.grow \in Nat
      BY <3>1, HandedOutIs, Numbers, ChunkIs
    <3>. QED
      BY <3>1, <3>2 DEF Memory, PagesFrom
  <2>. QED
    BY <2>1 DEF HelperSparesLive
<1>. QED
  BY <1>1, ArenaInvariance, PTL

=============================================================================
