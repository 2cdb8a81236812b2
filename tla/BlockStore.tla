----------------------------- MODULE BlockStore -----------------------------
(***************************************************************************)
(* What the small block allocator promises the program: a block it returns *)
(* is not in use, nor does its memory overlap a block in use, and a block  *)
(* stops being in use only when the program gives it back.  (The services  *)
(* of CStdMemAlloc in src/tier0/mem.cpp.)                                  *)
(*                                                                         *)
(* A block is a chunk of memory, the bucket that fixes the chunk's layout  *)
(* and an index in that layout.  Blocks of different chunks are disjoint;  *)
(* blocks of one chunk are disjoint when they have the same layout and     *)
(* different indices, and may overlap otherwise.                           *)
(***************************************************************************)
EXTENDS Naturals

CONSTANTS Chunk, Bucket, Capacity

VARIABLE inUse

Apart(p, q) == p[1] # q[1] \/ (p[2] = q[2] /\ p[3] # q[3])

Init == inUse = {}

(* The block is apart from every block in use.                             *)
Allocate(p) ==
  /\ \A q \in inUse : Apart(p, q)
  /\ inUse' = inUse \union {p}

Release(p) ==
  /\ p \in inUse
  /\ inUse' = inUse \ {p}

(* A block lies inside its slab.                                           *)
Next ==
  \E c \in Chunk : \E b \in Bucket : \E i \in 1 .. Capacity[b] :
    Allocate(<<c, b, i>>) \/ Release(<<c, b, i>>)

Spec == Init /\ [][Next]_inUse

(* Memory in use by the program never overlaps.                            *)
Disjoint == \A p, q \in inUse : p = q \/ Apart(p, q)

=============================================================================
