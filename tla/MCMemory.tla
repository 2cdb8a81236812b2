------------------------------ MODULE MCMemory ------------------------------
(***************************************************************************)
(* Where the pool's slabs come from and how they are found again, for one  *)
(* run of TLC: the arena and the page map.  They share no state; a         *)
(* behaviour is about one of them, and the other stays in its initial      *)
(* state.                                                                  *)
(***************************************************************************)
EXTENDS MCSlabMap, SlabArena

VARIABLE part  \* the one this behaviour is about

memoryVars == <<vars, arenaVars, part>>

MemoryInit == Init /\ ArenaInit /\ part \in {"map", "arena"}

InMap == part = "map" /\ UNCHANGED <<arenaVars, part>>

InArena == part = "arena" /\ UNCHANGED <<vars, part>>

MemoryNext ==
  \/ InMap /\ Next
  \/ InArena /\ ArenaNext

(* A lookup waits for nobody, and neither does the arena's helper.         *)
MemorySpec ==
  /\ MemoryInit /\ [][MemoryNext]_memoryVars
  /\ \A r \in Reader : WF_memoryVars(InMap /\ Read(r))
  /\ WF_memoryVars(InArena /\ Helper)

=============================================================================
