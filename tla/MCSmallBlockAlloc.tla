-------------------------- MODULE MCSmallBlockAlloc --------------------------
(***************************************************************************)
(* Small instances of SmallBlockAlloc for TLC, and the sizes of the real   *)
(* one, all of which TLC goes through.                                     *)
(***************************************************************************)
EXTENDS SmallBlockAlloc, SizeClasses, TLC

CONSTANTS t1, t2, c1, c2, c3

ASSUME SizesAssumption == SizesFit

(* One bucket: two blocks to a slab, so a batch of three spans slabs.      *)
OneBucket == {"b4"}
OneCapacity == [b \in OneBucket |-> 2]
OneCap == [b \in OneBucket |-> 3]

(* Two buckets with different slab layouts.                                *)
TwoBuckets == {"b4", "b2048"}
TwoCapacity == [b \in TwoBuckets |-> IF b = "b4" THEN 2 ELSE 1]
TwoCap == [b \in TwoBuckets |-> IF b = "b4" THEN 3 ELSE 1]

Symmetry == Permutations({t1, t2}) \union Permutations({c1, c2, c3})

=============================================================================
