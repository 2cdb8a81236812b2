------------------------------ MODULE MCSlabMap ------------------------------
(* Small instances of SlabMap for TLC.                                     *)
EXTENDS SlabMap

OneReader == {"r"}

(* Slabs at odd half pages, so that all straddle: the one at 1 lies on the *)
(* pages 0 and 1, the one at 3 on 1 and 2, and they meet in page 1.        *)
TwoBases == {1, 3}
TwoSizes == {"b4", "b2048"}
SizeOf == [b \in TwoSizes |-> IF b = "b4" THEN 2 ELSE 3]

=============================================================================
