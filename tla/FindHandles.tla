----------------------------- MODULE FindHandles -----------------------------
(***************************************************************************)
(* The directory searches of CFileSystem (src/tier0/filesystem.cpp): the   *)
(* client's handle is the index of a slot, and a slot that was closed is   *)
(* used again.  A search is the number of one no open search has.  What it *)
(* finds is left out.                                                      *)
(***************************************************************************)
EXTENDS Integers, Sequences, SequencesExt

CONSTANT MaxFinds  \* bound: searches open at once

ASSUME FindsAssumption == MaxFinds \in Nat

VARIABLES
  finds,  \* m_FindHandles: the search in each slot, 0 for none
  held    \* the slots the client was given and has not closed

findVars == <<finds, held>>

FindInit == finds = <<>> /\ held = {}

FreeSlots == {i \in DOMAIN finds : finds[i] = 0}

FindFirst ==
  /\ \E f \in 1 .. MaxFinds, i \in 1 .. MaxFinds :
       /\ f \notin Range(finds) /\ \A g \in 1 .. f - 1 : g \in Range(finds)
       /\ IF FreeSlots = {}
            THEN /\ i = Len(finds) + 1
                 /\ finds' = Append(finds, f)
            ELSE /\ i \in FreeSlots /\ \A j \in FreeSlots : i <= j
                 /\ finds' = [finds EXCEPT ![i] = f]
       /\ held' = held \cup {<<i, f>>}

FindClose ==
  /\ \E s \in held :
       /\ finds' = [finds EXCEPT ![s[1]] = 0]
       /\ held' = held \ {s}

-----------------------------------------------------------------------------
SearchesNext == FindFirst \/ FindClose

FindSpec == FindInit /\ [][SearchesNext]_findVars

-----------------------------------------------------------------------------
(* Closing one search leaves the handles of all others as they are.        *)
FindHandlesStay ==
  \A s \in held : s[1] \in DOMAIN finds /\ finds[s[1]] = s[2]

=============================================================================
