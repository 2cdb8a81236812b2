------------------------------- MODULE Links -------------------------------
(***************************************************************************)
(* Chains of records that lead to one another by a field next, as the      *)
(* nodes of the page map (mem.cpp) and the records of a validator          *)
(* (validator.cpp) do.  Records are numbered and 0 is the null pointer.    *)
(***************************************************************************)
EXTENDS Naturals, Sequences, FiniteSetsExt

(* The loop "for ( p = first; p; p = p->next )" over nd[1] .. nd[bound].   *)
ChainFrom(nd, bound, first) ==
  LET at[k \in Nat] ==
        IF k = 0 THEN first ELSE LET p == at[k - 1] IN IF p = 0 THEN 0 ELSE nd[p].next
      length == Min({k \in 0 .. bound : at[k] = 0})
  IN  [k \in 1 .. length |-> at[k - 1]]

=============================================================================
