------------------------------ MODULE SpewGroups ------------------------------
(***************************************************************************)
(* The groups of debug output (src/tier0/dbg.cpp): an array sorted by      *)
(* name, searched by halving, with a spew level and a log level for each   *)
(* group, all under one mutex.                                             *)
(*                                                                         *)
(* A name is a number, in the order of the names.  The array keeps the     *)
(* first 47 characters of a name, and the search compares whole names: a   *)
(* longer name is stored under another, Cut.  What is stored of a name     *)
(* sorts before a second name only if it sorts before what is stored of    *)
(* that one, or is the same.                                               *)
(***************************************************************************)
EXTENDS Integers, Sequences, SequencesExt

CONSTANTS
  GroupName,  \* names of groups
  Cut,        \* what of each name is stored
  Level,      \* levels
  MaxStored,  \* bound: groups
  Spewer      \* threads that call SpewAndLogChangeIfStillDefault

ASSUME SpewAssumption ==
  /\ GroupName \cup Level \subseteq Nat /\ MaxStored \in Nat
  /\ \A n, m \in GroupName : /\ Cut[n] \in Nat /\ Cut[n] <= n
                             /\ Cut[n] <= m => Cut[n] <= Cut[m]

VARIABLES
  stored,    \* s_pSpewGroups
  fallback,  \* s_DefaultLevel and s_DefaultLogLevel
  changing,  \* the change each thread has found due and not made, if any
  wanted     \* ghost: the levels each name was last given

spewVars == <<stored, fallback, changing, wanted>>

None == [level |-> -1, log |-> -1]

SpewInit ==
  /\ stored = <<>>
  /\ fallback = [level |-> 0, log |-> 0]
  /\ changing = [t \in Spewer |-> [name |-> 0, to |-> None]]
  /\ wanted = [n \in GroupName |-> None]

-----------------------------------------------------------------------------
(* FindSpewGroup: the index of the group, or of where it belongs.          *)

Outcome(found, i) == [found |-> found, index |-> i]

Middle(lo, hi) == (lo + hi) \div 2

FindSpewGroup(name) ==
  LET find[range \in (1 .. Len(stored) + 1) \X (0 .. Len(stored))] ==
        LET lo == range[1]
            hi == range[2]
            mid == Middle(lo, hi)
        IN IF hi < lo THEN Outcome(FALSE, lo)
           ELSE IF stored[mid].name = name THEN Outcome(TRUE, mid)
           ELSE IF name > stored[mid].name THEN find[<<mid + 1, hi>>]
           ELSE find[<<lo, mid - 1>>]
  IN find[<<1, Len(stored)>>]

-----------------------------------------------------------------------------
(* SpewAndLogActivate: change the group, or insert it where the first      *)
(* group that does not sort before it is.                                  *)

(* Faulty: the place where the search ended its probing.                   *)
PlaceForAtEnd(name) == Len(stored) + 1

PlaceFor(name) ==
  CHOOSE i \in 1 .. Len(stored) + 1 :
    /\ \A j \in 1 .. i - 1 : stored[j].name < name
    /\ i <= Len(stored) => stored[i].name >= name

Give(name, to) ==
  LET at == FindSpewGroup(name) IN
  /\ stored' = IF at.found
                 THEN [stored EXCEPT ![at.index].to = to]
                 ELSE InsertAt(stored, PlaceFor(name), [name |-> Cut[name], to |-> to])
  /\ wanted' = [wanted EXCEPT ![name] = to]
  /\ UNCHANGED fallback

(* No memory for one more group: nothing changes.                          *)
SpewAndLogActivate(name, to) ==
  /\ FindSpewGroup(name).found \/ Len(stored) < MaxStored
  /\ Give(name, to)
  /\ UNCHANGED changing

ActivateAll(to) ==
  /\ fallback' = to
  /\ UNCHANGED <<stored, changing, wanted>>

-----------------------------------------------------------------------------
(* SpewAndLogChangeIfStillDefault looks at the group, gives the mutex      *)
(* back, and then activates.  SpewChangeIfStillDefault compares one of the *)
(* two levels only and gives both the same: the choice of "from" and "to"  *)
(* covers it.                                                              *)

FindDue(t, name, to, from) ==
  LET at == FindSpewGroup(name) IN
  /\ changing[t].name = 0
  /\ at.found /\ stored[at.index].to = from
  /\ changing' = [changing EXCEPT ![t] = [name |-> name, to |-> to]]
  /\ UNCHANGED <<stored, fallback, wanted>>

MakeChange(t) ==
  /\ changing[t].name # 0
  /\ changing' = [changing EXCEPT ![t] = [name |-> 0, to |-> None]]
  /\ Give(changing[t].name, changing[t].to)

-----------------------------------------------------------------------------
Levels == [level : Level, log : Level]

SpewNext ==
  \/ \E name \in GroupName, to \in Levels : SpewAndLogActivate(name, to)
  \/ \E to \in Levels : ActivateAll(to)
  \/ \E t \in Spewer, name \in GroupName, to, from \in Levels : FindDue(t, name, to, from)
  \/ \E t \in Spewer : MakeChange(t)

SpewSpec == SpewInit /\ [][SpewNext]_spewVars

-----------------------------------------------------------------------------
Short(name) == Cut[name] = name

(* The search finds every group there is, and only those: the array stays  *)
(* sorted, also with names that are stored cut.                            *)
SearchFindsAll ==
  \A name \in GroupName :
    LET at == FindSpewGroup(name) IN
    /\ at.found <=> \E i \in DOMAIN stored : stored[i].name = name
    /\ at.found => stored[at.index].name = name

(* A group that was activated under a name short enough to be stored whole *)
(* has the levels it was given last.  (A name that is cut to it changes    *)
(* nothing: it only adds a group nobody finds first.)                      *)
LevelsAreTheLastGiven ==
  (\A n \in GroupName : ~Short(n) => wanted[n] = None) =>
    \A name \in GroupName : wanted[name] # None =>
      stored[FindSpewGroup(name).index] = [name |-> name, to |-> wanted[name]]

(* The array is a map of groups to levels: what is stored is found, and is *)
(* what was given last.                                                    *)
GroupsInOrder == SearchFindsAll /\ LevelsAreTheLastGiven

=============================================================================
