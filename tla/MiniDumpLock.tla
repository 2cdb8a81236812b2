----------------------------- MODULE MiniDumpLock -----------------------------
(***************************************************************************)
(* The recursive lock under which crash dumps are written                  *)
(* (src/tier0/minidump.cpp): the id of the thread that holds it and how    *)
(* often it does, in two words that are changed one after the other.       *)
(*                                                                         *)
(* MiniDumpWriterTrampoline (src/tier0/exports_fillins.cpp) takes the lock *)
(* and gives it back without a look at whether it got it.  It runs where a *)
(* thread fails inside CatchAndWriteMiniDumpForVoidPtrFn and the game has  *)
(* set no function of its own.                                             *)
(***************************************************************************)
EXTENDS Integers, FiniteSets

CONSTANTS
  Dumper,    \* the threads that write dumps
  NoDumper,  \* 0, the id of no thread
  MaxNested, \* bound: dumps one thread has begun, one inside another
  MaxBelow   \* bound: how far the level may be below 0 when the trampoline is entered

ASSUME DumperAssumption == NoDumper \notin Dumper /\ {MaxNested, MaxBelow} \subseteq Nat

VARIABLES
  current,   \* g_CurrentMiniDumpThread
  recursion, \* g_MiniDumpRecursionLevel
  at,        \* where each thread is in BGetMiniDumpLock or MiniDumpUnlock
  writing,   \* the dumps each thread has begun and not ended
  blind,     \* the thread is in the trampoline
  ownWriter  \* g_UserMiniDumpFn is set: the trampoline leaves the lock alone

dumpVars == <<current, recursion, at, writing, blind, ownWriter>>

DumpInit ==
  /\ current = NoDumper
  /\ recursion = 0
  /\ at = [t \in Dumper |-> "out"]
  /\ writing = [t \in Dumper |-> 0]
  /\ blind = [t \in Dumper |-> FALSE]
  /\ ownWriter \in BOOLEAN

Step(t, from, to) == at[t] = from /\ at' = [at EXCEPT ![t] = to]

-----------------------------------------------------------------------------
(* BGetMiniDumpLock: a thread that is the current one goes on at once, any *)
(* other makes itself the current one if there is none.                    *)

Enter(t) ==
  /\ writing[t] < MaxNested
  /\ Step(t, "out", IF current = t THEN "count" ELSE "claim")
  /\ blind' = [blind EXCEPT ![t] = FALSE]
  /\ UNCHANGED <<current, recursion, writing, ownWriter>>

EnterBlindly(t) ==
  /\ ~ownWriter /\ recursion > -MaxBelow
  /\ Step(t, "out", IF current = t THEN "count" ELSE "claim")
  /\ blind' = [blind EXCEPT ![t] = TRUE]
  /\ UNCHANGED <<current, recursion, writing, ownWriter>>

Claim(t) ==
  /\ current = NoDumper
  /\ Step(t, "claim", "count")
  /\ current' = t
  /\ UNCHANGED <<recursion, writing, blind, ownWriter>>

(* The writer goes away, the trampoline unlocks what it has not locked.    *)
Refused(t) ==
  /\ current # NoDumper
  /\ Step(t, "claim", IF blind[t] THEN "uncount" ELSE "out")
  /\ UNCHANGED <<current, recursion, writing, blind, ownWriter>>

(* The lock is counted; the dump is begun, the trampoline has none.        *)
Count(t) ==
  /\ recursion' = recursion + 1
  /\ IF blind[t]
       THEN Step(t, "count", "uncount") /\ UNCHANGED writing
       ELSE Step(t, "count", "out") /\ writing' = [writing EXCEPT ![t] = @ + 1]
  /\ UNCHANGED <<current, blind, ownWriter>>

(* MiniDumpUnlock.                                                         *)
Finish(t) ==
  /\ writing[t] > 0
  /\ Step(t, "out", "uncount")
  /\ writing' = [writing EXCEPT ![t] = @ - 1]
  /\ UNCHANGED <<current, recursion, blind, ownWriter>>

(* Faulty: every unlock lets the lock go, as if dumps did not nest.        *)
UncountAll(t) ==
  /\ recursion' = recursion - 1
  /\ Step(t, "uncount", "clear")
  /\ UNCHANGED <<current, writing, blind, ownWriter>>

Uncount(t) ==
  /\ recursion' = recursion - 1
  /\ Step(t, "uncount", IF recursion = 1 THEN "clear" ELSE "out")
  /\ UNCHANGED <<current, writing, blind, ownWriter>>

Clear(t) ==
  /\ Step(t, "clear", "out")
  /\ current' = NoDumper
  /\ UNCHANGED <<recursion, writing, blind, ownWriter>>

-----------------------------------------------------------------------------
DumpNext == \E t \in Dumper :
  \/ Enter(t)
  \/ EnterBlindly(t)
  \/ Claim(t)
  \/ Refused(t)
  \/ Count(t)
  \/ Finish(t)
  \/ Uncount(t)
  \/ Clear(t)

DumpSpec == DumpInit /\ [][DumpNext]_dumpVars

-----------------------------------------------------------------------------
(* Where the trampoline leaves the lock alone, one thread at a time writes *)
(* dumps, however deep they are nested in one another, and it is the one   *)
(* the lock names.                                                         *)
OneDumper ==
  ownWriter => \A t \in Dumper : writing[t] > 0 => current = t

(* Where the trampoline leaves the lock alone, it is free when no thread   *)
(* is about to take, hold or free it: no dump is refused for ever.         *)
DumpLockComesFree ==
  ownWriter /\ (\A t \in Dumper : at[t] \in {"out", "claim"} /\ writing[t] = 0) =>
    current = NoDumper /\ recursion = 0

(* Where the trampoline leaves the lock alone, the lock keeps its word.    *)
DumpLockInOrder == OneDumper /\ DumpLockComesFree

=============================================================================
