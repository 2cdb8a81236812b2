------------------------------ MODULE FastMutex ------------------------------
(***************************************************************************)
(* The recursive spin lock CThreadFastMutex (src/tier0/threadtools.cpp):   *)
(* the owner's thread id and a recursion count in two separate words, of   *)
(* which only the first is changed by an interlocked instruction.          *)
(*                                                                         *)
(* Lock with a timeout returns without the lock when its time is up and    *)
(* returns nothing that tells; TryLock does the same after one attempt and *)
(* says so.  A Stray thread is a client of the former that then unlocks    *)
(* what it never locked.                                                   *)
(***************************************************************************)
EXTENDS Integers

CONSTANTS
  Thread,    \* threads that use the lock
  Stray,     \* those that may Unlock without holding it
  MaxDepth,  \* bound on how often a thread locks recursively
  Nobody     \* m_nOwnership = 0

ASSUME NobodyAssumption == Nobody \notin Thread
ASSUME StrayAssumption == Stray \subseteq Thread
ASSUME DepthAssumption == MaxDepth \in Nat \ {0}

VARIABLES
  owner,  \* m_nOwnership
  cnt,    \* m_nCount
  pc,     \* where each thread is in Lock, TryLock or Unlock
  depth   \* the locks each thread has taken and not returned

vars == <<owner, cnt, pc, depth>>

Init ==
  /\ owner = Nobody
  /\ cnt = 0
  /\ pc = [t \in Thread |-> "client"]
  /\ depth = [t \in Thread |-> 0]

Goto(t, l) == pc' = [pc EXCEPT ![t] = l]

-----------------------------------------------------------------------------
(* Lock and TryLock.                                                       *)

Lock(t) ==
  /\ pc[t] = "client"
  /\ depth[t] < MaxDepth
  /\ Goto(t, "lock")
  /\ UNCHANGED <<owner, cnt, depth>>

(* Faulty: a nested lock is not counted; a lock is claimed whoever owns it.*)
NestUncounted(t) ==
  /\ pc[t] = "lock"
  /\ owner = t
  /\ depth' = [depth EXCEPT ![t] = @ + 1]
  /\ Goto(t, "client")
  /\ UNCHANGED <<owner, cnt>>

ClaimOwned(t) ==
  /\ pc[t] = "lock"
  /\ owner # t
  /\ owner' = t
  /\ Goto(t, "claimed")
  /\ UNCHANGED <<cnt, depth>>

(* One pass of the loop.  The owner nests; a free lock is claimed by the   *)
(* compare-exchange, whose winner sets the count in a second step.         *)
Nest(t) ==
  /\ pc[t] = "lock"
  /\ owner = t
  /\ cnt' = cnt + 1
  /\ depth' = [depth EXCEPT ![t] = @ + 1]
  /\ Goto(t, "client")
  /\ UNCHANGED owner

Claim(t) ==
  /\ pc[t] = "lock"
  /\ owner = Nobody
  /\ owner' = t
  /\ Goto(t, "claimed")
  /\ UNCHANGED <<cnt, depth>>

SetCount(t) ==
  /\ pc[t] = "claimed"
  /\ cnt' = 1
  /\ depth' = [depth EXCEPT ![t] = @ + 1]
  /\ Goto(t, "client")
  /\ UNCHANGED owner

(* TryLock fails, or the time of a bounded Lock is up.                     *)
GiveUp(t) ==
  /\ pc[t] = "lock"
  /\ owner \notin {t, Nobody}
  /\ Goto(t, "client")
  /\ UNCHANGED <<owner, cnt, depth>>

-----------------------------------------------------------------------------
(* Unlock.                                                                 *)

Unlock(t) ==
  /\ pc[t] = "client"
  /\ depth[t] > 0 \/ t \in Stray
  /\ depth' = [depth EXCEPT ![t] = IF @ > 0 THEN @ - 1 ELSE 0]
  /\ Goto(t, CASE owner = t -> "drop"
               [] owner = Nobody -> "unowned"
               [] OTHER -> "client")
  /\ UNCHANGED <<owner, cnt>>

(* Faulty: the lock is kept at a count of zero.                            *)
DropPastZero(t) ==
  /\ pc[t] = "drop"
  /\ cnt' = cnt - 1
  /\ Goto(t, IF cnt - 1 < 0 THEN "clear" ELSE "client")
  /\ UNCHANGED <<owner, depth>>

(* The owner counts down; at zero it stores the count, then the owner.     *)
Drop(t) ==
  /\ pc[t] = "drop"
  /\ cnt' = cnt - 1
  /\ Goto(t, IF cnt - 1 <= 0 THEN "clear" ELSE "client")
  /\ UNCHANGED <<owner, depth>>

Clear(t) ==
  /\ pc[t] = "clear"
  /\ cnt' = 0
  /\ Goto(t, "release")
  /\ UNCHANGED <<owner, depth>>

Release(t) ==
  /\ pc[t] = "release"
  /\ owner' = Nobody
  /\ Goto(t, "client")
  /\ UNCHANGED <<cnt, depth>>

(* The lock had no owner when Unlock looked; the count is looked at, and   *)
(* cleared, in later steps, when the lock may have one.                    *)
SeeCount(t) ==
  /\ pc[t] = "unowned"
  /\ Goto(t, IF cnt > 0 THEN "zero" ELSE "client")
  /\ UNCHANGED <<owner, cnt, depth>>

(* Faulty: both words are cleared.                                         *)
ZeroBoth(t) ==
  /\ pc[t] = "zero"
  /\ cnt' = 0
  /\ owner' = Nobody
  /\ Goto(t, "client")
  /\ UNCHANGED depth

ZeroCount(t) ==
  /\ pc[t] = "zero"
  /\ cnt' = 0
  /\ Goto(t, "client")
  /\ UNCHANGED <<owner, depth>>

-----------------------------------------------------------------------------
Advance(t) ==
  \/ Nest(t) \/ Claim(t) \/ SetCount(t) \/ GiveUp(t)
  \/ Drop(t) \/ Clear(t) \/ Release(t) \/ SeeCount(t) \/ ZeroCount(t)

Next == \E t \in Thread : Lock(t) \/ Unlock(t) \/ Advance(t)

Spec == Init /\ [][Next]_vars

(* A thread inside Lock or Unlock is scheduled.                            *)
FairSpec == Spec /\ \A t \in Thread : WF_vars(Advance(t))

-----------------------------------------------------------------------------
Label == {"client", "lock", "claimed", "drop", "clear", "release", "unowned", "zero"}

TypeOK ==
  /\ owner \in Thread \union {Nobody}
  /\ cnt \in (-1) .. MaxDepth
  /\ pc \in [Thread -> Label]
  /\ depth \in [Thread -> 0 .. MaxDepth]

(* No two threads are inside the lock: not even a stray Unlock, which may  *)
(* clear the count of a lock it does not own, lets a second one in.        *)
MutualExclusion ==
  \A s, t \in Thread : depth[s] > 0 /\ depth[t] > 0 => s = t

(* Between operations of its owner, the count is the number of locks the   *)
(* owner has taken: it frees the lock with its last Unlock, not before.    *)
CountIsDepth ==
  \A t \in Thread :
    owner = t /\ pc[t] \in {"client", "lock"} => cnt = depth[t]

(* Who has been let in owns the lock.                                      *)
HolderOwns ==
  \A t \in Thread : depth[t] > 0 => owner = t

(* A lock whose owner took its last lock back becomes free again.          *)
LastUnlockFrees ==
  \A t \in Thread : (owner = t /\ depth[t] = 0) ~> (owner # t \/ depth[t] > 0)

=============================================================================
